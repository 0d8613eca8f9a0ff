------------------------------ MODULE NodeTable ------------------------------
(***************************************************************************)
(* Which nodes are favourites is kept in four places: in the physical      *)
(* node, in the nodes table, in the captured handshake that is replayed to *)
(* every app, and in the cache the reader filters telemetry by.  A star    *)
(* set here walks through all four, one database call at a time, while the *)
(* reader thread brings live packets into the table and captures the       *)
(* handshake anew whenever the link comes up.                              *)
(*                                                                         *)
(* A frame of the handshake is [key, star], key being a node's number for  *)
(* a node_info.  is_ignored goes the same ways as is_favorite.             *)
(***************************************************************************)
EXTENDS Naturals, SequencesExt

CONSTANTS
    Nodes,     \* nodes of the mesh
    Me,        \* the physical node this service is linked to
    Setters,   \* threads that can be setting a star: web workers, sessions
    MaxWire,   \* bound: frames and packets on their way from the node
    Mixes      \* bound: how often each thing may happen, some choices

ASSUME NodeAssumption ==
    /\ Me \in Nodes
    /\ {"my_info", "file", "complete"} \cap Nodes = {}
    /\ MaxWire \in Nat
    /\ Mixes \subseteq [{"set", "hear", "lose", "elsewhere", "evict", "clear"} -> Nat]

VARIABLES
    list, users, starred,       \* the node: its list, whose user it knows, its favourites
    stage, left,                \* its handshake, and the nodes it has still to list
    queue, wire,                \* packets it holds back, and what is on the connection
    capturing, captured,        \* _Interface._capturing and ._captured
    rows, stars,                \* the nodes table, and its rows with is_favorite
    frames,                     \* config_frames, ORDER BY ord
    favorites,                  \* Upstream._favorites
    reader,                     \* the reader thread, with the favourites it has read
    setter,                     \* the same for each setter, with what it sets
    settled, fresh, doubtful, torn,  \* history, see the properties
    times                       \* what is left of the mix

node == <<list, users, starred, stage, left, queue>>
table == <<rows, stars>>
history == <<settled, fresh, doubtful, torn>>
vars == <<node, wire, capturing, captured, table, frames, favorites, reader, setter,
          history, times>>

Info(key, star) == [key |-> key, star |-> star]
Packet(n, user) == [from |-> n, user |-> user]
IsPacket(item) == "from" \in DOMAIN item

Framed(seq) == {seq[i].key : i \in DOMAIN seq} \cap Nodes
Setting(n) == \E s \in Setters : setter[s].at # "idle" /\ setter[s].node = n
Unassigned == {s \in Setters : setter[s].at = "read"}

Init ==
    /\ list = {Me} /\ users = {Me} /\ starred = {}
    /\ stage = "down" /\ left = {}
    /\ queue = <<>> /\ wire = <<>>
    /\ capturing = TRUE /\ captured = <<>>
    /\ rows = {} /\ stars = {} /\ frames = <<>>
    /\ favorites = {}
    /\ reader = [at |-> "idle", seen |-> {}]
    /\ setter = [s \in Setters |-> [at |-> "idle", node |-> Me, star |-> FALSE, seen |-> {}]]
    /\ settled = {} /\ fresh = {} /\ doubtful = FALSE /\ torn = FALSE
    /\ times \in Mixes

Spend(what) == times[what] > 0 /\ times' = [times EXCEPT ![what] = @ - 1]

-----------------------------------------------------------------------------
(* The tables.                                                             *)

(* upsert_node with and without is_favorite *)
Upsert(n) == rows' = rows \cup {n} /\ UNCHANGED stars

UpsertStar(n, star) ==
    /\ rows' = rows \cup {n}
    /\ stars' = IF star THEN stars \cup {n} ELSE stars \ {n}

(* set_node_flags: the node's entry in the captured handshake, if it has one. *)
Patched(n, star) ==
    [i \in DOMAIN frames |-> IF frames[i].key = n THEN Info(n, star) ELSE frames[i]]

RefreshedBlank(frame) == Info(frame.key, FALSE)     \* fault: built from the packet alone

(* refreshed_node_info of an entry there is: its flags stay. *)
Refreshed(frame) == frame

LastFrame == Len(frames)                            \* fault: a new node goes last

LastInfo ==
    LET at == {i \in DOMAIN frames : frames[i].key \in Nodes}
    IN  IF at = {} THEN Len(frames) ELSE Max(at)

RefreshKnown(n, user) == frames                     \* fault: only the capture adds nodes

(* refresh_node_frame: a new node needs its user and goes after the last one. *)
RefreshFrame(n, user) ==
    IF frames = <<>> THEN frames
    ELSE IF n \in Framed(frames)
    THEN [i \in DOMAIN frames |-> IF frames[i].key = n THEN Refreshed(frames[i]) ELSE frames[i]]
    ELSE IF user THEN InsertAt(frames, LastInfo + 1, Info(n, FALSE))
    ELSE frames

-----------------------------------------------------------------------------
(* The physical node.  It lists its nodes when asked for the handshake, as *)
(* they are at that moment, and keeps what it hears meanwhile for later.   *)

Emit(item) == Len(wire) < MaxWire /\ wire' = Append(wire, item)

BeginList ==
    /\ stage = "asked"
    /\ Emit(Info("my_info", FALSE))
    /\ stage' = "list" /\ left' = list
    /\ UNCHANGED <<list, users, starred, queue, capturing, captured, table, frames, favorites,
                   reader, setter, history, times>>

ListNode(n) ==
    /\ stage = "list"
    /\ n \in left
    /\ Me \in left => n = Me
    /\ Emit(Info(n, n \in starred))
    /\ left' = left \ {n}
    /\ fresh' = IF Setting(n) THEN fresh ELSE fresh \cup {n}
    /\ UNCHANGED <<list, users, starred, stage, queue, capturing, captured, table, frames,
                   favorites, reader, setter, settled, doubtful, torn, times>>

EndList ==
    /\ \/ stage = "list" /\ left = {} /\ stage' = "done" /\ Emit(Info("file", FALSE))
       \/ stage = "done" /\ stage' = "idle" /\ Emit(Info("complete", FALSE))
    /\ UNCHANGED <<list, users, starred, left, queue, capturing, captured, table, frames,
                   favorites, reader, setter, history, times>>

(* A packet of n: the node lists who it hears, and passes the packet on. *)
Hear(n, user) ==
    /\ Spend("hear")
    /\ n # Me
    /\ list' = list \cup {n}
    /\ users' = IF user THEN users \cup {n} ELSE users
    /\ left' = IF stage = "list" /\ n \notin list THEN left \cup {n} ELSE left
    /\ queue' = Append(queue, Packet(n, user))
    /\ UNCHANGED <<starred, stage, wire, capturing, captured, table, frames, favorites, reader,
                   setter, history>>

PassOn ==
    /\ stage \in {"idle", "asked"}
    /\ queue # <<>>
    /\ Emit(Head(queue))
    /\ queue' = Tail(queue)
    /\ UNCHANGED <<list, users, starred, stage, left, capturing, captured, table, frames,
                   favorites, reader, setter, history, times>>

(* Its list is full and n was heard longest ago. *)
Evict(n) ==
    /\ Spend("evict")
    /\ n \in list \ {Me}
    /\ list' = list \ {n} /\ users' = users \ {n} /\ starred' = starred \ {n}
    /\ left' = left \ {n}
    /\ settled' = settled \ {n} /\ fresh' = fresh \ {n}
    /\ UNCHANGED <<stage, queue, wire, capturing, captured, table, frames, favorites, reader,
                   setter, doubtful, torn>>

(* Somebody sets or removes a star on the node itself. *)
StarElsewhere(n) ==
    /\ Spend("elsewhere")
    /\ n \in list \ {Me}
    /\ starred' = IF n \in starred THEN starred \ {n} ELSE starred \cup {n}
    /\ settled' = settled \ {n} /\ fresh' = fresh \ {n}
    /\ UNCHANGED <<list, users, stage, left, queue, wire, capturing, captured, table, frames,
                   favorites, reader, setter, doubtful, torn>>

LoseLink ==
    /\ Spend("lose")
    /\ stage # "down"
    /\ stage' = "down" /\ left' = {}
    /\ wire' = <<>>
    /\ fresh' = {}
    /\ UNCHANGED <<list, users, starred, queue, capturing, captured, table, frames, favorites,
                   reader, setter, settled, doubtful, torn>>

-----------------------------------------------------------------------------
(* The reader thread.                                                      *)

(* _startConfig, on a new interface or when the library reconnects. *)
StartConfig ==
    /\ stage = "down"
    /\ reader.at = "idle"
    /\ stage' = "asked"
    /\ capturing' = TRUE /\ captured' = <<>>
    /\ settled' = {n \in settled : ~Setting(n)}
    /\ UNCHANGED <<list, users, starred, left, queue, wire, table, frames, favorites, reader,
                   setter, fresh, doubtful, torn, times>>

Take(item) ==
    /\ reader.at = "idle"
    /\ wire # <<>>
    /\ item = Head(wire)
    /\ wire' = Tail(wire)

(* _on_raw_frame while capturing *)
ReadFrame(item) ==
    /\ Take(item)
    /\ capturing
    /\ ~IsPacket(item) /\ item.key # "complete"
    /\ captured' = Append(captured, item)
    /\ IF item.key \in Nodes THEN UpsertStar(item.key, item.star) ELSE UNCHANGED table
    /\ UNCHANGED <<node, capturing, frames, favorites, reader, setter, history, times>>

(* It returns before anything is stored. *)
SkipPacket(item) ==
    /\ Take(item)
    /\ capturing
    /\ IsPacket(item)
    /\ UNCHANGED <<node, capturing, captured, table, frames, favorites, reader, setter, history,
                   times>>

(* _on_heard: one batch, so one step. *)
ReadPacket(item) ==
    /\ Take(item)
    /\ ~capturing
    /\ IsPacket(item)
    /\ frames' = RefreshFrame(item.from, item.user)
    /\ Upsert(item.from)
    /\ UNCHANGED <<node, capturing, captured, favorites, reader, setter, history, times>>

Twice(seq) == {i \in DOMAIN seq : \E j \in 1 .. i - 1 : seq[j].key = seq[i].key}

(* _handleConfigComplete, then _on_config_captured up to replace_config_frames *)
Complete(item) ==
    /\ Take(item)
    /\ ~IsPacket(item) /\ item.key = "complete"
    /\ Twice(captured) = {}
    /\ capturing' = FALSE
    /\ frames' = captured
    /\ reader' = [reader EXCEPT !.at = "swapped"]
    /\ settled' = fresh /\ fresh' = {} /\ torn' = FALSE
    /\ UNCHANGED <<node, captured, table, favorites, setter, doubtful, times>>

(* A key comes twice: the INSERT raises, the old frames are deleted, those *)
(* before it are there, and the cache is not read.  The next commit keeps  *)
(* all that.                                                               *)
FailComplete(item) ==
    /\ Take(item)
    /\ ~IsPacket(item) /\ item.key = "complete"
    /\ Twice(captured) # {}
    /\ capturing' = FALSE
    /\ frames' = SubSeq(captured, 1, Min(Twice(captured)) - 1)
    /\ settled' = {} /\ fresh' = {} /\ doubtful' = TRUE /\ torn' = TRUE
    /\ UNCHANGED <<node, captured, table, favorites, reader, setter, times>>

ReadFavorites ==
    /\ reader.at = "swapped"
    /\ reader' = [at |-> "read", seen |-> stars]
    /\ doubtful' = (Unassigned # {})
    /\ UNCHANGED <<node, wire, capturing, captured, table, frames, favorites, setter, settled,
                   fresh, torn, times>>

AssignedNever(seen) == favorites                    \* fault: the cache is not refreshed
Assigned(seen) == seen

AssignFavorites ==
    /\ reader.at = "read"
    /\ reader' = [at |-> "idle", seen |-> {}]
    /\ favorites' = Assigned(reader.seen)
    /\ UNCHANGED <<node, wire, capturing, captured, table, frames, setter, history, times>>

-----------------------------------------------------------------------------
(* A star set here, by the web UI (set_favorite) or by an app              *)
(* (_forward_admin): the node is told, then note_node_flags.               *)

(* The node gets the message, unless the link is about to break. *)
TellNode(s, n, star) ==
    /\ Spend("set")
    /\ setter[s].at = "idle"
    /\ stage # "down" /\ frames # <<>>
    /\ n # Me
    /\ setter' = [setter EXCEPT ![s] = [at |-> "told", node |-> n, star |-> star, seen |-> {}]]
    /\ \/ /\ n \in list
          /\ starred' = IF star THEN starred \cup {n} ELSE starred \ {n}
          /\ settled' = IF capturing \/ Setting(n) THEN settled \ {n} ELSE settled
       \/ /\ UNCHANGED starred
          /\ settled' = settled \ {n}
    /\ fresh' = fresh \ {n}
    /\ UNCHANGED <<list, users, stage, left, queue, wire, capturing, captured, table, frames,
                   favorites, reader, doubtful, torn>>

(* set_node_flags: the row *)
StoreStar(s) ==
    /\ setter[s].at = "told"
    /\ setter' = [setter EXCEPT ![s].at = "stored"]
    /\ UpsertStar(setter[s].node, setter[s].star)
    /\ UNCHANGED <<node, wire, capturing, captured, frames, favorites, reader, history, times>>

(* set_node_flags: the frame, under the lock again *)
PatchFrame(s) ==
    /\ setter[s].at = "stored"
    /\ setter' = [setter EXCEPT ![s].at = "patched"]
    /\ frames' = Patched(setter[s].node, setter[s].star)
    /\ UNCHANGED <<node, wire, capturing, captured, table, favorites, reader, history, times>>

ReadStars(s) ==
    /\ setter[s].at = "patched"
    /\ setter' = [setter EXCEPT ![s].at = "read", ![s].seen = stars]
    /\ doubtful' = (Unassigned # {} \/ reader.at = "read")
    /\ UNCHANGED <<node, wire, capturing, captured, table, frames, favorites, reader, settled,
                   fresh, torn, times>>

AssignStars(s) ==
    /\ setter[s].at = "read"
    /\ setter' = [setter EXCEPT ![s] = [at |-> "idle", node |-> Me, star |-> FALSE, seen |-> {}]]
    /\ favorites' = setter[s].seen
    /\ UNCHANGED <<node, wire, capturing, captured, table, frames, reader, history, times>>

(* clear_data empties the table and keeps the handshake. *)
ClearData ==
    /\ Spend("clear")
    /\ rows' = {} /\ stars' = {}
    /\ settled' = {} /\ fresh' = {} /\ doubtful' = TRUE
    /\ UNCHANGED <<node, wire, capturing, captured, frames, favorites, reader, setter, torn>>

-----------------------------------------------------------------------------
Next ==
    \/ BeginList \/ EndList \/ PassOn \/ LoseLink \/ StartConfig
    \/ \E n \in Nodes : \/ ListNode(n) \/ Evict(n) \/ StarElsewhere(n)
                        \/ \E user \in BOOLEAN : Hear(n, user)
    \/ wire # <<>> /\ LET item == Head(wire)
                      IN  \/ ReadFrame(item) \/ SkipPacket(item) \/ ReadPacket(item)
                          \/ Complete(item) \/ FailComplete(item)
    \/ ReadFavorites \/ AssignFavorites
    \/ \E s \in Setters : \/ \E n \in Nodes, star \in BOOLEAN : TellNode(s, n, star)
                          \/ StoreStar(s) \/ PatchFrame(s) \/ ReadStars(s) \/ AssignStars(s)
    \/ ClearData

Spec == Init /\ [][Next]_vars

-----------------------------------------------------------------------------
(* Once a node has come in a handshake during which nobody touched its     *)
(* star, the node itself, the table and the handshake apps are given agree *)
(* on it, whatever is heard, captured again or set one star at a time      *)
(* (db.py:635-665, 734-766, upstream.py:815-828).  settled drops a node    *)
(* whose star is set twice at once or during a capture, whose setting was  *)
(* lost with the link, that the node evicts, that somebody else stars, or  *)
(* whose row is cleared; those wait for the next handshake.                *)
StarsAgree ==
    \A n \in settled : ~Setting(n) =>
        /\ n \in rows
        /\ n \in stars <=> n \in starred
        /\ \E i \in DOMAIN frames : frames[i] = Info(n, n \in starred)

(* With nobody at work the cache is the table's favourites                 *)
(* (upstream.py:153, 524-525, 798).  doubtful says that the table was      *)
(* cleared or that two threads held a set they had read and not yet        *)
(* assigned, so that the older one may have been assigned last; it lasts   *)
(* until one reads it alone.                                               *)
CacheFollows ==
    ~doubtful /\ ~capturing /\ reader.at = "idle" /\ (\A s \in Setters : setter[s].at = "idle")
        => favorites = stars

(* An app is served a handshake the firmware could have sent: my_info and  *)
(* the node itself first, every other node once and after it, files last   *)
(* (db.py:734-738).                                                        *)
HandshakeWhole ==
    frames # <<>> /\ ~torn =>
        /\ frames[1].key = "my_info" /\ frames[2].key = Me /\ Last(frames).key = "file"
        /\ \A i \in 3 .. Len(frames) - 1 : frames[i].key \in Nodes
        /\ IsInjective([i \in DOMAIN frames |-> frames[i].key])

(* When nothing is on its way, every node whose user the physical node     *)
(* knows is in the handshake apps are served, although packets are dropped *)
(* while a handshake is captured (upstream.py:551-568).                    *)
ListComplete ==
    ~torn /\ stage = "idle" /\ wire = <<>> /\ queue = <<>> =>
        list \cap users \subseteq Framed(frames)
=============================================================================
