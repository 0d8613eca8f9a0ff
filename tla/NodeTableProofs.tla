-------------------------- MODULE NodeTableProofs ---------------------------
(***************************************************************************)
(* The cache of favourites follows the table, and the handshake that apps  *)
(* are given is whole, lists everyone and agrees on the stars, for every   *)
(* set of nodes and of threads that set a star at the same time.           *)
(*                                                                         *)
(* CacheInv is the invariant for the cache, WireInv the one for the rest.  *)
(* Its core is Flow: while a handshake is captured, what was captured and  *)
(* what is on the wire are parts of one sequence of frames, in the order   *)
(* the node lists itself and the others in, with packets around it.        *)
(***************************************************************************)
EXTENDS NodeTable, Integers, SequenceTheorems, TLAPS

(* What the threads that refresh the cache hold. *)
CacheTypes ==
    /\ stars \in SUBSET Nodes
    /\ reader \in [at: {"idle", "swapped", "read"}, seen: SUBSET Nodes]
    /\ setter \in [Setters -> [at: {"idle", "told", "stored", "patched", "read"},
                               node: Nodes, star: BOOLEAN, seen: SUBSET Nodes]]

(* Between these two every thread that changed a star has read it back. *)
ReadBack == ~capturing /\ reader.at # "swapped" /\ \A s \in Setters : setter[s].at \notin {"stored", "patched"}

(* At most one thread holds a set it has read, and when all changes were   *)
(* read back that set, or else the cache itself, is the table's.           *)
OneHolder ==
    /\ reader.at = "read" => Unassigned = {}
    /\ \A s, t \in Unassigned : s = t

HolderCurrent ==
    /\ reader.at = "read" => reader.seen = stars
    /\ \A s \in Unassigned : setter[s].seen = stars
    /\ reader.at # "read" /\ Unassigned = {} => favorites = stars

CacheInv ==
    /\ CacheTypes
    /\ ~doubtful => OneHolder
    /\ ~doubtful /\ ReadBack => HolderCurrent

(* Nobody has a star when the program starts. *)
LEMMA CacheInit == ASSUME Init PROVE CacheInv
<1> USE NodeAssumption DEF Init
<1>1. CacheTypes
  BY DEF CacheTypes
<1>2. Unassigned = {}
  BY DEF Unassigned
<1> QED BY <1>1, <1>2 DEF CacheInv, OneHolder, HolderCurrent

(* A step that changes no star, cache or thread keeps the invariant. *)
LEMMA CacheUntouched ==
    ASSUME CacheInv, UNCHANGED <<stars, reader, setter, favorites>>,
           doubtful' \/ doubtful' = doubtful, capturing' \/ capturing' = capturing
    PROVE  CacheInv'
BY DEF CacheInv, CacheTypes, OneHolder, HolderCurrent, ReadBack, Unassigned

(* Every step keeps the invariant. *)
LEMMA CacheStep == ASSUME CacheInv, [Next]_vars PROVE CacheInv'
<1> USE DEF node, table, history
<1>1. CASE UNCHANGED vars
  BY <1>1, CacheUntouched DEF vars
<1>2. CASE BeginList \/ EndList \/ PassOn \/ LoseLink
  BY <1>2, CacheUntouched DEF BeginList, EndList, PassOn, LoseLink
<1>3. CASE StartConfig
  BY <1>3, CacheUntouched DEF StartConfig
<1>4. ASSUME NEW n \in Nodes, ListNode(n) \/ Evict(n) \/ StarElsewhere(n)
                                \/ \E user \in BOOLEAN : Hear(n, user)
      PROVE  CacheInv'
  BY <1>4, CacheUntouched DEF ListNode, Evict, StarElsewhere, Hear
<1>5. ASSUME NEW item, ReadFrame(item) PROVE CacheInv'
  <2>1. stars' \in SUBSET Nodes
    BY <1>5 DEF ReadFrame, UpsertStar, CacheInv, CacheTypes
  <2>2. capturing' /\ UNCHANGED <<reader, setter, favorites, doubtful>>
    BY <1>5 DEF ReadFrame
  <2> QED BY <2>1, <2>2 DEF CacheInv, CacheTypes, OneHolder, ReadBack, Unassigned
<1>6. ASSUME NEW item, SkipPacket(item) \/ ReadPacket(item) \/ FailComplete(item)
      PROVE  CacheInv'
  BY <1>6 DEF SkipPacket, ReadPacket, FailComplete, Upsert,
     CacheInv, CacheTypes, OneHolder, HolderCurrent, ReadBack, Unassigned
<1>7. ASSUME NEW item, Complete(item) PROVE CacheInv'
  <2>1. reader.at = "idle" /\ reader' = [reader EXCEPT !.at = "swapped"]
        /\ UNCHANGED <<stars, setter, favorites, doubtful>>
    BY <1>7 DEF Complete, Take
  <2> QED BY <2>1 DEF CacheInv, CacheTypes, OneHolder, ReadBack, Unassigned
<1>8. CASE ReadFavorites
  <2>1. /\ reader' = [at |-> "read", seen |-> stars]
        /\ doubtful' = (Unassigned # {})
        /\ UNCHANGED <<stars, setter, favorites, capturing>>
    BY <1>8 DEF ReadFavorites
  <2>2. CacheTypes'
    BY <2>1 DEF CacheInv, CacheTypes
  <2>3. Unassigned' = Unassigned
    BY <2>1 DEF Unassigned
  <2> QED BY <2>1, <2>2, <2>3 DEF CacheInv, OneHolder, HolderCurrent
<1>9. CASE AssignFavorites
  <2>1. /\ reader.at = "read" /\ reader' = [at |-> "idle", seen |-> {}]
        /\ favorites' = reader.seen
        /\ UNCHANGED <<stars, setter, doubtful, capturing>>
    BY <1>9 DEF AssignFavorites, Assigned
  <2>2. CacheTypes'
    BY <2>1 DEF CacheInv, CacheTypes
  <2>3. Unassigned' = Unassigned /\ (ReadBack' => ReadBack)
    BY <2>1 DEF Unassigned, ReadBack
  <2> QED BY <2>1, <2>2, <2>3 DEF CacheInv, OneHolder, HolderCurrent
<1>10. ASSUME NEW s \in Setters, NEW n \in Nodes, NEW star \in BOOLEAN, TellNode(s, n, star)
       PROVE  CacheInv'
  <2>1. /\ setter[s].at = "idle"
        /\ setter' = [setter EXCEPT ![s] = [at |-> "told", node |-> n, star |-> star, seen |-> {}]]
        /\ UNCHANGED <<stars, reader, favorites, doubtful, capturing>>
    BY <1>10 DEF TellNode
  <2>2. CacheTypes'
    BY <2>1 DEF CacheInv, CacheTypes
  <2>3. Unassigned' = Unassigned /\ (ReadBack' => ReadBack)
        /\ \A t \in Unassigned : setter'[t] = setter[t]
    BY <2>1 DEF Unassigned, ReadBack, CacheInv, CacheTypes
  <2> QED BY <2>1, <2>2, <2>3 DEF CacheInv, OneHolder, HolderCurrent
<1>11. ASSUME NEW s \in Setters, StoreStar(s) \/ PatchFrame(s) PROVE CacheInv'
  <2>1. /\ setter[s].at \in {"told", "stored"}
        /\ \E to \in {"stored", "patched"} : setter' = [setter EXCEPT ![s].at = to]
        /\ UNCHANGED <<reader, favorites, doubtful, capturing>>
    BY <1>11 DEF StoreStar, PatchFrame
  <2>2. stars' \in SUBSET Nodes
    BY <1>11 DEF StoreStar, PatchFrame, UpsertStar, CacheInv, CacheTypes
  <2>3. CacheTypes'
    BY <2>1, <2>2 DEF CacheInv, CacheTypes
  <2>4. ~ReadBack' /\ Unassigned' = Unassigned
    BY <2>1 DEF ReadBack, Unassigned, CacheInv, CacheTypes
  <2> QED BY <2>1, <2>3, <2>4 DEF CacheInv, OneHolder
<1>12. ASSUME NEW s \in Setters, ReadStars(s) PROVE CacheInv'
  <2>1. /\ setter[s].at = "patched"
        /\ setter' = [setter EXCEPT ![s].at = "read", ![s].seen = stars]
        /\ doubtful' = (Unassigned # {} \/ reader.at = "read")
        /\ UNCHANGED <<stars, reader, favorites, capturing>>
    BY <1>12 DEF ReadStars
  <2>2. CacheTypes'
    BY <2>1 DEF CacheInv, CacheTypes
  <2>3. Unassigned' = Unassigned \cup {s} /\ setter'[s].seen = stars
    BY <2>1 DEF Unassigned, CacheInv, CacheTypes
  <2> QED BY <2>1, <2>2, <2>3 DEF CacheInv, OneHolder, HolderCurrent
<1>13. ASSUME NEW s \in Setters, AssignStars(s) PROVE CacheInv'
  <2>1. /\ s \in Unassigned
        /\ setter' = [setter EXCEPT ![s] = [at |-> "idle", node |-> Me, star |-> FALSE, seen |-> {}]]
        /\ favorites' = setter[s].seen
        /\ UNCHANGED <<stars, reader, doubtful, capturing>>
    BY <1>13 DEF AssignStars, Unassigned
  <2>2. CacheTypes'
    BY <2>1, NodeAssumption DEF CacheInv, CacheTypes
  <2>3. Unassigned' = Unassigned \ {s} /\ (ReadBack' => ReadBack)
        /\ \A t \in Unassigned' : setter'[t] = setter[t]
    BY <2>1 DEF Unassigned, ReadBack, CacheInv, CacheTypes
  <2> QED BY <2>1, <2>2, <2>3 DEF CacheInv, OneHolder, HolderCurrent
<1>14. CASE ClearData
  BY <1>14 DEF ClearData, CacheInv, CacheTypes
<1> QED BY <1>1, <1>2, <1>3, <1>4, <1>5, <1>6, <1>7, <1>8, <1>9, <1>10, <1>11, <1>12, <1>13,
        <1>14 DEF Next

(* With nobody at work the cache is the table's favourites, however many   *)
(* threads set stars between captures of the handshake.                    *)
THEOREM CacheAlwaysFollows == Spec => []CacheFollows
<1>1. Init => CacheInv
  BY CacheInit
<1>2. CacheInv /\ [Next]_vars => CacheInv'
  BY CacheStep
<1>3. CacheInv => CacheFollows
  BY DEF CacheInv, HolderCurrent, ReadBack, Unassigned, CacheFollows
<1> QED BY <1>1, <1>2, <1>3, PTL DEF Spec

-----------------------------------------------------------------------------
(* What goes over the connection. *)
Frame == [key: Nodes \cup {"my_info", "file", "complete"}, star: BOOLEAN]
Heard == [from: Nodes, user: BOOLEAN]

WireTypes ==
    /\ list \in SUBSET Nodes /\ Me \in list
    /\ users \in SUBSET list
    /\ starred \in SUBSET Nodes
    /\ stage \in {"down", "asked", "list", "done", "idle"}
    /\ left \in SUBSET Nodes
    /\ queue \in Seq(Heard)
    /\ wire \in Seq(Frame \cup Heard)
    /\ capturing \in BOOLEAN /\ torn \in BOOLEAN
    /\ captured \in Seq(Frame)
    /\ rows \in SUBSET Nodes
    /\ settled \in SUBSET Nodes /\ fresh \in SUBSET Nodes

(* T is what the node has sent of its handshake over this connection, d    *)
(* what has been read of it, less what is ahead of it.                     *)
Stream(T, d) ==
    /\ Len(captured) = IF d > 0 THEN d ELSE 0
    /\ \A j \in DOMAIN captured : captured[j] = T[j]
    /\ \A i \in DOMAIN wire : IF i + d \in DOMAIN T THEN wire[i] = T[i + d] ELSE wire[i] \in Heard
    /\ IF stage = "idle" THEN d < Len(T) /\ Len(T) <= Len(wire) + d ELSE Len(T) = Len(wire) + d

(* The order it sends it in. *)
Listing(T, last) ==
    /\ T[1].key = "my_info"
    /\ \A i \in 2 .. last : T[i].key \in Nodes
    /\ last >= 2 => T[2].key = Me

Shape(T) ==
    CASE stage = "asked" -> T = <<>>
      [] stage = "list" -> Len(T) >= 1 /\ Listing(T, Len(T)) /\ (Len(T) = 1 => Me \in left)
      [] stage = "done" -> Len(T) >= 3 /\ Listing(T, Len(T) - 1) /\ T[Len(T)].key = "file"
      [] stage = "idle" -> Len(T) >= 4 /\ Listing(T, Len(T) - 2)
                           /\ T[Len(T) - 1].key = "file" /\ T[Len(T)].key = "complete"

WholeOf(seq) ==
    /\ Len(seq) >= 3
    /\ Listing(seq, Len(seq) - 1)
    /\ seq[Len(seq)].key = "file"
    /\ \A i, j \in DOMAIN seq : seq[i].key = seq[j].key => i = j

Whole == ~torn => frames \in Seq(Frame) /\ (frames # <<>> => WholeOf(frames))

(* Who is missing comes in a packet behind the handshake. *)
Coming(n) == \/ \E i \in DOMAIN queue : queue[i] = Packet(n, TRUE)
             \/ \E i \in DOMAIN wire : wire[i] = Packet(n, TRUE)
ComingAfter(n, T, d) ==
             \/ \E i \in DOMAIN queue : queue[i] = Packet(n, TRUE)
             \/ \E i \in DOMAIN wire : i + d > Len(T) /\ wire[i] = Packet(n, TRUE)

Listed(T, d) ==
    /\ stage = "list" => list \subseteq Framed(T) \cup left
    /\ stage \in {"done", "idle"} =>
         \A n \in list \cap users : n \in Framed(T) \/ ComingAfter(n, T, d)

AllListed ==
    stage = "idle" /\ ~capturing /\ ~torn =>
        \A n \in list \cap users : n \in Framed(frames) \/ Coming(n)

(* A node's frame of this handshake that says what the node says. *)
Agrees(n) == n \in rows /\ (n \in stars <=> n \in starred)

LastSaid(T, n, k) ==
    /\ T[k] = Info(n, n \in starred)
    /\ \A j \in DOMAIN T : j > k => T[j].key # n

Fresh(T) ==
    \A n \in fresh :
        /\ ~Setting(n)
        /\ \E k \in DOMAIN T : LastSaid(T, n, k) /\ (k <= Len(captured) => Agrees(n))

StillSaid(T) ==
    \A n \in settled : ~Setting(n) /\ \A k \in DOMAIN T : T[k].key = n => T[k] = Info(n, n \in starred)

InFrames(n) == \E i \in DOMAIN frames : frames[i] = Info(n, n \in starred)

SettledBy(n, s) ==
    /\ setter[s].star = (n \in starred)
    /\ n \in Framed(frames)
    /\ setter[s].at \in {"stored", "patched", "read"} => Agrees(n)
    /\ setter[s].at \in {"patched", "read"} => InFrames(n)

Working(n) == {s \in Setters : setter[s].at # "idle" /\ setter[s].node = n}

Settled ==
    \A n \in settled :
        /\ ~Setting(n) => Agrees(n) /\ InFrames(n)
        /\ \A s \in Working(n) : SettledBy(n, s) /\ Working(n) = {s}

OnTheWire(T, d) == Stream(T, d) /\ Shape(T) /\ Listed(T, d) /\ Fresh(T) /\ StillSaid(T)

Sides ==
    /\ stage = "down" => wire = <<>> /\ fresh = {}
    /\ ~capturing =>
         /\ stage \in {"idle", "down"}
         /\ \A i \in DOMAIN wire : wire[i] \in Heard
         /\ ~torn => frames # <<>>
    /\ capturing => \A n \in settled : ~Setting(n)
    /\ torn => settled = {}

Flow == \E T \in Seq(Frame), d \in Int : OnTheWire(T, d)

WireInv ==
    /\ CacheTypes /\ WireTypes /\ Sides /\ Whole /\ AllListed /\ Settled
    /\ capturing /\ stage # "down" => Flow

-----------------------------------------------------------------------------
(* What is on the wire.                                                    *)

(* A frame is no packet.                                                   *)
LEMMA FrameOrPacket ==
    /\ \A item \in Frame : ~IsPacket(item)
    /\ \A item \in Heard : IsPacket(item)
BY DEF Frame, Heard, IsPacket

(* Building one gives one.                                                 *)
LEMMA InfoIsFrame ==
    /\ \A key \in Nodes \cup {"my_info", "file", "complete"}, star \in BOOLEAN :
         Info(key, star) \in Frame /\ Info(key, star).key = key /\ Info(key, star).star = star
    /\ \A n \in Nodes, user \in BOOLEAN :
         Packet(n, user) \in Heard /\ Packet(n, user).from = n /\ Packet(n, user).user = user
BY DEF Info, Packet, Frame, Heard

(* The next to be read is the next frame of the handshake, or a packet from *)
(* before it.                                                              *)
LEMMA NextRead ==
    ASSUME WireTypes, NEW T \in Seq(Frame), NEW d \in Int, Stream(T, d), wire # <<>>
    PROVE  /\ d < Len(T)
           /\ d >= 0 => Head(wire) = T[d + 1] /\ ~IsPacket(Head(wire)) /\ Len(captured) = d
           /\ d < 0 => IsPacket(Head(wire)) /\ captured = <<>>
<1>1. wire \in Seq(Frame \cup Heard) /\ Len(wire) >= 1 /\ Head(wire) = wire[1] /\ 1 \in DOMAIN wire
  BY DEF WireTypes
<1>2. d < Len(T)
  BY <1>1 DEF Stream
<1>3. CASE d >= 0
  <2>1. 1 + d \in DOMAIN T /\ 1 + d = d + 1
    BY <1>2, <1>3
  <2>2. wire[1] = T[d + 1] /\ Len(captured) = d
    BY <1>1, <1>3, <2>1 DEF Stream
  <2>3. T[d + 1] \in Frame
    BY <2>1
  <2> QED BY <1>1, <1>2, <1>3, <2>2, <2>3, FrameOrPacket
<1>4. CASE d < 0
  <2>1. 1 + d \notin DOMAIN T
    BY <1>4
  <2>2. wire[1] \in Heard /\ Len(captured) = 0
    BY <1>1, <1>4, <2>1 DEF Stream
  <2>3. captured = <<>>
    BY <2>2 DEF WireTypes
  <2> QED BY <1>1, <1>2, <1>4, <2>2, <2>3, FrameOrPacket
<1> QED BY <1>3, <1>4

(* Reading it. *)
LEMMA StreamRead ==
    ASSUME WireTypes, NEW T \in Seq(Frame), NEW d \in Int, Stream(T, d), wire # <<>>,
           wire' = Tail(wire), stage' = stage, stage = "idle" => d + 1 < Len(T),
           captured' = IF d >= 0 THEN Append(captured, Head(wire)) ELSE captured
    PROVE  Stream(T, d + 1)'
<1>1. /\ wire \in Seq(Frame \cup Heard) /\ Len(wire) >= 1 /\ captured \in Seq(Frame)
      /\ Len(wire') = Len(wire) - 1 /\ wire' \in Seq(Frame \cup Heard)
      /\ \A i \in DOMAIN wire' : wire'[i] = wire[i + 1] /\ i + 1 \in DOMAIN wire
  BY DEF WireTypes
<1>2. \A i \in DOMAIN wire' : IF i + (d + 1) \in DOMAIN T THEN wire'[i] = T[i + (d + 1)]
                                                       ELSE wire'[i] \in Heard
  <2> SUFFICES ASSUME NEW i \in DOMAIN wire'
               PROVE  IF i + (d + 1) \in DOMAIN T THEN wire'[i] = T[i + (d + 1)] ELSE wire'[i] \in Heard
    OBVIOUS
  <2>1. i \in Int /\ i + (d + 1) = (i + 1) + d
    BY <1>1
  <2>2. IF (i + 1) + d \in DOMAIN T THEN wire[i + 1] = T[(i + 1) + d] ELSE wire[i + 1] \in Heard
    BY <1>1 DEF Stream
  <2> QED BY <1>1, <2>1, <2>2
<1>3. IF stage' = "idle" THEN d + 1 < Len(T) /\ Len(T) <= Len(wire') + (d + 1)
                         ELSE Len(T) = Len(wire') + (d + 1)
  <2>1. Len(wire') + (d + 1) = Len(wire) + d
    BY <1>1
  <2>2. IF stage = "idle" THEN d < Len(T) /\ Len(T) <= Len(wire) + d ELSE Len(T) = Len(wire) + d
    BY DEF Stream
  <2> QED BY <2>1, <2>2
<1>4. CASE d >= 0
  <2>1. Len(captured) = d /\ d < Len(T) /\ Head(wire) = T[d + 1] /\ Head(wire) \in Frame
    BY <1>1, <1>4, NextRead
  <2>2. captured' = Append(captured, T[d + 1]) /\ T[d + 1] \in Frame
    BY <1>4, <2>1
  <2>3. Len(captured') = d + 1 /\ \A j \in DOMAIN captured' : captured'[j] = T[j]
    BY <1>1, <1>4, <2>1, <2>2 DEF Stream
  <2> QED BY <1>2, <1>3, <1>4, <2>3 DEF Stream
<1>5. CASE d < 0
  <2>1. captured' = <<>> /\ Len(captured') = 0
    BY <1>1, <1>5, NextRead
  <2>2. (IF d + 1 > 0 THEN d + 1 ELSE 0) = 0
    BY <1>5
  <2> QED BY <1>2, <1>3, <2>1, <2>2 DEF Stream
<1> QED BY <1>4, <1>5

(* The node sends a frame of its handshake ... *)
LEMMA StreamSent ==
    ASSUME WireTypes, NEW T \in Seq(Frame), NEW d \in Int, Stream(T, d), NEW item \in Frame,
           stage # "idle", wire' = Append(wire, item), captured' = captured
    PROVE  Stream(Append(T, item), d)'
<1>1. /\ wire \in Seq(Frame \cup Heard) /\ Len(wire') = Len(wire) + 1
      /\ \A i \in DOMAIN wire : wire'[i] = wire[i]
      /\ wire'[Len(wire) + 1] = item /\ DOMAIN wire' = 1 .. Len(wire) + 1
  BY DEF WireTypes
<1>2. /\ Append(T, item) \in Seq(Frame) /\ Len(Append(T, item)) = Len(T) + 1
      /\ \A i \in DOMAIN T : Append(T, item)[i] = T[i]
      /\ Append(T, item)[Len(T) + 1] = item
      /\ DOMAIN Append(T, item) = 1 .. Len(T) + 1 /\ DOMAIN T = 1 .. Len(T)
  OBVIOUS
<1>3. Len(T) = Len(wire) + d /\ captured \in Seq(Frame)
  BY DEF Stream, WireTypes
<1>4. Len(captured') <= Len(T) /\ \A j \in DOMAIN captured' : captured'[j] = Append(T, item)[j]
  <2>1. Len(captured) <= Len(T)
    BY <1>3, <1>1, <1>2 DEF Stream
  <2>2. \A j \in DOMAIN captured : j \in DOMAIN T /\ captured[j] = T[j]
    BY <1>2, <1>3, <2>1 DEF Stream
  <2> QED BY <1>2, <2>1, <2>2
<1>5. \A i \in DOMAIN wire' : IF i + d \in DOMAIN Append(T, item)
                              THEN wire'[i] = Append(T, item)[i + d] ELSE wire'[i] \in Heard
  <2> SUFFICES ASSUME NEW i \in DOMAIN wire'
               PROVE  IF i + d \in DOMAIN Append(T, item)
                      THEN wire'[i] = Append(T, item)[i + d] ELSE wire'[i] \in Heard
    OBVIOUS
  <2>1. CASE i = Len(wire) + 1
    <3>1. i + d = Len(T) + 1
      BY <1>1, <1>3, <2>1
    <3> QED BY <1>1, <1>2, <2>1, <3>1
  <2>2. CASE i # Len(wire) + 1
    <3>1. i \in DOMAIN wire /\ i \in Int /\ i + d <= Len(T)
      BY <1>1, <1>3, <2>2
    <3>2. (i + d \in DOMAIN Append(T, item)) <=> (i + d \in DOMAIN T)
      BY <1>2, <3>1
    <3>3. IF i + d \in DOMAIN T THEN wire[i] = T[i + d] ELSE wire[i] \in Heard
      BY <3>1 DEF Stream
    <3> QED BY <1>1, <1>2, <3>1, <3>2, <3>3
  <2> QED BY <2>1, <2>2
<1>6. Len(captured') = IF d > 0 THEN d ELSE 0
  BY DEF Stream
<1>7. IF stage' = "idle" THEN d < Len(Append(T, item)) /\ Len(Append(T, item)) <= Len(wire') + d
                         ELSE Len(Append(T, item)) = Len(wire') + d
  <2>1. d < Len(T) + 1 /\ Len(T) + 1 = Len(wire') + d
    BY <1>1, <1>3
  <2> QED BY <1>2, <2>1
<1> QED BY <1>4, <1>5, <1>6, <1>7 DEF Stream

(* ... or a packet, when it is through with it or has not begun. *)
LEMMA StreamPassed ==
    ASSUME WireTypes, NEW T \in Seq(Frame), NEW d \in Int, Stream(T, d), Shape(T),
           stage \in {"idle", "asked"}, stage' = stage, NEW item \in Heard,
           wire' = Append(wire, item), captured' = captured
    PROVE  /\ stage = "idle" => Stream(T, d)'
           /\ stage = "asked" => T = <<>> /\ Stream(T, d - 1)'
<1>1. /\ wire \in Seq(Frame \cup Heard) /\ Len(wire') = Len(wire) + 1 /\ captured \in Seq(Frame)
      /\ \A i \in DOMAIN wire : wire'[i] = wire[i]
      /\ wire'[Len(wire) + 1] = item /\ DOMAIN wire' = 1 .. Len(wire) + 1
      /\ DOMAIN wire = 1 .. Len(wire)
  BY DEF WireTypes
<1>2. CASE stage = "idle"
  <2>1. d < Len(T) /\ Len(T) <= Len(wire) + d
    BY <1>2 DEF Stream
  <2>2. (Len(wire) + 1) + d \notin DOMAIN T /\ Len(T) <= Len(wire') + d
    BY <1>1, <2>1
  <2>3. \A i \in DOMAIN wire' : IF i + d \in DOMAIN T THEN wire'[i] = T[i + d] ELSE wire'[i] \in Heard
    <3> SUFFICES ASSUME NEW i \in DOMAIN wire'
                 PROVE  IF i + d \in DOMAIN T THEN wire'[i] = T[i + d] ELSE wire'[i] \in Heard
      OBVIOUS
    <3>1. CASE i = Len(wire) + 1
      BY <1>1, <2>2, <3>1
    <3>2. CASE i # Len(wire) + 1
      <4>1. i \in DOMAIN wire
        BY <1>1, <3>2
      <4> QED BY <1>1, <4>1 DEF Stream
    <3> QED BY <3>1, <3>2
  <2> QED BY <1>2, <2>1, <2>2, <2>3 DEF Stream
<1>3. CASE stage = "asked"
  <2>1. T = <<>> /\ Len(T) = 0 /\ DOMAIN T = {}
    BY <1>3 DEF Shape
  <2>2. Len(T) = Len(wire) + d
    BY <1>3 DEF Stream
  <2>3. d <= 0 /\ Len(T) = Len(wire') + (d - 1)
    BY <1>1, <2>1, <2>2
  <2>4. captured' = <<>> /\ Len(captured') = (IF d - 1 > 0 THEN d - 1 ELSE 0)
    BY <1>1, <2>3 DEF Stream
  <2>5. \A i \in DOMAIN wire' : wire'[i] \in Heard
    <3> SUFFICES ASSUME NEW i \in DOMAIN wire' PROVE wire'[i] \in Heard
      OBVIOUS
    <3>1. CASE i = Len(wire) + 1
      BY <1>1, <3>1
    <3>2. CASE i # Len(wire) + 1
      <4>1. i \in DOMAIN wire
        BY <1>1, <3>2
      <4> QED BY <1>1, <2>1, <4>1 DEF Stream
    <3> QED BY <3>1, <3>2
  <2>6. stage' # "idle"
    BY <1>3
  <2> QED BY <2>1, <2>3, <2>4, <2>5, <2>6, <1>3 DEF Stream
<1> QED BY <1>2, <1>3

(* What is more than one is at least two. *)
LEMMA NotOne == \A m \in Nat : m >= 1 /\ m # 1 => m >= 2 /\ 2 \in 1 .. m
OBVIOUS

(* The next frame continues that order.                                    *)
LEMMA ShapeSent ==
    ASSUME NEW T \in Seq(Frame), Shape(T), left \in SUBSET Nodes, stage # "idle",
           NEW item \in Frame
    PROVE  /\ stage = "asked" /\ stage' = "list" /\ item.key = "my_info" /\ Me \in left'
                => Shape(Append(T, item))'
           /\ stage = "list" /\ stage' = "list" /\ item.key \in Nodes /\ (Me \in left => item.key = Me)
                => Shape(Append(T, item))'
           /\ stage = "list" /\ stage' = "done" /\ item.key = "file" /\ left = {}
                => Shape(Append(T, item))'
           /\ stage = "done" /\ stage' = "idle" /\ item.key = "complete"
                => Shape(Append(T, item))'
<1> DEFINE U == Append(T, item)
<1>1. /\ Len(U) = Len(T) + 1 /\ U[Len(T) + 1].key = item.key /\ Len(T) \in Nat
      /\ \A i \in 1 .. Len(T) : U[i] = T[i]
  OBVIOUS
<1> HIDE DEF U
<1>2. ASSUME stage = "asked", stage' = "list", item.key = "my_info", Me \in left'
      PROVE  Shape(U)'
  <2>1. Len(T) = 0
    BY <1>2 DEF Shape
  <2>2. Len(U) = 1 /\ U[1].key = "my_info"
    BY <1>1, <1>2, <2>1
  <2> QED BY <1>2, <2>2 DEF Shape, Listing
<1>3. ASSUME stage = "list", item.key \in Nodes, Me \in left => item.key = Me
      PROVE  Len(U) >= 2 /\ Listing(U, Len(U))
  <2>1. Len(T) >= 1 /\ Listing(T, Len(T)) /\ (Len(T) = 1 => Me \in left)
    BY <1>3 DEF Shape
  <2>2. U[1].key = "my_info"
    BY <1>1, <2>1 DEF Listing
  <2>3. \A i \in 2 .. Len(U) : U[i].key \in Nodes
    BY <1>1, <1>3, <2>1 DEF Listing
  <2>4. U[2].key = Me
    <3>1. CASE Len(T) = 1
      BY <1>1, <1>3, <2>1, <3>1
    <3>2. CASE Len(T) # 1
      <4>2. Len(T) >= 1 /\ Len(T) \in Nat
        BY <1>1, <2>1
      <4>1. Len(T) >= 2 /\ 2 \in 1 .. Len(T)
        BY <3>2, <4>2, NotOne
      <4> QED BY <1>1, <2>1, <4>1 DEF Listing
    <3> QED BY <3>1, <3>2
  <2> QED BY <1>1, <2>1, <2>2, <2>3, <2>4 DEF Listing
<1>4. ASSUME stage = "list", stage' = "done", item.key = "file", left = {}
      PROVE  Shape(U)'
  <2>1. Len(T) >= 1 /\ Len(T) # 1 /\ Listing(T, Len(T))
    BY <1>4 DEF Shape
  <2>9. Len(T) >= 2
    BY <1>1, <2>1, NotOne
  <2>2. Len(U) >= 3 /\ Len(U) - 1 = Len(T) /\ U[Len(U)].key = "file"
    BY <1>1, <1>4, <2>9
  <2>3. Listing(U, Len(T))
    BY <1>1, <2>1, <2>9 DEF Listing
  <2>4. Len(U) >= 3 /\ Listing(U, Len(U) - 1) /\ U[Len(U)].key = "file"
    BY <2>2, <2>3
  <2> QED BY <1>4, <2>4 DEF Shape
<1>5. ASSUME stage = "done", stage' = "idle", item.key = "complete"
      PROVE  Shape(U)'
  <2>1. Len(T) >= 3 /\ Listing(T, Len(T) - 1) /\ T[Len(T)].key = "file"
    BY <1>5 DEF Shape
  <2>2. /\ Len(U) >= 4 /\ Len(U) - 1 = Len(T) /\ Len(U) - 2 = Len(T) - 1
        /\ U[Len(U)].key = "complete" /\ U[Len(U) - 1].key = "file"
    BY <1>1, <1>5, <2>1
  <2>3. Listing(U, Len(T) - 1)
    BY <1>1, <2>1 DEF Listing
  <2>4. Len(U) >= 4 /\ Listing(U, Len(U) - 2) /\ U[Len(U) - 1].key = "file" /\ U[Len(U)].key = "complete"
    BY <2>2, <2>3
  <2> QED BY <1>5, <2>4 DEF Shape
<1>6. ASSUME stage = "list", stage' = "list", item.key \in Nodes, Me \in left => item.key = Me
      PROVE  Shape(U)'
  <2>1. Len(U) >= 2 /\ Listing(U, Len(U))
    BY <1>3, <1>6
  <2>2. Len(U) >= 1 /\ Len(U) # 1
    BY <1>1, <2>1
  <2> QED BY <1>6, <2>1, <2>2 DEF Shape
<1> QED BY <1>2, <1>4, <1>5, <1>6 DEF U

(* What is written when config_complete comes, it is the last and all      *)
(* before it was captured.                                                 *)
LEMMA CompleteIsLast ==
    ASSUME WireTypes, NEW T \in Seq(Frame), NEW d \in Int, Stream(T, d), Shape(T),
           stage # "down", wire # <<>>, ~IsPacket(Head(wire)), Head(wire).key = "complete"
    PROVE  /\ stage = "idle" /\ d = Len(T) - 1 /\ Len(captured) = d
           /\ Len(captured) >= 3
           /\ Listing(captured, Len(captured) - 1) /\ captured[Len(captured)].key = "file"
           /\ \A j \in DOMAIN captured : captured[j] = T[j]
<1>0. Len(T) \in Nat /\ DOMAIN T = 1 .. Len(T)
  OBVIOUS
<1>1. d >= 0 /\ d < Len(T) /\ T[d + 1].key = "complete" /\ Len(captured) = d
  BY NextRead
<1>13. d >= 0 /\ d < Len(T) /\ d \in Int /\ Len(T) \in Int
  BY <1>0, <1>1
<1>2. "complete" \notin Nodes
  BY NodeAssumption
<1>3. stage # "asked"
  <2> SUFFICES ASSUME stage = "asked" PROVE FALSE
    OBVIOUS
  <2>1. T = <<>>
    BY DEF Shape
  <2> QED BY <1>13, <2>1
<1>4. stage # "list"
  <2> SUFFICES ASSUME stage = "list" PROVE FALSE
    OBVIOUS
  <2>1. Listing(T, Len(T))
    BY DEF Shape
  <2>2. d + 1 = 1 \/ d + 1 \in 2 .. Len(T)
    BY <1>13
  <2> QED BY <1>1, <1>2, <2>1, <2>2 DEF Listing
<1>5. stage # "done"
  <2> SUFFICES ASSUME stage = "done" PROVE FALSE
    OBVIOUS
  <2>1. Listing(T, Len(T) - 1) /\ T[Len(T)].key = "file"
    BY DEF Shape
  <2>2. d + 1 = 1 \/ d + 1 \in 2 .. Len(T) - 1 \/ d + 1 = Len(T)
    BY <1>13
  <2> QED BY <1>1, <1>2, <2>1, <2>2 DEF Listing
<1>6. stage = "idle"
  BY <1>3, <1>4, <1>5 DEF WireTypes
<1>7. /\ Len(T) >= 4 /\ Listing(T, Len(T) - 2)
      /\ T[Len(T) - 1].key = "file" /\ T[Len(T)].key = "complete"
  BY <1>6 DEF Shape
<1>8. d + 1 = Len(T)
  <2>1. d + 1 = 1 \/ d + 1 \in 2 .. Len(T) - 2 \/ d + 1 = Len(T) - 1 \/ d + 1 = Len(T)
    BY <1>13
  <2> QED BY <1>1, <1>2, <1>7, <2>1 DEF Listing
<1>9. \A j \in DOMAIN captured : captured[j] = T[j]
  BY DEF Stream
<1>10. DOMAIN captured = 1 .. Len(captured)
  BY DEF WireTypes
<1>11. Listing(captured, Len(T) - 2) /\ captured[Len(captured)].key = "file"
  <2>1. \A j \in 1 .. Len(T) - 1 : captured[j] = T[j]
    BY <1>0, <1>1, <1>8, <1>9, <1>10
  <2>2. captured[Len(T) - 1].key = "file"
    BY <1>7, <2>1
  <2>3. captured[1].key = "my_info"
    BY <1>7, <2>1 DEF Listing
  <2>4. Len(T) - 2 >= 2 => captured[2].key = Me
    BY <1>7, <2>1 DEF Listing
  <2>5. \A i \in 2 .. Len(T) - 2 : captured[i].key \in Nodes
    BY <1>0, <1>7, <2>1 DEF Listing
  <2>6. Len(captured) = Len(T) - 1
    BY <1>0, <1>1, <1>8
  <2> QED BY <2>2, <2>3, <2>4, <2>5, <2>6 DEF Listing
<1>12. Len(captured) - 1 = Len(T) - 2
  BY <1>1, <1>8, <1>13
<1>14. Len(captured) >= 3 /\ d = Len(T) - 1
  BY <1>1, <1>7, <1>8, <1>13
<1> QED BY <1>1, <1>6, <1>9, <1>11, <1>12, <1>14

-----------------------------------------------------------------------------
(* The handshake that apps are given.                                      *)

(* An entry put in at some place moves those from there on. *)
LEMMA Inserted ==
    ASSUME NEW S, NEW s \in Seq(S), NEW e \in S, NEW i \in 1 .. Len(s) + 1
    PROVE  /\ InsertAt(s, i, e) \in Seq(S)
           /\ Len(InsertAt(s, i, e)) = Len(s) + 1
           /\ InsertAt(s, i, e)[i] = e
           /\ \A j \in 1 .. i - 1 : InsertAt(s, i, e)[j] = s[j]
           /\ \A j \in i + 1 .. Len(s) + 1 : InsertAt(s, i, e)[j] = s[j - 1]
<1> DEFINE pre == SubSeq(s, 1, i - 1)
           mid == <<e>>
           post == SubSeq(s, i, Len(s))
<1>0. Len(s) \in Nat /\ i \in Int /\ 1 <= i /\ i <= Len(s) + 1 /\ \A j \in 1 .. Len(s) : s[j] \in S
  OBVIOUS
<1>1. /\ pre \in Seq(S) /\ Len(pre) = i - 1
      /\ \A j \in 1 .. i - 1 : pre[j] = s[j]
  <2>1. \A j \in 1 .. i - 1 : s[j] \in S
    BY <1>0
  <2>2. /\ pre \in Seq(S) /\ Len(pre) = (IF 1 <= i - 1 THEN (i - 1) - 1 + 1 ELSE 0)
        /\ \A j \in 1 .. (i - 1) - 1 + 1 : pre[j] = s[1 + j - 1]
    <3>1. i - 1 \in Int /\ 1 \in Int
      BY <1>0
    <3> QED BY <2>1, <3>1, SubSeqProperties
  <2> QED BY <1>0, <2>2
<1>2. /\ post \in Seq(S) /\ Len(post) = (Len(s) - i) + 1
      /\ \A j \in 1 .. (Len(s) - i) + 1 : post[j] = s[(i + j) - 1]
  <2>1. \A j \in i .. Len(s) : s[j] \in S
    BY <1>0
  <2>2. /\ post \in Seq(S) /\ Len(post) = (IF i <= Len(s) THEN Len(s) - i + 1 ELSE 0)
        /\ \A j \in 1 .. Len(s) - i + 1 : post[j] = s[i + j - 1]
    <3>1. i \in Int /\ Len(s) \in Int
      BY <1>0
    <3> QED BY <2>1, <3>1, SubSeqProperties
  <2> QED BY <1>0, <2>2
<1>3. mid \in Seq(S) /\ Len(mid) = 1 /\ mid[1] = e
  OBVIOUS
<1> HIDE DEF pre, mid, post
<1>4. /\ pre \o mid \in Seq(S) /\ Len(pre \o mid) = i
      /\ (pre \o mid)[i] = e
      /\ \A j \in 1 .. i - 1 : (pre \o mid)[j] = s[j]
  <2>1. /\ pre \o mid \in Seq(S) /\ Len(pre \o mid) = Len(pre) + Len(mid)
        /\ \A j \in 1 .. Len(pre) + Len(mid) :
             (pre \o mid)[j] = IF j <= Len(pre) THEN pre[j] ELSE mid[j - Len(pre)]
    BY <1>1, <1>3, ConcatProperties
  <2>2. Len(pre) + Len(mid) = i /\ i - Len(pre) = 1
    BY <1>0, <1>1, <1>3
  <2>3. (pre \o mid)[i] = e
    BY <1>0, <1>1, <1>3, <2>1, <2>2
  <2>4. \A j \in 1 .. i - 1 : (pre \o mid)[j] = s[j]
    BY <1>0, <1>1, <2>1, <2>2
  <2> QED BY <2>1, <2>2, <2>3, <2>4
<1>5. /\ (pre \o mid) \o post \in Seq(S) /\ Len((pre \o mid) \o post) = i + Len(post)
      /\ \A j \in 1 .. i + Len(post) :
           ((pre \o mid) \o post)[j] = IF j <= i THEN (pre \o mid)[j] ELSE post[j - i]
  <2>1. pre \o mid \in Seq(S) /\ post \in Seq(S)
    BY <1>2, <1>4
  <2>2. /\ (pre \o mid) \o post \in Seq(S) /\ Len((pre \o mid) \o post) = Len(pre \o mid) + Len(post)
        /\ \A j \in 1 .. Len(pre \o mid) + Len(post) :
             ((pre \o mid) \o post)[j] = IF j <= Len(pre \o mid) THEN (pre \o mid)[j]
                                         ELSE post[j - Len(pre \o mid)]
    BY <2>1, ConcatProperties
  <2> QED BY <1>4, <2>2
<1>6. InsertAt(s, i, e) = (pre \o mid) \o post
  BY DEF InsertAt, pre, mid, post
<1>7. i + Len(post) = Len(s) + 1
  BY <1>0, <1>2
<1>8. \A j \in i + 1 .. Len(s) + 1 : j - i \in 1 .. (Len(s) - i) + 1 /\ (i + (j - i)) - 1 = j - 1
                                     /\ j \in 1 .. Len(s) + 1 /\ ~(j <= i)
  BY <1>0
<1>9. \A j \in i + 1 .. Len(s) + 1 : ((pre \o mid) \o post)[j] = s[j - 1]
  <2> SUFFICES ASSUME NEW j \in i + 1 .. Len(s) + 1 PROVE ((pre \o mid) \o post)[j] = s[j - 1]
    OBVIOUS
  <2>1. ((pre \o mid) \o post)[j] = post[j - i]
    BY <1>5, <1>7, <1>8
  <2> QED BY <1>2, <1>8, <2>1
<1>10. \A j \in 1 .. i - 1 : ((pre \o mid) \o post)[j] = s[j]
  BY <1>0, <1>4, <1>5, <1>7
<1>11. ((pre \o mid) \o post)[i] = e
  BY <1>0, <1>4, <1>5, <1>7
<1> QED BY <1>5, <1>6, <1>7, <1>9, <1>10, <1>11

(* The last node entry of a whole handshake is just before the files.      *)
LEMMA LastInfoIsLast ==
    ASSUME frames \in Seq(Frame), WholeOf(frames)
    PROVE  LastInfo = Len(frames) - 1
<1> DEFINE at == {i \in DOMAIN frames : frames[i].key \in Nodes}
           m == Len(frames) - 1
<1>1. Len(frames) \in Nat /\ Len(frames) >= 3 /\ DOMAIN frames = 1 .. Len(frames) /\ m \in Nat /\ m >= 2
  BY DEF WholeOf
<1>2. m \in at
  <2>1. m \in 2 .. Len(frames) - 1 /\ m \in DOMAIN frames
    BY <1>1
  <2> QED BY <2>1 DEF WholeOf, Listing
<1>3. \A i \in at : i <= m /\ i \in Nat
  <2> SUFFICES ASSUME NEW i \in at PROVE i <= m /\ i \in Nat
    OBVIOUS
  <2>1. i # Len(frames)
    BY NodeAssumption DEF WholeOf
  <2> QED BY <1>1, <2>1
<1>4. LastInfo = IF at = {} THEN Len(frames) ELSE Max(at)
  BY DEF LastInfo
<1> HIDE DEF at, m
<1>5. Max(at) \in at /\ \A i \in at : Max(at) >= i
  BY <1>2, <1>3 DEF Max
<1>6. Max(at) = m
  <2>1. Max(at) \in Nat /\ Max(at) <= m /\ Max(at) >= m
    BY <1>2, <1>3, <1>5
  <2> QED BY <1>1, <2>1
<1>7. LastInfo = m
  BY <1>2, <1>4, <1>6
<1> QED BY <1>7 DEF m

(* The new entry goes there and leaves the handshake whole.                *)
LEMMA NewEntry ==
    ASSUME frames \in Seq(Frame), WholeOf(frames), NEW n \in Nodes, n \notin Framed(frames)
    PROVE  LET seq == InsertAt(frames, LastInfo + 1, Info(n, FALSE))
           IN  /\ seq \in Seq(Frame) /\ WholeOf(seq) /\ n \in Framed(seq)
               /\ \A i \in DOMAIN frames : \E j \in DOMAIN seq : seq[j] = frames[i]
<1> DEFINE e == Info(n, FALSE)
           l == Len(frames)
           seq == InsertAt(frames, l, e)
<1>1. l \in Nat /\ l >= 3 /\ DOMAIN frames = 1 .. l
  BY DEF WholeOf
<1>0. LastInfo = l - 1 /\ l = Len(frames)
  BY LastInfoIsLast
<1>2. e \in Frame /\ e.key = n
  BY InfoIsFrame
<1> HIDE DEF l, e
<1>14. LastInfo + 1 = l /\ l \in 1 .. l + 1
  BY <1>0, <1>1
<1>15. l - 1 \in Int /\ \A i \in 1 .. l : i = l \/ i \in 1 .. l - 1
  BY <1>1
<1>3. /\ seq \in Seq(Frame) /\ Len(seq) = l + 1
      /\ seq[l] = e
      /\ \A j \in 1 .. l - 1 : seq[j] = frames[j]
      /\ \A j \in l + 1 .. l + 1 : seq[j] = frames[j - 1]
  <2>1. l \in 1 .. Len(frames) + 1
    BY <1>0, <1>14
  <2>2. /\ InsertAt(frames, l, e) \in Seq(Frame) /\ Len(InsertAt(frames, l, e)) = Len(frames) + 1
        /\ InsertAt(frames, l, e)[l] = e
        /\ \A j \in 1 .. l - 1 : InsertAt(frames, l, e)[j] = frames[j]
        /\ \A j \in l + 1 .. Len(frames) + 1 : InsertAt(frames, l, e)[j] = frames[j - 1]
    <3>1. frames \in Seq(Frame) /\ e \in Frame
      BY <1>2
    <3> QED BY <2>1, <3>1, Inserted
  <2> QED BY <1>0, <2>2
<1> HIDE DEF seq
<1>4. seq[l + 1] = frames[l] /\ DOMAIN seq = 1 .. l + 1
  BY <1>1, <1>3
<1>5. \A i \in DOMAIN frames : frames[i].key # n
  BY DEF Framed
<1>6. /\ frames[1].key = "my_info" /\ frames[2].key = Me
      /\ \A i \in 2 .. l - 1 : frames[i].key \in Nodes
      /\ frames[l].key = "file"
      /\ \A i, j \in DOMAIN frames : frames[i].key = frames[j].key => i = j
  BY <1>0, <1>1 DEF WholeOf, Listing
<1>7. Listing(seq, l)
  <2>1. seq[1].key = "my_info" /\ seq[2].key = Me
    BY <1>1, <1>3, <1>6
  <2>2. \A i \in 2 .. l : seq[i].key \in Nodes
    <3> SUFFICES ASSUME NEW i \in 2 .. l PROVE seq[i].key \in Nodes
      OBVIOUS
    <3>1. CASE i = l
      BY <1>2, <1>3, <3>1
    <3>2. CASE i # l
      <4>1. i \in 2 .. l - 1 /\ i \in 1 .. l - 1
        <5>1. l \in Nat /\ i \in Nat /\ 2 <= i /\ i <= l
          BY <1>1
        <5> QED BY <3>2, <5>1
      <4> QED BY <1>3, <1>6, <4>1
    <3> QED BY <3>1, <3>2
  <2> QED BY <2>1, <2>2 DEF Listing
<1>8. \A i \in 1 .. l + 1 : i # l => \E k \in DOMAIN frames :
         seq[i] = frames[k] /\ (i < l => k = i) /\ (i = l + 1 => k = l)
  <2> SUFFICES ASSUME NEW i \in 1 .. l + 1, i # l
               PROVE  \E k \in DOMAIN frames :
                        seq[i] = frames[k] /\ (i < l => k = i) /\ (i = l + 1 => k = l)
    OBVIOUS
  <2>1. CASE i = l + 1
    <3>1. l \in DOMAIN frames /\ seq[i] = frames[l] /\ ~(i < l)
      BY <1>1, <1>4, <2>1
    <3> QED BY <2>1, <3>1
  <2>2. CASE i # l + 1
    <3>0. i \in Int /\ l \in Int /\ 1 <= i /\ i <= l + 1 /\ i # l /\ i # l + 1
      BY <1>1, <2>2
    <3>1. i \in 1 .. l - 1 /\ i < l /\ i \in 1 .. l
      BY <3>0
    <3>2. seq[i] = frames[i] /\ i \in DOMAIN frames
      BY <1>1, <1>3, <3>1
    <3> QED BY <2>2, <3>1, <3>2
  <2> QED BY <2>1, <2>2
<1>9. \A i, j \in DOMAIN seq : seq[i].key = seq[j].key => i = j
  <2> SUFFICES ASSUME NEW i \in 1 .. l + 1, NEW j \in 1 .. l + 1, seq[i].key = seq[j].key
               PROVE  i = j
    BY <1>4
  <2>1. CASE i = l \/ j = l
    BY <1>2, <1>3, <1>5, <1>8, <2>1
  <2>2. CASE i # l /\ j # l
    <3>1. PICK k \in DOMAIN frames :
         seq[i] = frames[k] /\ (i < l => k = i) /\ (i = l + 1 => k = l)
      BY <1>8, <2>2
    <3>2. PICK m \in DOMAIN frames :
         seq[j] = frames[m] /\ (j < l => m = j) /\ (j = l + 1 => m = l)
      BY <1>8, <2>2
    <3>3. k = m
      BY <1>6, <3>1, <3>2
    <3>4. (i < l \/ i = l + 1) /\ (j < l \/ j = l + 1)
      <4>1. i \in Int /\ j \in Int /\ l \in Int /\ i <= l + 1 /\ j <= l + 1
        BY <1>1
      <4> QED BY <2>2, <4>1
    <3> QED BY <1>1, <3>1, <3>2, <3>3, <3>4
  <2> QED BY <2>1, <2>2
<1>10. WholeOf(seq)
  <2>1. Len(seq) >= 3 /\ Len(seq) - 1 = l
    BY <1>1, <1>3
  <2> QED BY <1>3, <1>4, <1>6, <1>7, <1>9, <2>1 DEF WholeOf
<1>11. n \in Framed(seq)
  <2>1. l \in DOMAIN seq /\ seq[l].key = n
    BY <1>1, <1>2, <1>3, <1>4
  <2> QED BY <2>1 DEF Framed
<1>12. \A i \in DOMAIN frames : \E j \in DOMAIN seq : seq[j] = frames[i]
  <2> SUFFICES ASSUME NEW i \in 1 .. l PROVE \E j \in DOMAIN seq : seq[j] = frames[i]
    BY <1>1
  <2>1. CASE i = l
    BY <1>1, <1>4, <2>1
  <2>2. CASE i # l
    <3>1. i \in 1 .. l - 1
      BY <1>15, <2>2
    <3>2. i \in 1 .. l + 1
      BY <1>1
    <3> QED BY <1>3, <1>4, <3>1, <3>2
  <2> QED BY <2>1, <2>2
<1>13. InsertAt(frames, LastInfo + 1, Info(n, FALSE)) = seq
  BY <1>14 DEF seq, e
<1> QED BY <1>3, <1>10, <1>11, <1>12, <1>13

(* A packet's sender is listed in the end, if its user is known. *)
LEMMA Refreshing ==
    ASSUME Whole, ~torn, NEW n \in Nodes, NEW user \in BOOLEAN
    PROVE  LET seq == RefreshFrame(n, user)
           IN  /\ seq \in Seq(Frame)
               /\ frames = <<>> => seq = <<>>
               /\ frames # <<>> =>
                    /\ seq # <<>> /\ WholeOf(seq)
                    /\ user => n \in Framed(seq)
                    /\ \A i \in DOMAIN frames : \E j \in DOMAIN seq : seq[j] = frames[i]
<1> DEFINE seq == RefreshFrame(n, user)
           new == InsertAt(frames, LastInfo + 1, Info(n, FALSE))
<1>1. frames \in Seq(Frame) /\ (frames # <<>> => WholeOf(frames))
  BY DEF Whole
<1>2. CASE frames = <<>>
  BY <1>1, <1>2 DEF RefreshFrame
<1>3. CASE frames # <<>> /\ n \in Framed(frames)
  <2>1. seq = [i \in DOMAIN frames |-> IF frames[i].key = n THEN Refreshed(frames[i]) ELSE frames[i]]
    BY <1>3 DEF RefreshFrame
  <2>2. seq = frames
    BY <1>1, <2>1 DEF Refreshed
  <2> QED BY <1>1, <1>3, <2>2
<1>4. CASE frames # <<>> /\ n \notin Framed(frames) /\ user
  <2>1. seq = new
    BY <1>4 DEF RefreshFrame
  <2>2. /\ new \in Seq(Frame) /\ WholeOf(new) /\ n \in Framed(new)
        /\ \A i \in DOMAIN frames : \E j \in DOMAIN new : new[j] = frames[i]
    BY <1>1, <1>4, NewEntry
  <2> HIDE DEF new, seq
  <2>3. new # <<>>
    <3>1. Len(new) >= 3
      BY <2>2 DEF WholeOf
    <3> QED BY <3>1
  <2> QED BY <1>4, <2>1, <2>2, <2>3 DEF seq
<1>5. CASE frames # <<>> /\ n \notin Framed(frames) /\ ~user
  <2>1. seq = frames
    BY <1>5 DEF RefreshFrame
  <2> QED BY <1>1, <1>5, <2>1
<1> QED BY <1>2, <1>3, <1>4, <1>5

(* A star changes its own entry and no other. *)
LEMMA Patching ==
    ASSUME Whole, ~torn, NEW n \in Nodes, NEW star \in BOOLEAN
    PROVE  LET seq == Patched(n, star)
           IN  /\ seq \in Seq(Frame)
               /\ DOMAIN seq = DOMAIN frames
               /\ frames = <<>> => seq = <<>>
               /\ frames # <<>> => seq # <<>> /\ WholeOf(seq)
               /\ \A i \in DOMAIN frames :
                    /\ seq[i].key = frames[i].key
                    /\ seq[i] = IF frames[i].key = n THEN Info(n, star) ELSE frames[i]
<1> DEFINE seq == Patched(n, star)
<1>1. frames \in Seq(Frame) /\ (frames # <<>> => WholeOf(frames))
  BY DEF Whole
<1>2. Info(n, star) \in Frame /\ Info(n, star).key = n
  BY InfoIsFrame
<1>3. seq = [i \in 1 .. Len(frames) |-> IF frames[i].key = n THEN Info(n, star) ELSE frames[i]]
  BY <1>1 DEF Patched
<1>4. \A i \in 1 .. Len(frames) : seq[i] \in Frame
  BY <1>1, <1>2, <1>3
<1>5. seq \in Seq(Frame) /\ Len(seq) = Len(frames)
  BY <1>1, <1>3, <1>4, IsASeq
<1>6. DOMAIN seq = 1 .. Len(frames) /\ DOMAIN frames = 1 .. Len(frames)
  BY <1>1, <1>3
<1>7. \A i \in 1 .. Len(frames) :
        /\ seq[i].key = frames[i].key
        /\ seq[i] = IF frames[i].key = n THEN Info(n, star) ELSE frames[i]
  BY <1>2, <1>3
<1> HIDE DEF seq
<1>8. frames # <<>> => WholeOf(seq)
  <2> SUFFICES ASSUME frames # <<>> PROVE WholeOf(seq)
    OBVIOUS
  <2>1. /\ Len(frames) >= 3 /\ Len(frames) \in Nat
        /\ frames[1].key = "my_info" /\ frames[2].key = Me
        /\ \A i \in 2 .. Len(frames) - 1 : frames[i].key \in Nodes
        /\ frames[Len(frames)].key = "file"
        /\ \A i, j \in 1 .. Len(frames) : frames[i].key = frames[j].key => i = j
    BY <1>1, <1>6 DEF WholeOf, Listing
  <2>2. \A i \in 2 .. Len(frames) - 1 : seq[i].key \in Nodes
    <3>1. \A i \in 2 .. Len(frames) - 1 : i \in 1 .. Len(frames)
      BY <2>1
    <3> QED BY <1>7, <2>1, <3>1
  <2>3. seq[1].key = "my_info" /\ seq[2].key = Me /\ seq[Len(frames)].key = "file"
    BY <1>7, <2>1
  <2>4. \A i, j \in DOMAIN seq : seq[i].key = seq[j].key => i = j
    BY <1>6, <1>7, <2>1
  <2> QED BY <1>5, <2>1, <2>2, <2>3, <2>4 DEF WholeOf, Listing
<1>9. /\ frames = <<>> => seq = <<>>
      /\ frames # <<>> => seq # <<>>
  BY <1>1, <1>5
<1> QED BY <1>5, <1>6, <1>7, <1>8, <1>9 DEF seq

(* What the reader may find. *)
LEMMA ReaderFinds ==
    ASSUME WireInv, NEW item, Take(item)
    PROVE  /\ stage # "down"
           /\ IsPacket(item) => item \in Heard
           /\ ~IsPacket(item) => item \in Frame /\ capturing
           /\ ~IsPacket(item) /\ item.key = "complete" =>
                \E T \in Seq(Frame), d \in Int :
                    /\ OnTheWire(T, d)
                    /\ stage = "idle" /\ d = Len(T) - 1 /\ Len(captured) = d
                    /\ Len(captured) >= 3
                    /\ Listing(captured, Len(captured) - 1) /\ captured[Len(captured)].key = "file"
                    /\ \A j \in DOMAIN captured : captured[j] = T[j]
<1>1. wire # <<>> /\ item = Head(wire) /\ wire \in Seq(Frame \cup Heard)
  BY DEF Take, WireInv, WireTypes
<1>2. stage # "down"
  BY <1>1 DEF WireInv, Sides
<1>3. item \in Frame \cup Heard /\ item = wire[1] /\ 1 \in DOMAIN wire
  BY <1>1
<1>4. IsPacket(item) => item \in Heard
  BY <1>3, FrameOrPacket
<1>5. ~IsPacket(item) => item \in Frame /\ capturing
  BY <1>3, FrameOrPacket DEF WireInv, Sides, WireTypes
<1>6. ASSUME ~IsPacket(item), item.key = "complete"
      PROVE  \E T \in Seq(Frame), d \in Int :
                    /\ OnTheWire(T, d)
                    /\ stage = "idle" /\ d = Len(T) - 1 /\ Len(captured) = d
                    /\ Len(captured) >= 3
                    /\ Listing(captured, Len(captured) - 1) /\ captured[Len(captured)].key = "file"
                    /\ \A j \in DOMAIN captured : captured[j] = T[j]
  <2>1. capturing
    BY <1>5, <1>6
  <2>2. PICK T \in Seq(Frame), d \in Int : OnTheWire(T, d)
    BY <1>2, <2>1 DEF WireInv, Flow
  <2>3. Stream(T, d) /\ Shape(T) /\ WireTypes
    BY <2>2 DEF OnTheWire, WireInv
  <2>4. /\ stage = "idle" /\ d = Len(T) - 1 /\ Len(captured) = d
        /\ Len(captured) >= 3
        /\ Listing(captured, Len(captured) - 1) /\ captured[Len(captured)].key = "file"
        /\ \A j \in DOMAIN captured : captured[j] = T[j]
    BY <1>1, <1>2, <1>6, <2>3, CompleteIsLast
  <2> QED BY <2>2, <2>4
<1> QED BY <1>2, <1>4, <1>5, <1>6

-----------------------------------------------------------------------------
(* Every step keeps the types of what is on the wire.                      *)

(* What the node emits is the last on the wire.                            *)
LEMMA Emitted ==
    ASSUME WireTypes, NEW item \in Frame \cup Heard, Emit(item)
    PROVE  wire' \in Seq(Frame \cup Heard) /\ wire' = Append(wire, item)
BY DEF WireTypes, Emit

(* The frame in which the node lists n.                                    *)
LEMMA NodeSays == \A n \in Nodes : Info(n, n \in starred) \in Frame /\ Info(n, n \in starred).key = n
<1> TAKE n \in Nodes
<1>1. (n \in starred) \in BOOLEAN
  OBVIOUS
<1>2. \A star \in BOOLEAN : Info(n, star) \in Frame /\ Info(n, star).key = n
  BY InfoIsFrame
<1> QED BY <1>1, <1>2, Zenon

(* The types, in the steps of the node ...                                 *)
LEMMA NodeTypes ==
    ASSUME WireTypes, NEW n \in Nodes,
           BeginList \/ ListNode(n) \/ EndList \/ (\E user \in BOOLEAN : Hear(n, user)) \/ PassOn
             \/ Evict(n) \/ StarElsewhere(n)
    PROVE  WireTypes'
<1> USE DEF table, history
<1>1. wire \in Seq(Frame \cup Heard) /\ queue \in Seq(Heard)
  BY DEF WireTypes
<1>2. CASE BeginList
  <2>1. wire' \in Seq(Frame \cup Heard)
    <3>1. Info("my_info", FALSE) \in Frame
      BY InfoIsFrame
    <3> QED BY <1>2, <3>1, Emitted DEF BeginList
  <2> QED BY <1>2, <2>1 DEF BeginList, WireTypes
<1>3. CASE ListNode(n)
  <2>1. wire' \in Seq(Frame \cup Heard)
    <3>1. Info(n, n \in starred) \in Frame
      BY NodeSays
    <3> QED BY <1>3, <3>1, Emitted DEF ListNode
  <2> QED BY <1>3, <2>1 DEF ListNode, WireTypes
<1>4. CASE EndList
  <2>1. wire' \in Seq(Frame \cup Heard)
    <3>1. Info("file", FALSE) \in Frame /\ Info("complete", FALSE) \in Frame
      BY InfoIsFrame
    <3> QED BY <1>4, <3>1, Emitted DEF EndList
  <2>2. stage' \in {"down", "asked", "list", "done", "idle"}
    BY <1>4 DEF EndList
  <2> QED BY <1>4, <2>1, <2>2 DEF EndList, WireTypes
<1>5. ASSUME NEW user \in BOOLEAN, Hear(n, user) PROVE WireTypes'
  <2>1. queue' \in Seq(Heard)
    <3>1. Packet(n, user) \in Heard
      BY InfoIsFrame
    <3> QED BY <1>1, <1>5, <3>1 DEF Hear
  <2>2. list' = list \cup {n} /\ users' \in SUBSET (users \cup {n}) /\ left' \in SUBSET (left \cup {n})
    BY <1>5 DEF Hear
  <2> QED BY <1>5, <2>1, <2>2 DEF Hear, WireTypes
<1>6. CASE PassOn
  <2>1. queue' \in Seq(Heard) /\ wire' \in Seq(Frame \cup Heard)
    <3>1. Head(queue) \in Heard /\ Tail(queue) \in Seq(Heard)
      BY <1>1, <1>6 DEF PassOn
    <3> QED BY <1>1, <1>6, <3>1 DEF PassOn, Emit
  <2> QED BY <1>6, <2>1 DEF PassOn, WireTypes
<1>7. CASE Evict(n)
  BY <1>7 DEF Evict, WireTypes
<1>8. CASE StarElsewhere(n)
  BY <1>8 DEF StarElsewhere, WireTypes
<1> QED BY <1>2, <1>3, <1>4, <1>5, <1>6, <1>7, <1>8

(* ... in those of the reader ...                                          *)
LEMMA ReaderTypes ==
    ASSUME WireInv, NEW item,
           ReadFrame(item) \/ SkipPacket(item) \/ ReadPacket(item) \/ Complete(item) \/ FailComplete(item)
    PROVE  WireTypes'
<1> USE DEF node, table, history
<1>1. /\ Take(item) /\ WireTypes
      /\ IsPacket(item) => item \in Heard
      /\ ~IsPacket(item) => item \in Frame
  BY ReaderFinds DEF ReadFrame, SkipPacket, ReadPacket, Complete, FailComplete, WireInv
<1>2. wire' \in Seq(Frame \cup Heard)
  BY <1>1 DEF Take, WireTypes
<1>3. CASE ReadFrame(item)
  <2>1. captured' \in Seq(Frame)
    BY <1>1, <1>3 DEF ReadFrame, WireTypes
  <2>2. rows' \in SUBSET Nodes
    BY <1>1, <1>3 DEF ReadFrame, UpsertStar, WireTypes
  <2> QED BY <1>1, <1>2, <1>3, <2>1, <2>2 DEF ReadFrame, WireTypes
<1>4. CASE SkipPacket(item)
  BY <1>1, <1>2, <1>4 DEF SkipPacket, WireTypes
<1>5. CASE ReadPacket(item)
  <2>1. item.from \in Nodes
    BY <1>1, <1>5 DEF ReadPacket, Heard
  <2>2. rows' \in SUBSET Nodes
    BY <1>1, <1>5, <2>1 DEF ReadPacket, Upsert, WireTypes
  <2> QED BY <1>1, <1>2, <1>5, <2>2 DEF ReadPacket, WireTypes
<1>6. CASE Complete(item)
  BY <1>1, <1>2, <1>6 DEF Complete, WireTypes
<1>7. CASE FailComplete(item)
  BY <1>1, <1>2, <1>7 DEF FailComplete, WireTypes
<1> QED BY <1>3, <1>4, <1>5, <1>6, <1>7

(* ... and in all.                                                         *)
LEMMA TypesStep == ASSUME WireInv, [Next]_vars PROVE WireTypes'
<1> USE DEF node, table, history
<1>1. WireTypes /\ CacheTypes
  BY DEF WireInv
<1>2. CASE UNCHANGED vars
  BY <1>1, <1>2 DEF vars, WireTypes
<1>3. ASSUME NEW n \in Nodes,
             BeginList \/ ListNode(n) \/ EndList \/ (\E user \in BOOLEAN : Hear(n, user)) \/ PassOn
               \/ Evict(n) \/ StarElsewhere(n)
      PROVE  WireTypes'
  BY <1>1, <1>3, NodeTypes
<1>4. CASE LoseLink
  BY <1>1, <1>4 DEF LoseLink, WireTypes
<1>5. CASE StartConfig
  BY <1>1, <1>5 DEF StartConfig, WireTypes
<1>6. ASSUME NEW item,
             ReadFrame(item) \/ SkipPacket(item) \/ ReadPacket(item) \/ Complete(item) \/ FailComplete(item)
      PROVE  WireTypes'
  BY <1>6, ReaderTypes
<1>7. CASE ReadFavorites \/ AssignFavorites
  BY <1>1, <1>7 DEF ReadFavorites, AssignFavorites, WireTypes
<1>8. ASSUME NEW s \in Setters, NEW n \in Nodes, NEW star \in BOOLEAN, TellNode(s, n, star)
      PROVE  WireTypes'
  <2>1. starred' \in SUBSET Nodes /\ settled' \in SUBSET settled /\ fresh' \in SUBSET fresh
    BY <1>1, <1>8 DEF TellNode, WireTypes
  <2> QED BY <1>1, <1>8, <2>1 DEF TellNode, WireTypes
<1>9. ASSUME NEW s \in Setters, StoreStar(s) \/ PatchFrame(s) \/ ReadStars(s) \/ AssignStars(s)
      PROVE  WireTypes'
  <2>1. setter[s].node \in Nodes
    BY <1>1 DEF CacheTypes
  <2>2. rows' \in SUBSET Nodes
    BY <1>1, <1>9, <2>1 DEF StoreStar, PatchFrame, ReadStars, AssignStars, UpsertStar, WireTypes
  <2> QED BY <1>1, <1>9, <2>2 DEF StoreStar, PatchFrame, ReadStars, AssignStars, WireTypes
<1>10. CASE ClearData
  BY <1>1, <1>10 DEF ClearData, WireTypes
<1>11. Me \in Nodes
  BY NodeAssumption
<1> QED BY <1>2, <1>3, <1>4, <1>5, <1>6, <1>7, <1>8, <1>9, <1>10, <1>11 DEF Next

(* Who is setting whose star. *)
LEMMA WorkGoesOn ==
    ASSUME CacheTypes, NEW s \in Setters, StoreStar(s) \/ PatchFrame(s) \/ ReadStars(s) \/ AssignStars(s),
           NEW n \in Nodes
    PROVE  Setting(n)' => Setting(n)
<1>1. \A t \in Setters : setter'[t].at # "idle" => setter[t].at # "idle" /\ setter'[t].node = setter[t].node
  <2>1. CASE StoreStar(s)
    BY <2>1 DEF StoreStar, CacheTypes
  <2>2. CASE PatchFrame(s)
    BY <2>2 DEF PatchFrame, CacheTypes
  <2>3. CASE ReadStars(s)
    BY <2>3 DEF ReadStars, CacheTypes
  <2>4. CASE AssignStars(s)
    BY <2>4 DEF AssignStars, CacheTypes
  <2> QED BY <2>1, <2>2, <2>3, <2>4
<1> QED BY <1>1 DEF Setting

(* Only TellNode makes a setting begin.                                    *)
LEMMA SettingMoves ==
    ASSUME CacheTypes, [Next]_vars, NEW n \in Nodes
    PROVE  \/ Setting(n)' => Setting(n)
           \/ \E s \in Setters, star \in BOOLEAN : TellNode(s, n, star)
<1>1. CASE UNCHANGED setter
  BY <1>1 DEF Setting
<1>2. ASSUME NEW s \in Setters, NEW m \in Nodes, NEW star \in BOOLEAN, TellNode(s, m, star), m # n
      PROVE  Setting(n)' => Setting(n)
  BY <1>2 DEF TellNode, Setting, CacheTypes
<1>3. ASSUME NEW s \in Setters, StoreStar(s) \/ PatchFrame(s) \/ ReadStars(s) \/ AssignStars(s)
      PROVE  Setting(n)' => Setting(n)
  BY <1>3, WorkGoesOn
<1>4. ASSUME NEW m \in Nodes, ListNode(m) \/ Evict(m) \/ StarElsewhere(m) \/ \E user \in BOOLEAN : Hear(m, user)
      PROVE  UNCHANGED setter
  BY <1>4 DEF ListNode, Evict, StarElsewhere, Hear
<1>5. ASSUME NEW item, ReadFrame(item) \/ SkipPacket(item) \/ ReadPacket(item)
                         \/ Complete(item) \/ FailComplete(item)
      PROVE  UNCHANGED setter
  BY <1>5 DEF ReadFrame, SkipPacket, ReadPacket, Complete, FailComplete
<1>6. CASE BeginList \/ EndList \/ PassOn \/ LoseLink \/ StartConfig \/ ReadFavorites
             \/ AssignFavorites \/ ClearData \/ UNCHANGED vars
  BY <1>1, <1>6 DEF BeginList, EndList, PassOn, LoseLink, StartConfig, ReadFavorites,
     AssignFavorites, ClearData, vars
<1> QED BY <1>1, <1>2, <1>3, <1>4, <1>5, <1>6 DEF Next

(* A step that leaves the wire and the stage alone. *)
LEMMA SidesQuiet ==
    ASSUME WireInv, UNCHANGED <<stage, wire, capturing, torn>>,
           fresh' \subseteq fresh, settled' \subseteq settled, frames # <<>> => frames' # <<>>,
           \A n \in settled' : capturing => ~Setting(n)'
    PROVE  Sides'
BY DEF WireInv, Sides

(* Every step keeps what goes with the handshake under way.                *)
LEMMA SidesStep == ASSUME WireInv, [Next]_vars PROVE Sides'
<1> USE DEF node, table, history
<1>1. WireTypes /\ CacheTypes /\ Sides /\ Whole
  BY DEF WireInv
<1>2. \A n \in Nodes : \/ Setting(n)' => Setting(n)
                       \/ \E s \in Setters, star \in BOOLEAN : TellNode(s, n, star)
  BY <1>1, SettingMoves
<1>3. settled \in SUBSET Nodes
  BY <1>1 DEF WireTypes
<1>4. CASE UNCHANGED vars
  <2>1. \A n \in settled : capturing => ~Setting(n)'
    BY <1>1, <1>4 DEF Sides, Setting, vars
  <2> QED BY <1>4, <2>1, SidesQuiet DEF vars
<1>5. ASSUME NEW n \in Nodes, Evict(n) \/ StarElsewhere(n) \/ \E user \in BOOLEAN : Hear(n, user)
      PROVE  Sides'
  <2>1. /\ UNCHANGED <<stage, wire, capturing, torn, frames, setter>>
        /\ fresh' \subseteq fresh /\ settled' \subseteq settled
    BY <1>5 DEF Evict, StarElsewhere, Hear
  <2>2. \A m \in settled' : capturing => ~Setting(m)'
    BY <1>1, <2>1 DEF Sides, Setting
  <2> QED BY <2>1, <2>2, SidesQuiet
<1>6. CASE ReadFavorites \/ AssignFavorites \/ ClearData
  <2>1. /\ UNCHANGED <<stage, wire, capturing, torn, frames, setter>>
        /\ fresh' \subseteq fresh /\ settled' \subseteq settled
    BY <1>6 DEF ReadFavorites, AssignFavorites, ClearData
  <2>2. \A m \in settled' : capturing => ~Setting(m)'
    BY <1>1, <2>1 DEF Sides, Setting
  <2> QED BY <2>1, <2>2, SidesQuiet
<1>7. ASSUME NEW s \in Setters, StoreStar(s) \/ PatchFrame(s) \/ ReadStars(s) \/ AssignStars(s)
      PROVE  Sides'
  <2>1. UNCHANGED <<stage, wire, capturing, torn, fresh, settled>>
    BY <1>7 DEF StoreStar, PatchFrame, ReadStars, AssignStars
  <2>2. \A m \in settled : Setting(m)' => Setting(m)
    BY <1>1, <1>3, <1>7, WorkGoesOn
  <2>3. ~torn /\ frames # <<>> => frames' # <<>>
    <3>1. CASE UNCHANGED frames
      BY <3>1
    <3>2. CASE PatchFrame(s) /\ ~torn
      <4>1. setter[s].node \in Nodes /\ setter[s].star \in BOOLEAN
        BY <1>1 DEF CacheTypes
      <4>2. frames # <<>> => Patched(setter[s].node, setter[s].star) # <<>>
        BY <1>1, <3>2, <4>1, Patching
      <4> QED BY <3>2, <4>2 DEF PatchFrame
    <3> QED BY <1>7, <3>1, <3>2 DEF StoreStar, ReadStars, AssignStars
  <2> QED BY <1>1, <2>1, <2>2, <2>3 DEF Sides
<1>8. ASSUME NEW s \in Setters, NEW n \in Nodes, NEW star \in BOOLEAN, TellNode(s, n, star)
      PROVE  Sides'
  <2>1. /\ UNCHANGED <<stage, wire, capturing, torn, frames>>
        /\ fresh' \subseteq fresh /\ settled' \subseteq settled
        /\ capturing => n \notin settled'
    BY <1>8 DEF TellNode
  <2>2. \A m \in settled' : m # n => (Setting(m)' => Setting(m))
    BY <1>1, <1>3, <1>8, <2>1 DEF TellNode, Setting, CacheTypes
  <2>3. \A m \in settled' : capturing => ~Setting(m)'
    BY <1>1, <2>1, <2>2 DEF Sides
  <2> QED BY <2>1, <2>3, SidesQuiet
<1>9. CASE LoseLink
  <2>1. \A m \in settled : Setting(m)' => Setting(m)
    BY <1>9 DEF LoseLink, Setting
  <2>2. stage' = "down" /\ wire' = <<>> /\ fresh' = {} /\ UNCHANGED <<capturing, torn, frames, settled>>
    BY <1>9 DEF LoseLink
  <2> QED BY <1>1, <2>1, <2>2 DEF Sides
<1>10. CASE StartConfig
  <2>1. \A m \in settled' : m \in settled /\ ~Setting(m)'
    BY <1>10 DEF StartConfig, Setting
  <2>2. stage' = "asked" /\ capturing' /\ torn' = torn
    BY <1>10 DEF StartConfig
  <2> QED BY <1>1, <2>1, <2>2 DEF Sides
<1>11. ASSUME NEW n \in Nodes, BeginList \/ ListNode(n) \/ EndList PROVE Sides'
  <2>1. /\ stage \in {"asked", "list", "done"} /\ stage' # "down"
        /\ UNCHANGED <<capturing, torn, frames, settled, setter>>
    BY <1>11 DEF BeginList, ListNode, EndList
  <2>2. capturing
    BY <1>1, <2>1 DEF Sides, WireTypes
  <2> QED BY <1>1, <2>1, <2>2 DEF Sides, Setting
<1>12. CASE PassOn
  <2>1. Head(queue) \in Heard
    BY <1>1, <1>12 DEF PassOn, WireTypes
  <2>2. wire' = Append(wire, Head(queue))
    BY <1>12 DEF PassOn, Emit
  <2>3. (\A i \in DOMAIN wire : wire[i] \in Heard) => \A i \in DOMAIN wire' : wire'[i] \in Heard
    BY <1>1, <2>1, <2>2 DEF WireTypes
  <2>4. stage # "down" /\ UNCHANGED <<stage, capturing, torn, frames, settled, setter, fresh>>
    BY <1>12 DEF PassOn
  <2> QED BY <1>1, <2>3, <2>4 DEF Sides, Setting
<1>13. ASSUME NEW item, ReadFrame(item) \/ SkipPacket(item) PROVE Sides'
  <2>1. Take(item) /\ capturing /\ UNCHANGED <<stage, capturing, torn, settled, setter, fresh>>
    BY <1>13 DEF ReadFrame, SkipPacket
  <2>2. stage # "down"
    BY <2>1, ReaderFinds
  <2> QED BY <1>1, <2>1, <2>2 DEF Sides, Setting
<1>14. ASSUME NEW item, ReadPacket(item) PROVE Sides'
  <2>1. /\ Take(item) /\ ~capturing /\ IsPacket(item)
        /\ UNCHANGED <<stage, capturing, torn, settled, setter, fresh>>
        /\ frames' = RefreshFrame(item.from, item.user)
    BY <1>14 DEF ReadPacket
  <2>2. stage # "down" /\ item \in Heard
    BY <2>1, ReaderFinds
  <2>3. item.from \in Nodes /\ item.user \in BOOLEAN
    BY <2>2 DEF Heard
  <2>4. ~torn /\ frames # <<>> => frames' # <<>>
    BY <1>1, <2>1, <2>3, Refreshing
  <2>5. \A i \in DOMAIN wire' : wire'[i] \in Heard
    <3>1. \A i \in DOMAIN wire : wire[i] \in Heard
      BY <1>1, <2>1 DEF Sides
    <3> QED BY <1>1, <2>1, <3>1 DEF Take, WireTypes
  <2> QED BY <1>1, <2>1, <2>2, <2>4, <2>5 DEF Sides, Setting
<1>15. ASSUME NEW item, Complete(item) \/ FailComplete(item) PROVE Sides'
  <2>1. /\ Take(item) /\ ~IsPacket(item) /\ item.key = "complete"
        /\ UNCHANGED <<stage, setter>> /\ ~capturing'
        /\ Complete(item) => frames' = captured /\ ~torn'
        /\ FailComplete(item) => torn' /\ settled' = {}
    BY <1>15 DEF Complete, FailComplete
  <2>2. PICK T \in Seq(Frame), d \in Int :
                    /\ OnTheWire(T, d)
                    /\ stage = "idle" /\ d = Len(T) - 1 /\ Len(captured) = d
                    /\ Len(captured) >= 3
    BY <2>1, ReaderFinds
  <2>3. \A i \in DOMAIN wire' : wire'[i] \in Heard
    <3> SUFFICES ASSUME NEW i \in DOMAIN wire' PROVE wire'[i] \in Heard
      OBVIOUS
    <3>1. wire'[i] = wire[i + 1] /\ i + 1 \in DOMAIN wire /\ i \in Nat /\ i >= 1
      BY <1>1, <2>1 DEF Take, WireTypes
    <3>2. (i + 1) + d \notin DOMAIN T
      <4>1. d = Len(T) - 1 /\ Len(T) \in Nat /\ DOMAIN T = 1 .. Len(T)
        BY <2>2
      <4> QED BY <3>1, <4>1
    <3>3. Stream(T, d)
      BY <2>2 DEF OnTheWire
    <3> QED BY <3>1, <3>2, <3>3 DEF Stream
  <2>4. captured # <<>>
    BY <2>2
  <2> QED BY <1>15, <2>1, <2>2, <2>3, <2>4 DEF Sides
<1> QED BY <1>4, <1>5, <1>6, <1>7, <1>8, <1>9, <1>10, <1>11, <1>12, <1>13, <1>14, <1>15, NodeAssumption
    DEF Next

(* Every step keeps the handshake apps are given whole. *)
LEMMA WholeStep == ASSUME WireInv, [Next]_vars PROVE Whole'
<1> USE DEF node, table, history
<1>1. WireTypes /\ CacheTypes /\ Sides /\ Whole
  BY DEF WireInv
<1>2. CASE UNCHANGED <<frames, torn>>
  BY <1>1, <1>2 DEF Whole
<1>3. ASSUME NEW n \in Nodes, ListNode(n) \/ Evict(n) \/ StarElsewhere(n) \/ \E user \in BOOLEAN : Hear(n, user)
      PROVE  UNCHANGED <<frames, torn>>
  BY <1>3 DEF ListNode, Evict, StarElsewhere, Hear
<1>4. CASE BeginList \/ EndList \/ PassOn \/ LoseLink \/ StartConfig \/ ReadFavorites
             \/ AssignFavorites \/ ClearData \/ UNCHANGED vars
  BY <1>2, <1>4 DEF BeginList, EndList, PassOn, LoseLink, StartConfig, ReadFavorites,
     AssignFavorites, ClearData, vars
<1>5. ASSUME NEW item, ReadFrame(item) \/ SkipPacket(item) PROVE UNCHANGED <<frames, torn>>
  BY <1>5 DEF ReadFrame, SkipPacket
<1>6. ASSUME NEW s \in Setters, (\E n \in Nodes, star \in BOOLEAN : TellNode(s, n, star))
                \/ StoreStar(s) \/ ReadStars(s) \/ AssignStars(s)
      PROVE  UNCHANGED <<frames, torn>>
  BY <1>6 DEF TellNode, StoreStar, ReadStars, AssignStars
<1>7. ASSUME NEW s \in Setters, PatchFrame(s) PROVE Whole'
  <2>1. setter[s].node \in Nodes /\ setter[s].star \in BOOLEAN
    BY <1>1 DEF CacheTypes
  <2>2. torn' = torn /\ frames' = Patched(setter[s].node, setter[s].star)
    BY <1>7 DEF PatchFrame
  <2>3. ~torn => frames' \in Seq(Frame) /\ (frames' # <<>> => WholeOf(frames'))
    BY <1>1, <2>1, <2>2, Patching
  <2> QED BY <2>2, <2>3 DEF Whole, WholeOf, Listing
<1>8. ASSUME NEW item, ReadPacket(item) PROVE Whole'
  <2>1. /\ Take(item) /\ IsPacket(item) /\ torn' = torn
        /\ frames' = RefreshFrame(item.from, item.user)
    BY <1>8 DEF ReadPacket
  <2>2. item.from \in Nodes /\ item.user \in BOOLEAN
    BY <2>1, ReaderFinds DEF Heard
  <2>3. ~torn => frames' \in Seq(Frame) /\ (frames' # <<>> => WholeOf(frames'))
    BY <1>1, <2>1, <2>2, Refreshing
  <2> QED BY <2>1, <2>3 DEF Whole, WholeOf, Listing
<1>9. ASSUME NEW item, Complete(item) PROVE Whole'
  <2>1. /\ Take(item) /\ ~IsPacket(item) /\ item.key = "complete"
        /\ frames' = captured /\ Twice(captured) = {}
    BY <1>9 DEF Complete
  <2>2. Len(captured) >= 3 /\ Listing(captured, Len(captured) - 1) /\ captured[Len(captured)].key = "file"
    BY <2>1, ReaderFinds
  <2>3. \A i, j \in DOMAIN captured : captured[i].key = captured[j].key => i = j
    <3> SUFFICES ASSUME NEW i \in DOMAIN captured, NEW j \in DOMAIN captured,
                        captured[i].key = captured[j].key, i # j
                 PROVE  FALSE
      OBVIOUS
    <3>1. i \in Nat /\ j \in Nat /\ i >= 1 /\ j >= 1
      BY <1>1 DEF WireTypes
    <3>2. i \in 1 .. j - 1 \/ j \in 1 .. i - 1
      BY <3>1
    <3>3. i \in Twice(captured) \/ j \in Twice(captured)
      BY <3>2 DEF Twice
    <3> QED BY <2>1, <3>3
  <2>4. WholeOf(captured)
    BY <2>2, <2>3 DEF WholeOf
  <2>5. captured \in Seq(Frame)
    BY <1>1 DEF WireTypes
  <2>6. frames' \in Seq(Frame) /\ WholeOf(frames')
    BY <2>1, <2>4, <2>5
  <2> QED BY <2>6 DEF Whole, WholeOf, Listing
<1>10. ASSUME NEW item, FailComplete(item) PROVE Whole'
  BY <1>10 DEF FailComplete, Whole
<1> QED BY <1>2, <1>3, <1>4, <1>5, <1>6, <1>7, <1>8, <1>9, <1>10 DEF Next

-----------------------------------------------------------------------------
(* What the node has said of a star, and what was stored of it.            *)

(* A step that leaves the node's favourites and the table alone.           *)
LEMMA SaidSteady ==
    ASSUME NEW T \in Seq(Frame), Fresh(T), StillSaid(T), captured' = captured,
           fresh' \subseteq fresh, settled' \subseteq settled,
           \A n \in fresh' \cup settled' : (Setting(n)' => Setting(n)) /\ (n \in starred' <=> n \in starred),
           \A n \in fresh' : Agrees(n) => Agrees(n)'
    PROVE  Fresh(T)' /\ StillSaid(T)'
<1>1. ASSUME NEW n \in fresh'
      PROVE  ~Setting(n)' /\ \E k \in DOMAIN T : LastSaid(T, n, k)' /\ (k <= Len(captured') => Agrees(n)')
  <2>1. ~Setting(n) /\ \E k \in DOMAIN T : LastSaid(T, n, k) /\ (k <= Len(captured) => Agrees(n))
    BY DEF Fresh
  <2>2. PICK k \in DOMAIN T : LastSaid(T, n, k) /\ (k <= Len(captured) => Agrees(n))
    BY <2>1
  <2>3. (n \in starred') = (n \in starred)
    OBVIOUS
  <2>4. LastSaid(T, n, k)'
    BY <2>2, <2>3 DEF LastSaid
  <2> QED BY <2>1, <2>2, <2>4
<1>2. ASSUME NEW n \in settled'
      PROVE  ~Setting(n)' /\ \A k \in DOMAIN T : T[k].key = n => T[k] = Info(n, n \in starred')
  <2>1. (n \in starred') = (n \in starred)
    OBVIOUS
  <2> QED BY <2>1 DEF StillSaid
<1> QED BY <1>1, <1>2 DEF Fresh, StillSaid

(* The node's next frame says what it is then. *)
LEMMA SaidSent ==
    ASSUME NEW T \in Seq(Frame), Fresh(T), StillSaid(T), Len(captured) <= Len(T),
           UNCHANGED <<captured, setter, starred, settled, rows, stars>>,
           NEW key, NEW item, item.key = key,
           key \in Nodes => item = Info(key, key \in starred),
           fresh' = IF key \in Nodes /\ ~Setting(key) THEN fresh \cup {key} ELSE fresh,
           fresh \in SUBSET Nodes, settled \in SUBSET Nodes,
           item \in Frame
    PROVE  Fresh(Append(T, item))' /\ StillSaid(Append(T, item))'
<1> DEFINE U == Append(T, item)
<1>1. /\ Len(T) \in Nat /\ DOMAIN T = 1 .. Len(T) /\ DOMAIN U = 1 .. Len(T) + 1
      /\ U[Len(T) + 1] = item /\ \A i \in 1 .. Len(T) : U[i] = T[i]
  OBVIOUS
<1> HIDE DEF U
<1>2. \A n : Setting(n)' = Setting(n)
  BY DEF Setting
<1>3. \A n : Agrees(n)' = Agrees(n)
  BY DEF Agrees
<1>4. \A i \in 1 .. Len(T) + 1 : i \in 1 .. Len(T) \/ i = Len(T) + 1
  BY <1>1
<1>5. ASSUME NEW n \in fresh'
      PROVE  ~Setting(n) /\ \E k \in DOMAIN U : LastSaid(U, n, k) /\ (k <= Len(captured) => Agrees(n))
  <2>1. CASE n = key
    <3>1. n \in Nodes /\ ~Setting(n)
      BY <2>1 DEF Fresh
    <3>2. Len(T) + 1 \in DOMAIN U /\ ~(Len(T) + 1 <= Len(captured))
      <4>3. Len(T) + 1 <= Len(captured) => Len(T) + 1 <= Len(T)
        BY <1>1
      <4> QED BY <1>1, <4>3
    <3>3. LastSaid(U, n, Len(T) + 1)
      <4>1. U[Len(T) + 1] = Info(n, n \in starred)
        BY <1>1, <2>1, <3>1
      <4>2. \A j \in DOMAIN U : ~(j > Len(T) + 1)
        BY <1>1
      <4> QED BY <4>1, <4>2 DEF LastSaid
    <3> QED BY <3>1, <3>2, <3>3
  <2>2. CASE n # key
    <3>1. n \in fresh
      BY <2>2
    <3>2. PICK k \in DOMAIN T : LastSaid(T, n, k) /\ (k <= Len(captured) => Agrees(n))
      BY <3>1 DEF Fresh
    <3>3. LastSaid(U, n, k) /\ k \in DOMAIN U
      <4>1. k \in DOMAIN U /\ U[k] = Info(n, n \in starred)
        BY <1>1, <3>2 DEF LastSaid
      <4>2. \A j \in DOMAIN U : j > k => U[j].key # n
        BY <1>1, <1>4, <2>2, <3>2 DEF LastSaid
      <4> QED BY <4>1, <4>2 DEF LastSaid
    <3> QED BY <3>1, <3>2, <3>3 DEF Fresh
  <2> QED BY <2>1, <2>2
<1>6. ASSUME NEW n \in settled
      PROVE  ~Setting(n) /\ \A k \in DOMAIN U : U[k].key = n => U[k] = Info(n, n \in starred)
  BY <1>1, <1>4 DEF StillSaid
<1>7. \A n, k : LastSaid(U, n, k)' = LastSaid(U, n, k)
  BY DEF LastSaid
<1>8. Fresh(U)'
  BY <1>2, <1>3, <1>5, <1>7 DEF Fresh
<1>9. StillSaid(U)'
  BY <1>2, <1>6 DEF StillSaid
<1> QED BY <1>8, <1>9 DEF U

(* Reading a frame stores what it says. *)
LEMMA SaidRead ==
    ASSUME NEW T \in Seq(Frame), NEW d \in Int, Fresh(T), StillSaid(T),
           d >= 0, d < Len(T), Len(captured) = d, captured \in Seq(Frame), NEW item, item = T[d + 1],
           captured' = Append(captured, item),
           IF item.key \in Nodes THEN UpsertStar(item.key, item.star) ELSE UNCHANGED table,
           UNCHANGED <<setter, starred, settled, fresh>>, fresh \in SUBSET Nodes
    PROVE  Fresh(T)' /\ StillSaid(T)'
<1>1. Len(captured') = d + 1 /\ item \in Frame /\ d + 1 \in DOMAIN T
  <2>1. d + 1 \in DOMAIN T
    OBVIOUS
  <2>2. item \in Frame
    BY <2>1
  <2> QED BY <2>1, <2>2
<1>2. \A n : Setting(n)' = Setting(n)
  BY DEF Setting
<1>3. \A n, k : LastSaid(T, n, k)' = LastSaid(T, n, k)
  BY DEF LastSaid
<1>4. ASSUME NEW n \in fresh
      PROVE  ~Setting(n) /\ \E k \in DOMAIN T : LastSaid(T, n, k) /\ (k <= d + 1 => Agrees(n)')
  <2>1. ~Setting(n)
    BY DEF Fresh
  <2>2. PICK k \in DOMAIN T : LastSaid(T, n, k) /\ (k <= d => Agrees(n))
    BY DEF Fresh
  <2>3. k <= d + 1 => k <= d \/ k = d + 1
    <3>1. k \in Int
      OBVIOUS
    <3> QED BY <3>1
  <2>4. CASE k <= d
    <3>1. item.key # n
      <4>1. d + 1 > k
        <5>1. k \in Int
          OBVIOUS
        <5> QED BY <2>4, <5>1
      <4> QED BY <1>1, <2>2, <4>1 DEF LastSaid
    <3>2. Agrees(n)
      BY <2>2, <2>4
    <3>3. Agrees(n)'
      BY <3>1, <3>2 DEF Agrees, UpsertStar, table
    <3> QED BY <2>1, <2>2, <3>3
  <2>5. CASE k = d + 1
    <3>1. item = Info(n, n \in starred)
      BY <2>2, <2>5 DEF LastSaid
    <3>2. item.key = n /\ item.star = (n \in starred)
      BY <3>1 DEF Info
    <3>3. CASE n \in Nodes
      <4>1. rows' = rows \cup {n} /\ stars' = IF item.star THEN stars \cup {n} ELSE stars \ {n}
        BY <3>2, <3>3 DEF UpsertStar
      <4>2. Agrees(n)'
        BY <3>2, <4>1 DEF Agrees
      <4> QED BY <2>1, <2>2, <4>2
    <3>4. n \in Nodes
      OBVIOUS
    <3> QED BY <3>3, <3>4
  <2> QED BY <2>1, <2>2, <2>3, <2>4, <2>5
<1>5. Fresh(T)'
  BY <1>1, <1>2, <1>3, <1>4 DEF Fresh
<1>6. StillSaid(T)'
  BY <1>2 DEF StillSaid
<1> QED BY <1>5, <1>6

-----------------------------------------------------------------------------
(* Who is listed, or coming.                                               *)

(* A frame more is a node more.                                            *)
LEMMA FramedAppend ==
    ASSUME NEW T \in Seq(Frame), NEW item \in Frame
    PROVE  /\ Framed(T) \subseteq Framed(Append(T, item))
           /\ item.key \in Nodes => item.key \in Framed(Append(T, item))
<1> DEFINE U == Append(T, item)
<1>1. /\ DOMAIN T = 1 .. Len(T) /\ DOMAIN U = 1 .. Len(T) + 1 /\ Len(T) \in Nat
      /\ U[Len(T) + 1] = item /\ \A i \in 1 .. Len(T) : U[i] = T[i]
  OBVIOUS
<1> HIDE DEF U
<1>2. Framed(T) \subseteq Framed(U)
  BY <1>1 DEF Framed
<1>3. Len(T) + 1 \in DOMAIN U
  BY <1>1
<1>4. item.key \in Nodes => item.key \in Framed(U)
  BY <1>1, <1>3 DEF Framed
<1> QED BY <1>2, <1>4 DEF U

(* Reading takes nobody's packet from behind the handshake.                *)
LEMMA ListedRead ==
    ASSUME WireTypes, NEW T \in Seq(Frame), NEW d \in Int, d < Len(T), Listed(T, d), wire # <<>>,
           wire' = Tail(wire), UNCHANGED <<list, users, left, stage, queue>>
    PROVE  Listed(T, d + 1)'
<1>1. \A i \in DOMAIN wire : i + d > Len(T) =>
         \E j \in DOMAIN wire' : j + (d + 1) > Len(T) /\ wire'[j] = wire[i]
  <2> SUFFICES ASSUME NEW i \in DOMAIN wire, i + d > Len(T)
               PROVE  \E j \in DOMAIN wire' : j + (d + 1) > Len(T) /\ wire'[j] = wire[i]
    OBVIOUS
  <2>1. /\ wire \in Seq(Frame \cup Heard) /\ Len(wire) \in Nat /\ DOMAIN wire = 1 .. Len(wire)
        /\ Len(wire') = Len(wire) - 1 /\ DOMAIN wire' = 1 .. Len(wire) - 1
        /\ \A j \in 1 .. Len(wire) - 1 : wire'[j] = wire[j + 1]
    BY DEF WireTypes
  <2>2. i # 1
    <3>1. ~(1 + d > Len(T))
      OBVIOUS
    <3> QED BY <3>1
  <2>3. i - 1 \in 1 .. Len(wire) - 1 /\ (i - 1) + 1 = i /\ (i - 1) + (d + 1) = i + d
    BY <2>1, <2>2
  <2> QED BY <2>1, <2>3
<1>2. \A n : ComingAfter(n, T, d) => ComingAfter(n, T, d + 1)'
  BY <1>1 DEF ComingAfter
<1> QED BY <1>2 DEF Listed

(* Nor does passing a packet on: it goes from one queue to the other.      *)
LEMMA ListedPassed ==
    ASSUME WireTypes, NEW T \in Seq(Frame), NEW d \in Int, stage = "idle" => Len(T) <= Len(wire) + d,
           Listed(T, d), stage \in {"idle", "asked"}, queue # <<>>,
           wire' = Append(wire, Head(queue)), queue' = Tail(queue),
           UNCHANGED <<list, users, left, stage>>
    PROVE  \A x \in Int : x = d \/ stage = "asked" => Listed(T, x)'
<1>1. CASE stage = "asked"
  BY <1>1 DEF Listed
<1>2. CASE stage = "idle"
  <2>1. /\ wire \in Seq(Frame \cup Heard) /\ Len(wire) \in Nat /\ DOMAIN wire = 1 .. Len(wire)
        /\ DOMAIN wire' = 1 .. Len(wire) + 1 /\ wire'[Len(wire) + 1] = Head(queue)
        /\ \A j \in 1 .. Len(wire) : wire'[j] = wire[j]
    <3>1. wire \in Seq(Frame \cup Heard)
      BY DEF WireTypes
    <3> QED BY <3>1
  <2>2. /\ queue \in Seq(Heard) /\ Head(queue) = queue[1] /\ Len(queue) \in Nat
        /\ DOMAIN queue = 1 .. Len(queue) /\ DOMAIN queue' = 1 .. Len(queue) - 1
        /\ \A j \in 1 .. Len(queue) - 1 : queue'[j] = queue[j + 1]
    <3>1. queue \in Seq(Heard)
      BY DEF WireTypes
    <3> QED BY <3>1
  <2>3. (Len(wire) + 1) + d > Len(T)
    BY <1>2, <2>1
  <2>4. \A i \in DOMAIN queue : i = 1 \/ \E j \in DOMAIN queue' : queue'[j] = queue[i]
    <3> SUFFICES ASSUME NEW i \in DOMAIN queue, i # 1
                 PROVE  \E j \in DOMAIN queue' : queue'[j] = queue[i]
      OBVIOUS
    <3>1. i - 1 \in 1 .. Len(queue) - 1 /\ (i - 1) + 1 = i
      BY <2>2
    <3> QED BY <2>2, <3>1
  <2>5. ASSUME NEW n, ComingAfter(n, T, d) PROVE ComingAfter(n, T, d)'
    <3>1. CASE \E i \in DOMAIN queue : queue[i] = Packet(n, TRUE)
      <4>1. PICK i \in DOMAIN queue : queue[i] = Packet(n, TRUE)
        BY <3>1
      <4>2. CASE i = 1
        <5>0. queue[1] = Packet(n, TRUE)
          BY <4>1, <4>2
        <5>1. wire'[Len(wire) + 1] = Packet(n, TRUE) /\ Len(wire) + 1 \in DOMAIN wire'
          <6>1. wire'[Len(wire) + 1] = queue[1]
            BY <2>1, <2>2
          <6>2. Len(wire) + 1 \in 1 .. Len(wire) + 1
            BY <2>1
          <6> QED BY <2>1, <5>0, <6>1, <6>2
        <5> QED BY <2>3, <5>1 DEF ComingAfter
      <4>3. CASE i # 1
        BY <2>4, <4>1, <4>3 DEF ComingAfter
      <4> QED BY <4>2, <4>3
    <3>2. CASE \E i \in DOMAIN wire : i + d > Len(T) /\ wire[i] = Packet(n, TRUE)
      <4>1. PICK i \in DOMAIN wire : i + d > Len(T) /\ wire[i] = Packet(n, TRUE)
        BY <3>2
      <4>2. i \in DOMAIN wire' /\ wire'[i] = Packet(n, TRUE)
        BY <2>1, <4>1
      <4> QED BY <4>1, <4>2 DEF ComingAfter
    <3> QED BY <2>5, <3>1, <3>2 DEF ComingAfter
  <2>6. Listed(T, d)'
    BY <1>2, <2>5 DEF Listed
  <2> QED BY <1>2, <2>6
<1> QED BY <1>1, <1>2

(* A frame sent lists its node.                                            *)
LEMMA ListedSent ==
    ASSUME WireTypes, NEW T \in Seq(Frame), NEW d \in Int, Len(T) = Len(wire) + d,
           Listed(T, d), NEW item \in Frame, UNCHANGED <<list, users, queue>>, stage # "idle",
           \/ stage = "asked" /\ stage' = "list" /\ left' = list
           \/ stage = "list" /\ stage' = "list" /\ item.key \in Nodes /\ left' = left \ {item.key}
           \/ stage = "list" /\ stage' = "done" /\ left = {} /\ left' = left
           \/ stage = "done" /\ stage' = "idle"
    PROVE  Listed(Append(T, item), d)'
<1>0. PICK U : U = Append(T, item)
  OBVIOUS
<1> SUFFICES Listed(U, d)'
  BY <1>0
<1>1. Framed(T) \subseteq Framed(U) /\ (item.key \in Nodes => item.key \in Framed(U))
  BY <1>0, FramedAppend
<1>2. \A i \in DOMAIN wire : ~(i + d > Len(T))
  <2>1. \A i \in DOMAIN wire : i \in Int /\ i <= Len(wire) /\ Len(wire) \in Int
    BY DEF WireTypes
  <2> QED BY <2>1
<1>3. CASE stage = "asked"
  BY <1>3 DEF Listed
<1>4. CASE stage = "list"
  <2>0. list \subseteq Framed(T) \cup left
    BY <1>4 DEF Listed
  <2>1. CASE stage' = "list" /\ item.key \in Nodes /\ left' = left \ {item.key}
    <3>1. list' \subseteq Framed(U) \cup left'
      BY <1>1, <2>0, <2>1
    <3> QED BY <2>1, <3>1 DEF Listed
  <2>2. CASE stage' = "done" /\ left = {}
    <3>1. \A n \in list' \cap users' : n \in Framed(U)
      BY <1>1, <2>0, <2>2
    <3> QED BY <2>2, <3>1 DEF Listed
  <2> QED BY <1>4, <2>1, <2>2
<1>5. CASE stage = "done"
  <2>1. stage' = "idle"
    BY <1>5
  <2>2. \A n \in list \cap users : n \in Framed(U) \/ \E i \in DOMAIN queue : queue[i] = Packet(n, TRUE)
    BY <1>1, <1>2, <1>5 DEF Listed, ComingAfter
  <2>3. \A n \in list' \cap users' :
           n \in Framed(U) \/ \E i \in DOMAIN queue' : queue'[i] = Packet(n, TRUE)
    BY <2>2
  <2>4. \A n \in list' \cap users' : n \in Framed(U) \/ ComingAfter(n, U, d)'
    BY <2>3 DEF ComingAfter
  <2> QED BY <2>1, <2>4 DEF Listed
<1>6. stage \in {"asked", "list", "done"}
  OBVIOUS
<1> QED BY <1>0, <1>3, <1>4, <1>5, <1>6

(* A node heard of late comes in a packet.                                 *)
LEMMA ListedHeard ==
    ASSUME WireTypes, NEW T \in Seq(Frame), NEW d \in Int, Listed(T, d),
           NEW n \in Nodes, NEW user \in BOOLEAN, Hear(n, user)
    PROVE  Listed(T, d)'
<1>1. /\ list' = list \cup {n} /\ users' = (IF user THEN users \cup {n} ELSE users)
      /\ left' = (IF stage = "list" /\ n \notin list THEN left \cup {n} ELSE left)
      /\ queue' = Append(queue, Packet(n, user))
      /\ UNCHANGED <<stage, wire>>
  BY DEF Hear
<1>2. users \subseteq list /\ queue \in Seq(Heard)
  BY DEF WireTypes
<1>3. /\ DOMAIN queue' = 1 .. Len(queue) + 1 /\ queue'[Len(queue) + 1] = Packet(n, user)
      /\ \A i \in DOMAIN queue : i \in DOMAIN queue' /\ queue'[i] = queue[i]
      /\ Len(queue) + 1 \in DOMAIN queue'
  BY <1>1, <1>2
<1>4. \A m : ComingAfter(m, T, d) => ComingAfter(m, T, d)'
  BY <1>1, <1>3 DEF ComingAfter
<1>5. user => ComingAfter(n, T, d)'
  BY <1>3 DEF ComingAfter
<1>6. \A m \in list' \cap users' : m \in list \cap users \/ (m = n /\ user)
  BY <1>1, <1>2
<1>7. stage = "list" => list' \subseteq Framed(T) \cup left'
  BY <1>1 DEF Listed
<1>8. stage \in {"done", "idle"} =>
         \A m \in list' \cap users' : m \in Framed(T) \/ ComingAfter(m, T, d)'
  BY <1>4, <1>5, <1>6 DEF Listed
<1> QED BY <1>1, <1>7, <1>8 DEF Listed

(* Every step of a handshake keeps all that: one that sends and reads      *)
(* nothing, ...                                                            *)
LEMMA FlowSteady ==
    ASSUME WireInv, capturing, stage # "down", Flow, Sides',
           UNCHANGED <<stage, wire, captured, capturing>>,
           Me \in left => Me \in left',
           \A T \in Seq(Frame), d \in Int : Listed(T, d) => Listed(T, d)',
           fresh' \subseteq fresh, settled' \subseteq settled,
           \A n \in fresh' \cup settled' : (Setting(n)' => Setting(n)) /\ (n \in starred' <=> n \in starred),
           \A n \in fresh' : Agrees(n) => Agrees(n)'
    PROVE  Flow'
<1>1. PICK T \in Seq(Frame), d \in Int : OnTheWire(T, d)
  BY DEF Flow
<1>2. Stream(T, d)'
  BY <1>1 DEF OnTheWire, Stream
<1>3. Shape(T)'
  BY <1>1 DEF OnTheWire, Shape, Listing, WireInv, WireTypes
<1>4. Listed(T, d)'
  BY <1>1 DEF OnTheWire
<1>5. Fresh(T)' /\ StillSaid(T)'
  BY <1>1, SaidSteady DEF OnTheWire
<1> QED BY <1>2, <1>3, <1>4, <1>5 DEF Flow, OnTheWire

(* What the node hears, evicts and is told, ...                            *)
LEMMA FlowOfNode ==
    ASSUME WireInv, capturing, stage # "down", Flow, Sides', NEW n \in Nodes,
           Evict(n) \/ StarElsewhere(n) \/ \E user \in BOOLEAN : Hear(n, user)
    PROVE  Flow'
<1> USE DEF node, table, history
<1>1. WireTypes
  BY DEF WireInv
<1>2. /\ UNCHANGED <<stage, wire, captured, capturing, setter, rows, stars>>
      /\ Me \in left => Me \in left'
      /\ fresh' \subseteq fresh /\ settled' \subseteq settled
      /\ \A m \in fresh' \cup settled' : m \in starred' <=> m \in starred
  BY DEF Evict, StarElsewhere, Hear
<1>3. \A T \in Seq(Frame), d \in Int : Listed(T, d) => Listed(T, d)'
  <2> TAKE T \in Seq(Frame), d \in Int
  <2> HAVE Listed(T, d)
  <2>1. CASE Evict(n)
    <3>1. UNCHANGED <<stage, wire, queue>> /\ list' = list \ {n} /\ users' = users \ {n} /\ left' = left \ {n}
      BY <2>1 DEF Evict
    <3> QED BY <3>1 DEF Listed, ComingAfter
  <2>2. CASE StarElsewhere(n)
    <3>1. UNCHANGED <<stage, wire, queue, list, users, left>>
      BY <2>2 DEF StarElsewhere
    <3> QED BY <3>1 DEF Listed, ComingAfter
  <2>3. ASSUME NEW user \in BOOLEAN, Hear(n, user) PROVE Listed(T, d)'
    BY <1>1, <2>3, ListedHeard
  <2> QED BY <2>1, <2>2, <2>3
<1>4. \A m \in fresh' \cup settled' : Setting(m)' => Setting(m)
  BY <1>2 DEF Setting
<1>5. \A m \in fresh' : Agrees(m) => Agrees(m)'
  BY <1>2 DEF Agrees
<1> QED BY <1>2, <1>3, <1>4, <1>5, FlowSteady

(* ... what the threads do, ...                                            *)
LEMMA FlowOfThreads ==
    ASSUME WireInv, capturing, stage # "down", Flow, Sides',
           \/ ReadFavorites \/ AssignFavorites \/ ClearData \/ UNCHANGED vars
           \/ \E s \in Setters : \/ \E n \in Nodes, star \in BOOLEAN : TellNode(s, n, star)
                                 \/ StoreStar(s) \/ PatchFrame(s) \/ ReadStars(s) \/ AssignStars(s)
    PROVE  Flow'
<1> USE DEF node, table, history
<1>1. WireTypes /\ CacheTypes
  BY DEF WireInv
<1>2. /\ UNCHANGED <<stage, wire, captured, capturing, left, list, users, queue>>
      /\ fresh' \subseteq fresh /\ settled' \subseteq settled
  BY DEF ReadFavorites, AssignFavorites, ClearData, TellNode, StoreStar, PatchFrame, ReadStars,
     AssignStars, vars
<1>3. \A T \in Seq(Frame), d \in Int : Listed(T, d) => Listed(T, d)'
  BY <1>2 DEF Listed, ComingAfter
<1>4. \A n \in fresh : ~Setting(n)
  BY DEF Flow, OnTheWire, Fresh
<1>5. fresh' \cup settled' \subseteq Nodes
  BY <1>1, <1>2 DEF WireTypes
<1>6. ASSUME NEW s \in Setters, NEW n \in Nodes, NEW star \in BOOLEAN, TellNode(s, n, star)
      PROVE  Flow'
  <2>1. /\ n \notin fresh' \cup settled' /\ UNCHANGED <<rows, stars>>
        /\ \A m \in Nodes : m # n => (m \in starred' <=> m \in starred)
    BY <1>6 DEF TellNode
  <2>2. \A m \in Nodes : m # n => (Setting(m)' => Setting(m))
    BY <1>1, <1>6 DEF TellNode, Setting, CacheTypes
  <2>3. \A m \in fresh' \cup settled' : (Setting(m)' => Setting(m)) /\ (m \in starred' <=> m \in starred)
    BY <1>5, <2>1, <2>2
  <2>4. \A m \in fresh' : Agrees(m) => Agrees(m)'
    BY <2>1, <2>3 DEF Agrees
  <2> QED BY <1>2, <1>3, <2>3, <2>4, FlowSteady
<1>7. ASSUME NEW s \in Setters, StoreStar(s) \/ PatchFrame(s) \/ ReadStars(s) \/ AssignStars(s)
      PROVE  Flow'
  <2>1. UNCHANGED <<starred, fresh>>
    BY <1>7 DEF StoreStar, PatchFrame, ReadStars, AssignStars
  <2>2. \A m \in Nodes : Setting(m)' => Setting(m)
    BY <1>1, <1>7, WorkGoesOn
  <2>3. \A m \in fresh' \cup settled' : (Setting(m)' => Setting(m)) /\ (m \in starred' <=> m \in starred)
    BY <1>5, <2>1, <2>2
  <2>4. \A m \in fresh' : Agrees(m) => Agrees(m)'
    <3>1. CASE UNCHANGED <<rows, stars>>
      BY <2>1, <3>1 DEF Agrees
    <3>2. CASE StoreStar(s)
      <4>1. Setting(setter[s].node)
        BY <3>2 DEF StoreStar, Setting
      <4>2. \A m \in fresh : m # setter[s].node
        BY <1>4, <4>1
      <4>3. UpsertStar(setter[s].node, setter[s].star)
        BY <3>2 DEF StoreStar
      <4> QED BY <2>1, <4>2, <4>3 DEF Agrees, UpsertStar
    <3> QED BY <1>7, <3>1, <3>2 DEF PatchFrame, ReadStars, AssignStars
  <2> QED BY <1>2, <1>3, <2>3, <2>4, FlowSteady
<1>8. CASE ReadFavorites \/ AssignFavorites \/ ClearData \/ UNCHANGED vars
  <2>1. /\ UNCHANGED <<starred, setter>>
        /\ fresh' # {} => UNCHANGED <<rows, stars>>
    BY <1>8 DEF ReadFavorites, AssignFavorites, ClearData, vars
  <2>2. \A m \in fresh' \cup settled' : (Setting(m)' => Setting(m)) /\ (m \in starred' <=> m \in starred)
    BY <2>1 DEF Setting
  <2>3. \A m \in fresh' : Agrees(m) => Agrees(m)'
    BY <2>1 DEF Agrees
  <2> QED BY <1>2, <1>3, <2>2, <2>3, FlowSteady
<1> QED BY <1>6, <1>7, <1>8

(* ... what the node sends, ...                                            *)
LEMMA FlowOfSending ==
    ASSUME WireInv, capturing, stage # "down", Flow, NEW n \in Nodes, BeginList \/ ListNode(n) \/ EndList
    PROVE  Flow'
<1> USE DEF node, table, history
<1>1. WireTypes /\ CacheTypes
  BY DEF WireInv
<1>2. PICK T \in Seq(Frame), d \in Int : OnTheWire(T, d)
  BY DEF Flow
<1>3. /\ stage \in {"asked", "list", "done"} /\ UNCHANGED <<captured, setter, starred, settled, rows, stars>>
      /\ UNCHANGED <<list, users, queue>>
  BY DEF BeginList, ListNode, EndList
<1>4. Len(T) = Len(wire) + d /\ Stream(T, d) /\ Shape(T) /\ Listed(T, d) /\ Fresh(T) /\ StillSaid(T)
  BY <1>2, <1>3 DEF OnTheWire, Stream
<1>5. Len(captured) <= Len(T) /\ left \in SUBSET Nodes /\ fresh \in SUBSET Nodes /\ settled \in SUBSET Nodes
  <2>1. Len(captured) = (IF d > 0 THEN d ELSE 0) /\ Len(wire) \in Nat /\ Len(T) \in Nat
    BY <1>1, <1>4 DEF Stream, WireTypes
  <2> QED BY <1>1, <1>4, <2>1 DEF WireTypes
<1>6. {"my_info", "file", "complete"} \cap Nodes = {} /\ Me \in Nodes
  BY NodeAssumption
<1>7. ASSUME NEW item \in Frame, Emit(item), item.key \in Nodes => item = Info(item.key, item.key \in starred),
             fresh' = (IF item.key \in Nodes /\ ~Setting(item.key) THEN fresh \cup {item.key} ELSE fresh),
             \/ stage = "asked" /\ stage' = "list" /\ left' = list /\ item.key = "my_info"
             \/ stage = "list" /\ stage' = "list" /\ item.key \in Nodes /\ left' = left \ {item.key}
                  /\ (Me \in left => item.key = Me)
             \/ stage = "list" /\ stage' = "done" /\ left = {} /\ left' = left /\ item.key = "file"
             \/ stage = "done" /\ stage' = "idle" /\ item.key = "complete"
      PROVE  Flow'
  <2>1. wire' = Append(wire, item) /\ Append(T, item) \in Seq(Frame)
    BY <1>7 DEF Emit
  <2>2. stage # "idle" /\ (stage = "asked" => Me \in left')
    BY <1>1, <1>7 DEF WireTypes
  <2>3. Stream(Append(T, item), d)'
    BY <1>1, <1>3, <1>4, <2>1, <2>2, StreamSent
  <2>4. Listed(Append(T, item), d)'
    BY <1>1, <1>3, <1>4, <1>7, <2>2, ListedSent
  <2>5. Fresh(Append(T, item))' /\ StillSaid(Append(T, item))'
    BY <1>3, <1>4, <1>5, <1>7, SaidSent
  <2>6. Shape(Append(T, item))'
    BY <1>4, <1>5, <1>7, <2>2, ShapeSent
  <2> QED BY <2>1, <2>3, <2>4, <2>5, <2>6 DEF Flow, OnTheWire
<1>8. ASSUME NEW key \in {"my_info", "file", "complete"}, Emit(Info(key, FALSE)), fresh' = fresh,
             \/ stage = "asked" /\ stage' = "list" /\ left' = list /\ key = "my_info"
             \/ stage = "list" /\ stage' = "done" /\ left = {} /\ left' = left /\ key = "file"
             \/ stage = "done" /\ stage' = "idle" /\ key = "complete"
      PROVE  Flow'
  <2>1. PICK item : item = Info(key, FALSE)
    OBVIOUS
  <2>2. item \in Frame /\ item.key = key /\ key \notin Nodes
    BY <1>6, <2>1, InfoIsFrame
  <2>3. Emit(item)
    BY <1>8, <2>1 DEF Emit
  <2> QED BY <1>7, <1>8, <2>2, <2>3
<1>9. CASE BeginList \/ EndList
  BY <1>8, <1>9 DEF BeginList, EndList
<1>10. CASE ListNode(n)
  <2>1. PICK item : item = Info(n, n \in starred)
    OBVIOUS
  <2>2. item \in Frame /\ item.key = n
    BY <2>1, NodeSays
  <2>3. /\ Emit(item) /\ stage = "list" /\ stage' = "list" /\ left' = left \ {n}
        /\ Me \in left => n = Me
        /\ fresh' = IF Setting(n) THEN fresh ELSE fresh \cup {n}
    BY <1>10, <2>1 DEF ListNode, Emit
  <2> QED BY <1>7, <2>1, <2>2, <2>3
<1> QED BY <1>9, <1>10

(* ... passes on ...                                                       *)
LEMMA FlowOfPassing ==
    ASSUME WireInv, capturing, stage # "down", Flow, PassOn
    PROVE  Flow'
<1> USE DEF node, table, history
<1>1. WireTypes /\ CacheTypes
  BY DEF WireInv
<1>2. PICK T \in Seq(Frame), d \in Int : OnTheWire(T, d)
  BY DEF Flow
<1>3. /\ stage \in {"idle", "asked"} /\ UNCHANGED <<captured, setter, starred, settled, fresh, rows, stars>>
      /\ UNCHANGED <<list, users, left, stage>> /\ queue # <<>>
      /\ wire' = Append(wire, Head(queue)) /\ queue' = Tail(queue)
  BY DEF PassOn, Emit
<1>4. Stream(T, d) /\ Shape(T) /\ Listed(T, d) /\ Fresh(T) /\ StillSaid(T)
      /\ (stage = "idle" => Len(T) <= Len(wire) + d)
  BY <1>2 DEF OnTheWire, Stream
<1>5. Head(queue) \in Heard
  BY <1>1, <1>3 DEF WireTypes
<1>6. /\ stage = "idle" => Stream(T, d)'
      /\ stage = "asked" => T = <<>> /\ Stream(T, d - 1)'
  BY <1>1, <1>3, <1>4, <1>5, StreamPassed
<1>7. \A x \in Int : x = d \/ stage = "asked" => Listed(T, x)'
  BY <1>1, <1>3, <1>4, ListedPassed
<1>8. Fresh(T)' /\ StillSaid(T)'
  <2>1. \A n : (Setting(n)' => Setting(n)) /\ (Agrees(n) => Agrees(n)')
    BY <1>3 DEF Setting, Agrees
  <2> QED BY <1>3, <1>4, <2>1, SaidSteady
<1>9. Shape(T)'
  BY <1>3, <1>4 DEF Shape, Listing
<1>10. CASE stage = "idle"
  BY <1>6, <1>7, <1>8, <1>9, <1>10 DEF Flow, OnTheWire
<1>11. CASE stage = "asked"
  <2>1. d - 1 \in Int
    OBVIOUS
  <2> QED BY <1>6, <1>7, <1>8, <1>9, <1>11, <2>1 DEF Flow, OnTheWire
<1> QED BY <1>3, <1>10, <1>11

(* ... and what is read of it.                                             *)
LEMMA FlowOfReading ==
    ASSUME WireInv, capturing, NEW item, ReadFrame(item) \/ SkipPacket(item)
    PROVE  Flow'
<1> USE DEF node, table, history
<1>1. WireTypes /\ CacheTypes
  BY DEF WireInv
<1>2. Take(item) /\ wire # <<>> /\ item = Head(wire) /\ wire' = Tail(wire) /\ stage # "down"
  BY ReaderFinds DEF ReadFrame, SkipPacket, Take
<1>3. PICK T \in Seq(Frame), d \in Int : OnTheWire(T, d)
  BY <1>2 DEF WireInv, Flow
<1>4. /\ UNCHANGED <<stage, setter, starred, settled, fresh, list, users, left, queue>>
  BY DEF ReadFrame, SkipPacket
<1>5. Stream(T, d) /\ Shape(T) /\ Listed(T, d) /\ Fresh(T) /\ StillSaid(T)
  BY <1>3 DEF OnTheWire
<1>6. /\ d < Len(T)
      /\ d >= 0 => Head(wire) = T[d + 1] /\ ~IsPacket(Head(wire)) /\ Len(captured) = d
      /\ d < 0 => IsPacket(Head(wire)) /\ captured = <<>>
  BY <1>1, <1>2, <1>5, NextRead
<1>7. Listed(T, d + 1)'
  BY <1>1, <1>2, <1>4, <1>5, <1>6, ListedRead
<1>8. Shape(T)'
  BY <1>4, <1>5 DEF Shape, Listing
<1>9. CASE ReadFrame(item)
  <2>1. /\ ~IsPacket(item) /\ item.key # "complete" /\ captured' = Append(captured, item)
        /\ IF item.key \in Nodes THEN UpsertStar(item.key, item.star) ELSE UNCHANGED table
    BY <1>9 DEF ReadFrame
  <2>2. d >= 0 /\ item = T[d + 1] /\ Len(captured) = d
    BY <1>2, <1>6, <2>1
  <2>3. captured' = IF d >= 0 THEN Append(captured, Head(wire)) ELSE captured
    BY <1>2, <2>1, <2>2
  <2>4. stage = "idle" => d + 1 < Len(T)
    <3> SUFFICES ASSUME stage = "idle" PROVE d + 1 < Len(T)
      OBVIOUS
    <3>1. T[Len(T)].key = "complete"
      BY <1>5 DEF Shape
    <3>2. d + 1 # Len(T)
      BY <2>1, <2>2, <3>1
    <3>3. Len(T) \in Int
      OBVIOUS
    <3> QED BY <1>6, <3>2, <3>3
  <2>5. Stream(T, d + 1)'
    BY <1>1, <1>2, <1>4, <1>5, <2>3, <2>4, StreamRead
  <2>6. Fresh(T)' /\ StillSaid(T)'
    <3>1. captured \in Seq(Frame) /\ fresh \in SUBSET Nodes
      BY <1>1 DEF WireTypes
    <3> QED BY <1>4, <1>5, <1>6, <2>1, <2>2, <3>1, SaidRead
  <2>7. d + 1 \in Int
    OBVIOUS
  <2> QED BY <1>7, <1>8, <2>5, <2>6, <2>7 DEF Flow, OnTheWire
<1>10. CASE SkipPacket(item)
  <2>1. IsPacket(item) /\ UNCHANGED <<captured, rows, stars>>
    BY <1>10 DEF SkipPacket
  <2>2. ~(d >= 0)
    BY <1>2, <1>6, <2>1
  <2>3. captured' = IF d >= 0 THEN Append(captured, Head(wire)) ELSE captured
    BY <2>1, <2>2
  <2>4. stage = "idle" => d + 1 < Len(T)
    <3> SUFFICES ASSUME stage = "idle" PROVE d + 1 < Len(T)
      OBVIOUS
    <3>1. Len(T) >= 4 /\ Len(T) \in Nat
      BY <1>5 DEF Shape
    <3> QED BY <2>2, <3>1
  <2>5. Stream(T, d + 1)'
    BY <1>1, <1>2, <1>4, <1>5, <2>3, <2>4, StreamRead
  <2>6. Fresh(T)' /\ StillSaid(T)'
    <3>1. \A n : (Setting(n)' => Setting(n)) /\ (Agrees(n) => Agrees(n)')
      BY <1>4, <2>1 DEF Setting, Agrees
    <3> QED BY <1>4, <1>5, <2>1, <3>1, SaidSteady
  <2>7. d + 1 \in Int
    OBVIOUS
  <2> QED BY <1>7, <1>8, <2>5, <2>6, <2>7 DEF Flow, OnTheWire
<1> QED BY <1>9, <1>10

(* A handshake begins empty, and every step keeps it.                      *)
LEMMA FlowStep ==
    ASSUME WireInv, [Next]_vars, Sides', capturing', stage' # "down"
    PROVE  Flow'
<1> USE DEF node, table, history
<1>0. /\ WireTypes /\ Sides
      /\ capturing /\ stage # "down" => Flow
      /\ Me \in Nodes
  BY NodeAssumption DEF WireInv
<1>1. ASSUME NEW n \in Nodes, Evict(n) \/ StarElsewhere(n) \/ \E user \in BOOLEAN : Hear(n, user)
      PROVE  Flow'
  <2>1. UNCHANGED <<stage, capturing>>
    BY <1>1 DEF Evict, StarElsewhere, Hear
  <2> QED BY <1>0, <1>1, <2>1, FlowOfNode
<1>2. CASE \/ ReadFavorites \/ AssignFavorites \/ ClearData \/ UNCHANGED vars
           \/ \E s \in Setters : \/ \E n \in Nodes, star \in BOOLEAN : TellNode(s, n, star)
                                 \/ StoreStar(s) \/ PatchFrame(s) \/ ReadStars(s) \/ AssignStars(s)
  <2>1. UNCHANGED <<stage, capturing>>
    BY <1>2 DEF ReadFavorites, AssignFavorites, ClearData, TellNode, StoreStar, PatchFrame, ReadStars,
       AssignStars, vars
  <2> QED BY <1>0, <1>2, <2>1, FlowOfThreads
<1>3. ASSUME NEW n \in Nodes, BeginList \/ ListNode(n) \/ EndList PROVE Flow'
  <2>1. stage \in {"asked", "list", "done"} /\ capturing' = capturing
    BY <1>3 DEF BeginList, ListNode, EndList
  <2> QED BY <1>0, <1>3, <2>1, FlowOfSending
<1>4. CASE PassOn
  <2>1. stage \in {"asked", "idle"} /\ capturing' = capturing
    BY <1>4 DEF PassOn
  <2> QED BY <1>0, <1>4, <2>1, FlowOfPassing
<1>5. ASSUME NEW item, ReadFrame(item) \/ SkipPacket(item) PROVE Flow'
  <2>1. capturing
    BY <1>5 DEF ReadFrame, SkipPacket
  <2> QED BY <1>5, <2>1, FlowOfReading
<1>6. ASSUME NEW item, ReadPacket(item) \/ Complete(item) \/ FailComplete(item) PROVE FALSE
  BY <1>6 DEF ReadPacket, Complete, FailComplete
<1>7. ~LoseLink
  BY DEF LoseLink
<1>8. CASE StartConfig
  <2>1. /\ stage' = "asked" /\ captured' = <<>> /\ wire' = <<>> /\ fresh' = {}
    BY <1>0, <1>8 DEF StartConfig, Sides
  <2>2. <<>> \in Seq(Frame) /\ 0 \in Int /\ Len(<<>>) = 0 /\ DOMAIN <<>> = {}
    OBVIOUS
  <2>3. Stream(<<>>, 0)'
    BY <2>1, <2>2 DEF Stream
  <2>4. Shape(<<>>)' /\ Listed(<<>>, 0)' /\ Fresh(<<>>)'
    BY <2>1 DEF Shape, Listed, Fresh
  <2>5. StillSaid(<<>>)'
    BY <2>2 DEF StillSaid, Sides
  <2> QED BY <2>2, <2>3, <2>4, <2>5 DEF Flow, OnTheWire
<1> QED BY <1>0, <1>1, <1>2, <1>3, <1>4, <1>5, <1>6, <1>7, <1>8 DEF Next

-----------------------------------------------------------------------------
(* The list apps are given, when nothing is on its way.                    *)

(* A step that adds nobody and takes nobody away.                          *)
LEMMA ListedSteady ==
    ASSUME AllListed, stage' = "idle" /\ ~capturing' /\ ~torn' => stage = "idle" /\ ~capturing /\ ~torn,
           list' \subseteq list, users' \subseteq users, UNCHANGED <<queue, wire>>,
           Framed(frames) \subseteq Framed(frames')
    PROVE  AllListed'
BY DEF AllListed, Coming

(* Every step keeps everybody listed or coming.                            *)
LEMMA AllListedStep == ASSUME WireInv, [Next]_vars PROVE AllListed'
<1> USE DEF node, table, history
<1>0. WireTypes /\ CacheTypes /\ Sides /\ Whole /\ AllListed /\ Me \in Nodes
  BY NodeAssumption DEF WireInv
<1>1. ASSUME NEW n \in Nodes, Evict(n) \/ StarElsewhere(n) PROVE AllListed'
  <2>1. /\ UNCHANGED <<stage, capturing, torn, queue, wire, frames>>
        /\ list' \subseteq list /\ users' \subseteq users
    BY <1>1 DEF Evict, StarElsewhere
  <2> QED BY <1>0, <2>1, ListedSteady
<1>2. ASSUME NEW n \in Nodes, NEW user \in BOOLEAN, Hear(n, user) PROVE AllListed'
  <2>1. /\ list' = list \cup {n} /\ users' = (IF user THEN users \cup {n} ELSE users)
        /\ queue' = Append(queue, Packet(n, user))
        /\ UNCHANGED <<stage, wire, capturing, torn, frames>>
    BY <1>2 DEF Hear
  <2>2. users \subseteq list /\ queue \in Seq(Heard)
    BY <1>0 DEF WireTypes
  <2>3. /\ DOMAIN queue' = 1 .. Len(queue) + 1 /\ queue'[Len(queue) + 1] = Packet(n, user)
        /\ \A i \in DOMAIN queue : i \in DOMAIN queue' /\ queue'[i] = queue[i]
        /\ Len(queue) + 1 \in DOMAIN queue'
    BY <2>1, <2>2
  <2>4. (\A m : Coming(m) => Coming(m)') /\ (user => Coming(n)')
    BY <2>1, <2>3 DEF Coming
  <2>5. \A m \in list' \cap users' : m \in list \cap users \/ (m = n /\ user)
    BY <2>1, <2>2
  <2> QED BY <1>0, <2>1, <2>4, <2>5 DEF AllListed
<1>3. CASE PassOn
  <2>1. /\ UNCHANGED <<stage, capturing, torn, list, users, frames>> /\ queue # <<>>
        /\ wire' = Append(wire, Head(queue)) /\ queue' = Tail(queue)
    BY <1>3 DEF PassOn, Emit
  <2>2. queue \in Seq(Heard) /\ wire \in Seq(Frame \cup Heard)
    BY <1>0 DEF WireTypes
  <2>3. /\ \A i \in DOMAIN wire : i \in DOMAIN wire' /\ wire'[i] = wire[i]
        /\ Len(wire) + 1 \in DOMAIN wire' /\ wire'[Len(wire) + 1] = queue[1]
    BY <2>1, <2>2
  <2>4. \A i \in DOMAIN queue : i = 1 \/ \E j \in DOMAIN queue' : queue'[j] = queue[i]
    <3> SUFFICES ASSUME NEW i \in DOMAIN queue, i # 1
                 PROVE  \E j \in DOMAIN queue' : queue'[j] = queue[i]
      OBVIOUS
    <3>1. /\ Len(queue) \in Nat /\ DOMAIN queue = 1 .. Len(queue) /\ DOMAIN queue' = 1 .. Len(queue) - 1
          /\ \A j \in 1 .. Len(queue) - 1 : queue'[j] = queue[j + 1]
      BY <2>1, <2>2
    <3>2. i - 1 \in 1 .. Len(queue) - 1 /\ (i - 1) + 1 = i
      BY <3>1
    <3> QED BY <3>1, <3>2
  <2>5. ASSUME NEW n, Coming(n) PROVE Coming(n)'
    <3>1. CASE \E i \in DOMAIN wire : wire[i] = Packet(n, TRUE)
      BY <2>3, <3>1 DEF Coming
    <3>2. ASSUME NEW i \in DOMAIN queue, queue[i] = Packet(n, TRUE) PROVE Coming(n)'
      <4>1. CASE i = 1
        <5>1. wire'[Len(wire) + 1] = Packet(n, TRUE)
          BY <2>3, <3>2, <4>1
        <5> QED BY <2>3, <5>1 DEF Coming
      <4>2. CASE i # 1
        BY <2>4, <3>2, <4>2 DEF Coming
      <4> QED BY <4>1, <4>2
    <3> QED BY <2>5, <3>1, <3>2 DEF Coming
  <2> QED BY <1>0, <2>1, <2>5 DEF AllListed
<1>4. CASE BeginList \/ LoseLink \/ StartConfig
  BY <1>4 DEF BeginList, LoseLink, StartConfig, AllListed
<1>5. CASE EndList
  BY <1>0, <1>5 DEF EndList, AllListed, Sides
<1>6. ASSUME NEW n \in Nodes, ListNode(n) PROVE AllListed'
  BY <1>6 DEF ListNode, AllListed
<1>7. ASSUME NEW item, ReadFrame(item) \/ SkipPacket(item) PROVE AllListed'
  BY <1>7 DEF ReadFrame, SkipPacket, AllListed
<1>8. ASSUME NEW item, ReadPacket(item) PROVE AllListed'
  <2>1. /\ Take(item) /\ IsPacket(item) /\ ~capturing
        /\ UNCHANGED <<stage, capturing, torn, list, users, queue>>
        /\ frames' = RefreshFrame(item.from, item.user)
    BY <1>8 DEF ReadPacket
  <2>2. item.from \in Nodes /\ item.user \in BOOLEAN
    BY <2>1, ReaderFinds DEF Heard
  <2>3. SUFFICES ASSUME stage = "idle", ~torn, NEW n \in list \cap users
                 PROVE  n \in Framed(frames') \/ Coming(n)'
    BY <2>1 DEF AllListed
  <2>4. frames # <<>>
    BY <1>0, <2>1, <2>3 DEF Sides
  <2>5. /\ item.user => item.from \in Framed(frames')
        /\ \A i \in DOMAIN frames : \E j \in DOMAIN frames' : frames'[j] = frames[i]
    BY <1>0, <2>1, <2>2, <2>3, <2>4, Refreshing
  <2>6. n \in Framed(frames) => n \in Framed(frames')
    BY <2>5 DEF Framed
  <2>7. n \in Framed(frames) \/ Coming(n)
    BY <1>0, <2>1, <2>3 DEF AllListed
  <2>8. ASSUME Coming(n) PROVE n \in Framed(frames') \/ Coming(n)'
    <3>1. CASE \E i \in DOMAIN queue : queue[i] = Packet(n, TRUE)
      BY <2>1, <3>1 DEF Coming
    <3>2. ASSUME NEW i \in DOMAIN wire, wire[i] = Packet(n, TRUE)
          PROVE  n \in Framed(frames') \/ Coming(n)'
      <4>1. /\ wire \in Seq(Frame \cup Heard) /\ wire # <<>> /\ wire' = Tail(wire) /\ item = wire[1]
        BY <1>0, <2>1 DEF Take, WireTypes
      <4>2. /\ Len(wire) \in Nat /\ DOMAIN wire = 1 .. Len(wire) /\ DOMAIN wire' = 1 .. Len(wire) - 1
            /\ \A j \in 1 .. Len(wire) - 1 : wire'[j] = wire[j + 1]
        BY <4>1
      <4>3. CASE i = 1
        <5>1. item = Packet(n, TRUE)
          BY <3>2, <4>1, <4>3
        <5>2. item.from = n /\ item.user = TRUE
          BY <5>1 DEF Packet
        <5> QED BY <2>5, <5>2
      <4>4. CASE i # 1
        <5>1. i - 1 \in DOMAIN wire' /\ (i - 1) + 1 = i
          BY <4>2, <4>4
        <5>2. wire'[i - 1] = Packet(n, TRUE)
          BY <3>2, <4>2, <5>1
        <5> QED BY <5>1, <5>2 DEF Coming
      <4> QED BY <4>3, <4>4
    <3> QED BY <2>8, <3>1, <3>2 DEF Coming
  <2> QED BY <2>6, <2>7, <2>8
<1>9. ASSUME NEW item, Complete(item) PROVE AllListed'
  <2>1. /\ Take(item) /\ ~IsPacket(item) /\ item.key = "complete" /\ frames' = captured
        /\ UNCHANGED <<stage, list, users, queue>>
    BY <1>9 DEF Complete
  <2>2. PICK T \in Seq(Frame), d \in Int :
                    /\ OnTheWire(T, d)
                    /\ stage = "idle" /\ d = Len(T) - 1 /\ Len(captured) = d
                    /\ \A j \in DOMAIN captured : captured[j] = T[j]
    BY <2>1, ReaderFinds
  <2>3. Listed(T, d) /\ Shape(T)
    BY <2>2 DEF OnTheWire
  <2>4. \A n \in list \cap users : n \in Framed(T) \/ ComingAfter(n, T, d)
    BY <2>2, <2>3 DEF Listed
  <2>5. Framed(T) \subseteq Framed(captured)
    <3>1. T[Len(T)].key = "complete" /\ "complete" \notin Nodes /\ Len(T) \in Nat
      BY <2>2, <2>3, NodeAssumption DEF Shape
    <3>2. DOMAIN captured = 1 .. d /\ DOMAIN T = 1 .. Len(T)
      BY <1>0, <2>2 DEF WireTypes
    <3>3. \A i \in DOMAIN T : T[i].key \in Nodes => i \in DOMAIN captured /\ captured[i] = T[i]
      <4> SUFFICES ASSUME NEW i \in DOMAIN T, T[i].key \in Nodes
                   PROVE  i \in DOMAIN captured /\ captured[i] = T[i]
        OBVIOUS
      <4>1. i # Len(T)
        BY <3>1
      <4>2. i \in 1 .. d
        BY <2>2, <3>1, <3>2, <4>1
      <4> QED BY <2>2, <3>2, <4>2
    <3> QED BY <3>3 DEF Framed
  <2>6. ASSUME NEW n, ComingAfter(n, T, d) PROVE Coming(n)'
    <3>1. CASE \E i \in DOMAIN queue : queue[i] = Packet(n, TRUE)
      BY <2>1, <3>1 DEF Coming
    <3>2. ASSUME NEW i \in DOMAIN wire, i + d > Len(T), wire[i] = Packet(n, TRUE) PROVE Coming(n)'
      <4>1. wire \in Seq(Frame \cup Heard) /\ wire # <<>> /\ wire' = Tail(wire)
        BY <1>0, <2>1 DEF Take, WireTypes
      <4>2. /\ Len(wire) \in Nat /\ DOMAIN wire = 1 .. Len(wire) /\ DOMAIN wire' = 1 .. Len(wire) - 1
            /\ \A j \in 1 .. Len(wire) - 1 : wire'[j] = wire[j + 1]
        BY <4>1
      <4>3. i # 1
        BY <2>2, <3>2
      <4>4. i - 1 \in DOMAIN wire' /\ (i - 1) + 1 = i
        BY <4>2, <4>3
      <4>5. wire'[i - 1] = Packet(n, TRUE)
        BY <3>2, <4>2, <4>4
      <4> QED BY <4>4, <4>5 DEF Coming
    <3> QED BY <2>6, <3>1, <3>2 DEF ComingAfter
  <2> QED BY <2>1, <2>4, <2>5, <2>6 DEF AllListed
<1>10. ASSUME NEW item, FailComplete(item) PROVE AllListed'
  BY <1>10 DEF FailComplete, AllListed
<1>11. CASE ReadFavorites \/ AssignFavorites \/ ClearData \/ UNCHANGED vars
  BY <1>0, <1>11, ListedSteady DEF ReadFavorites, AssignFavorites, ClearData, vars
<1>12. ASSUME NEW s \in Setters, (\E n \in Nodes, star \in BOOLEAN : TellNode(s, n, star))
                \/ StoreStar(s) \/ ReadStars(s) \/ AssignStars(s)
       PROVE  AllListed'
  <2>1. UNCHANGED <<stage, capturing, torn, queue, wire, frames, list, users>>
    BY <1>12 DEF TellNode, StoreStar, ReadStars, AssignStars
  <2> QED BY <1>0, <2>1, ListedSteady
<1>13. ASSUME NEW s \in Setters, PatchFrame(s) PROVE AllListed'
  <2>1. /\ UNCHANGED <<stage, capturing, torn, queue, wire, list, users>>
        /\ frames' = Patched(setter[s].node, setter[s].star)
    BY <1>13 DEF PatchFrame
  <2>2. setter[s].node \in Nodes /\ setter[s].star \in BOOLEAN
    BY <1>0 DEF CacheTypes
  <2>3. CASE torn
    BY <2>1, <2>3 DEF AllListed
  <2>4. CASE ~torn
    <3>1. DOMAIN frames' = DOMAIN frames /\ \A i \in DOMAIN frames : frames'[i].key = frames[i].key
      BY <1>0, <2>1, <2>2, <2>4, Patching
    <3>2. Framed(frames) \subseteq Framed(frames')
      BY <3>1 DEF Framed
    <3> QED BY <1>0, <2>1, <3>2, ListedSteady
  <2> QED BY <2>3, <2>4
<1> QED BY <1>0, <1>1, <1>2, <1>3, <1>4, <1>5, <1>6, <1>7, <1>8, <1>9, <1>10, <1>11, <1>12, <1>13 DEF Next

-----------------------------------------------------------------------------
(* A settled star, however it is set one thread at a time.                 *)

SettledAt(n) ==
    /\ ~Setting(n) => Agrees(n) /\ InFrames(n)
    /\ \A s \in Working(n) : SettledBy(n, s) /\ Working(n) = {s}

(* Whoever leaves a node's rows, star, entry and setting alone.            *)
LEMMA SettledSame ==
    ASSUME NEW n, SettledAt(n), n \in starred' <=> n \in starred,
           \A s \in Setters : s \in Working(n)' <=> s \in Working(n),
           \A s \in Working(n) : setter'[s].at = setter[s].at /\ setter'[s].star = setter[s].star,
           Agrees(n) => Agrees(n)', InFrames(n) => InFrames(n)',
           n \in Framed(frames) => n \in Framed(frames')
    PROVE  SettledAt(n)'
<1>1. Setting(n)' <=> Setting(n)
  BY DEF Setting, Working
<1>2. Working(n)' = Working(n)
  BY DEF Working
<1>3. (n \in starred') = (n \in starred)
  OBVIOUS
<1>4. \A s \in Working(n) : SettledBy(n, s) => SettledBy(n, s)'
  BY <1>3 DEF SettledBy
<1> QED BY <1>1, <1>2, <1>4 DEF SettledAt

(* The same for all of them.                                               *)
LEMMA SettledSteady ==
    ASSUME \A n \in settled : SettledAt(n), settled' \subseteq settled,
           UNCHANGED setter, \A n \in settled' : n \in starred' <=> n \in starred,
           \A n \in settled' : Agrees(n) => Agrees(n)',
           \A n \in settled' : InFrames(n) => InFrames(n)',
           Framed(frames) \subseteq Framed(frames')
    PROVE  \A n \in settled' : SettledAt(n)'
<1> TAKE n \in settled'
<1>1. \A s \in Setters : s \in Working(n)' <=> s \in Working(n)
  BY DEF Working
<1> QED BY <1>1, SettledSame

(* One thread at a time walks a star through table and handshake.          *)
LEMMA SettledOfSetters ==
    ASSUME WireInv, NEW s \in Setters,
           (\E n \in Nodes, star \in BOOLEAN : TellNode(s, n, star))
             \/ StoreStar(s) \/ PatchFrame(s) \/ ReadStars(s) \/ AssignStars(s)
    PROVE  \A n \in settled' : SettledAt(n)'
<1> USE DEF node, table, history
<1>0. WireTypes /\ CacheTypes /\ Sides /\ Whole /\ settled \subseteq Nodes /\ \A n \in settled : SettledAt(n)
  BY DEF WireInv, Settled, SettledAt, WireTypes
<1>1. ASSUME NEW n \in Nodes, NEW star \in BOOLEAN, TellNode(s, n, star), NEW m \in settled'
      PROVE  SettledAt(m)'
  <2>1. /\ setter[s].at = "idle" /\ UNCHANGED <<rows, stars, frames>> /\ settled' \subseteq settled
        /\ setter' = [setter EXCEPT ![s] = [at |-> "told", node |-> n, star |-> star, seen |-> {}]]
        /\ \A x : x # n => (x \in starred' <=> x \in starred)
        /\ n \in settled' => ~Setting(n) /\ (n \in starred' <=> star)
    BY <1>1 DEF TellNode
  <2>2. /\ setter'[s].at = "told" /\ setter'[s].node = n /\ setter'[s].star = star
        /\ \A t \in Setters : t # s => setter'[t] = setter[t]
    BY <1>0, <2>1 DEF CacheTypes
  <2>3. CASE m # n
    <3>1. \A t \in Setters : t \in Working(m)' <=> t \in Working(m)
      BY <2>1, <2>2, <2>3 DEF Working
    <3>2. s \notin Working(m) /\ Working(m) \subseteq Setters
      BY <2>1 DEF Working
    <3>3. m \in settled /\ SettledAt(m) /\ (m \in starred' <=> m \in starred)
      BY <1>0, <2>1, <2>3
    <3>4. (Agrees(m) => Agrees(m)') /\ (InFrames(m) => InFrames(m)')
      BY <2>1, <3>3 DEF Agrees, InFrames
    <3> QED BY <2>1, <2>2, <3>1, <3>2, <3>3, <3>4, SettledSame
  <2>4. CASE m = n
    <3>1. ~Setting(n) /\ SettledAt(n) /\ (star = (n \in starred'))
      BY <1>0, <2>1, <2>4
    <3>2. Working(n)' = {s} /\ Setting(n)'
      BY <2>2, <3>1 DEF Working, Setting
    <3>3. n \in Framed(frames)
      <4>1. InFrames(n)
        BY <3>1 DEF SettledAt
      <4>2. \A st : Info(n, st).key = n
        BY DEF Info
      <4> QED BY <4>1, <4>2 DEF InFrames, Framed
    <3>4. SettledBy(n, s)'
      BY <2>1, <2>2, <3>1, <3>3 DEF SettledBy
    <3> QED BY <2>4, <3>2, <3>4 DEF SettledAt
  <2> QED BY <2>3, <2>4
<1>2. ASSUME StoreStar(s) \/ PatchFrame(s) \/ ReadStars(s) \/ AssignStars(s), NEW m \in settled
      PROVE  SettledAt(m)'
  <2>0. PICK n \in Nodes, star \in BOOLEAN, at \in {"told", "stored", "patched", "read"} :
          n = setter[s].node /\ star = setter[s].star /\ at = setter[s].at
    BY <1>0, <1>2 DEF CacheTypes, StoreStar, PatchFrame, ReadStars, AssignStars
  <2>1. /\ UNCHANGED <<starred, settled, torn>> /\ s \in Working(n) /\ SettledAt(m) /\ m \in Nodes
        /\ \A t \in Setters : t # s => setter'[t] = setter[t]
    BY <1>0, <1>2, <2>0 DEF Working, StoreStar, PatchFrame, ReadStars, AssignStars, CacheTypes
  <2>2. ~torn
    BY <1>0, <1>2 DEF Sides
  <2>3. \A t \in Setters : t \in Working(m) => setter[t].node = m
    BY DEF Working
  <2>4. /\ frames' = Patched(n, star) \/ frames' = frames
        /\ PatchFrame(s) => frames' = Patched(n, star)
        /\ ~PatchFrame(s) => frames' = frames
    BY <1>2, <2>0 DEF StoreStar, PatchFrame, ReadStars, AssignStars
  <2>5. /\ DOMAIN frames' = DOMAIN frames
        /\ \A i \in DOMAIN frames :
             /\ frames'[i].key = frames[i].key
             /\ frames[i].key # n => frames'[i] = frames[i]
             /\ PatchFrame(s) /\ frames[i].key = n => frames'[i] = Info(n, star)
    BY <1>0, <2>2, <2>4, Patching
  <2>6. \A x : x \in Framed(frames) => x \in Framed(frames')
    BY <2>5 DEF Framed
  <2>7. CASE m # n
    <3>1. \A t \in Setters : t \in Working(m)' <=> t \in Working(m)
      <4>1. s \notin Working(m)
        BY <2>0, <2>7 DEF Working
      <4>2. setter'[s].at # "idle" => setter'[s].node = n
        BY <1>0, <1>2, <2>0 DEF StoreStar, PatchFrame, ReadStars, AssignStars, CacheTypes
      <4> QED BY <2>1, <2>7, <4>1, <4>2 DEF Working
    <3>2. s \notin Working(m) /\ Working(m) \subseteq Setters
      BY <2>0, <2>7 DEF Working
    <3>3. Agrees(m) => Agrees(m)'
      BY <1>2, <2>0, <2>1, <2>7 DEF Agrees, StoreStar, PatchFrame, ReadStars, AssignStars, UpsertStar
    <3>4. InFrames(m) => InFrames(m)'
      <4>1. Info(m, m \in starred).key = m
        BY DEF Info
      <4> QED BY <2>1, <2>5, <2>7, <4>1 DEF InFrames
    <3> QED BY <2>1, <2>6, <3>1, <3>2, <3>3, <3>4, SettledSame
  <2>8. CASE m = n
    <3>1. SettledBy(n, s) /\ Working(n) = {s}
      BY <2>1, <2>8 DEF SettledAt
    <3>2. /\ star = (n \in starred) /\ n \in Framed(frames)
          /\ at \in {"stored", "patched", "read"} => Agrees(n)
          /\ at \in {"patched", "read"} => InFrames(n)
      BY <2>0, <3>1 DEF SettledBy
    <3>3. n \in Framed(frames') /\ (star = (n \in starred'))
      BY <2>1, <2>6, <3>2
    <3>4. CASE AssignStars(s)
      <4>1. /\ UNCHANGED <<rows, stars, frames>> /\ at = "read" /\ setter'[s].at = "idle"
        BY <1>0, <2>0, <3>4 DEF AssignStars, CacheTypes
      <4>2. Working(n)' = {} /\ ~Setting(n)'
        BY <2>1, <3>1, <4>1 DEF Working, Setting
      <4>3. Agrees(n)' /\ InFrames(n)'
        BY <2>1, <3>2, <4>1 DEF Agrees, InFrames
      <4> QED BY <2>8, <4>2, <4>3 DEF SettledAt
    <3>5. ASSUME ~AssignStars(s),
                 /\ setter'[s].at \in {"stored", "patched", "read"} => Agrees(n)'
                 /\ setter'[s].at \in {"patched", "read"} => InFrames(n)'
          PROVE  SettledAt(n)'
      <4>1. setter'[s].node = n /\ setter'[s].star = star /\ setter'[s].at # "idle"
        BY <1>0, <1>2, <2>0, <3>5 DEF StoreStar, PatchFrame, ReadStars, CacheTypes
      <4>2. Working(n)' = {s} /\ Setting(n)'
        BY <2>1, <3>1, <4>1 DEF Working, Setting
      <4>3. SettledBy(n, s)'
        BY <3>3, <3>5, <4>1 DEF SettledBy
      <4> QED BY <4>2, <4>3 DEF SettledAt
    <3>6. CASE StoreStar(s)
      <4>1. setter'[s].at = "stored" /\ rows' = rows \cup {n} /\ stars' = IF star THEN stars \cup {n} ELSE stars \ {n}
        BY <1>0, <2>0, <3>6 DEF StoreStar, UpsertStar, CacheTypes
      <4>2. Agrees(n)'
        BY <3>3, <4>1 DEF Agrees
      <4>3. ~AssignStars(s)
        BY <3>6 DEF StoreStar, AssignStars
      <4> QED BY <2>8, <3>5, <4>1, <4>2, <4>3
    <3>7. CASE PatchFrame(s)
      <4>1. setter'[s].at = "patched" /\ UNCHANGED <<rows, stars>> /\ at = "stored" /\ ~AssignStars(s)
        BY <1>0, <2>0, <3>7 DEF PatchFrame, AssignStars, CacheTypes
      <4>2. Agrees(n)'
        BY <2>1, <3>2, <4>1 DEF Agrees
      <4>3. PICK i \in DOMAIN frames : frames[i].key = n
        BY <3>2 DEF Framed
      <4>4. frames'[i] = Info(n, star) /\ i \in DOMAIN frames'
        BY <2>5, <3>7, <4>3
      <4>5. InFrames(n)'
        BY <3>3, <4>4 DEF InFrames
      <4> QED BY <2>8, <3>5, <4>1, <4>2, <4>5
    <3>8. CASE ReadStars(s)
      <4>1. setter'[s].at = "read" /\ UNCHANGED <<rows, stars, frames>> /\ at = "patched" /\ ~AssignStars(s)
        BY <1>0, <2>0, <3>8 DEF ReadStars, AssignStars, CacheTypes
      <4>2. Agrees(n)' /\ InFrames(n)'
        BY <2>1, <3>2, <4>1 DEF Agrees, InFrames
      <4> QED BY <2>8, <3>5, <4>1, <4>2
    <3> QED BY <1>2, <2>8, <3>4, <3>6, <3>7, <3>8
  <2> QED BY <2>7, <2>8
<1>3. StoreStar(s) \/ PatchFrame(s) \/ ReadStars(s) \/ AssignStars(s) => settled' = settled
  BY DEF StoreStar, PatchFrame, ReadStars, AssignStars
<1> QED BY <1>1, <1>2, <1>3

(* What is captured and heard meanwhile agrees with it.                    *)
LEMMA SettledOfReader ==
    ASSUME WireInv, NEW item,
           ReadFrame(item) \/ SkipPacket(item) \/ ReadPacket(item) \/ Complete(item) \/ FailComplete(item)
    PROVE  \A n \in settled' : SettledAt(n)'
<1> USE DEF node, table, history
<1>0. WireTypes /\ CacheTypes /\ Sides /\ Whole /\ settled \subseteq Nodes /\ \A n \in settled : SettledAt(n)
  BY DEF WireInv, Settled, SettledAt, WireTypes
<1>1. CASE FailComplete(item)
  BY <1>1 DEF FailComplete
<1>2. CASE SkipPacket(item)
  <2>1. UNCHANGED <<settled, setter, starred, rows, stars, frames>>
    BY <1>2 DEF SkipPacket
  <2> QED BY <1>0, <2>1, SettledSteady DEF Agrees, InFrames
<1>3. CASE ReadFrame(item)
  <2>1. /\ Take(item) /\ capturing /\ ~IsPacket(item)
        /\ IF item.key \in Nodes THEN UpsertStar(item.key, item.star) ELSE UNCHANGED table
        /\ UNCHANGED <<settled, setter, starred, frames>>
    BY <1>3 DEF ReadFrame
  <2>2. wire # <<>> /\ item = Head(wire) /\ stage # "down"
    BY <2>1, ReaderFinds DEF Take
  <2>3. PICK T \in Seq(Frame), d \in Int : OnTheWire(T, d)
    BY <2>1, <2>2 DEF WireInv, Flow
  <2>4. Stream(T, d) /\ StillSaid(T)
    BY <2>3 DEF OnTheWire
  <2>5. d >= 0 /\ d < Len(T) /\ item = T[d + 1]
    BY <1>0, <2>1, <2>2, <2>4, NextRead
  <2>6. d + 1 \in DOMAIN T
    BY <2>5
  <2>7. \A n \in settled : item.key = n => item = Info(n, n \in starred)
    BY <2>4, <2>5, <2>6 DEF StillSaid
  <2>8. ASSUME NEW n \in settled, Agrees(n) PROVE Agrees(n)'
    <3>1. CASE item.key = n
      <4>1. item.star = (n \in starred)
        BY <2>7, <3>1 DEF Info
      <4>2. rows' = rows \cup {n} /\ stars' = IF item.star THEN stars \cup {n} ELSE stars \ {n}
        BY <1>0, <2>1, <3>1 DEF UpsertStar
      <4> QED BY <2>1, <4>1, <4>2 DEF Agrees
    <3>2. CASE item.key # n
      BY <2>1, <2>8, <3>2 DEF Agrees, UpsertStar
    <3> QED BY <3>1, <3>2
  <2> QED BY <1>0, <2>1, <2>8, SettledSteady DEF InFrames
<1>4. CASE ReadPacket(item)
  <2>1. /\ Take(item) /\ IsPacket(item)
        /\ UNCHANGED <<settled, setter, starred, stars, torn>> /\ rows \subseteq rows'
        /\ frames' = RefreshFrame(item.from, item.user)
    BY <1>4 DEF ReadPacket, Upsert
  <2>2. item.from \in Nodes /\ item.user \in BOOLEAN
    BY <2>1, ReaderFinds DEF Heard
  <2>3. CASE torn
    BY <1>0, <2>1, <2>3 DEF Sides
  <2>4. CASE ~torn
    <3>1. \A i \in DOMAIN frames : \E j \in DOMAIN frames' : frames'[j] = frames[i]
      <4>1. CASE frames = <<>>
        BY <4>1
      <4>2. CASE frames # <<>>
        BY <1>0, <2>1, <2>2, <2>4, <4>2, Refreshing
      <4> QED BY <4>1, <4>2
    <3>2. Framed(frames) \subseteq Framed(frames')
      BY <3>1 DEF Framed
    <3>3. \A n : InFrames(n) => InFrames(n)'
      BY <2>1, <3>1 DEF InFrames
    <3>4. \A n : Agrees(n) => Agrees(n)'
      BY <2>1 DEF Agrees
    <3> QED BY <1>0, <2>1, <3>2, <3>3, <3>4, SettledSteady
  <2> QED BY <2>3, <2>4
<1>5. CASE Complete(item)
  <2>1. /\ Take(item) /\ ~IsPacket(item) /\ item.key = "complete" /\ frames' = captured /\ settled' = fresh
        /\ UNCHANGED <<setter, starred, rows, stars>>
    BY <1>5 DEF Complete
  <2>2. PICK T \in Seq(Frame), d \in Int :
                    /\ OnTheWire(T, d)
                    /\ stage = "idle" /\ d = Len(T) - 1 /\ Len(captured) = d
                    /\ \A j \in DOMAIN captured : captured[j] = T[j]
    BY <2>1, ReaderFinds
  <2>3. Fresh(T) /\ T[Len(T)].key = "complete" /\ "complete" \notin Nodes /\ fresh \subseteq Nodes
    BY <1>0, <2>2, NodeAssumption DEF OnTheWire, Shape, WireTypes
  <2>4. ASSUME NEW n \in fresh PROVE SettledAt(n)'
    <3>1. ~Setting(n)
      BY <2>3 DEF Fresh
    <3>2. PICK k \in DOMAIN T : LastSaid(T, n, k) /\ (k <= Len(captured) => Agrees(n))
      BY <2>3 DEF Fresh
    <3>3. T[k] = Info(n, n \in starred) /\ T[k].key = n
      BY <3>2 DEF LastSaid, Info
    <3>4. k # Len(T) /\ k \in Nat /\ Len(T) \in Nat /\ k >= 1 /\ k <= Len(T)
      BY <2>3, <3>3
    <3>5. k <= Len(captured) /\ k \in DOMAIN captured
      <4>1. captured \in Seq(Frame) /\ Len(captured) = Len(T) - 1
        BY <1>0, <2>2 DEF WireTypes
      <4>2. k <= Len(T) - 1
        BY <3>4
      <4> QED BY <3>4, <4>1, <4>2
    <3>6. Agrees(n)'
      BY <2>1, <3>2, <3>5 DEF Agrees
    <3>7. InFrames(n)'
      BY <2>1, <2>2, <3>3, <3>5 DEF InFrames
    <3>8. ~Setting(n)' /\ Working(n)' = {}
      BY <2>1, <3>1 DEF Setting, Working
    <3> QED BY <3>6, <3>7, <3>8 DEF SettledAt
  <2> QED BY <2>1, <2>4
<1> QED BY <1>1, <1>2, <1>3, <1>4, <1>5

(* Every step keeps the settled stars settled.                             *)
LEMMA SettledStep == ASSUME WireInv, [Next]_vars PROVE Settled'
<1> USE DEF node, table, history
<1>0. \A n \in settled : SettledAt(n)
  BY DEF WireInv, Settled, SettledAt
<1>1. SUFFICES \A n \in settled' : SettledAt(n)'
  BY DEF Settled, SettledAt
<1>2. ASSUME NEW n \in Nodes, ListNode(n) \/ Evict(n) \/ StarElsewhere(n) \/ \E user \in BOOLEAN : Hear(n, user)
      PROVE  \A m \in settled' : SettledAt(m)'
  <2>1. /\ UNCHANGED <<setter, rows, stars, frames>> /\ settled' \subseteq settled
        /\ \A m \in settled' : m \in starred' <=> m \in starred
    BY <1>2 DEF ListNode, Evict, StarElsewhere, Hear
  <2>2. \A m \in settled' : (Agrees(m) => Agrees(m)') /\ (InFrames(m) => InFrames(m)')
    <3> TAKE m \in settled'
    <3>1. (m \in starred') = (m \in starred)
      BY <2>1
    <3> QED BY <2>1, <3>1 DEF Agrees, InFrames
  <2> QED BY <1>0, <2>1, <2>2, SettledSteady
<1>3. CASE BeginList \/ EndList \/ PassOn \/ LoseLink \/ StartConfig \/ ReadFavorites
             \/ AssignFavorites \/ UNCHANGED vars
  <2>1. UNCHANGED <<setter, rows, stars, frames, starred>> /\ settled' \subseteq settled
    BY <1>3 DEF BeginList, EndList, PassOn, LoseLink, StartConfig, ReadFavorites, AssignFavorites, vars
  <2> QED BY <1>0, <2>1, SettledSteady DEF Agrees, InFrames
<1>4. CASE ClearData
  BY <1>4 DEF ClearData
<1>5. ASSUME NEW item, ReadFrame(item) \/ SkipPacket(item) \/ ReadPacket(item)
                         \/ Complete(item) \/ FailComplete(item)
      PROVE  \A n \in settled' : SettledAt(n)'
  BY <1>5, SettledOfReader
<1>6. ASSUME NEW s \in Setters, (\E n \in Nodes, star \in BOOLEAN : TellNode(s, n, star))
                \/ StoreStar(s) \/ PatchFrame(s) \/ ReadStars(s) \/ AssignStars(s)
      PROVE  \A n \in settled' : SettledAt(n)'
  BY <1>6, SettledOfSetters
<1> QED BY <1>2, <1>3, <1>4, <1>5, <1>6 DEF Next

-----------------------------------------------------------------------------
(* Nothing is on the wire when the program starts.                         *)
LEMMA WireInit == ASSUME Init PROVE WireInv
<1> USE NodeAssumption DEF Init
<1>1. CacheTypes
  BY DEF CacheTypes
<1>2. WireTypes
  <2>1. \A S : <<>> \in Seq(S)
    OBVIOUS
  <2>2. /\ queue \in Seq(Heard) /\ wire \in Seq(Frame \cup Heard) /\ captured \in Seq(Frame)
        /\ capturing \in BOOLEAN /\ torn \in BOOLEAN
    BY <2>1
  <2>3. /\ list \in SUBSET Nodes /\ Me \in list /\ users \in SUBSET list /\ starred \in SUBSET Nodes
        /\ stage \in {"down", "asked", "list", "done", "idle"}
        /\ left \in SUBSET Nodes /\ rows \in SUBSET Nodes
        /\ settled \in SUBSET Nodes /\ fresh \in SUBSET Nodes
    OBVIOUS
  <2> QED BY <2>2, <2>3 DEF WireTypes
<1>3. Sides /\ Whole /\ AllListed /\ Settled
  BY DEF Sides, Whole, AllListed, Settled
<1> QED BY <1>1, <1>2, <1>3 DEF WireInv

(* All of it is inductive ...                                              *)
LEMMA WireStep == ASSUME CacheInv, WireInv, [Next]_vars PROVE WireInv'
<1>1. CacheTypes'
  BY CacheStep DEF CacheInv
<1>2. WireTypes' /\ Sides' /\ Whole' /\ AllListed' /\ Settled'
  BY TypesStep, SidesStep, WholeStep, AllListedStep, SettledStep
<1>3. capturing' /\ stage' # "down" => Flow'
  BY <1>2, FlowStep
<1> QED BY <1>1, <1>2, <1>3 DEF WireInv

(* ... and so always holds.                                                *)
LEMMA WireAlways == Spec => [](CacheInv /\ WireInv)
<1>1. Init => CacheInv /\ WireInv
  BY CacheInit, WireInit
<1>2. CacheInv /\ WireInv /\ [Next]_vars => (CacheInv /\ WireInv)'
  BY CacheStep, WireStep
<1> QED BY <1>1, <1>2, PTL DEF Spec

(* Every variable keeps its type, except config_frames after a key came    *)
(* twice, of which only the next handshake says anything.                  *)
THEOREM TypesAlwaysHold == Spec => [](CacheTypes /\ WireTypes)
<1>1. WireInv => CacheTypes /\ WireTypes
  BY DEF WireInv
<1> QED BY <1>1, WireAlways, PTL

(* The handshake replayed to the apps is one the firmware could have sent, *)
(* whatever was captured, added to it from live packets and starred.       *)
THEOREM HandshakeAlwaysWhole == Spec => []HandshakeWhole
<1>1. ASSUME WireInv PROVE HandshakeWhole
  <2> SUFFICES ASSUME frames # <<>>, ~torn
               PROVE  /\ frames[1].key = "my_info" /\ frames[2].key = Me /\ Last(frames).key = "file"
                      /\ \A i \in 3 .. Len(frames) - 1 : frames[i].key \in Nodes
                      /\ IsInjective([i \in DOMAIN frames |-> frames[i].key])
    BY DEF HandshakeWhole
  <2>1. frames \in Seq(Frame) /\ WholeOf(frames)
    BY <1>1 DEF WireInv, Whole
  <2>2. Len(frames) \in Nat /\ Len(frames) >= 3
    BY <2>1 DEF WholeOf
  <2>3. frames[1].key = "my_info" /\ frames[2].key = Me /\ Last(frames).key = "file"
    BY <2>1, <2>2 DEF WholeOf, Listing, Last
  <2>4. \A i \in 3 .. Len(frames) - 1 : frames[i].key \in Nodes
    BY <2>1, <2>2 DEF WholeOf, Listing
  <2>5. IsInjective([i \in DOMAIN frames |-> frames[i].key])
    BY <2>1 DEF WholeOf, IsInjective
  <2> QED BY <2>3, <2>4, <2>5
<1> QED BY <1>1, WireAlways, PTL

(* With nothing on its way, who the node lists with a user is in the       *)
(* handshake the apps get.                                                 *)
THEOREM ListAlwaysComplete == Spec => []ListComplete
<1>1. ASSUME WireInv PROVE ListComplete
  <2> SUFFICES ASSUME ~torn, stage = "idle", wire = <<>>, queue = <<>>
               PROVE  list \cap users \subseteq Framed(frames)
    BY DEF ListComplete
  <2>1. ~capturing
    <3> SUFFICES ASSUME capturing PROVE FALSE
      BY <1>1 DEF WireInv, WireTypes
    <3>1. PICK T \in Seq(Frame), d \in Int : Stream(T, d)
      BY <1>1 DEF WireInv, Flow, OnTheWire
    <3>2. d < Len(T) /\ Len(T) <= Len(wire) + d /\ Len(wire) = 0 /\ Len(T) \in Int
      BY <3>1 DEF Stream
    <3> QED BY <3>2
  <2>2. \A n : ~Coming(n)
    BY DEF Coming
  <2> QED BY <1>1, <2>1, <2>2 DEF WireInv, AllListed
<1> QED BY <1>1, WireAlways, PTL

(* The node, the table and the handshake agree on every settled star.      *)
THEOREM StarsAlwaysAgree == Spec => []StarsAgree
<1>1. ASSUME WireInv PROVE StarsAgree
  BY <1>1 DEF WireInv, Settled, Agrees, InFrames, StarsAgree
<1> QED BY <1>1, WireAlways, PTL
=============================================================================
