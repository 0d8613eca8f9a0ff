---------------------------- MODULE VNodeServer -----------------------------
(***************************************************************************)
(* The virtual node: phone apps connect to it over TCP, are given the      *)
(* captured handshake, then the stored messages past their cursor, then    *)
(* live traffic.                                                           *)
(*                                                                         *)
(* Three kinds of actor interleave.  The upstream reader thread stores a   *)
(* packet and then posts its fan-out to the event loop.  Worker threads    *)
(* run the database calls that coroutines await, and post a wake-up when   *)
(* done.  The event loop takes what was posted in the order it was posted  *)
(* (call_soon_threadsafe is FIFO); between two awaits a coroutine runs     *)
(* alone, so one stretch between awaits is one action here.                *)
(***************************************************************************)
EXTENDS MessageStore, Sequences, Functions

CONSTANTS
    Conns,          \* connection slots; a slot is reused once its handler ended
    KeyOf,          \* ClientSession.key of the host behind each slot
    ReplayEnabled,  \* settings.replay_enabled
    ReplayLimit,    \* settings.replay_limit
    SkipOwn,        \* settings.replay_skip_own
    StoreOutgoing,  \* settings.store_outgoing
    MaxPending,     \* VNodeServer.MAX_PENDING
    Budget          \* how many times the environment may do each thing

Events == {"mesh", "connect", "send", "web", "drop", "restart", "prune", "age"}

ASSUME ServerAssumption ==
    /\ IsFiniteSet(Conns)
    /\ Conns \cap {"reader", "web", "wiper"} = {}
    /\ KeyOf \in [Conns -> Keys]
    /\ {ReplayEnabled, SkipOwn, StoreOutgoing} \subseteq BOOLEAN
    /\ {ReplayLimit, MaxPending} \subseteq Nat
    /\ Budget \in [Events -> Nat]

VARIABLES
    reader,    \* seq the reader thread stored and has yet to post, or Nothing
    web,       \* seq a web request stored and has yet to mirror, or Nothing
    ready,     \* callbacks posted to the event loop, oldest first
    captured,  \* config_frames holds a my_info
    clients,   \* VNodeServer.clients: the registered sessions
    pc,        \* where each connection's handler is
    open,      \* the transport still takes bytes
    live,      \* ClientSession.live
    cursor,    \* ClientSession.cursor
    pending,   \* ClientSession.pending, by seq
    offset,    \* _replay_rows: offset
    todo,      \* _replay: rows not written yet
    last,      \* _replay: last_seq
    own,       \* _forward_packet: seq
    budget     \* what is left of Budget

VARIABLES      \* history: what reached the apps
    wrote,     \* every mesh frame written in the session, by seq
    handed,    \* by key: seqs written to a session
    reached,   \* by key: seqs written while the transport was open
    skipped    \* by key: seqs the replay left out by its limit or age window

threadVars  == <<reader, web, ready>>
sessionVars == <<clients, pc, open, live, cursor, pending, offset, todo, last, own>>
histVars    == <<wrote, handed, reached, skipped>>
vars == <<storeVars, threadVars, captured, sessionVars, budget, histVars>>

Nothing == -1

Pcs == {"off", "opening", "opened", "read", "asked", "count", "select", "selected",
        "replay", "storing", "stored", "sending"}

(* A worker thread has finished: its wake-up is due. *)
Finished == {"opened", "selected", "stored"}

Spend(e) == budget[e] > 0 /\ budget' = [budget EXCEPT ![e] = @ - 1]

PostToFront(who, n) == ready' = <<[who |-> who, seq |-> n]>> \o ready  \* fault: no FIFO

(* call_soon_threadsafe, and the loop taking the oldest callback. *)
Queued(who)    == \E i \in DOMAIN ready : ready[i].who = who
PostTo(who, n) == ready' = Append(ready, [who |-> who, seq |-> n])
Take(who)      == ready # <<>> /\ Head(ready).who = who /\ ready' = Tail(ready)

Init ==
    /\ StoreInit
    /\ reader = Nothing /\ web = Nothing /\ ready = <<>>
    /\ captured \in BOOLEAN
    /\ clients = {}
    /\ pc = [c \in Conns |-> "off"]
    /\ open = [c \in Conns |-> FALSE]
    /\ live = [c \in Conns |-> FALSE]
    /\ cursor = [c \in Conns |-> 0]
    /\ pending = [c \in Conns |-> <<>>]
    /\ offset = [c \in Conns |-> 0]
    /\ todo = [c \in Conns |-> {}]
    /\ last = [c \in Conns |-> 0]
    /\ own = [c \in Conns |-> NoSeq]
    /\ budget = Budget
    /\ wrote = [c \in Conns |-> <<>>]
    /\ handed = [k \in Keys |-> {}]
    /\ reached = [k \in Keys |-> {}]
    /\ skipped = [k \in Keys |-> {}]

-----------------------------------------------------------------------------
(* What a step of the loop does to the sessions.                           *)

ReceivingEarly(S) == S                              \* fault: live is not looked at
QueueingNever(S) == {}                              \* fault: left to the next replay
QueueingAlways(S) == {c \in S : Len(pending[c]) < MaxPending}  \* fault: queues, then writes
OthersAndSelf(c)  == clients                        \* fault: exclude is forgotten

MovingLate(n, W)  == {c \in W : n > cursor[c] + 1}  \* fault: off by one

Receiving(S) == {c \in S : live[c]}
Queueing(S)  == {c \in S : ~live[c] /\ Len(pending[c]) < MaxPending}
Moving(n, W) == {c \in W : n > cursor[c]}
Others(c)    == clients \ {c}
KeysOf(C)    == {KeyOf[c] : c \in C}

(* Message n is written to the sessions W. *)
Give(n, W) ==
    /\ handed' = [k \in Keys |-> IF k \in KeysOf(W) THEN handed[k] \cup {n} ELSE handed[k]]
    /\ reached' = [k \in Keys |-> IF k \in KeysOf({c \in W : open[c]})
                                  THEN reached[k] \cup {n} ELSE reached[k]]

(* _deliver(c, n) for every c of S, after the senders' own cursors moved.  *)
(* Nothing but a crash comes between its statements, see Restart.          *)
Deliver(n, S, senders) ==
    LET room   == Queueing(S)
        movers == senders \cup Moving(n, Receiving(S))
    IN  /\ pending' = [c \in Conns |-> IF c \in room THEN Append(pending[c], n) ELSE pending[c]]
        /\ cursor' = [c \in Conns |-> IF c \in movers THEN Larger(cursor[c], n) ELSE cursor[c]]
        /\ lastSeen' = Moved(KeysOf(movers), n)
        /\ wrote' = [c \in Conns |-> IF c \in Receiving(S) THEN Append(wrote[c], n) ELSE wrote[c]]
        /\ Give(n, Receiving(S))

(* One _write of the stored messages S, in the order ns, to session c. *)
Write(c, ns) ==
    /\ wrote' = [wrote EXCEPT ![c] = @ \o ns]
    /\ handed' = [handed EXCEPT ![KeyOf[c]] = @ \cup Range(ns)]
    /\ reached' = IF open[c] THEN [reached EXCEPT ![KeyOf[c]] = @ \cup Range(ns)] ELSE reached

UncoveredLate(c) ==                                 \* fault: off by one
    {i \in DOMAIN pending[c] : pending[c][i] = NoSeq \/ pending[c][i] > last[c] + 1}
NextRowNewest(c)  == Max(todo[c])                   \* fault: newest first
CoveredToTheEnd(c) == lastSeq                       \* fault: the store's last, not the app's
CoveredAndOne(c)  == last[c] + 1                    \* fault: the next one expected

(* ORDER BY seq ASC: the replay writes the oldest row next. *)
NextRow(c) == Min(todo[c])

(* The flush skips what the replay, or an earlier pending frame, covered.  *)
Uncovered(c) ==
    {i \in DOMAIN pending[c] :
        \/ pending[c][i] = NoSeq
        \/ /\ pending[c][i] > last[c]
           /\ \A j \in 1 .. i - 1 : pending[c][i] > pending[c][j]}

Flushed(c) ==
    LET I == Uncovered(c)
    IN  [r \in 1 .. Cardinality(I) |->
            pending[c][CHOOSE i \in I : Cardinality({j \in I : j <= i}) = r]]

Covered(c) == Max({last[c]} \cup Range(pending[c]))

-----------------------------------------------------------------------------
(* Upstream reader thread.                                                 *)

(* A text from the mesh: stored, or recognised as one it has already. *)
HearText(p) ==
    /\ reader = Nothing
    /\ Spend("mesh")
    /\ \/ /\ ~Stored(p)
          /\ Insert(p, "mesh")
          /\ reader' = NextSeq
       \/ /\ Stored(p)
          /\ reader' = NoSeq
          /\ UNCHANGED <<rows, lastSeq>>
    /\ UNCHANGED <<lastSeen, web, ready, captured, sessionVars, histVars>>

(* Any other frame of the live stream: passed on, not numbered. *)
HearOther ==
    /\ reader = Nothing
    /\ Spend("mesh")
    /\ reader' = NoSeq
    /\ UNCHANGED <<storeVars, web, ready, captured, sessionVars, histVars>>

(* _upstream_sink: hop to the event loop. *)
PostFanout ==
    /\ reader # Nothing
    /\ PostTo("reader", reader)
    /\ reader' = Nothing
    /\ UNCHANGED <<storeVars, web, captured, sessionVars, budget, histVars>>

(* A completed handshake capture replaced config_frames. *)
Capture ==
    /\ ~captured
    /\ captured' = TRUE
    /\ UNCHANGED <<storeVars, threadVars, sessionVars, budget, histVars>>

Fanout ==
    /\ Take("reader")
    /\ Deliver(Head(ready).seq, clients, {})
    /\ UNCHANGED <<rows, lastSeq, reader, web, captured, clients, pc, open, live,
                   offset, todo, last, own, budget, skipped>>

-----------------------------------------------------------------------------
(* A connection's handler.                                                 *)

Connect(c) ==
    /\ pc[c] = "off"
    /\ Spend("connect")
    /\ pc' = [pc EXCEPT ![c] = "opening"]
    /\ open' = [open EXCEPT ![c] = TRUE]
    /\ UNCHANGED <<storeVars, threadVars, captured, clients, live, cursor, pending,
                   offset, todo, last, own, histVars>>

(* Worker: get_or_create_client. *)
LookUp(c) ==
    /\ pc[c] = "opening"
    /\ pc' = [pc EXCEPT ![c] = "opened"]
    /\ lastSeen' = [lastSeen EXCEPT ![KeyOf[c]] = FoundOrCreated(KeyOf[c])]
    /\ cursor' = [cursor EXCEPT ![c] = FoundOrCreated(KeyOf[c])]
    /\ UNCHANGED <<rows, lastSeq, threadVars, captured, clients, open, live, pending,
                   offset, todo, last, own, budget, histVars>>

(* A worker thread that finished posts its coroutine's wake-up. *)
PostWake(c) ==
    /\ pc[c] \in Finished
    /\ ~Queued(c)
    /\ PostTo(c, NoSeq)
    /\ UNCHANGED <<storeVars, reader, web, captured, sessionVars, budget, histVars>>

(* The session is registered: fan-outs find it from here on. *)
Join(c) ==
    /\ pc[c] = "opened"
    /\ Take(c)
    /\ clients' = clients \cup {c}
    /\ pc' = [pc EXCEPT ![c] = "read"]
    /\ UNCHANGED <<storeVars, reader, web, captured, open, live, cursor, pending,
                   offset, todo, last, own, budget, histVars>>

(* want_config_id.  A repeat of the same nonce within CONFIG_COOLDOWN_S    *)
(* changes nothing; any other one starts the handshake over.               *)
AskConfig(c) ==
    /\ pc[c] = "read"
    /\ open[c]
    /\ live' = [live EXCEPT ![c] = FALSE]
    /\ pc' = [pc EXCEPT ![c] = "asked"]
    /\ UNCHANGED <<storeVars, threadVars, captured, clients, open, cursor, pending,
                   offset, todo, last, own, budget, histVars>>

(* _send_config up to the replay query: without a captured my_info it      *)
(* returns and the session stays as it is, not live.                       *)
ServeConfig(c) ==
    /\ pc[c] = "asked"
    /\ pc' = [pc EXCEPT ![c] = IF ~captured THEN "read"
                               ELSE IF ReplayEnabled THEN "count" ELSE "replay"]
    /\ last' = [last EXCEPT ![c] = cursor[c]]
    /\ UNCHANGED <<storeVars, threadVars, captured, clients, open, live, cursor, pending,
                   offset, todo, own, budget, histVars>>

(* exclude_origin *)
Excluded(c) == IF SkipOwn THEN {KeyOf[c]} ELSE {}

(* Worker: count_after, then packets_after, each under the lock on its own. *)
CountBacklog(c) ==
    /\ pc[c] = "count"
    /\ pc' = [pc EXCEPT ![c] = "select"]
    /\ offset' = [offset EXCEPT ![c] =
                    Larger(0, Cardinality(Backlog(cursor[c], Excluded(c))) - ReplayLimit)]
    /\ UNCHANGED <<storeVars, threadVars, captured, clients, open, live, cursor, pending,
                   todo, last, own, budget, histVars>>

SelectRows(c) ==
    LET chosen == Slice(Backlog(cursor[c], Excluded(c)), ReplayLimit, offset[c])
        left   == {r \in rows : r.seq > cursor[c] /\ r.seq \notin chosen}
    IN  /\ pc[c] = "select"
        /\ pc' = [pc EXCEPT ![c] = "selected"]
        /\ todo' = [todo EXCEPT ![c] = chosen]
        /\ skipped' = [skipped EXCEPT ![KeyOf[c]] = @ \cup
                        {r.seq : r \in {q \in left : ~q.fresh \/ \E n \in chosen : n > q.seq}}]
        /\ UNCHANGED <<storeVars, threadVars, captured, clients, open, live, cursor, pending,
                       offset, last, own, budget, wrote, handed, reached>>

CompleteEarly(c) ==                                 \* fault: returns when there are no rows
    /\ pc[c] = "selected"
    /\ Take(c)
    /\ pc' = [pc EXCEPT ![c] = IF todo[c] = {} THEN "read" ELSE "replay"]
    /\ UNCHANGED <<storeVars, reader, web, captured, clients, open, live, cursor, pending,
                   offset, todo, last, own, budget, histVars>>

(* config_complete goes out; the replay may start. *)
CompleteConfig(c) ==
    /\ pc[c] = "selected"
    /\ Take(c)
    /\ pc' = [pc EXCEPT ![c] = "replay"]
    /\ UNCHANGED <<storeVars, reader, web, captured, clients, open, live, cursor, pending,
                   offset, todo, last, own, budget, histVars>>

(* One row, then a sleep of replay_pace_ms. *)
ReplayRow(c) ==
    /\ pc[c] = "replay"
    /\ todo[c] # {}
    /\ Write(c, <<NextRow(c)>>)
    /\ last' = [last EXCEPT ![c] = Larger(@, NextRow(c))]
    /\ todo' = [todo EXCEPT ![c] = @ \ {NextRow(c)}]
    /\ UNCHANGED <<storeVars, threadVars, captured, clients, pc, open, live, cursor, pending,
                   offset, own, budget, skipped>>

(* The cursor moves over the replay, the pending frames are flushed and    *)
(* the session goes live, with no await in between.                        *)
GoLive(c) ==
    /\ pc[c] = "replay"
    /\ todo[c] = {}
    /\ Write(c, Flushed(c))
    /\ pending' = [pending EXCEPT ![c] = <<>>]
    /\ cursor' = [cursor EXCEPT ![c] = Covered(c)]
    /\ lastSeen' = Moved({KeyOf[c]}, Covered(c))
    /\ live' = [live EXCEPT ![c] = TRUE]
    /\ pc' = [pc EXCEPT ![c] = "read"]
    /\ UNCHANGED <<rows, lastSeq, threadVars, captured, clients, open, offset, todo, last,
                   own, budget, skipped>>

(* The app sends a packet that is not an admin message. *)
SendPacket(c) ==
    /\ pc[c] = "read"
    /\ open[c]
    /\ Spend("send")
    /\ pc' = [pc EXCEPT ![c] = IF StoreOutgoing THEN "storing" ELSE "sending"]
    /\ UNCHANGED <<storeVars, threadVars, captured, clients, open, live, cursor, pending,
                   offset, todo, last, own, histVars>>

(* Worker: store_client_packet.  An app's retry carries the same id. *)
StoreOwn(c, p) ==
    /\ pc[c] = "storing"
    /\ pc' = [pc EXCEPT ![c] = "stored"]
    /\ \/ /\ ~Stored(p)
          /\ Insert(p, KeyOf[c])
          /\ own' = [own EXCEPT ![c] = NextSeq]
       \/ /\ Stored(p)
          /\ own' = [own EXCEPT ![c] = NoSeq]
          /\ UNCHANGED <<rows, lastSeq>>
    /\ UNCHANGED <<lastSeen, threadVars, captured, clients, open, live, cursor, pending,
                   offset, todo, last, budget, histVars>>

(* Its own cursor moves past it, and the other apps are shown it. *)
MirrorOwn(c) ==
    /\ pc[c] = "stored"
    /\ Take(c)
    /\ pc' = [pc EXCEPT ![c] = "sending"]
    /\ \/ own[c] # NoSeq /\ Deliver(own[c], Others(c), {c})
       \/ own[c] = NoSeq /\ UNCHANGED <<pending, cursor, lastSeen, wrote, handed, reached>>
    /\ UNCHANGED <<rows, lastSeq, reader, web, captured, clients, open, live, offset, todo,
                   last, own, budget, skipped>>

(* _send_upstream returned, whether or not the node was reachable. *)
Sent(c) ==
    /\ pc[c] = "sending"
    /\ pc' = [pc EXCEPT ![c] = "read"]
    /\ UNCHANGED <<storeVars, threadVars, captured, clients, open, live, cursor, pending,
                   offset, todo, last, own, budget, histVars>>

(* The app goes away, or the idle reaper closes the writer: from here on   *)
(* writes are discarded.  The handler notices when it next reads.          *)
Drop(c) ==
    /\ open[c]
    /\ Spend("drop")
    /\ open' = [open EXCEPT ![c] = FALSE]
    /\ UNCHANGED <<storeVars, threadVars, captured, clients, pc, live, cursor, pending,
                   offset, todo, last, own, histVars>>

(* The handler ends and its session object with it. *)
Forget(C) ==
    /\ clients' = clients \ C
    /\ pc' = [c \in Conns |-> IF c \in C THEN "off" ELSE pc[c]]
    /\ open' = [c \in Conns |-> c \notin C /\ open[c]]
    /\ live' = [c \in Conns |-> c \notin C /\ live[c]]
    /\ cursor' = [c \in Conns |-> IF c \in C THEN 0 ELSE cursor[c]]
    /\ pending' = [c \in Conns |-> IF c \in C THEN <<>> ELSE pending[c]]
    /\ offset' = [c \in Conns |-> IF c \in C THEN 0 ELSE offset[c]]
    /\ todo' = [c \in Conns |-> IF c \in C THEN {} ELSE todo[c]]
    /\ last' = [c \in Conns |-> IF c \in C THEN 0 ELSE last[c]]
    /\ own' = [c \in Conns |-> IF c \in C THEN NoSeq ELSE own[c]]
    /\ wrote' = [c \in Conns |-> IF c \in C THEN <<>> ELSE wrote[c]]

Leave(c) ==
    /\ pc[c] = "read"
    /\ ~open[c]
    /\ Forget({c})
    /\ UNCHANGED <<storeVars, threadVars, captured, budget, handed, reached, skipped>>

-----------------------------------------------------------------------------
(* The web UI's send, the housekeeping job and the process itself.         *)

WebSend(p) ==
    /\ web = Nothing
    /\ ~Stored(p)            \* send_text draws a fresh packet id
    /\ Spend("web")
    /\ Insert(p, "webui")
    /\ web' = NextSeq
    /\ UNCHANGED <<lastSeen, reader, ready, captured, sessionVars, histVars>>

PostWeb ==
    /\ web # Nothing
    /\ ~Queued("web")
    /\ PostTo("web", web)
    /\ UNCHANGED <<storeVars, reader, web, captured, sessionVars, budget, histVars>>

MirrorWeb ==
    /\ Take("web")
    /\ Deliver(Head(ready).seq, clients, {})
    /\ web' = Nothing
    /\ UNCHANGED <<rows, lastSeq, reader, captured, clients, pc, open, live, offset, todo,
                   last, own, budget, skipped>>

Housekeeping ==
    /\ \/ Spend("prune") /\ Prune
       \/ /\ Spend("age")
          /\ \A c \in Conns : pc[c] # "select"  \* one min_rx_time for both queries
          /\ Age
    /\ UNCHANGED <<threadVars, captured, sessionVars, histVars>>

(* The process dies inside Deliver: some sessions W were written to, and   *)
(* the cursors those writes move are saved but for c's, the last of them.  *)
DiesDelivering(n, S, senders) ==
    \E W \in SUBSET Receiving(S), c \in Conns :
        /\ Give(n, W)
        /\ lastSeen' = Moved(KeysOf(senders \cup Moving(n, W \ {c})), n)

(* It dies inside GoLive: the cursor is saved as far as the replay went,   *)
(* if it had rows, and some of the flush is written.                       *)
DiesGoingLive(c) ==
    /\ pc[c] = "replay"
    /\ todo[c] = {}
    /\ lastSeen' = IF last[c] > cursor[c] THEN Moved({KeyOf[c]}, last[c]) ELSE lastSeen
    /\ \E m \in 0 .. Len(Flushed(c)) :
        LET given == {Flushed(c)[i] : i \in 1 .. m}
        IN  /\ handed' = [handed EXCEPT ![KeyOf[c]] = @ \cup given]
            /\ reached' = IF open[c] THEN [reached EXCEPT ![KeyOf[c]] = @ \cup given] ELSE reached

(* The step the loop was at when the process died, cut short. *)
Interrupted ==
    \/ /\ ready # <<>>
       /\ Head(ready).who \in {"reader", "web"}
       /\ DiesDelivering(Head(ready).seq, clients, {})
    \/ \E c \in Conns :
        /\ ready # <<>>
        /\ Head(ready).who = c
        /\ pc[c] = "stored"
        /\ own[c] # NoSeq
        /\ DiesDelivering(own[c], Others(c), {c})
    \/ \E c \in Conns : DiesGoingLive(c)

(* The process dies and comes back: only the database survives.  Whatever  *)
(* runs next to the loop, a worker's get_or_create_client or the reader    *)
(* thread's insert, can as well run before or after one of the loop's      *)
(* stretches: it touches no cursor a stretch saves.  Only a crash can tell *)
(* where in a stretch the loop was, so only a crash cuts one short.        *)
Restart ==
    /\ Spend("restart")
    /\ Interrupted \/ UNCHANGED <<lastSeen, handed, reached>>
    /\ reader' = Nothing /\ web' = Nothing /\ ready' = <<>>
    /\ Forget(Conns)
    /\ UNCHANGED <<rows, lastSeq, captured, skipped>>

-----------------------------------------------------------------------------
Handler(c) ==
    \/ LookUp(c) \/ PostWake(c) \/ Join(c)
    \/ ServeConfig(c) \/ CountBacklog(c) \/ SelectRows(c) \/ CompleteConfig(c)
    \/ ReplayRow(c) \/ GoLive(c)
    \/ (\E p \in AppPackets : StoreOwn(c, p)) \/ MirrorOwn(c) \/ Sent(c)
    \/ Leave(c)

Threads == PostFanout \/ Fanout \/ PostWeb \/ MirrorWeb

App(c) == Connect(c) \/ AskConfig(c) \/ SendPacket(c) \/ Drop(c)

World ==
    \/ \E p \in MeshPackets : HearText(p)
    \/ \E p \in AppPackets : WebSend(p)
    \/ HearOther \/ Capture \/ Housekeeping

Running == (\E c \in Conns : Handler(c) \/ App(c)) \/ Threads \/ World

Next == Running \/ Restart

Spec == Init /\ [][Next]_vars

(* Where a handler awaits writer.drain(): after the config frames, after   *)
(* config_complete and the rows, after going live.                         *)
Draining == {"count", "replay", "read"}

(* Threads and the loop keep running; nobody has to connect or to send,    *)
(* and no app has to read what it is written: drain() may never return.    *)
FairSpec ==
    /\ Spec
    /\ WF_vars(PostFanout) /\ WF_vars(Fanout) /\ WF_vars(PostWeb) /\ WF_vars(MirrorWeb)
    /\ \A c \in Conns : WF_vars(pc[c] \notin Draining /\ Handler(c))

(* The app of c keeps reading: every drain of its connection returns. *)
AppReads(c) == WF_vars(pc[c] \in Draining /\ Handler(c))

-----------------------------------------------------------------------------
TypeOK ==
    /\ StoreTypeOK
    /\ reader \in Nat \cup {Nothing}
    /\ web \in Nat \cup {Nothing}
    /\ ready \in Seq([who: Conns \cup {"reader", "web", "wiper"}, seq: Nat])
    /\ captured \in BOOLEAN
    /\ clients \subseteq Conns
    /\ pc \in [Conns -> Pcs]
    /\ open \in [Conns -> BOOLEAN]
    /\ live \in [Conns -> BOOLEAN]
    /\ cursor \in [Conns -> Nat]
    /\ pending \in [Conns -> Seq(Nat)]
    /\ offset \in [Conns -> Nat]
    /\ todo \in [Conns -> SUBSET (Nat \ {0})]
    /\ last \in [Conns -> Nat]
    /\ own \in [Conns -> Nat]
    /\ budget \in [Events -> Nat]
    /\ wrote \in [Conns -> Seq(Nat)]
    /\ handed \in [Keys -> SUBSET Nat]
    /\ reached \in [Keys -> SUBSET Nat]
    /\ skipped \in [Keys -> SUBSET Nat]

(* No cursor, of a session or in the database, is past the last number the *)
(* store handed out: a message numbered later would never be replayed.     *)
CursorWithinStore ==
    /\ \A k \in Keys : lastSeen[k] <= lastSeq
    /\ \A c \in Conns : cursor[c] <= lastSeq

(* What k was given live and a replay would return after this crash. *)
Again(k) ==
    LET shown == UNION {Range(wrote[c]) : c \in {d \in Conns : live[d] /\ KeyOf[d] = k}}
    IN  {n \in shown \cup (handed'[k] \ handed[k]) : n > lastSeen'[k]}

Replaying(k) == \E c \in Conns : KeyOf[c] = k /\ pc[c] = "replay"

(* Live messages move the saved cursor one by one.  The process may die    *)
(* between a write and the save that follows it, and still no crash shows  *)
(* the apps more than one message a second time, and that to one app: the  *)
(* message it died with.  (An app in the middle of its replay starts that  *)
(* over; it is not counted.)                                               *)
CrashRepeatsOne ==
    [][Restart => \A k, l \in {h \in Keys : ~Replaying(h)} : \A m \in Again(k), n \in Again(l) :
            k = l /\ m = n]_vars

(* Sessions that share a key, a slow replay of one next to live traffic on *)
(* the other, never take the persisted cursor back.                        *)
CursorOnlyForward ==
    [][\A k \in Keys : lastSeen[k] # NoRow => lastSeen'[k] >= lastSeen[k]]_vars

(* A message gets a number past every saved cursor, even when the rows it  *)
(* follows were deleted: otherwise no replay would ever return it.         *)
NewRowsPastCursors ==
    [][\A r \in rows' : (\A q \in rows : q.seq # r.seq) => \A k \in Keys : r.seq > lastSeen[k]]_vars

(* The promise of the cursor: a message an app's cursor is past was        *)
(* written to that app, or it fell to the replay's limit or age window.    *)
NothingPassedOver ==
    \A k \in Keys, r \in rows :
        lastSeen[k] >= r.seq /\ r.origin # k => r.seq \in handed[k] \cup skipped[k]

(* What the flush leaves out, the app has: a pending message is skipped    *)
(* only when it was written already, or the replay's limit or age window   *)
(* left it out.                                                            *)
FlushSkipsOnlyCovered ==
    [][\A c \in Conns : GoLive(c)
            => Range(pending[c]) \ {NoSeq} \subseteq handed'[KeyOf[c]] \cup skipped[KeyOf[c]]]_vars

(* NothingPassedOver, counting only what an open connection was given.     *)
NothingMissed ==
    \A k \in Keys, r \in rows :
        lastSeen[k] >= r.seq /\ r.origin # k => r.seq \in reached[k] \cup skipped[k]

(* Going live leaves no frame behind in the queue nothing reads any more.  *)
LiveHasNoBacklog == \A c \in Conns : live[c] => pending[c] = <<>>

(* No mesh traffic is mixed into the handshake an app asked for: apps      *)
(* assume the firmware's order of frames up to config_complete.            *)
QuietHandshake ==
    [][\A c \in Conns : pc[c] \in {"asked", "count", "select", "selected"} /\ c \in clients'
            => wrote'[c] = wrote[c]]_vars

Written(c) == DOMAIN wrote[c]

(* In one session messages are first seen in the order they were stored.   *)
FirstSeenInOrder ==
    \A c \in Conns : \A i, j \in Written(c) :
        i < j /\ NoSeq < wrote[c][j] /\ wrote[c][j] < wrote[c][i]
            => \E h \in 1 .. i : wrote[c][h] = wrote[c][j]

InFlight(c) == {i \in DOMAIN ready : ready[i].who = "reader" /\ ready[i].seq \in Range(wrote[c]) \ {NoSeq}}

(* The loop's FIFO keeps what the replay read ahead of the fan-out down to *)
(* the one message the reader thread held at that moment.                  *)
AtMostOneSecondCopy ==
    \A c \in Conns : live[c] =>
        Cardinality(InFlight(c)) + (IF reader \in Range(wrote[c]) \ {NoSeq} THEN 1 ELSE 0) <= 1

(* A session is not shown the message it has just sent. *)
NoEcho == \A c \in Conns : own[c] # NoSeq => own[c] \notin Range(wrote[c])

(* Stored, and still on its way to session c. *)
Coming(c) ==
    {reader, web} \cup Range(pending[c]) \cup {ready[i].seq : i \in DOMAIN ready}
        \cup {own[d] : d \in {e \in Conns : pc[e] = "stored"}}

(* A replay that cannot return the whole backlog leaves out only messages  *)
(* older than ReplayLimit others it returns, or ones that were stored      *)
(* after the count and come by the fan-out.                                *)
LimitKeepsNewest ==
    \A c \in Conns : pc[c] = "selected" =>
        \A n \in Backlog(cursor[c], Excluded(c)) \ todo[c] :
            \/ Cardinality({m \in todo[c] : m > n}) = ReplayLimit
            \/ n \in Coming(c)

(* A message stored while an app is connected and configured gets to it,   *)
(* if that app reads; what the other apps do does not matter.              *)
Numbers == 1 .. Budget["mesh"] + Budget["web"] + Budget["send"]
GetsThrough ==
    \A c \in Conns : AppReads(c) => \A n \in Numbers :
        (live[c] /\ \E r \in rows : r.seq = n /\ r.origin # KeyOf[c])
            ~> (n \in handed[KeyOf[c]] \cup skipped[KeyOf[c]] \/ ~open[c])

(* An app that asks for the handshake, and reads it, gets to the end of    *)
(* it and is live, next to another one that may not read.                  *)
HandshakeEnds ==
    \A c \in Conns : AppReads(c) => (pc[c] = "count" ~> (live[c] \/ ~open[c]))

(* Sessions, replay, queues and fan-out together are a mailbox: a number   *)
(* is given out once, a cursor only goes forward, and every message it     *)
(* goes over was written to the app or left out by its limit or age        *)
(* window, step by step and not only in the end (db.py:9-10).              *)
Box == INSTANCE Mailbox WITH
    Apps  <- Keys,
    top   <- lastSeq,
    held  <- {r.seq : r \in rows},
    read  <- [k \in Keys |-> Larger(0, lastSeen[k])],
    given <- [k \in Keys |-> handed[k] \cup skipped[k]]

IsMailbox == Box!Spec
=============================================================================
