------------------------- MODULE MaintenanceProofs --------------------------
(***************************************************************************)
(* What Clear data and Reset cursor do to the promises of VNodeServer, for *)
(* every set of keys, connections and messages and any number of clears    *)
(* and resets.                                                             *)
(*                                                                         *)
(* Clear data starts the numbering over while queues, sessions and threads *)
(* still hold old numbers, so that NumbersKnown, the invariant of          *)
(* VNodeServer, does not hold here.  What is left of it is that every      *)
(* number is a natural one and every pending queue has some greatest.      *)
(***************************************************************************)
EXTENDS VNodeMaintenance, VNodeServerProofs

(* The flush takes the greatest pending number: there has to be one. *)
Bounded(s) == \E b \in Nat : s \in Seq(0 .. b)

StoreCounts ==
    /\ lastSeq \in Nat
    /\ rows \subseteq Row
    /\ lastSeen \in [Keys -> Nat \cup {NoRow}]

ThreadCounts ==
    /\ reader \in Nat \cup {Nothing}
    /\ web \in Nat \cup {Nothing}
    /\ ready \in Seq(Posted(Nat))

SessionCounts ==
    /\ cursor \in [Conns -> Nat]
    /\ last \in [Conns -> Nat]
    /\ own \in [Conns -> Nat]
    /\ todo \in [Conns -> SUBSET Nat]
    /\ pending \in [Conns -> Seq(Nat)]
    /\ \A c \in Conns : Bounded(pending[c])

CountsInv == StoreCounts /\ ThreadCounts /\ SessionCounts

Elsewhere == {"off", "opening"}   \* no session of the connection has read its cursor yet

AwayInv ==
    /\ clients \subseteq Conns
    /\ pc \in [Conns -> Pcs]
    /\ \A c \in clients : pc[c] \notin Elsewhere
    /\ rewound \subseteq Keys
    /\ \A k \in rewound :
          /\ lastSeen[k] \in {0, NoRow}
          /\ \A c \in Conns : KeyOf[c] = k => pc[c] \in Elsewhere

-----------------------------------------------------------------------------
(* The numbers stay natural.                                               *)

(* A queue a number is appended to still has a greatest. *)
LEMMA AppendBounded ==
    ASSUME NEW s, Bounded(s), NEW n \in Nat
    PROVE  Bounded(Append(s, n))
<1>1. PICK b \in Nat : s \in Seq(0 .. b)
  BY DEF Bounded
<1>2. PICK m \in Nat : b <= m /\ n <= m
  BY DEF Larger
<1>3. 0 .. b \subseteq 0 .. m /\ n \in 0 .. m
  BY <1>2
<1>4. s \in Seq(0 .. m)
  BY <1>1, <1>3, SeqMonotonic
<1>5. Append(s, n) \in Seq(0 .. m)
  BY <1>3, <1>4, AppendProperties
<1> QED BY <1>5 DEF Bounded

(* A connection just opened has none queued. *)
LEMMA NoneBounded == <<>> \in Seq(Nat) /\ Bounded(<<>>)
<1>1. <<>> \in Seq(Nat) /\ <<>> \in Seq(0 .. 0) /\ 0 \in Nat
  BY EmptySeq
<1> QED BY <1>1 DEF Bounded

(* Moving a cursor to a number leaves it at a number. *)
LEMMA MovedCounts ==
    ASSUME CountsInv, NEW n \in Nat, NEW K
    PROVE  /\ Moved(K, n) \in [Keys -> Nat \cup {NoRow}]
           /\ \A k \in Keys : Moved(K, n)[k] >= lastSeen[k]
BY DEF Moved, Larger, NoRow, CountsInv, StoreCounts

(* One delivery of a message, numbered or not. *)
LEMMA DeliverCounts ==
    ASSUME CountsInv, NEW n \in Nat, NEW S, NEW senders, Deliver(n, S, senders)
    PROVE  /\ cursor' \in [Conns -> Nat]
           /\ lastSeen' \in [Keys -> Nat \cup {NoRow}]
           /\ pending' \in [Conns -> Seq(Nat)]
           /\ \A c \in Conns : Bounded(pending'[c])
<1>1. cursor' \in [Conns -> Nat]
  BY DEF Deliver, Give, Moving, KeysOf, Larger, CountsInv, SessionCounts
<1>2. lastSeen' \in [Keys -> Nat \cup {NoRow}]
  BY MovedCounts DEF Deliver, Give, Moving, KeysOf
<1>3. \A s \in Seq(Nat) : Append(s, n) \in Seq(Nat)
  BY AppendProperties
<1>4. \A c \in Conns : pending[c] \in Seq(Nat) /\ Bounded(pending[c])
  BY DEF CountsInv, SessionCounts
<1>5. \A c \in Conns : Bounded(Append(pending[c], n))
  BY <1>4, AppendBounded
<1>6. pending' \in [Conns -> Seq(Nat)]
  BY <1>3, <1>4 DEF Deliver, Give, Moving, KeysOf
<1>7. \A c \in Conns : pending'[c] \in {pending[c], Append(pending[c], n)}
  BY DEF Deliver, Give, Moving, KeysOf
<1>8. \A c \in Conns : Bounded(pending'[c])
  BY <1>4, <1>5, <1>7
<1> QED BY <1>1, <1>2, <1>6, <1>8

(* What the flush moves the cursor to is a number. *)
LEMMA CoveredCounts ==
    ASSUME CountsInv, NEW c \in Conns
    PROVE  Covered(c) \in Nat
<1> DEFINE S == {last[c]} \cup Range(pending[c])
<1>1. last[c] \in Nat
  BY DEF CountsInv, SessionCounts
<1>2. PICK b \in Nat : pending[c] \in Seq(0 .. b)
  BY DEF CountsInv, SessionCounts, Bounded
<1>3. Range(pending[c]) \subseteq 0 .. b
  BY <1>2, ElementOfSeq, LenProperties DEF Range
<1>4. PICK m \in Nat : b <= m /\ last[c] <= m
  BY <1>1 DEF Larger
<1>5. S \in SUBSET Nat /\ S # {} /\ \A x \in S : x <= m
  BY <1>1, <1>3, <1>4
<1>6. Max(S) \in S
  BY <1>4, <1>5, MaxOfBounded
<1> QED BY <1>5, <1>6 DEF Covered

(* The loop's queue, taken from and posted to. *)
LEMMA QueueCounts ==
    ASSUME ready \in Seq(Posted(Nat)), NEW who \in Conns \cup {"reader", "web", "wiper"}
    PROVE  /\ Take(who) => ready' \in Seq(Posted(Nat)) /\ Head(ready).seq \in Nat
           /\ \A n \in Nat : PostTo(who, n) => ready' \in Seq(Posted(Nat))
<1>1. ASSUME Take(who) PROVE ready' \in Seq(Posted(Nat)) /\ Head(ready).seq \in Nat
  <2>1. Head(ready) \in Posted(Nat) /\ Tail(ready) \in Seq(Posted(Nat))
    BY <1>1, HeadTailProperties DEF Take
  <2>2. Head(ready).seq \in Nat
    BY <2>1 DEF Posted
  <2> QED BY <1>1, <2>1, <2>2 DEF Take
<1>2. ASSUME NEW n \in Nat, PostTo(who, n) PROVE ready' \in Seq(Posted(Nat))
  <2>1. [who |-> who, seq |-> n] \in Posted(Nat)
    BY DEF Posted
  <2> QED BY <1>2, <2>1, AppendProperties DEF PostTo
<1> QED BY <1>1, <1>2

(* When the program starts, and when it stores a message.                  *)
LEMMA InitCounts == ASSUME MInit PROVE CountsInv
<1>1. Init
  BY DEF MInit
<1>2. StoreCounts
  BY <1>1 DEF Init, StoreInit, StoreCounts
<1>3. ThreadCounts
  BY <1>1, EmptySeq DEF Init, ThreadCounts
<1>4. SessionCounts
  BY <1>1, NoneBounded DEF Init, SessionCounts, NoSeq
<1> QED BY <1>2, <1>3, <1>4 DEF CountsInv

LEMMA InsertCounts ==
    ASSUME CountsInv, NEW p \in Packets, NEW o \in Origins, Insert(p, o), UNCHANGED lastSeen
    PROVE  StoreCounts' /\ NextSeq \in Nat
<1> DEFINE new == [seq |-> NextSeq, pkt |-> p, origin |-> o, fresh |-> TRUE]
<1>1. lastSeq \in Nat /\ NextSeq \in Nat \ {0} /\ lastSeq' = NextSeq
  BY DEF CountsInv, StoreCounts, Insert, NextSeq
<1>2. new \in Row /\ rows' = rows \cup {new}
  BY <1>1 DEF Row, Insert
<1> HIDE DEF new
<1> QED BY <1>1, <1>2 DEF CountsInv, StoreCounts

(* A handler that ends leaves an empty queue. *)
LEMMA ForgetCounts == ASSUME CountsInv, NEW C, Forget(C) PROVE SessionCounts'
BY NoneBounded DEF Forget, CountsInv, SessionCounts, NoSeq

(* The threads and the environment. *)
LEMMA WorldCounts == ASSUME CountsInv, World PROVE CountsInv'
<1> USE DEF storeVars, threadVars, sessionVars, histVars
<1>1. ASSUME UNCHANGED sessionVars PROVE SessionCounts'
  BY <1>1 DEF CountsInv, SessionCounts
<1>2. ASSUME NEW p \in MeshPackets, HearText(p) PROVE CountsInv'
  <2>1. SessionCounts'
    BY <1>1, <1>2 DEF HearText
  <2>2. StoreCounts' /\ reader' \in Nat
    <3>1. CASE Insert(p, "mesh") /\ reader' = NextSeq
      <4>1. p \in Packets /\ "mesh" \in Origins
        BY DEF Packets, Origins
      <4> QED BY <1>2, <3>1, <4>1, InsertCounts DEF HearText
    <3>2. CASE reader' = NoSeq /\ UNCHANGED <<rows, lastSeq>>
      BY <1>2, <3>2 DEF HearText, CountsInv, StoreCounts, NoSeq
    <3> QED BY <1>2, <3>1, <3>2 DEF HearText
  <2>3. ThreadCounts'
    BY <1>2, <2>2 DEF HearText, CountsInv, ThreadCounts
  <2> QED BY <2>1, <2>2, <2>3 DEF CountsInv
<1>3. ASSUME NEW p \in AppPackets, WebSend(p) PROVE CountsInv'
  <2>1. SessionCounts'
    BY <1>1, <1>3 DEF WebSend
  <2>2. StoreCounts' /\ web' \in Nat
    <3>1. p \in Packets /\ "webui" \in Origins
      BY DEF Packets, Origins
    <3> QED BY <1>3, <3>1, InsertCounts DEF WebSend
  <2>3. ThreadCounts'
    BY <1>3, <2>2 DEF WebSend, CountsInv, ThreadCounts
  <2> QED BY <2>1, <2>2, <2>3 DEF CountsInv
<1>4. CASE HearOther \/ Capture
  BY <1>1, <1>4 DEF HearOther, Capture, CountsInv, StoreCounts, ThreadCounts, NoSeq
<1>5. CASE Housekeeping
  <2>1. SessionCounts' /\ ThreadCounts'
    BY <1>1, <1>5 DEF Housekeeping, CountsInv, ThreadCounts
  <2>2. ASSUME Prune PROVE StoreCounts'
    BY <2>2 DEF Prune, CountsInv, StoreCounts
  <2>3. ASSUME Age PROVE StoreCounts'
    <3>1. PICK r \in rows : rows' = (rows \ {r}) \cup {[r EXCEPT !.fresh = FALSE]}
      BY <2>3 DEF Age
    <3>2. [r EXCEPT !.fresh = FALSE] \in Row
      BY DEF CountsInv, StoreCounts, Row
    <3> QED BY <2>3, <3>1, <3>2 DEF Age, CountsInv, StoreCounts
  <2> QED BY <1>5, <2>1, <2>2, <2>3 DEF Housekeeping, CountsInv
<1> QED BY <1>2, <1>3, <1>4, <1>5 DEF World

LEMMA ThreadStepCounts == ASSUME CountsInv, Threads PROVE CountsInv'
<1> USE DEF storeVars, threadVars, sessionVars, histVars
<1>1. ready \in Seq(Posted(Nat))
  BY DEF CountsInv, ThreadCounts
<1>2. CASE PostFanout
  <2>1. reader \in Nat
    BY <1>2 DEF PostFanout, CountsInv, ThreadCounts, Nothing
  <2>2. ThreadCounts'
    BY <1>1, <1>2, <2>1, QueueCounts DEF PostFanout, CountsInv, ThreadCounts
  <2> QED BY <1>2, <2>2 DEF PostFanout, CountsInv, StoreCounts, SessionCounts
<1>3. CASE PostWeb
  <2>1. web \in Nat
    BY <1>3 DEF PostWeb, CountsInv, ThreadCounts, Nothing
  <2>2. ThreadCounts'
    BY <1>1, <1>3, <2>1, QueueCounts DEF PostWeb, CountsInv, ThreadCounts
  <2> QED BY <1>3, <2>2 DEF PostWeb, CountsInv, StoreCounts, SessionCounts
<1>4. CASE Fanout \/ MirrorWeb
  <2>1. Head(ready).seq \in Nat /\ ready' \in Seq(Posted(Nat))
    BY <1>1, <1>4, QueueCounts DEF Fanout, MirrorWeb
  <2>2. ThreadCounts'
    BY <1>4, <2>1 DEF Fanout, MirrorWeb, CountsInv, ThreadCounts
  <2>3. Deliver(Head(ready).seq, clients, {}) /\ UNCHANGED <<rows, lastSeq, last, own, todo>>
    BY <1>4 DEF Fanout, MirrorWeb
  <2>4. /\ cursor' \in [Conns -> Nat] /\ lastSeen' \in [Keys -> Nat \cup {NoRow}]
        /\ pending' \in [Conns -> Seq(Nat)] /\ \A c \in Conns : Bounded(pending'[c])
    BY <2>1, <2>3, DeliverCounts
  <2>5. StoreCounts'
    BY <2>3, <2>4 DEF CountsInv, StoreCounts
  <2>6. SessionCounts'
    BY <2>3, <2>4 DEF CountsInv, SessionCounts
  <2> QED BY <2>2, <2>5, <2>6 DEF CountsInv
<1> QED BY <1>2, <1>3, <1>4 DEF Threads

(* The apps, the sessions' handlers, and a restart. *)
LEMMA AppCounts == ASSUME CountsInv, NEW c \in Conns, App(c) PROVE CountsInv'
BY DEF App, Connect, AskConfig, SendPacket, Drop, CountsInv, StoreCounts, ThreadCounts,
   SessionCounts, storeVars, threadVars

LEMMA HandlerCounts == ASSUME CountsInv, NEW c \in Conns, Handler(c) PROVE CountsInv'
<1> USE DEF storeVars, threadVars, sessionVars, histVars
<1>1. ready \in Seq(Posted(Nat)) /\ KeyOf[c] \in Keys
  BY ServerAssumption DEF CountsInv, ThreadCounts
<1>2. CASE LookUp(c)
  <2>1. FoundOrCreated(KeyOf[c]) \in Nat
    BY <1>1 DEF FoundOrCreated, NoRow, CountsInv, StoreCounts
  <2>2. StoreCounts' /\ ThreadCounts'
    BY <1>2, <2>1 DEF LookUp, CountsInv, StoreCounts, ThreadCounts
  <2>3. SessionCounts'
    BY <1>2, <2>1 DEF LookUp, CountsInv, SessionCounts
  <2> QED BY <2>2, <2>3 DEF CountsInv
<1>3. CASE PostWake(c)
  <2>1. ready' \in Seq(Posted(Nat))
    BY <1>1, <1>3, QueueCounts DEF PostWake, NoSeq
  <2> QED BY <1>3, <2>1 DEF PostWake, CountsInv, StoreCounts, ThreadCounts, SessionCounts
<1>4. CASE Join(c) \/ CompleteConfig(c)
  <2>1. ready' \in Seq(Posted(Nat))
    BY <1>1, <1>4, QueueCounts DEF Join, CompleteConfig
  <2> QED BY <1>4, <2>1 DEF Join, CompleteConfig, CountsInv, StoreCounts, ThreadCounts,
              SessionCounts
<1>5. CASE ServeConfig(c) \/ CountBacklog(c) \/ Sent(c)
  BY <1>5 DEF ServeConfig, CountBacklog, Sent, CountsInv, StoreCounts, ThreadCounts,
      SessionCounts
<1>6. CASE SelectRows(c)
  <2> DEFINE chosen == Slice(Backlog(cursor[c], Excluded(c)), ReplayLimit, offset[c])
  <2>1. chosen \in SUBSET Nat
    BY DEF Slice, Backlog, CountsInv, StoreCounts, Row
  <2>2. /\ todo' = [todo EXCEPT ![c] = chosen]
        /\ UNCHANGED <<storeVars, threadVars, cursor, pending, last, own>>
    BY <1>6 DEF SelectRows
  <2> HIDE DEF chosen
  <2> QED BY <2>1, <2>2 DEF CountsInv, StoreCounts, ThreadCounts, SessionCounts
<1>7. CASE ReplayRow(c)
  <2>1. todo[c] \in SUBSET Nat /\ last[c] \in Nat
    BY DEF CountsInv, SessionCounts
  <2>2. NextRow(c) \in Nat
    BY <1>7, <2>1, MinOfNaturals DEF ReplayRow, NextRow
  <2>3. Larger(last[c], NextRow(c)) \in Nat
    BY <2>1, <2>2 DEF Larger
  <2>4. /\ last' = [last EXCEPT ![c] = Larger(last[c], NextRow(c))]
        /\ todo' = [todo EXCEPT ![c] = todo[c] \ {NextRow(c)}]
        /\ UNCHANGED <<storeVars, threadVars, cursor, pending, own>>
    BY <1>7 DEF ReplayRow
  <2> QED BY <2>1, <2>3, <2>4 DEF CountsInv, StoreCounts, ThreadCounts, SessionCounts
<1>8. CASE GoLive(c)
  <2>1. Covered(c) \in Nat
    BY CoveredCounts
  <2>2. lastSeen' \in [Keys -> Nat \cup {NoRow}]
    BY <1>8, <2>1, MovedCounts DEF GoLive
  <2>3. StoreCounts' /\ ThreadCounts'
    BY <1>8, <2>2 DEF GoLive, CountsInv, StoreCounts, ThreadCounts
  <2>4. SessionCounts'
    BY <1>8, <2>1, NoneBounded DEF GoLive, CountsInv, SessionCounts
  <2> QED BY <2>3, <2>4 DEF CountsInv
<1>9. ASSUME NEW p \in AppPackets, StoreOwn(c, p) PROVE CountsInv'
  <2>1. StoreCounts' /\ own' \in [Conns -> Nat]
    <3>1. CASE Insert(p, KeyOf[c]) /\ own' = [own EXCEPT ![c] = NextSeq]
      <4>1. p \in Packets /\ KeyOf[c] \in Origins
        BY <1>1 DEF Packets, Origins
      <4>2. StoreCounts' /\ NextSeq \in Nat
        BY <1>9, <3>1, <4>1, InsertCounts DEF StoreOwn
      <4> QED BY <3>1, <4>2 DEF CountsInv, SessionCounts
    <3>2. CASE own' = [own EXCEPT ![c] = NoSeq] /\ UNCHANGED <<rows, lastSeq>>
      BY <1>9, <3>2 DEF StoreOwn, CountsInv, StoreCounts, SessionCounts, NoSeq
    <3> QED BY <1>9, <3>1, <3>2 DEF StoreOwn
  <2> QED BY <1>9, <2>1 DEF StoreOwn, CountsInv, ThreadCounts, SessionCounts
<1>10. CASE MirrorOwn(c)
  <2>1. ThreadCounts'
    BY <1>1, <1>10, QueueCounts DEF MirrorOwn, CountsInv, ThreadCounts
  <2>2. UNCHANGED <<rows, lastSeq, last, own, todo>>
    BY <1>10 DEF MirrorOwn
  <2>3. CASE Deliver(own[c], Others(c), {c})
    <3>1. own[c] \in Nat
      BY DEF CountsInv, SessionCounts
    <3>2. /\ cursor' \in [Conns -> Nat] /\ lastSeen' \in [Keys -> Nat \cup {NoRow}]
          /\ pending' \in [Conns -> Seq(Nat)] /\ \A d \in Conns : Bounded(pending'[d])
      BY <2>3, <3>1, DeliverCounts
    <3>3. StoreCounts'
      BY <2>2, <3>2 DEF CountsInv, StoreCounts
    <3>4. SessionCounts'
      BY <2>2, <3>2 DEF CountsInv, SessionCounts
    <3> QED BY <2>1, <3>3, <3>4 DEF CountsInv
  <2>4. CASE UNCHANGED <<pending, cursor, lastSeen>>
    BY <2>1, <2>2, <2>4 DEF CountsInv, StoreCounts, SessionCounts
  <2> QED BY <1>10, <2>3, <2>4 DEF MirrorOwn
<1>11. CASE Leave(c)
  BY <1>11, ForgetCounts DEF Leave, CountsInv, StoreCounts, ThreadCounts
<1> QED BY <1>2, <1>3, <1>4, <1>5, <1>6, <1>7, <1>8, <1>9, <1>10, <1>11 DEF Handler

(* What a crash leaves of the step it cut short: at most cursors of apps   *)
(* that were being served moved on to one number.                          *)
LEMMA CrashMoves ==
    ASSUME CountsInv, Restart
    PROVE  \/ UNCHANGED lastSeen
           \/ \E n \in Nat, C \in SUBSET (clients \cup Conns) :
                /\ lastSeen' = Moved(KeysOf(C), n)
                /\ \A c \in C : c \in clients \/ pc[c] \notin Elsewhere
<1>1. ASSUME NEW n \in Nat, NEW S \in SUBSET clients, NEW senders \in SUBSET Conns,
             DiesDelivering(n, S, senders), \A c \in senders : pc[c] \notin Elsewhere
      PROVE  \E m \in Nat, C \in SUBSET (clients \cup Conns) :
                /\ lastSeen' = Moved(KeysOf(C), m)
                /\ \A c \in C : c \in clients \/ pc[c] \notin Elsewhere
  <2>1. PICK W \in SUBSET Receiving(S), c \in Conns :
            lastSeen' = Moved(KeysOf(senders \cup Moving(n, W \ {c})), n)
    BY <1>1 DEF DiesDelivering
  <2>2. Moving(n, W \ {c}) \subseteq clients
    BY DEF Moving, Receiving
  <2> DEFINE C == senders \cup Moving(n, W \ {c})
  <2>3. C \in SUBSET (clients \cup Conns) /\ \A d \in C : d \in clients \/ pc[d] \notin Elsewhere
    BY <1>1, <2>2
  <2>4. lastSeen' = Moved(KeysOf(C), n)
    BY <2>1
  <2> HIDE DEF C
  <2> QED BY <2>3, <2>4
<1>2. ASSUME NEW c \in Conns, DiesGoingLive(c)
      PROVE  \/ UNCHANGED lastSeen
             \/ \E m \in Nat, C \in SUBSET (clients \cup Conns) :
                  /\ lastSeen' = Moved(KeysOf(C), m)
                  /\ \A d \in C : d \in clients \/ pc[d] \notin Elsewhere
  <2>1. last[c] \in Nat /\ KeysOf({c}) = {KeyOf[c]}
    BY DEF CountsInv, SessionCounts, KeysOf
  <2>2. pc[c] \notin Elsewhere /\ (UNCHANGED lastSeen \/ lastSeen' = Moved(KeysOf({c}), last[c]))
    BY <1>2, <2>1 DEF DiesGoingLive, Elsewhere
  <2>3. {c} \in SUBSET (clients \cup Conns)
    OBVIOUS
  <2> QED BY <2>1, <2>2, <2>3
<1>3. ASSUME ready # <<>> PROVE Head(ready).seq \in Nat
  <2>1. ready \in Seq(Posted(Nat))
    BY DEF CountsInv, ThreadCounts
  <2>2. Head(ready) \in Posted(Nat)
    BY <1>3, <2>1, HeadTailProperties
  <2> QED BY <2>2 DEF Posted
<1>4. ASSUME NEW c \in Conns PROVE own[c] \in Nat /\ Others(c) \in SUBSET clients
  BY DEF CountsInv, SessionCounts, Others
<1>5. ASSUME ready # <<>>, DiesDelivering(Head(ready).seq, clients, {})
      PROVE  \E m \in Nat, C \in SUBSET (clients \cup Conns) :
                /\ lastSeen' = Moved(KeysOf(C), m)
                /\ \A c \in C : c \in clients \/ pc[c] \notin Elsewhere
  <2>1. PICK n \in Nat : n = Head(ready).seq
    BY <1>3, <1>5
  <2>2. DiesDelivering(n, clients, {}) /\ clients \in SUBSET clients /\ {} \in SUBSET Conns
    BY <1>5, <2>1
  <2> QED BY <1>1, <2>2
<1>6. ASSUME NEW c \in Conns, pc[c] = "stored", DiesDelivering(own[c], Others(c), {c})
      PROVE  \E m \in Nat, C \in SUBSET (clients \cup Conns) :
                /\ lastSeen' = Moved(KeysOf(C), m)
                /\ \A d \in C : d \in clients \/ pc[d] \notin Elsewhere
  <2>1. {c} \in SUBSET Conns /\ \A d \in {c} : pc[d] \notin Elsewhere
    BY <1>6 DEF Elsewhere
  <2> QED BY <1>1, <1>4, <1>6, <2>1
<1> QED BY <1>2, <1>5, <1>6 DEF Restart, Interrupted

(* So no saved cursor is taken back and no row is created. *)
LEMMA CrashForward ==
    ASSUME CountsInv, Restart
    PROVE  /\ lastSeen' \in [Keys -> Nat \cup {NoRow}]
           /\ \A k \in Keys : lastSeen'[k] >= lastSeen[k] /\ (lastSeen[k] = NoRow => lastSeen'[k] = NoRow)
<1>1. CASE UNCHANGED lastSeen
  BY <1>1 DEF CountsInv, StoreCounts, NoRow
<1>2. ASSUME NEW n \in Nat, NEW C, lastSeen' = Moved(KeysOf(C), n)
      PROVE  /\ lastSeen' \in [Keys -> Nat \cup {NoRow}]
             /\ \A k \in Keys : lastSeen'[k] >= lastSeen[k] /\ (lastSeen[k] = NoRow => lastSeen'[k] = NoRow)
  <2>1. \A k \in Keys : lastSeen[k] = NoRow => lastSeen'[k] = NoRow
    BY <1>2 DEF Moved
  <2> QED BY <1>2, <2>1, MovedCounts
<1> QED BY <1>1, <1>2, CrashMoves

LEMMA RestartCounts == ASSUME CountsInv, Restart PROVE CountsInv'
<1>1. ThreadCounts'
  BY EmptySeq DEF Restart, ThreadCounts
<1>2. StoreCounts'
  BY CrashForward DEF Restart, CountsInv, StoreCounts
<1>3. SessionCounts'
  BY ForgetCounts DEF Restart
<1> QED BY <1>1, <1>2, <1>3 DEF CountsInv

(* Clear data and Reset cursor only take numbers away, the rest of them    *)
(* only moves numbers.                                                     *)
LEMMA MaintenanceCounts ==
    ASSUME CountsInv, Clear \/ PostWiper \/ DisconnectAll \/ (\E k \in Keys : Reset(k))
    PROVE  CountsInv'
<1> USE DEF storeVars, threadVars, sessionVars, histVars
<1>1. ready \in Seq(Posted(Nat))
  BY DEF CountsInv, ThreadCounts
<1>2. CASE Clear
  BY <1>2 DEF Clear, ClearData, CountsInv, StoreCounts, ThreadCounts, SessionCounts
<1>3. CASE PostWiper
  <2>1. ready' \in Seq(Posted(Nat))
    BY <1>1, <1>3, QueueCounts DEF PostWiper, NoSeq
  <2> QED BY <1>3, <2>1 DEF PostWiper, CountsInv, StoreCounts, ThreadCounts, SessionCounts
<1>4. CASE DisconnectAll
  <2>1. ready' \in Seq(Posted(Nat))
    BY <1>1, <1>4, QueueCounts DEF DisconnectAll
  <2> QED BY <1>4, <2>1 DEF DisconnectAll, CountsInv, StoreCounts, ThreadCounts, SessionCounts
<1>5. ASSUME NEW k \in Keys, Reset(k) PROVE CountsInv'
  BY <1>5 DEF Reset, ResetCursor, CountsInv, StoreCounts, ThreadCounts, SessionCounts
<1> QED BY <1>2, <1>3, <1>4, <1>5

(* The invariant of the numbers holds throughout. *)
LEMMA CountsStep == ASSUME CountsInv, [MNext]_mvars PROVE CountsInv'
<1>1. CASE UNCHANGED mvars
  BY <1>1 DEF mvars, vars, storeVars, threadVars, sessionVars, CountsInv, StoreCounts,
      ThreadCounts, SessionCounts
<1>2. CASE Served
  BY <1>2, AppCounts, HandlerCounts, ThreadStepCounts, WorldCounts DEF Served, Running
<1>3. CASE MRestart
  BY <1>3, RestartCounts DEF MRestart
<1> QED BY <1>1, <1>2, <1>3, MaintenanceCounts DEF MNext

LEMMA CountsAlways == MSpec => []CountsInv
<1>1. MInit => CountsInv
  BY InitCounts
<1>2. CountsInv /\ [MNext]_mvars => CountsInv'
  BY CountsStep
<1> QED BY <1>1, <1>2, PTL DEF MSpec

-----------------------------------------------------------------------------
(* What becomes of the saved cursors.                                      *)

(* The live sessions of S a message is news to: a delivery saves theirs.   *)
MovedOn(S, n) == {e \in S : live[e] /\ n > cursor[e]}

(* The saved cursors a step of the program can move: those of the sessions *)
(* it delivers to, of the one it has flushed, and of the one it looked up. *)
LEMMA CursorMoves ==
    ASSUME CountsInv, Running
    PROVE  \/ UNCHANGED lastSeen
           \/ \E n \in Nat : lastSeen' = Moved({KeyOf[d] : d \in MovedOn(clients, n)}, n)
           \/ \E c \in Conns : LookUp(c)
           \/ \E c \in Conns : GoLive(c) /\ Covered(c) \in Nat
           \/ \E c \in Conns :
                /\ MirrorOwn(c)
                /\ lastSeen' = Moved({KeyOf[d] : d \in {c} \cup MovedOn(Others(c), own[c])}, own[c])
                /\ own[c] \in Nat
<1> USE DEF storeVars, threadVars, sessionVars, histVars
<1>1. CASE World
  BY <1>1 DEF World, HearText, WebSend, HearOther, Capture, Housekeeping, Prune, Age
<1>2. CASE PostFanout \/ PostWeb
  BY <1>2 DEF PostFanout, PostWeb
<1>3. CASE Fanout \/ MirrorWeb
  <2>1. Head(ready).seq \in Nat
    <3>1. ready \in Seq(Posted(Nat))
      BY DEF CountsInv, ThreadCounts
    <3> QED BY <1>3, <3>1, QueueCounts DEF Fanout, MirrorWeb
  <2>2. Deliver(Head(ready).seq, clients, {})
    BY <1>3 DEF Fanout, MirrorWeb
  <2> DEFINE n == Head(ready).seq
  <2>3. {} \cup {e \in Receiving(clients) : n > cursor[e]} = MovedOn(clients, n)
    BY DEF Receiving, MovedOn
  <2>4. lastSeen' = Moved({KeyOf[d] : d \in MovedOn(clients, n)}, n)
    BY <2>2, <2>3 DEF Deliver, Give, Moving, KeysOf
  <2> QED BY <2>1, <2>4
<1>4. ASSUME NEW c \in Conns, MirrorOwn(c)
      PROVE  \/ UNCHANGED lastSeen
             \/ /\ lastSeen' = Moved({KeyOf[d] : d \in {c} \cup MovedOn(Others(c), own[c])}, own[c])
                /\ own[c] \in Nat
  <2>1. own[c] \in Nat
    BY DEF CountsInv, SessionCounts
  <2>2. CASE Deliver(own[c], Others(c), {c})
    <3>1. {e \in Receiving(Others(c)) : own[c] > cursor[e]} = MovedOn(Others(c), own[c])
      BY DEF Receiving, MovedOn
    <3>2. lastSeen' = Moved({KeyOf[d] : d \in {c} \cup MovedOn(Others(c), own[c])}, own[c])
      BY <2>2, <3>1 DEF Deliver, Give, Moving, KeysOf
    <3> QED BY <2>1, <3>2
  <2> QED BY <1>4, <2>2 DEF MirrorOwn
<1>5. ASSUME NEW c \in Conns, App(c) \/ Handler(c), ~LookUp(c), ~GoLive(c), ~MirrorOwn(c)
      PROVE  UNCHANGED lastSeen
  BY <1>5 DEF App, Connect, AskConfig, SendPacket, Drop, Handler, PostWake, Join, ServeConfig,
      CountBacklog, SelectRows, CompleteConfig, ReplayRow, StoreOwn, Sent, Leave
<1>6. \A c \in Conns : Covered(c) \in Nat
  BY CoveredCounts
<1> QED BY <1>1, <1>2, <1>3, <1>4, <1>5, <1>6, Zenon DEF Running, Threads

(* A delivery, a flush or a send moves saved cursors forward, and only     *)
(* where there is one.                                                     *)
LEMMA RunningForward ==
    ASSUME CountsInv, Running, NEW k \in Keys
    PROVE  /\ lastSeen'[k] >= lastSeen[k]
           /\ (lastSeen[k] = NoRow /\ lastSeen'[k] # NoRow) => \E c \in Conns : LookUp(c)
<1>1. lastSeen[k] \in Nat \cup {NoRow} /\ lastSeen[k] >= lastSeen[k]
  BY DEF CountsInv, StoreCounts, NoRow
<1>2. \A K, n : lastSeen[k] = NoRow => Moved(K, n)[k] = NoRow
  BY DEF Moved
<1>3. CASE UNCHANGED lastSeen
  BY <1>1, <1>3
<1>4. ASSUME NEW K, NEW n \in Nat, lastSeen' = Moved(K, n)
      PROVE  lastSeen'[k] >= lastSeen[k] /\ (lastSeen[k] = NoRow => lastSeen'[k] = NoRow)
  BY <1>2, <1>4, MovedCounts
<1>5. ASSUME NEW c \in Conns, GoLive(c)
      PROVE  lastSeen' = Moved({KeyOf[c]}, Covered(c))
  BY <1>5 DEF GoLive
<1>6. ASSUME NEW c \in Conns, LookUp(c) PROVE lastSeen'[k] >= lastSeen[k]
  BY <1>1, <1>6 DEF LookUp, FoundOrCreated, NoRow, CountsInv, StoreCounts
<1> QED BY <1>3, <1>4, <1>5, <1>6, CursorMoves, Zenon

(* Clears and resets are counted. *)
TallyInv == clears \in Nat /\ resets \in Nat

LEMMA TallyAlways == MSpec => []TallyInv
<1>1. MInit => TallyInv
  BY DEF MInit, TallyInv
<1>2. TallyInv /\ [MNext]_mvars => TallyInv'
  BY DEF TallyInv, MNext, Served, MRestart, Clear, PostWiper, DisconnectAll, Reset, mvars
<1> QED BY <1>1, <1>2, PTL DEF MSpec

(* No connect, delivery, send or crash takes a saved cursor back.          *)
THEOREM NothingElseRewinds == MSpec => OnlyMaintenanceRewinds
<1> DEFINE Rewinds == \A k \in Keys :
                         lastSeen'[k] < lastSeen[k] => clears' # clears \/ resets' # resets
<1>1. ASSUME CountsInv, TallyInv, [MNext]_mvars PROVE Rewinds
  <2>1. \A k \in Keys : lastSeen[k] \in Int /\ lastSeen'[k] \in Int
    <3>1. CountsInv'
      BY <1>1, CountsStep
    <3> QED BY <1>1, <3>1 DEF CountsInv, StoreCounts, NoRow
  <2>2. CASE UNCHANGED lastSeen
    BY <2>1, <2>2
  <2>3. CASE Served
    <3>1. \A k \in Keys : lastSeen'[k] >= lastSeen[k]
      BY <1>1, <2>3, RunningForward DEF Served
    <3> QED BY <2>1, <3>1
  <2>4. CASE Clear
    <3>1. clears' # clears
      BY <1>1, <2>4 DEF Clear, TallyInv
    <3> QED BY <3>1
  <2>5. ASSUME NEW k \in Keys, Reset(k) PROVE Rewinds
    <3>1. resets' # resets
      BY <1>1, <2>5 DEF Reset, TallyInv
    <3> QED BY <3>1
  <2>6. CASE PostWiper \/ DisconnectAll \/ UNCHANGED mvars
    BY <2>2, <2>6 DEF PostWiper, DisconnectAll, mvars, vars, storeVars
  <2>7. CASE MRestart
    <3>1. \A k \in Keys : lastSeen'[k] >= lastSeen[k]
      BY <1>1, <2>7, CrashForward DEF MRestart
    <3> QED BY <2>1, <3>1
  <2> QED BY <1>1, <2>3, <2>4, <2>5, <2>6, <2>7 DEF MNext
<1>2. CountsInv /\ TallyInv /\ [MNext]_mvars => [Rewinds]_mvars
  BY <1>1
<1> QED BY <1>2, CountsAlways, TallyAlways, PTL DEF MSpec, OnlyMaintenanceRewinds

(* A cursor row Clear data deleted comes back with its app's next connect, *)
(* whatever live sessions are given before they are dropped.               *)
THEOREM ClearedRowsRemainGone == MSpec => ClearedRowsStayGone
<1> DEFINE Revived == \A k \in Keys :
                         lastSeen[k] = NoRow /\ lastSeen'[k] # NoRow => \E c \in Conns : LookUp(c)
<1>1. ASSUME CountsInv, [MNext]_mvars PROVE Revived
  <2>1. CASE Served
    BY <1>1, <2>1, RunningForward DEF Served
  <2>2. CASE PostWiper \/ DisconnectAll \/ UNCHANGED mvars
    BY <2>2 DEF PostWiper, DisconnectAll, mvars, vars, storeVars
  <2>5. CASE MRestart
    BY <1>1, <2>5, CrashForward DEF MRestart
  <2>3. CASE Clear
    BY <2>3 DEF Clear, ClearData
  <2>4. ASSUME NEW k \in Keys, Reset(k) PROVE Revived
    BY <1>1, <2>4 DEF Reset, ResetCursor, CountsInv, StoreCounts
  <2> QED BY <1>1, <2>1, <2>2, <2>3, <2>4, <2>5 DEF MNext
<1>2. CountsInv /\ [MNext]_mvars => [Revived]_mvars
  BY <1>1
<1> QED BY <1>2, CountsAlways, PTL DEF MSpec, ClearedRowsStayGone

-----------------------------------------------------------------------------
(* A cursor reset while its app is away stays reset until it connects.     *)

(* The state a step of one connection's handler leaves it in, and which    *)
(* sessions are registered.                                                *)
LEMMA HandlersMove ==
    ASSUME AwayInv, Running
    PROVE  /\ clients' \subseteq Conns /\ pc' \in [Conns -> Pcs]
           /\ \A c \in clients' : pc'[c] \notin Elsewhere
           /\ \A c \in Conns : pc[c] \in Elsewhere => pc'[c] \in Elsewhere \/ LookUp(c)
<1> USE DEF Elsewhere
<1>1. clients \subseteq Conns /\ pc \in [Conns -> Pcs] /\ \A c \in clients : pc[c] \notin Elsewhere
  BY DEF AwayInv
<1>2. CASE UNCHANGED <<clients, pc>>
  BY <1>1, <1>2
<1>3. CASE World \/ Threads
  BY <1>2, <1>3 DEF World, HearText, WebSend, HearOther, Capture, Housekeeping, Threads,
      PostFanout, Fanout, PostWeb, MirrorWeb, sessionVars
<1>4. ASSUME NEW c \in Conns, NEW s \in Pcs, clients' \in {clients, clients \cup {c}},
             pc' = [pc EXCEPT ![c] = s], s \notin Elsewhere, pc[c] \notin Elsewhere \/ LookUp(c)
      PROVE  /\ clients' \subseteq Conns /\ pc' \in [Conns -> Pcs]
             /\ \A d \in clients' : pc'[d] \notin Elsewhere
             /\ \A d \in Conns : pc[d] \in Elsewhere => pc'[d] \in Elsewhere \/ LookUp(d)
  BY <1>1, <1>4
<1>5. ASSUME NEW c \in Conns, App(c) \/ Handler(c)
      PROVE  \/ UNCHANGED <<clients, pc>>
             \/ Leave(c)
             \/ Connect(c)
             \/ \E s \in Pcs : /\ clients' \in {clients, clients \cup {c}}
                               /\ pc' = [pc EXCEPT ![c] = s] /\ s \notin Elsewhere
                               /\ pc[c] \notin Elsewhere \/ LookUp(c)
  BY <1>5 DEF App, Connect, AskConfig, SendPacket, Drop, Handler, LookUp, PostWake, Join,
      ServeConfig, CountBacklog, SelectRows, CompleteConfig, ReplayRow, GoLive, StoreOwn, MirrorOwn, Sent,
      Pcs, sessionVars
<1>6. ASSUME NEW c \in Conns, Connect(c) \/ Leave(c)
      PROVE  /\ clients' \subseteq Conns /\ pc' \in [Conns -> Pcs]
             /\ \A d \in clients' : pc'[d] \notin Elsewhere
             /\ \A d \in Conns : pc[d] \in Elsewhere => pc'[d] \in Elsewhere \/ LookUp(d)
  BY <1>1, <1>6 DEF Connect, Leave, Forget, Pcs
<1> QED BY <1>2, <1>3, <1>4, <1>5, <1>6 DEF Running

(* Nothing but its own connect moves the cursor of an app that is away.    *)
LEMMA AwayUnmoved ==
    ASSUME CountsInv, AwayInv, Running, NEW k \in rewound,
           \A c \in Conns : KeyOf[c] = k => ~LookUp(c)
    PROVE  lastSeen'[k] = lastSeen[k]
<1>1. \A c \in Conns : pc[c] \notin Elsewhere => KeyOf[c] # k
  BY DEF AwayInv
<1>2. \A c \in clients : c \in Conns /\ KeyOf[c] # k
  BY <1>1 DEF AwayInv
<1>3. ASSUME NEW K, NEW n, k \notin K, lastSeen' = Moved(K, n)
      PROVE  lastSeen'[k] = lastSeen[k]
  <2>1. k \in Keys
    BY DEF AwayInv
  <2> QED BY <1>3, <2>1 DEF Moved
<1>4. ASSUME NEW n, lastSeen' = Moved({KeyOf[d] : d \in MovedOn(clients, n)}, n)
      PROVE  lastSeen'[k] = lastSeen[k]
  <2>1. k \notin {KeyOf[d] : d \in MovedOn(clients, n)}
    BY <1>2 DEF MovedOn
  <2> QED BY <1>3, <1>4, <2>1
<1>5. ASSUME NEW c \in Conns, LookUp(c) PROVE lastSeen'[k] = lastSeen[k]
  <2>1. KeyOf[c] # k
    BY <1>5
  <2> QED BY <1>5, <2>1 DEF LookUp, CountsInv, StoreCounts
<1>6. ASSUME NEW c \in Conns, GoLive(c) PROVE lastSeen'[k] = lastSeen[k]
  <2>1. k \notin {KeyOf[c]}
    BY <1>1, <1>6 DEF GoLive, Elsewhere
  <2> QED BY <1>3, <1>6, <2>1 DEF GoLive
<1>7. ASSUME NEW c \in Conns, MirrorOwn(c),
             lastSeen' = Moved({KeyOf[d] : d \in {c} \cup MovedOn(Others(c), own[c])}, own[c])
      PROVE  lastSeen'[k] = lastSeen[k]
  <2>1. KeyOf[c] # k
    BY <1>1, <1>7 DEF MirrorOwn, Elsewhere
  <2>2. k \notin {KeyOf[d] : d \in {c} \cup MovedOn(Others(c), own[c])}
    BY <1>2, <2>1 DEF Others, MovedOn
  <2> QED BY <1>3, <1>7, <2>2
<1> QED BY <1>4, <1>5, <1>6, <1>7, CursorMoves, Zenon

(* A crash does not move it either: none of its handlers is past LookUp.   *)
LEMMA AwayCrash ==
    ASSUME CountsInv, AwayInv, Restart, NEW k \in rewound
    PROVE  lastSeen'[k] = lastSeen[k]
<1>1. ASSUME NEW n \in Nat, NEW C \in SUBSET (clients \cup Conns), lastSeen' = Moved(KeysOf(C), n),
             \A c \in C : c \in clients \/ pc[c] \notin Elsewhere
      PROVE  lastSeen'[k] = lastSeen[k]
  <2>1. \A c \in C : KeyOf[c] # k
    BY <1>1 DEF AwayInv
  <2>2. k \notin KeysOf(C) /\ k \in Keys
    BY <2>1 DEF KeysOf, AwayInv
  <2> QED BY <1>1, <2>2 DEF Moved
<1> QED BY <1>1, CrashMoves

(* A key stays rewound until its app connects, and its cursor with it.     *)
LEMMA AwayStep == ASSUME CountsInv, AwayInv, [MNext]_mvars PROVE AwayInv'
<1>1. /\ clients \subseteq Conns /\ pc \in [Conns -> Pcs] /\ rewound \subseteq Keys
      /\ \A c \in clients : pc[c] \notin Elsewhere
      /\ \A k \in rewound : /\ lastSeen[k] \in {0, NoRow}
                            /\ \A c \in Conns : KeyOf[c] = k => pc[c] \in Elsewhere
  BY DEF AwayInv
<1>2. CASE Served
  <2>1. /\ clients' \subseteq Conns /\ pc' \in [Conns -> Pcs]
        /\ \A c \in clients' : pc'[c] \notin Elsewhere
        /\ \A c \in Conns : pc[c] \in Elsewhere => pc'[c] \in Elsewhere \/ LookUp(c)
    BY <1>2, HandlersMove DEF Served
  <2>2. ASSUME NEW k \in rewound'
        PROVE  k \in rewound /\ \A c \in Conns : KeyOf[c] = k => ~LookUp(c)
    BY <1>1, <1>2, <2>2 DEF Served
  <2>3. \A k \in rewound' : lastSeen'[k] = lastSeen[k]
    BY <1>2, <2>2, AwayUnmoved DEF Served
  <2>4. \A k \in rewound' : /\ lastSeen'[k] \in {0, NoRow}
                            /\ \A c \in Conns : KeyOf[c] = k => pc'[c] \in Elsewhere
    BY <1>1, <2>1, <2>2, <2>3
  <2>5. rewound' \subseteq Keys
    BY <1>1, <2>2
  <2> QED BY <2>1, <2>4, <2>5 DEF AwayInv, Elsewhere, NoRow
<1>3. CASE MRestart
  <2>1. /\ UNCHANGED rewound /\ clients' = clients \ Conns /\ pc' = [c \in Conns |-> "off"]
        /\ \A k \in rewound : lastSeen'[k] = lastSeen[k]
    BY <1>3, AwayCrash DEF MRestart, Restart, Forget
  <2> QED BY <1>1, <2>1 DEF AwayInv, Elsewhere, Pcs
<1>4. CASE Clear
  BY <1>1, <1>4 DEF Clear, ClearData, sessionVars, AwayInv, Elsewhere
<1>5. CASE PostWiper
  BY <1>1, <1>5 DEF PostWiper, storeVars, sessionVars, AwayInv, Elsewhere
<1>6. CASE DisconnectAll
  BY <1>1, <1>6 DEF DisconnectAll, storeVars, AwayInv, Elsewhere
<1>7. ASSUME NEW k \in Keys, Reset(k) PROVE AwayInv'
  <2>1. lastSeen' = [lastSeen EXCEPT ![k] = 0] /\ UNCHANGED <<clients, pc>>
    BY <1>7 DEF Reset, ResetCursor, sessionVars
  <2>2. \A j \in Keys : lastSeen'[j] \in {0, lastSeen[j]}
    BY <2>1 DEF CountsInv, StoreCounts
  <2>3. lastSeen'[k] = 0
    BY <2>1 DEF CountsInv, StoreCounts
  <2>4. ASSUME NEW j \in rewound'
        PROVE  j \in rewound \/ (j = k /\ \A c \in Conns : KeyOf[c] = k => pc[c] = "off")
    BY <1>7, <2>4 DEF Reset
  <2>5. \A j \in rewound' : j \in Keys /\ \A c \in Conns : KeyOf[c] = j => pc'[c] \in Elsewhere
    BY <1>1, <2>1, <2>4 DEF Elsewhere
  <2>6. \A j \in rewound' : lastSeen'[j] \in {0, NoRow}
    BY <1>1, <2>2, <2>3, <2>4, <2>5
  <2> QED BY <1>1, <2>1, <2>5, <2>6 DEF AwayInv, Elsewhere, NoRow
<1>8. CASE UNCHANGED mvars
  BY <1>1, <1>8 DEF mvars, vars, storeVars, sessionVars, AwayInv, Elsewhere
<1> QED BY <1>2, <1>3, <1>4, <1>5, <1>6, <1>7, <1>8 DEF MNext

LEMMA AwayAlways == MSpec => []AwayInv
<1>1. MInit => AwayInv
  BY DEF MInit, Init, AwayInv, Pcs
<1>2. AwayInv /\ CountsInv /\ [MNext]_mvars => AwayInv'
  BY AwayStep
<1> QED BY <1>1, <1>2, CountsAlways, PTL DEF MSpec

(* The next connect of an app whose cursor was reset while it was away     *)
(* replays everything.                                                     *)
THEOREM ResetsHoldWhileAway == MSpec => ResetHoldsWhileAway
<1> DEFINE Replays == \A c \in Conns : LookUp(c) /\ KeyOf[c] \in rewound => cursor'[c] = 0
<1>1. ASSUME CountsInv, AwayInv PROVE Replays
  <2>1. ASSUME NEW c \in Conns, LookUp(c), KeyOf[c] \in rewound PROVE cursor'[c] = 0
    <3>1. FoundOrCreated(KeyOf[c]) = 0
      BY <1>1, <2>1 DEF AwayInv, FoundOrCreated
    <3> QED BY <1>1, <2>1, <3>1 DEF LookUp, CountsInv, SessionCounts
  <2> QED BY <2>1
<1>2. CountsInv /\ AwayInv => [Replays]_mvars
  BY <1>1
<1> QED BY <1>2, CountsAlways, AwayAlways, PTL DEF MSpec, ResetHoldsWhileAway
=============================================================================
