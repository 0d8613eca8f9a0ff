--------------------------- MODULE MailboxProofs ----------------------------
(***************************************************************************)
(* The server is a mailbox: no cursor goes over a message its app was not  *)
(* given.  Proved for every set of apps, connections and messages and for  *)
(* every positive replay limit, under what the program's own comments      *)
(* count on: the messages come from the mesh, so one thread numbers them   *)
(* and posts them in that order, nothing is pruned between the two queries *)
(* of a replay, and the queue of a session in its handshake does not fill  *)
(* up.                                                                     *)
(*                                                                         *)
(* The argument follows the numbers in flight, those the reader holds or   *)
(* has posted.  They are the greatest ones and in order.  What a session   *)
(* in its handshake has queued comes right below them, in order too; what  *)
(* is below that was replayed, is in the replay or was left out.  A live   *)
(* session has been given everything that is not in flight.                *)
(*                                                                         *)
(* The last section proves the order in which one session is written the   *)
(* messages: it needs the feed alone, neither a replay nor room in the     *)
(* queues.                                                                 *)
(***************************************************************************)
EXTENDS VNodeServerProofs

(* Only the reader thread stores messages. *)
OnlyMesh == \A e \in {"web", "send"} : Budget[e] = 0

(* The setting: mesh traffic and a replay. *)
MeshTraffic == OnlyMesh /\ ReplayEnabled /\ ReplayLimit > 0

Flying == (Posting \cup {reader}) \cap Nums

(* Only the reader posts numbers, and in ascending order. *)
QueueOrder ==
    /\ \A i \in DOMAIN ready : \/ ready[i].who = "reader"
                               \/ ready[i].who \in Conns /\ ready[i].seq = NoSeq
    /\ \A i, j \in DOMAIN ready :
           i < j /\ ready[i].seq # NoSeq /\ ready[j].seq # NoSeq => ready[i].seq < ready[j].seq
    /\ reader \in Nums => \A i \in DOMAIN ready : ready[i].seq < reader

(* The messages in store, by number. *)
Held == {r.seq : r \in rows}

(* All messages come by the reader, in order. *)
FeedInv ==
    /\ \A e \in {"web", "send"} : budget[e] = 0
    /\ web = Nothing
    /\ \A c \in Conns : pc[c] \notin {"storing", "stored", "sending"}
    /\ \A r \in rows : r.origin = "mesh"
    /\ QueueOrder
    /\ \A n \in Flying, m \in Nums : m > n => m \in Flying

-----------------------------------------------------------------------------
(* The loop's queue.                                                       *)

(* Posting a callback without a number changes nothing of what is in       *)
(* flight.                                                                 *)
LEMMA WakePosted ==
    ASSUME NumbersKnown, QueueOrder, NEW c \in Conns, PostTo(c, NoSeq),
           UNCHANGED <<reader, lastSeq>>
    PROVE  QueueOrder' /\ Flying' = Flying
<1> DEFINE e == [who |-> c, seq |-> NoSeq]
<1>1. ready \in Seq(Posted(Known)) /\ e \in Posted(Known) /\ ready' = Append(ready, e)
  BY SeenKnown DEF NumbersKnown, ThreadInv, Posted, PostTo
<1>2. e.who = c /\ e.seq = NoSeq
  OBVIOUS
<1> HIDE DEF e
<1>3. /\ Len(ready) \in Nat /\ DOMAIN ready = 1 .. Len(ready)
      /\ DOMAIN ready' = 1 .. Len(ready) + 1
      /\ \A i \in 1 .. Len(ready) : ready'[i] = ready[i]
      /\ ready'[Len(ready) + 1] = e
  BY <1>1, QueueElements
<1>4. \A i \in DOMAIN ready' : i \in DOMAIN ready \/ i = Len(ready) + 1
  BY <1>3
<1>5. \A i \in DOMAIN ready : i \in DOMAIN ready' /\ ready'[i] = ready[i]
  BY <1>3
<1>6. \A i \in DOMAIN ready' : \/ ready'[i].who = "reader"
                               \/ ready'[i].who \in Conns /\ ready'[i].seq = NoSeq
  BY <1>2, <1>3, <1>4, <1>5 DEF QueueOrder
<1>7. \A i, j \in DOMAIN ready' :
        i < j /\ ready'[i].seq # NoSeq /\ ready'[j].seq # NoSeq => ready'[i].seq < ready'[j].seq
  BY <1>2, <1>3, <1>4, <1>5 DEF QueueOrder
<1>8. \A n \in Nums : n # NoSeq
  BY DEF Nums, NoSeq
<1>9. \A n \in Nums : (\E i \in DOMAIN ready' : ready'[i].seq = n)
                        <=> (\E i \in DOMAIN ready : ready[i].seq = n)
  BY <1>2, <1>3, <1>4, <1>5, <1>8
<1>10. reader \in Nums => \A i \in DOMAIN ready' : ready'[i].seq < reader
  <2>1. reader \in Nums => NoSeq < reader
    BY DEF Nums, NoSeq
  <2> QED BY <1>2, <1>3, <1>4, <1>5, <2>1 DEF QueueOrder
<1>11. Nums' = Nums
  BY DEF Nums
<1>12. Flying' = Flying
  BY <1>9, <1>11 DEF Flying, Posting
<1> QED BY <1>6, <1>7, <1>10, <1>11, <1>12 DEF QueueOrder

(* Taking the oldest callback leaves the rest in order, and after it.      *)
LEMMA HeadTaken ==
    ASSUME NumbersKnown, QueueOrder, ready # <<>>, ready' = Tail(ready),
           UNCHANGED <<reader, lastSeq>>
    PROVE  /\ QueueOrder'
           /\ \/ Head(ready).who = "reader"
              \/ Head(ready).who \in Conns /\ Head(ready).seq = NoSeq
           /\ Head(ready).seq = NoSeq => Flying' = Flying
           /\ Head(ready).seq # NoSeq => /\ Head(ready).seq \in Flying
                                        /\ Flying' = Flying \ {Head(ready).seq}
                                        /\ \A m \in Flying' : m > Head(ready).seq
<1>1. ready \in Seq(Posted(Known)) /\ ready[1] = ready[1]
  BY DEF NumbersKnown, ThreadInv
<1>2. PICK e : e \in Posted(Known)
  <2>1. Head(ready) \in Posted(Known)
    BY <1>1, HeadTailProperties
  <2> QED BY <2>1
<1>3. /\ Len(ready) \in Nat /\ DOMAIN ready = 1 .. Len(ready)
      /\ DOMAIN ready' = 1 .. Len(ready) - 1
      /\ 1 \in 1 .. Len(ready) /\ ready[1] = Head(ready)
      /\ \A i \in 1 .. Len(ready) - 1 : ready'[i] = ready[i + 1]
  BY <1>1, <1>2, QueueElements
<1>4. \A i \in DOMAIN ready' : /\ i \in Nat /\ i + 1 \in DOMAIN ready /\ 1 < i + 1
                               /\ ready'[i] = ready[i + 1]
  BY <1>3
<1>5. \A i \in DOMAIN ready : i = 1 \/ (i - 1 \in DOMAIN ready' /\ ready'[i - 1] = ready[i])
  BY <1>3
<1>6. \A i \in DOMAIN ready : ready[i].seq \in Int
  <2>1. \A i \in DOMAIN ready : ready[i] \in Posted(Known)
    BY <1>1, <1>3, ElementOfSeq
  <2> QED BY <2>1 DEF Posted, Known
<1>7. \A i \in DOMAIN ready' : \/ ready'[i].who = "reader"
                               \/ ready'[i].who \in Conns /\ ready'[i].seq = NoSeq
  BY <1>4 DEF QueueOrder
<1>8. ASSUME NEW i \in DOMAIN ready', NEW j \in DOMAIN ready', i < j,
             ready'[i].seq # NoSeq, ready'[j].seq # NoSeq
      PROVE  ready'[i].seq < ready'[j].seq
  <2>1. i + 1 < j + 1
    BY <1>4, <1>8
  <2> QED BY <2>1, <1>4, <1>8 DEF QueueOrder
<1>9. \A n \in Nums : (\E i \in DOMAIN ready : ready[i].seq = n)
                        <=> n = Head(ready).seq \/ (\E i \in DOMAIN ready' : ready'[i].seq = n)
  <2> TAKE n \in Nums
  <2>1. ASSUME NEW i \in DOMAIN ready, ready[i].seq = n
        PROVE  n = Head(ready).seq \/ \E j \in DOMAIN ready' : ready'[j].seq = n
    <3>1. CASE i = 1
      BY <1>3, <2>1, <3>1
    <3>2. CASE i - 1 \in DOMAIN ready' /\ ready'[i - 1] = ready[i]
      BY <2>1, <3>2
    <3> QED BY <1>5, <3>1, <3>2
  <2>2. 1 \in DOMAIN ready /\ (n = Head(ready).seq => ready[1].seq = n)
    BY <1>3
  <2>3. ASSUME NEW j \in DOMAIN ready', ready'[j].seq = n PROVE \E i \in DOMAIN ready : ready[i].seq = n
    <3>1. j + 1 \in DOMAIN ready /\ ready[j + 1].seq = n
      BY <1>4, <2>3
    <3> QED BY <3>1
  <2> QED BY <2>1, <2>2, <2>3
<1>10. ASSUME Head(ready).seq # NoSeq, NEW i \in DOMAIN ready', ready'[i].seq # NoSeq
       PROVE  ready'[i].seq > Head(ready).seq
  <2>1. 1 \in DOMAIN ready /\ i + 1 \in DOMAIN ready /\ 1 < i + 1 /\ ready'[i] = ready[i + 1]
    BY <1>3, <1>4
  <2>2. ready[1].seq < ready[i + 1].seq
    BY <2>1, <1>3, <1>10 DEF QueueOrder
  <2> QED BY <2>1, <2>2, <1>3, <1>6
<1>11. reader \in Nums => \A i \in DOMAIN ready' : ready'[i].seq < reader
  BY <1>4 DEF QueueOrder
<1>12. Nums' = Nums /\ \A n \in Nums : n # NoSeq /\ n \in Int
  BY DEF Nums, NoSeq
<1>13. QueueOrder'
  BY <1>7, <1>8, <1>11, <1>12 DEF QueueOrder
<1>14. \/ Head(ready).who = "reader"
       \/ Head(ready).who \in Conns /\ Head(ready).seq = NoSeq
  BY <1>3 DEF QueueOrder
<1>15. ASSUME Head(ready).seq = NoSeq PROVE Flying' = Flying
  BY <1>9, <1>12, <1>15 DEF Flying, Posting
<1>16. ASSUME Head(ready).seq # NoSeq
       PROVE  /\ Head(ready).seq \in Flying
              /\ Flying' = Flying \ {Head(ready).seq}
              /\ \A m \in Flying' : m > Head(ready).seq
  <2> DEFINE h == Head(ready).seq
  <2>1. h \in Nums
    <3>1. Head(ready) \in Posted(Known)
      BY <1>1, HeadTailProperties
    <3> QED BY <3>1, <1>16 DEF Posted, Known, Nums, NoSeq, NumbersKnown, StoreInv
  <2>2. \A m \in Nums : m = reader => m > h
    BY <1>3, <2>1 DEF QueueOrder, Nums
  <2>3. \A m \in Flying' : m > h
    BY <1>10, <1>12, <1>16, <2>2 DEF Flying, Posting
  <2>4. h \notin Flying' /\ h \in Flying
    <3>1. ~(h > h)
      BY <2>1 DEF Nums
    <3> QED BY <2>1, <2>3, <3>1, <1>9 DEF Flying, Posting
  <2>5. \A m \in Nums : m \in Flying <=> m = h \/ m \in Flying'
    BY <1>9, <1>12, <2>1 DEF Flying, Posting
  <2>6. Flying \subseteq Nums /\ Flying' \subseteq Nums
    BY <1>12 DEF Flying
  <2> QED BY <2>3, <2>4, <2>5, <2>6
<1> QED BY <1>13, <1>14, <1>15, <1>16

(* The reader posts what it holds, a number after all that are posted.     *)
LEMMA ReaderPosted ==
    ASSUME NumbersKnown, QueueOrder, reader # Nothing, PostTo("reader", reader),
           reader' = Nothing, UNCHANGED lastSeq
    PROVE  QueueOrder' /\ Flying' = Flying
<1> DEFINE e == [who |-> "reader", seq |-> reader]
<1>1. ready \in Seq(Posted(Known)) /\ e \in Posted(Known) /\ ready' = Append(ready, e)
  BY DEF NumbersKnown, ThreadInv, Posted, PostTo
<1>2. e.who = "reader" /\ e.seq = reader
  OBVIOUS
<1> HIDE DEF e
<1>3. /\ Len(ready) \in Nat /\ DOMAIN ready = 1 .. Len(ready)
      /\ DOMAIN ready' = 1 .. Len(ready) + 1
      /\ \A i \in 1 .. Len(ready) : ready'[i] = ready[i]
      /\ ready'[Len(ready) + 1] = e
  BY <1>1, QueueElements
<1>4. \A i \in DOMAIN ready' : i \in Nat /\ (i \in DOMAIN ready \/ i = Len(ready) + 1)
  BY <1>3
<1>5. \A i \in DOMAIN ready : i \in DOMAIN ready' /\ ready'[i] = ready[i] /\ i < Len(ready) + 1
  BY <1>3
<1>6. reader # NoSeq => reader \in Nums
  BY DEF NumbersKnown, ThreadInv, StoreInv, Known, Nums, NoSeq
<1>7. \A i \in DOMAIN ready' : \/ ready'[i].who = "reader"
                               \/ ready'[i].who \in Conns /\ ready'[i].seq = NoSeq
  BY <1>2, <1>3, <1>4, <1>5 DEF QueueOrder
<1>8. ASSUME NEW i \in DOMAIN ready', NEW j \in DOMAIN ready', i < j,
             ready'[i].seq # NoSeq, ready'[j].seq # NoSeq
      PROVE  ready'[i].seq < ready'[j].seq
  <2>1. CASE j \in DOMAIN ready
    <3>1. i \in DOMAIN ready
      BY <2>1, <1>3, <1>8
    <3> QED BY <2>1, <3>1, <1>5, <1>8 DEF QueueOrder
  <2>2. CASE j = Len(ready) + 1
    <3>1. i \in DOMAIN ready
      BY <2>2, <1>3, <1>4, <1>8
    <3>2. ready'[j].seq = reader /\ reader \in Nums
      BY <2>2, <1>2, <1>3, <1>6, <1>8
    <3> QED BY <3>1, <3>2, <1>5 DEF QueueOrder
  <2> QED BY <2>1, <2>2, <1>4
<1>9. \A n \in Nums : (\E i \in DOMAIN ready' : ready'[i].seq = n)
                        <=> n = reader \/ (\E i \in DOMAIN ready : ready[i].seq = n)
  BY <1>2, <1>3, <1>4, <1>5
<1>10. Nums' = Nums /\ Nothing \notin Nums
  BY DEF Nums, Nothing
<1>11. QueueOrder'
  BY <1>7, <1>8, <1>10 DEF QueueOrder
<1>12. Flying' = Flying
  BY <1>9, <1>10 DEF Flying, Posting
<1> QED BY <1>11, <1>12

-----------------------------------------------------------------------------
(* The feed.                                                               *)

Arrival(p) ==
    /\ reader = Nothing /\ reader' = NextSeq
    /\ Insert(p, "mesh")
    /\ UNCHANGED <<lastSeen, web, ready, sessionVars, histVars>>

Quiet ==
    /\ HearOther \/ PostFanout \/ Capture \/ Housekeeping
         \/ (reader' = NoSeq /\ reader = Nothing /\ UNCHANGED <<storeVars, web, ready>>)
    /\ UNCHANGED <<sessionVars, histVars, lastSeen, lastSeq, web>>

SessionStep(c) ==
    \/ PostWake(c) \/ Drop(c) \/ Connect(c) \/ LookUp(c) \/ Join(c) \/ AskConfig(c)
    \/ ServeConfig(c) \/ CountBacklog(c) \/ SelectRows(c) \/ CompleteConfig(c)
    \/ ReplayRow(c) \/ GoLive(c) \/ Leave(c)

(* What can happen when only the mesh sends.                               *)
LEMMA MeshSteps ==
    ASSUME NumbersKnown, FeedInv, Next
    PROVE  \/ \E p \in MeshPackets : Arrival(p)
           \/ Fanout \/ Restart \/ Quiet
           \/ \E c \in Conns : SessionStep(c)
<1> USE DEF FeedInv, storeVars, threadVars, sessionVars, histVars
<1>1. \A e \in {"web", "send"} : ~Spend(e)
  BY DEF Spend
<1>2. ~MirrorWeb
  <2> SUFFICES ASSUME MirrorWeb PROVE FALSE
    OBVIOUS
  <2>1. ready # <<>> /\ ready' = Tail(ready) /\ Head(ready).who = "web" /\ UNCHANGED <<reader, lastSeq>>
    BY DEF MirrorWeb, Take
  <2>2. Head(ready).who = "reader" \/ Head(ready).who \in Conns
    BY <2>1, HeadTaken
  <2> QED BY <2>1, <2>2, ServerAssumption
<1>3. CASE World
  <2>1. ASSUME NEW p \in MeshPackets, HearText(p) PROVE Arrival(p) \/ Quiet
    BY <2>1 DEF HearText, Arrival, Quiet
  <2>2. ASSUME NEW p \in AppPackets PROVE ~WebSend(p)
    BY <1>1 DEF WebSend
  <2>3. CASE HearOther
    BY <2>3 DEF HearOther, Quiet
  <2>4. CASE Capture
    BY <2>4 DEF Capture, Quiet
  <2>5. CASE Housekeeping
    BY <2>5 DEF Housekeeping, Age, Prune, Quiet
  <2> QED BY <1>3, <2>1, <2>2, <2>3, <2>4, <2>5 DEF World
<1>4. CASE Threads
  <2>1. ~PostWeb
    BY DEF PostWeb
  <2>2. CASE PostFanout
    BY <2>2 DEF PostFanout, Quiet
  <2> QED BY <1>2, <1>4, <2>1, <2>2 DEF Threads
<1>5. ASSUME NEW c \in Conns, Handler(c) \/ App(c) PROVE SessionStep(c)
  <2>1. ~SendPacket(c) /\ ~MirrorOwn(c) /\ ~Sent(c) /\ \A p \in AppPackets : ~StoreOwn(c, p)
    BY <1>1 DEF SendPacket, MirrorOwn, Sent, StoreOwn
  <2> QED BY <1>5, <2>1 DEF Handler, App, SessionStep
<1> QED BY <1>3, <1>4, <1>5 DEF Next, Running

(* The budget of what does not happen stays spent. *)
LEMMA BudgetKept ==
    ASSUME NumbersKnown, Next, NEW e \in Events, budget[e] = 0
    PROVE  budget'[e] = 0
<1>1. UNCHANGED budget \/ \E x \in Events : Spend(x)
  <2>1. CASE World
    BY <2>1 DEF World, HearText, WebSend, HearOther, Capture, Housekeeping, Events
  <2>2. CASE Threads
    BY <2>2 DEF Threads, PostFanout, Fanout, PostWeb, MirrorWeb
  <2>3. ASSUME NEW c \in Conns, App(c) PROVE UNCHANGED budget \/ \E x \in Events : Spend(x)
    BY <2>3 DEF App, Connect, AskConfig, SendPacket, Drop, Events
  <2>4. ASSUME NEW c \in Conns, Handler(c) PROVE UNCHANGED budget
    BY <2>4 DEF Handler, LookUp, PostWake, Join, ServeConfig, CountBacklog, SelectRows,
       CompleteConfig, ReplayRow, GoLive, StoreOwn, MirrorOwn, Sent, Leave
  <2>5. CASE Restart
    BY <2>5 DEF Restart, Events
  <2> QED BY <2>1, <2>2, <2>3, <2>4, <2>5 DEF Next, Running
<1> QED BY <1>1 DEF Spend, NumbersKnown, OtherInv

(* A step that leaves what is in flight as it is keeps the feed in order.  *)
LEMMA FeedHeld ==
    ASSUME NumbersKnown, FeedInv, UNCHANGED <<lastSeq, web>>, QueueOrder', Flying' = Flying,
           \A e \in {"web", "send"} : budget'[e] = 0,
           \A c \in Conns : pc'[c] \notin {"storing", "stored", "sending"},
           \A r \in rows' : r.origin = "mesh"
    PROVE  FeedInv'
<1>1. Nums' = Nums
  BY DEF Nums
<1> QED BY <1>1 DEF FeedInv

(* The next message is in flight with all numbers after any other's.       *)
LEMMA ArrivalFeed ==
    ASSUME NumbersKnown, FeedInv, NEW p \in MeshPackets, Arrival(p),
           \A e \in {"web", "send"} : budget'[e] = 0
    PROVE  /\ FeedInv'
           /\ lastSeq' = lastSeq + 1
           /\ Nums' = Nums \cup {lastSeq'}
           /\ Flying' = Flying \cup {lastSeq'}
           /\ Held' = Held \cup {lastSeq'}
<1>1. lastSeq \in Nat /\ lastSeq' = lastSeq + 1 /\ reader' = lastSeq' /\ ready' = ready
  BY DEF NumbersKnown, StoreInv, Arrival, Insert, NextSeq
<1>2. Nums' = Nums \cup {lastSeq'} /\ lastSeq' \notin Nums
  BY <1>1 DEF Nums
<1>3. \A i \in DOMAIN ready : ready[i].seq \in Known
  <2>1. ready \in Seq(Posted(Known))
    BY DEF NumbersKnown, ThreadInv
  <2>2. \A i \in DOMAIN ready : ready[i] \in Posted(Known)
    BY <2>1, LenProperties, ElementOfSeq
  <2> QED BY <2>2 DEF Posted
<1>4. \A i \in DOMAIN ready : ready[i].seq < reader'
  BY <1>1, <1>3 DEF Known
<1>5. QueueOrder'
  BY <1>1, <1>4 DEF FeedInv, QueueOrder
<1>6. Flying' = Flying \cup {lastSeq'}
  <2>1. Posting' = Posting /\ lastSeq' \notin Posting
    BY <1>1, <1>3 DEF Posting, Known
  <2>2. reader \notin Nums
    BY DEF Arrival, Nothing, Nums
  <2> QED BY <1>1, <1>2, <2>1, <2>2 DEF Flying
<1>7. (\A r \in rows' : r.origin = "mesh") /\ Held' = Held \cup {lastSeq'}
  <2> DEFINE new == [seq |-> NextSeq, pkt |-> p, origin |-> "mesh", fresh |-> TRUE]
  <2>1. rows' = rows \cup {new}
    BY DEF Arrival, Insert
  <2>2. new.origin = "mesh" /\ new.seq = lastSeq'
    BY <1>1 DEF NextSeq
  <2> HIDE DEF new
  <2> QED BY <2>1, <2>2 DEF FeedInv, Held
<1>8. \A n \in Flying', m \in Nums' : m > n => m \in Flying'
  <2> TAKE n \in Flying', m \in Nums'
  <2>1. CASE m = lastSeq'
    BY <1>6, <2>1
  <2>2. CASE m \in Nums /\ n \in Flying
    BY <1>6, <2>2 DEF FeedInv
  <2>3. CASE m \in Nums /\ n = lastSeq'
    BY <1>1, <2>3 DEF Nums
  <2> QED BY <1>2, <1>6, <2>1, <2>2, <2>3
<1> QED BY <1>1, <1>2, <1>5, <1>6, <1>7, <1>8 DEF FeedInv, Arrival, sessionVars

(* A fan-out takes the least number in flight, or none.                    *)
LEMMA FanoutFeed ==
    ASSUME NumbersKnown, FeedInv, Fanout
    PROVE  /\ FeedInv'
           /\ UNCHANGED <<rows, lastSeq, clients, pc, live, offset, todo, last, skipped>>
           /\ Deliver(Head(ready).seq, clients, {})
           /\ Head(ready).seq \in Known
           /\ Head(ready).seq = NoSeq => Flying' = Flying
           /\ Head(ready).seq # NoSeq => /\ Head(ready).seq \in Flying
                                        /\ Flying' = Flying \ {Head(ready).seq}
                                        /\ \A m \in Flying' : m > Head(ready).seq
<1>1. /\ ready # <<>> /\ ready' = Tail(ready) /\ QueueOrder
      /\ UNCHANGED <<reader, lastSeq, rows, pc, budget, web>>
  BY DEF Fanout, Take, FeedInv
<1>2. Head(ready).seq \in Known
  BY QueueKnown DEF Fanout
<1>3. QueueOrder'
  BY <1>1, HeadTaken
<1>4. Head(ready).seq = NoSeq => Flying' = Flying
  BY <1>1, HeadTaken
<1>5. Head(ready).seq # NoSeq => /\ Head(ready).seq \in Flying
                               /\ Flying' = Flying \ {Head(ready).seq}
                               /\ \A m \in Flying' : m > Head(ready).seq
  BY <1>1, HeadTaken
<1>6. Nums' = Nums
  BY <1>1 DEF Nums
<1>7. \A n \in Flying', m \in Nums : m > n => m \in Flying'
  <2> SUFFICES ASSUME NEW n \in Flying', NEW m \in Nums, m > n PROVE m \in Flying'
    OBVIOUS
  <2>1. n \in Flying /\ m \in Flying
    BY <1>4, <1>5 DEF FeedInv
  <2>2. CASE Head(ready).seq = NoSeq
    BY <1>4, <2>1, <2>2
  <2>3. CASE Head(ready).seq # NoSeq
    <3>1. n > Head(ready).seq
      BY <1>5, <2>3
    <3>2. m # Head(ready).seq
      BY <3>1, <1>2, <2>1 DEF Flying, Nums, Known
    <3> QED BY <1>5, <2>1, <2>3, <3>2
  <2> QED BY <2>2, <2>3
<1> QED BY <1>1, <1>2, <1>3, <1>4, <1>5, <1>6, <1>7 DEF FeedInv, Fanout

(* The restart empties the queue; what was in flight is for the replay.    *)
LEMMA RestartFeed ==
    ASSUME NumbersKnown, FeedInv, Restart,
           \A e \in {"web", "send"} : budget'[e] = 0
    PROVE  FeedInv' /\ Flying' = {} /\ UNCHANGED <<rows, lastSeq>>
<1>1. /\ reader' = Nothing /\ web' = Nothing /\ ready' = <<>>
      /\ UNCHANGED <<rows, lastSeq>>
      /\ \A c \in Conns : pc'[c] = "off"
  BY DEF Restart, Forget, storeVars
<1>2. DOMAIN ready' = {}
  BY <1>1
<1>3. Nothing \notin Nums /\ Nums' = Nums
  BY <1>1 DEF Nums, Nothing
<1>4. Flying' = {}
  BY <1>1, <1>2, <1>3 DEF Flying, Posting
<1> QED BY <1>1, <1>2, <1>3, <1>4 DEF FeedInv, QueueOrder

(* A row that ages keeps its number.                                       *)
LEMMA HeldAges == ASSUME NumbersKnown, Age PROVE Held' = Held
<1>1. PICK r \in rows : rows' = (rows \ {r}) \cup {[r EXCEPT !.fresh = FALSE]}
  BY DEF Age
<1> DEFINE aged == [r EXCEPT !.fresh = FALSE]
<1>2. aged.seq = r.seq /\ rows' = (rows \ {r}) \cup {aged}
  BY <1>1 DEF NumbersKnown, StoreInv, Row
<1> HIDE DEF aged
<1> QED BY <1>2 DEF Held

(* The reader's other steps, the retention job and time.                   *)
LEMMA QuietFeed ==
    ASSUME NumbersKnown, FeedInv, Quiet,
           \A e \in {"web", "send"} : budget'[e] = 0
    PROVE  /\ FeedInv' /\ Flying' = Flying
           /\ Held' \subseteq Held /\ (Prune \/ Held' = Held)
           /\ [Undisturbed]_vars => \A c \in Conns : rows' = rows \/ pc[c] # "select"
<1> USE DEF storeVars, threadVars, sessionVars, histVars
<1>1. UNCHANGED <<lastSeq, web, pc>> /\ QueueOrder /\ Nums' = Nums
  BY DEF Quiet, FeedInv, Nums
<1>2. QueueOrder' /\ Flying' = Flying
  <2>1. CASE PostFanout
    BY <1>1, <2>1, ReaderPosted DEF PostFanout
  <2>2. CASE UNCHANGED <<ready, reader>>
    BY <1>1, <2>2 DEF QueueOrder, Flying, Posting
  <2>3. CASE reader' = NoSeq /\ reader = Nothing /\ ready' = ready
    <3>1. NoSeq \notin Nums /\ Nothing \notin Nums
      BY DEF Nums, NoSeq, Nothing
    <3> QED BY <1>1, <2>3, <3>1 DEF QueueOrder, Flying, Posting
  <2> QED BY <2>1, <2>2, <2>3 DEF Quiet, HearOther, Capture, Housekeeping
<1>3. /\ \A r \in rows' : r.origin = "mesh"
      /\ Held' \subseteq Held /\ (Prune \/ Held' = Held)
  <2>1. CASE rows' = rows
    BY <2>1 DEF FeedInv, Held
  <2>2. CASE Age
    <3>1. PICK r \in rows : rows' = (rows \ {r}) \cup {[r EXCEPT !.fresh = FALSE]}
      BY <2>2 DEF Age
    <3> DEFINE aged == [r EXCEPT !.fresh = FALSE]
    <3>2. aged.origin = r.origin /\ aged.seq = r.seq /\ rows' = (rows \ {r}) \cup {aged}
      BY <3>1 DEF NumbersKnown, StoreInv, Row
    <3> HIDE DEF aged
    <3>3. Held' = Held
      BY <2>2, HeldAges
    <3> QED BY <3>2, <3>3 DEF FeedInv
  <2>3. CASE Prune
    <3>1. rows' \subseteq rows
      BY <2>3 DEF Prune
    <3> QED BY <2>3, <3>1 DEF FeedInv, Held
  <2> QED BY <2>1, <2>2, <2>3 DEF Quiet, HearOther, PostFanout, Capture, Housekeeping
<1>5. ASSUME [Undisturbed]_vars PROVE \A c \in Conns : rows' = rows \/ pc[c] # "select"
  <2>1. CASE Housekeeping
    BY <1>5, <2>1 DEF Housekeeping, Undisturbed, vars
  <2> QED BY <2>1 DEF Quiet, HearOther, PostFanout, Capture
<1>4. \A c \in Conns : pc'[c] \notin {"storing", "stored", "sending"}
  BY <1>1 DEF FeedInv
<1> QED BY <1>1, <1>2, <1>3, <1>4, <1>5, FeedHeld

(* A session's own steps neither number messages nor post them.            *)
LEMMA SessionFeed ==
    ASSUME NumbersKnown, FeedInv, NEW c \in Conns, SessionStep(c),
           \A e \in {"web", "send"} : budget'[e] = 0
    PROVE  /\ FeedInv' /\ Flying' = Flying
           /\ UNCHANGED <<rows, lastSeq>>
<1> USE DEF storeVars, threadVars, sessionVars, histVars
<1>1. UNCHANGED <<rows, lastSeq, reader, web>> /\ QueueOrder /\ Nums' = Nums
  BY DEF SessionStep, PostWake, Drop, Connect, LookUp, Join, AskConfig, ServeConfig, CountBacklog,
     SelectRows, CompleteConfig, ReplayRow, GoLive, Leave, FeedInv, Nums
<1>2. QueueOrder' /\ Flying' = Flying
  <2>1. CASE PostWake(c)
    BY <1>1, <2>1, WakePosted DEF PostWake
  <2>2. CASE Take(c)
    <3>1. ready # <<>> /\ ready' = Tail(ready) /\ Head(ready).who = c /\ c # "reader"
      BY <2>2, ServerAssumption DEF Take
    <3> QED BY <1>1, <3>1, HeadTaken
  <2>3. CASE UNCHANGED ready
    BY <1>1, <2>3 DEF QueueOrder, Flying, Posting
  <2> QED BY <2>1, <2>2, <2>3 DEF SessionStep, Drop, Connect, LookUp, Join, AskConfig, ServeConfig,
          CountBacklog, SelectRows, CompleteConfig, ReplayRow, GoLive, Leave
<1>3. \A d \in Conns : pc'[d] \notin {"storing", "stored", "sending"}
  BY DEF SessionStep, PostWake, Drop, Connect, LookUp, Join, AskConfig, ServeConfig, CountBacklog,
     SelectRows, CompleteConfig, ReplayRow, GoLive, Leave, Forget, FeedInv, NumbersKnown, SessionInv
<1> QED BY <1>1, <1>2, <1>3, FeedHeld DEF FeedInv
-----------------------------------------------------------------------------
(* The sessions.                                                           *)

(* What an app was given, or was told to do without. *)
Has(k) == handed[k] \cup skipped[k]

(* What still comes to a session without a replay. *)
Near(c) == Range(pending[c]) \cup Flying

(* A queue is ascending, below what is in flight, and without a gap.       *)
PendInv(c) ==
    \A i \in DOMAIN pending[c] : pending[c][i] # NoSeq =>
        /\ \A j \in DOMAIN pending[c] :
               i < j /\ pending[c][j] # NoSeq => pending[c][i] < pending[c][j]
        /\ \A m \in Flying : m > pending[c][i]
        /\ \A s \in Nums : s > pending[c][i] => s \in Near(c)

(* The count still fits: what the slice cannot reach will come by itself,  *)
(* and what it leaves out is older than something it returns.              *)
SelectInv(c) ==
    /\ \A s \in Waiting(c) \ Near(c) : Rank(Waiting(c), s) < offset[c] + ReplayLimit
    /\ offset[c] > 0 => \E t \in Waiting(c) : Rank(Waiting(c), t) = offset[c]

(* The replay, what was given before it and what comes after it are all    *)
(* that is in store.                                                       *)
ReplayInv(c) ==
    /\ Held \subseteq Has(KeyOf[c]) \cup todo[c] \cup Near(c)
    /\ \A s \in Held : (s <= last[c] \/ \E t \in todo[c] : s <= t)
                            => s \in Has(KeyOf[c]) \cup todo[c]

Mail(c) ==
    /\ pc[c] \in Away => c \notin clients /\ ~live[c] /\ pending[c] = <<>>
    /\ pc[c] \notin Away => c \in clients
    /\ PendInv(c)
    /\ live[c] => Held \subseteq Has(KeyOf[c]) \cup Flying
    /\ pc[c] \in {"count", "select"} => last[c] = cursor[c]
    /\ pc[c] = "select" => SelectInv(c)
    /\ pc[c] \in {"selected", "replay"} => ReplayInv(c)

(* No saved cursor is past what its app does not have. *)
SeenInv == \A k \in Keys, s \in Held : s <= lastSeen[k] => s \in Has(k)

MailInv == FeedInv /\ SeenInv /\ \A c \in Conns : Mail(c)

(* What is in store was numbered. *)
LEMMA HeldKnown == ASSUME NumbersKnown PROVE Held \subseteq Nums
BY DEF Held, Nums, NumbersKnown, StoreInv, Row, Known, NoSeq

(* What an app was given it keeps.                                         *)
LEMMA GivenGrows ==
    ASSUME NumbersKnown, Next, NEW k \in Keys
    PROVE  Has(k) \subseteq Has(k)'
<1> USE DEF storeVars, threadVars, sessionVars, histVars
<1>1. ASSUME NEW n, NEW S, NEW senders, Deliver(n, S, senders) PROVE handed[k] \subseteq handed'[k]
  BY <1>1 DEF Deliver, Give, Moving, KeysOf, NumbersKnown, HistoryInv
<1>2. ASSUME NEW c \in Conns, NEW ns, Write(c, ns) PROVE handed[k] \subseteq handed'[k]
  BY <1>2 DEF Write, NumbersKnown, HistoryInv
<1>3. ASSUME NEW c \in Conns, SelectRows(c) PROVE skipped[k] \subseteq skipped'[k]
  BY <1>3 DEF SelectRows, NumbersKnown, HistoryInv
<1>4. CASE World
  BY <1>4 DEF World, HearText, WebSend, HearOther, Capture, Housekeeping, Has
<1>5. CASE Threads
  BY <1>1, <1>5 DEF Threads, PostFanout, Fanout, PostWeb, MirrorWeb, Has
<1>6. ASSUME NEW c \in Conns, App(c) PROVE Has(k) \subseteq Has(k)'
  BY <1>6 DEF App, Connect, AskConfig, SendPacket, Drop, Has
<1>7. ASSUME NEW c \in Conns, Handler(c) PROVE Has(k) \subseteq Has(k)'
  <2>1. CASE ReplayRow(c) \/ GoLive(c)
    BY <1>2, <2>1 DEF ReplayRow, GoLive, Has
  <2>2. CASE SelectRows(c)
    BY <1>3, <2>2 DEF SelectRows, Has
  <2>3. CASE MirrorOwn(c)
    BY <1>1, <2>3 DEF MirrorOwn, Has
  <2>4. CASE \/ LookUp(c) \/ PostWake(c) \/ Join(c) \/ ServeConfig(c) \/ CountBacklog(c)
             \/ CompleteConfig(c) \/ (\E p \in AppPackets : StoreOwn(c, p)) \/ Sent(c) \/ Leave(c)
    BY <2>4 DEF LookUp, PostWake, Join, ServeConfig, CountBacklog, CompleteConfig, StoreOwn, Sent,
       Leave, Has
  <2> QED BY <1>7, <2>1, <2>2, <2>3, <2>4 DEF Handler
<1>8. CASE Restart
  BY <1>8, CrashSaves DEF Restart, Has
<1> QED BY <1>4, <1>5, <1>6, <1>7, <1>8 DEF Next, Running

(* Nothing another actor does disturbs a session as long as the feed is    *)
(* the same.                                                               *)
LEMMA SessionFramed ==
    ASSUME NEW c \in Conns, Mail(c), UNCHANGED lastSeq, Flying' = Flying, Held' \subseteq Held,
           pc'[c] = pc[c], live'[c] = live[c], cursor'[c] = cursor[c], offset'[c] = offset[c],
           pending'[c] = pending[c], todo'[c] = todo[c], last'[c] = last[c],
           c \in clients' <=> c \in clients,
           rows' = rows \/ pc[c] # "select",
           Has(KeyOf[c]) \subseteq Has(KeyOf[c])'
    PROVE  Mail(c)'
<1>1. Nums' = Nums /\ Near(c)' = Near(c)
  BY DEF Nums, Near
<1>2. PendInv(c)'
  BY <1>1 DEF Mail, PendInv
<1>3. pc[c] = "select" => SelectInv(c)'
  <2> SUFFICES ASSUME pc[c] = "select" PROVE SelectInv(c)'
    OBVIOUS
  <2>1. Waiting(c)' = Waiting(c)
    BY DEF Waiting, Backlog
  <2> QED BY <1>1, <2>1 DEF Mail, SelectInv
<1>4. pc[c] \in {"selected", "replay"} => ReplayInv(c)'
  BY <1>1 DEF Mail, ReplayInv
<1> QED BY <1>1, <1>2, <1>3, <1>4 DEF Mail

(* An arrival adds a last number to what is in flight and to every backlog. *)
LEMMA ArrivalMail ==
    ASSUME NumbersKnown, FeedInv, NEW p \in MeshPackets, Arrival(p),
           Nums' = Nums \cup {lastSeq'}, Flying' = Flying \cup {lastSeq'},
           Held' = Held \cup {lastSeq'}, lastSeq' = lastSeq + 1, NEW c \in Conns, Mail(c)
    PROVE  Mail(c)'
<1> USE DEF Arrival, sessionVars, histVars
<1>1. /\ UNCHANGED <<pc, live, cursor, pending, offset, todo, last, clients, handed, skipped>>
      /\ lastSeq \in Nat /\ \A s \in Nums : s \in Nat /\ s < lastSeq'
  BY DEF NumbersKnown, StoreInv, Nums
<1>2. Near(c)' = Near(c) \cup {lastSeq'} /\ Has(KeyOf[c])' = Has(KeyOf[c])
  BY DEF Near, Has
<1>3. \A i \in DOMAIN pending[c] : pending[c][i] \in Nat /\ pending[c][i] < lastSeq'
  <2>1. pending[c] \in Seq(Known)
    BY DEF NumbersKnown, SessionInv
  <2>2. \A i \in DOMAIN pending[c] : pending[c][i] \in Known
    BY <2>1, LenProperties, ElementOfSeq
  <2> QED BY <2>2, <1>1 DEF Known
<1>4. PendInv(c)'
  BY <1>1, <1>2, <1>3 DEF Mail, PendInv
<1>5. live[c] => Held' \subseteq Has(KeyOf[c])' \cup Flying'
  BY <1>2 DEF Mail
<1>6. ASSUME pc[c] = "select" PROVE SelectInv(c)'
  <2>1. Waiting(c)' = Waiting(c) \cup {lastSeq'}
    <3> DEFINE new == [seq |-> NextSeq, pkt |-> p, origin |-> "mesh", fresh |-> TRUE]
    <3>1. rows' = rows \cup {new} /\ NextSeq = lastSeq'
      BY DEF Insert
    <3>2. cursor[c] < lastSeq'
      BY <1>1 DEF NumbersKnown, SessionInv, Known
    <3>3. "mesh" \notin Excluded(c)
      BY ServerAssumption, StoreAssumption DEF Excluded
    <3>4. new.seq = lastSeq' /\ new.fresh /\ new.origin = "mesh"
      BY <3>1
    <3> HIDE DEF new
    <3> QED BY <1>1, <3>1, <3>2, <3>3, <3>4 DEF Waiting, Backlog, Excluded
  <2>2. Waiting(c) \subseteq Nums
    BY DEF Waiting, Backlog, Nums, NumbersKnown, StoreInv, SessionInv, Known, Row
  <2>3. \A s \in Waiting(c) : Rank(Waiting(c)', s) = Rank(Waiting(c), s)
    <3> TAKE s \in Waiting(c)
    <3>1. ~(lastSeq' < s)
      BY <1>1, <2>2
    <3>2. {m \in Waiting(c)' : m < s} = {m \in Waiting(c) : m < s}
      BY <2>1, <3>1
    <3> QED BY <3>2 DEF Rank
  <2>4. \A s \in Waiting(c)' \ Near(c)' : s \in Waiting(c) \ Near(c)
    BY <1>2, <2>1
  <2> QED BY <1>1, <1>6, <2>1, <2>3, <2>4 DEF Mail, SelectInv, Rank
<1>7. ASSUME pc[c] \in {"selected", "replay"} PROVE ReplayInv(c)'
  <2>1. last[c] \in Nat /\ last[c] < lastSeq' /\ \A t \in todo[c] : t \in Nat /\ t < lastSeq'
    BY <1>1 DEF NumbersKnown, SessionInv, Known
  <2>2. ReplayInv(c)
    BY <1>7 DEF Mail
  <2>3. lastSeq' \in Nat /\ ~(lastSeq' <= last[c]) /\ \A t \in todo[c] : ~(lastSeq' <= t)
    BY <1>1, <2>1
  <2> QED BY <1>1, <1>2, <2>2, <2>3 DEF ReplayInv
<1> QED BY <1>1, <1>2, <1>4, <1>5, <1>6, <1>7 DEF Mail

(* A fan-out moves the least number in flight to a queue or to an app.     *)
LEMMA FanoutMail ==
    ASSUME NumbersKnown, FeedInv, QueueInv, RoomLeft, Fanout, NEW c \in Conns, Mail(c)
    PROVE  Mail(c)'
<1> DEFINE n == Head(ready).seq
<1>1. /\ UNCHANGED <<rows, lastSeq, clients, pc, live, offset, todo, last, skipped>>
      /\ Deliver(n, clients, {}) /\ n \in Known /\ Nums' = Nums /\ Held' = Held
  BY FanoutFeed DEF Nums, Held
<1>2. n = NoSeq => Flying' = Flying
  BY FanoutFeed
<1>3. n # NoSeq => n \in Flying /\ Flying' = Flying \ {n} /\ \A m \in Flying' : m > n
  BY FanoutFeed
<1>4. Flying \subseteq Nums /\ \A s \in Nums : s \in Nat /\ s # NoSeq
  BY DEF Flying, Nums, NoSeq
<1> HIDE DEF n
<1>5. Has(KeyOf[c]) \subseteq Has(KeyOf[c])'
  <2>1. Next /\ KeyOf[c] \in Keys
    BY ServerAssumption DEF Next, Running, Threads
  <2> QED BY <2>1, GivenGrows
<1>6. CASE c \in clients /\ live[c]
  <2>1. pending[c] = <<>> /\ pending'[c] = <<>> /\ pc[c] \notin InHandshake
    BY <1>1, <1>6 DEF QueueInv, Deliver, Give, Moving, KeysOf, Queueing, NumbersKnown, SessionInv
  <2>2. n \in Has(KeyOf[c])'
    BY <1>1, <1>6, ServerAssumption DEF Deliver, Give, Moving, KeysOf, Receiving, Has
  <2>3. Held' \subseteq Has(KeyOf[c])' \cup Flying'
    BY <1>1, <1>2, <1>3, <1>5, <1>6, <2>2 DEF Mail
  <2>4. PendInv(c)'
    BY <2>1 DEF PendInv
  <2> QED BY <1>1, <1>6, <2>1, <2>3, <2>4 DEF Mail, InHandshake, Away
<1>7. CASE c \in clients /\ ~live[c]
  <2>1. pending' = [d \in Conns |-> IF d \in Queueing(clients) THEN Append(pending[d], n)
                                     ELSE pending[d]]
    BY <1>1 DEF Deliver, Give, Moving, KeysOf
  <2>2. pending'[c] = Append(pending[c], n) /\ cursor'[c] = cursor[c]
    BY <1>1, <1>7, <2>1 DEF Deliver, Give, Moving, KeysOf, Receiving, Queueing, RoomLeft, NumbersKnown, SessionInv
  <2>3. /\ Len(pending[c]) \in Nat /\ DOMAIN pending[c] = 1 .. Len(pending[c])
        /\ DOMAIN pending'[c] = 1 .. Len(pending[c]) + 1
        /\ \A i \in 1 .. Len(pending[c]) : pending'[c][i] = pending[c][i]
        /\ pending'[c][Len(pending[c]) + 1] = n
    <3>1. pending[c] \in Seq(Known)
      BY DEF NumbersKnown, SessionInv
    <3> QED BY <1>1, <2>2, <3>1, QueueElements
  <2>4. \A s \in Nums : s \in Near(c)' <=> s \in Near(c)
    <3>1. Range(pending'[c]) = Range(pending[c]) \cup {n}
      BY <2>3 DEF Range
    <3> QED BY <1>2, <1>3, <1>4, <3>1 DEF Near
  <2>5. PendInv(c)'
    <3> SUFFICES ASSUME NEW i \in DOMAIN pending'[c], pending'[c][i] # NoSeq
                 PROVE  /\ \A j \in DOMAIN pending'[c] :
                               i < j /\ pending'[c][j] # NoSeq => pending'[c][i] < pending'[c][j]
                        /\ \A m \in Flying' : m > pending'[c][i]
                        /\ \A s \in Nums : s > pending'[c][i] => s \in Near(c)'
      BY <1>1 DEF PendInv
    <3>1. CASE i \in DOMAIN pending[c]
      <4>1. pending'[c][i] = pending[c][i]
        BY <2>3, <3>1
      <4>2. /\ \A j \in DOMAIN pending[c] :
                   i < j /\ pending[c][j] # NoSeq => pending[c][i] < pending[c][j]
            /\ \A m \in Flying : m > pending[c][i]
            /\ \A s \in Nums : s > pending[c][i] => s \in Near(c)
        BY <3>1, <4>1 DEF Mail, PendInv
      <4>3. n # NoSeq => n > pending[c][i]
        BY <1>3, <4>2
      <4>4. pending[c][i] \in Int /\ n \in Int
        <5>1. pending[c] \in Seq(Known)
          BY DEF NumbersKnown, SessionInv
        <5>2. pending[c][i] \in Known
          BY <3>1, <5>1, <2>3, ElementOfSeq
        <5> QED BY <5>2, <1>1 DEF Known
      <4>5. \A j \in DOMAIN pending'[c] :
                i < j /\ pending'[c][j] # NoSeq => pending'[c][i] < pending'[c][j]
        BY <2>3, <4>1, <4>2, <4>3, <4>4
      <4> QED BY <1>2, <1>3, <2>4, <4>1, <4>2, <4>5
    <3>2. CASE i = Len(pending[c]) + 1
      <4>1. pending'[c][i] = n /\ n \in Flying
        BY <1>3, <2>3, <3>2
      <4>2. \A s \in Nums : s > n => s \in Near(c)'
        BY <1>3, <2>4, <4>1 DEF FeedInv, Near
      <4> QED BY <1>3, <2>3, <3>2, <4>1, <4>2
    <3> QED BY <2>3, <3>1, <3>2
  <2>6. ASSUME pc[c] = "select" PROVE SelectInv(c)'
    <3>1. Waiting(c)' = Waiting(c) /\ Waiting(c) \subseteq Nums
      BY <1>1, <2>2 DEF Waiting, Backlog, Nums, NumbersKnown, StoreInv, SessionInv, Known, Row, Excluded
    <3> QED BY <1>1, <2>4, <2>6, <3>1 DEF Mail, SelectInv
  <2>7. ASSUME pc[c] \in {"selected", "replay"} PROVE ReplayInv(c)'
    <3>1. Held \subseteq Nums
      BY HeldKnown
    <3> QED BY <1>1, <1>5, <2>4, <2>7, <3>1 DEF Mail, ReplayInv
  <2> QED BY <1>1, <1>7, <2>2, <2>5, <2>6, <2>7 DEF Mail, Away
<1>8. CASE c \notin clients
  <2>1. pending'[c] = pending[c] /\ pending[c] = <<>> /\ ~live[c] /\ pc[c] \in Away
    BY <1>1, <1>8 DEF Mail, Deliver, Give, Moving, KeysOf, Queueing, NumbersKnown, SessionInv
  <2>2. PendInv(c)'
    BY <2>1 DEF PendInv
  <2> QED BY <1>1, <1>8, <2>1, <2>2 DEF Mail, Away
<1> QED BY <1>6, <1>7, <1>8

-----------------------------------------------------------------------------
(* The replay.                                                             *)

(* The offset leaves just the limit, and with it something to return.      *)
LEMMA CountMail ==
    ASSUME MeshTraffic, NumbersKnown, NEW c \in Conns, CountBacklog(c)
    PROVE  SelectInv(c)'
<1> DEFINE W == Waiting(c)
<1>1. /\ offset'[c] = Larger(0, Cardinality(W) - ReplayLimit)
      /\ Waiting(c)' = W
  BY DEF CountBacklog, storeVars, NumbersKnown, SessionInv, Waiting, Backlog, Excluded
<1>2. lastSeq \in Nat /\ W \in SUBSET (1 .. lastSeq)
  BY DEF Waiting, Backlog, NumbersKnown, StoreInv, SessionInv, Known, Row
<1>3. IsFiniteSet(W) /\ Cardinality(W) \in Nat
  <2>1. IsFiniteSet(1 .. lastSeq)
    BY <1>2, FS_Interval
  <2>2. IsFiniteSet(W)
    BY <1>2, <2>1, FS_Subset
  <2> QED BY <2>2, FS_CardinalityType
<1>4. ReplayLimit \in Nat /\ ReplayLimit > 0
  BY ServerAssumption DEF MeshTraffic
<1> HIDE DEF W
<1>5. \A s \in W : Rank(W, s) \in Nat /\ Rank(W, s) < Cardinality(W)
  <2> TAKE s \in W
  <2>1. {m \in W : m < s} \subseteq W /\ {m \in W : m < s} # W
    <3>1. ~(s < s)
      BY <1>2
    <3> QED BY <3>1
  <2> DEFINE L == {m \in W : m < s}
  <2> HIDE DEF L
  <2>2. L \in SUBSET W /\ L # W
    BY <2>1 DEF L
  <2>3. IsFiniteSet(L) /\ Cardinality(L) <= Cardinality(W) /\ Cardinality(L) # Cardinality(W)
    BY <1>3, <2>2, FS_Subset
  <2>4. Cardinality(L) \in Nat /\ Rank(W, s) = Cardinality(L)
    BY <2>3, FS_CardinalityType DEF Rank, L
  <2> QED BY <1>3, <2>3, <2>4
<1>6. \A s \in W : Rank(W, s) < offset'[c] + ReplayLimit
  BY <1>1, <1>3, <1>4, <1>5 DEF Larger
<1>7. ASSUME offset'[c] > 0 PROVE \E t \in W : Rank(W, t) = offset'[c]
  <2>1. offset'[c] + 1 \in 1 .. Cardinality(W) /\ offset'[c] \in Nat
    BY <1>1, <1>3, <1>4, <1>7 DEF Larger
  <2>2. PICK t \in W : Cardinality({m \in W : m <= t}) = offset'[c] + 1
    BY <1>2, <2>1, EveryRankTaken
  <2>3. {m \in W : m <= t} = {m \in W : m < t} \cup {t} /\ t \notin {m \in W : m < t}
    <3>1. ~(t < t) /\ \A m \in W : m <= t <=> m < t \/ m = t
      BY <1>2
    <3> QED BY <3>1, Zenon
  <2>4. IsFiniteSet({m \in W : m < t})
    BY <1>3, FS_Subset
  <2>5. Cardinality({m \in W : m <= t}) = Rank(W, t) + 1
    <3> DEFINE L == {m \in W : m < t}
    <3>1. IsFiniteSet(L) /\ t \notin L /\ {m \in W : m <= t} = L \cup {t}
      BY <2>3, <2>4
    <3> HIDE DEF L
    <3>2. Cardinality(L \cup {t}) = Cardinality(L) + 1
      BY <3>1, FS_AddElement
    <3> QED BY <3>1, <3>2 DEF Rank, L
  <2>6. Rank(W, t) = offset'[c]
    BY <1>5, <2>1, <2>2, <2>5
  <2> QED BY <2>6
<1> QED BY <1>1, <1>6, <1>7 DEF SelectInv

(* What the select returns, leaves out for good or leaves to the fan-out,  *)
(* together with what the app has, is everything.                          *)
LEMMA SelectMail ==
    ASSUME MeshTraffic, NumbersKnown, FeedInv, SeenInv, SavedInv, NEW c \in Conns, Mail(c),
           SelectRows(c), Has(KeyOf[c]) \subseteq Has(KeyOf[c])', Near(c)' = Near(c)
    PROVE  ReplayInv(c)'
<1> DEFINE W == Waiting(c)
           chosen == Slice(W, ReplayLimit, offset[c])
           left == {r \in rows : r.seq > cursor[c] /\ r.seq \notin chosen}
<1>1. /\ pc[c] = "select" /\ UNCHANGED <<lastSeq, last>>
      /\ todo'[c] = chosen
      /\ \A r \in left : (~r.fresh \/ \E n \in chosen : n > r.seq) => r.seq \in Has(KeyOf[c])'
  BY ServerAssumption DEF SelectRows, storeVars, NumbersKnown, SessionInv, HistoryInv, Waiting, Has
<1>2. /\ Held' = Held /\ last[c] = cursor[c] /\ lastSeq \in Nat
      /\ W \subseteq Held /\ Held \subseteq Nums /\ W \subseteq Nums
  <2>1. Held' = Held /\ last[c] = cursor[c]
    BY <1>1 DEF Held, Mail, SelectRows, storeVars
  <2>2. W \subseteq Held
    BY DEF Waiting, Backlog, Held
  <2> QED BY <2>1, <2>2, HeldKnown DEF NumbersKnown, StoreInv
<1>3. ReplayLimit \in Nat /\ ReplayLimit > 0 /\ offset[c] \in Nat
  BY ServerAssumption DEF MeshTraffic, NumbersKnown, SessionInv
<1>4. \A s \in Held : s <= cursor[c] => s \in Has(KeyOf[c])
  <2>1. KeyOf[c] \in Keys /\ cursor[c] <= lastSeen[KeyOf[c]]
    BY <1>1, ServerAssumption DEF SavedInv, Registered, Pcs
  <2>2. \A s \in Held : s <= cursor[c] => s <= lastSeen[KeyOf[c]]
    <3>1. cursor[c] \in Int /\ lastSeen[KeyOf[c]] \in Int /\ \A s \in Held : s \in Int
      BY <1>2, <2>1 DEF Nums, NumbersKnown, StoreInv, SessionInv, Known, NoRow
    <3> QED BY <2>1, <3>1
  <2> QED BY <2>1, <2>2 DEF SeenInv
<1>5. \A s \in Held : s > cursor[c] => s \in W \/ s \in Has(KeyOf[c])' \cup chosen
  <2> SUFFICES ASSUME NEW s \in Held, s > cursor[c], s \notin chosen
               PROVE  s \in W \/ s \in Has(KeyOf[c])'
    OBVIOUS
  <2>1. PICK r \in rows : r.seq = s
    BY DEF Held
  <2>2. CASE ~r.fresh
    BY <1>1, <2>1, <2>2
  <2>3. CASE r.fresh
    <3>1. r.origin \notin Excluded(c)
      BY ServerAssumption, StoreAssumption DEF FeedInv, Excluded
    <3> QED BY <2>1, <2>3, <3>1 DEF Waiting, Backlog
  <2> QED BY <2>1, <2>2, <2>3
<1>6. /\ \A s \in W \ Near(c) : Rank(W, s) < offset[c] + ReplayLimit
      /\ offset[c] > 0 => \E t \in W : Rank(W, t) = offset[c]
      /\ \A s \in W : s \in chosen <=> Rank(W, s) >= offset[c] /\ Rank(W, s) < offset[c] + ReplayLimit
      /\ chosen \subseteq W
  <2>1. \A s \in W : Rank(W, s) \in Nat
    BY <1>2, RanksAscend DEF Nums
  <2>2. \A s \in W : s \in chosen <=> Rank(W, s) \in offset[c] .. offset[c] + ReplayLimit - 1
    BY DEF Slice, Rank
  <2>3. chosen \subseteq W
    BY DEF Slice
  <2> HIDE DEF W, chosen
  <2>4. \A s \in W : s \in chosen <=> Rank(W, s) >= offset[c] /\ Rank(W, s) < offset[c] + ReplayLimit
    BY <1>3, <2>1, <2>2
  <2> QED BY <1>1, <2>3, <2>4 DEF Mail, SelectInv, W
<1> HIDE DEF W, chosen
<1>7. ASSUME NEW s \in W, Rank(W, s) < offset[c], s \notin chosen PROVE s \in Has(KeyOf[c])'
  <2>1. Rank(W, s) \in Nat
    BY <1>2, RanksAscend DEF Nums
  <2>2. PICK t \in W : Rank(W, t) = offset[c]
    BY <1>3, <1>6, <1>7, <2>1
  <2>3. t > s
    <3> SUFFICES ASSUME t <= s PROVE FALSE
      <4>1. \A x \in W : x \in Nat
        BY <1>2 DEF Nums
      <4> QED BY <4>1
    <3>1. Rank(W, t) <= Rank(W, s)
      BY <1>2, RanksAscend
    <3> QED BY <1>3, <1>7, <2>1, <2>2, <3>1
  <2>4. t \in chosen
    BY <1>3, <1>6, <2>2
  <2>5. PICK r \in rows : r.seq = s
    BY <1>2 DEF Held
  <2>6. s > cursor[c]
    BY DEF W, Waiting, Backlog
  <2>7. r \in left
    BY <1>7, <2>5, <2>6
  <2> QED BY <1>1, <2>3, <2>4, <2>5, <2>7
<1>8. \A s \in W : s \in Has(KeyOf[c])' \cup chosen \cup Near(c)
  <2> TAKE s \in W
  <2>1. Rank(W, s) \in Nat
    BY <1>2, RanksAscend DEF Nums
  <2> QED BY <1>3, <1>6, <1>7, <2>1
<1>9. \A s \in W : \A t \in chosen : s <= t => s \in Has(KeyOf[c])' \cup chosen
  <2> TAKE s \in W
  <2> TAKE t \in chosen
  <2> SUFFICES ASSUME s <= t, s \notin chosen PROVE s \in Has(KeyOf[c])'
    OBVIOUS
  <2>1. Rank(W, s) \in Nat /\ Rank(W, t) \in Nat /\ Rank(W, s) <= Rank(W, t)
    BY <1>2, <1>6, RanksAscend
  <2>2. Rank(W, s) < offset[c]
    BY <1>3, <1>6, <2>1
  <2> QED BY <1>7, <2>2
<1>10. \A s \in Held : s <= cursor[c] \/ s > cursor[c]
  BY <1>2 DEF Nums, NumbersKnown, SessionInv, Known
<1>11. Held \subseteq Has(KeyOf[c])' \cup chosen \cup Near(c)
  BY <1>4, <1>5, <1>8, <1>10
<1>12. \A s \in Held : (s <= last[c] \/ \E t \in chosen : s <= t) => s \in Has(KeyOf[c])' \cup chosen
  BY <1>2, <1>4, <1>5, <1>9, <1>10
<1> QED BY <1>1, <1>2, <1>11, <1>12 DEF ReplayInv

(* A row that is written goes from what is left to what the app has.       *)
LEMMA ReplayMail ==
    ASSUME NumbersKnown, NEW c \in Conns, Mail(c), ReplayRow(c),
           Has(KeyOf[c]) \subseteq Has(KeyOf[c])', Near(c)' = Near(c)
    PROVE  ReplayInv(c)'
<1> DEFINE n == NextRow(c)
<1>1. /\ UNCHANGED rows /\ ReplayInv(c)
      /\ last'[c] = Larger(last[c], n) /\ todo'[c] = todo[c] \ {n}
  BY DEF ReplayRow, storeVars, Mail, NumbersKnown, SessionInv
<1>2. Held' = Held /\ n \in todo[c] /\ n \in Known
  BY <1>1, NextRowKnown DEF ReplayRow, Held
<1>3. n \in Has(KeyOf[c])'
  <2> HIDE DEF n
  <2>1. Range(<<n>>) = {n}
    BY DEF Range
  <2>2. handed' = [handed EXCEPT ![KeyOf[c]] = @ \cup Range(<<n>>)]
    BY DEF ReplayRow, Write, n
  <2> QED BY <2>1, <2>2, ServerAssumption DEF NumbersKnown, HistoryInv, Has
<1> HIDE DEF n
<1>4. ASSUME NEW s \in Held, s <= last'[c] PROVE s \in Has(KeyOf[c]) \cup todo[c]
  <2>1. s <= last[c] \/ s <= n
    BY <1>1, <1>2, <1>4 DEF Larger
  <2> QED BY <1>1, <1>2, <2>1 DEF ReplayInv
<1> QED BY <1>1, <1>2, <1>3, <1>4 DEF ReplayInv

(* The places of a set are told apart by their ranks: the flush takes each *)
(* pending frame for one place only.                                       *)
LEMMA RanksDiffer ==
    ASSUME NEW n \in Nat, NEW I \in SUBSET (1 .. n), NEW i \in I, NEW j \in I,
           Cardinality({h \in I : h <= i}) = Cardinality({h \in I : h <= j})
    PROVE  i = j
<1> DEFINE Upto(x) == {h \in I : h <= x}
<1>1. i \in Nat /\ j \in Nat /\ \A h \in I : h \in Nat
  OBVIOUS
<1>2. \A x : IsFiniteSet(Upto(x))
  <2>1. IsFiniteSet(1 .. n)
    BY FS_Interval
  <2>2. \A x : Upto(x) \in SUBSET (1 .. n)
    OBVIOUS
  <2> QED BY <2>1, <2>2, FS_Subset
<1>3. Upto(i) \subseteq Upto(j) \/ Upto(j) \subseteq Upto(i)
  <2>1. CASE i <= j
    <3>1. \A h \in I : h <= i => h <= j
      BY <1>1, <2>1
    <3> QED BY <3>1
  <2>2. CASE j <= i
    <3>1. \A h \in I : h <= j => h <= i
      BY <1>1, <2>2
    <3> QED BY <3>1
  <2> QED BY <1>1, <2>1, <2>2
<1>4. Upto(i) = Upto(j)
  <2>1. Cardinality(Upto(i)) = Cardinality(Upto(j))
    OBVIOUS
  <2> HIDE DEF Upto
  <2> QED BY <1>2, <1>3, <2>1, FS_Subset
<1>5. i \in Upto(i) /\ j \in Upto(j)
  BY <1>1
<1>6. i <= j /\ j <= i
  BY <1>4, <1>5
<1> QED BY <1>1, <1>6

(* The flush writes every pending frame it does not skip. *)
LEMMA FlushedAll ==
    ASSUME NumbersKnown, NEW c \in Conns, NEW i \in Uncovered(c)
    PROVE  pending[c][i] \in Range(Flushed(c))
<1> DEFINE I == Uncovered(c)
           rank(x) == Cardinality({j \in I : j <= x})
           pick(r) == CHOOSE x \in I : rank(x) = r
<1>1. Len(pending[c]) \in Nat /\ I \in SUBSET (1 .. Len(pending[c]))
  <2>1. pending[c] \in Seq(Known)
    BY DEF NumbersKnown, SessionInv
  <2> QED BY <2>1, LenProperties DEF Uncovered
<1>2. Flushed(c) = [r \in 1 .. Cardinality(I) |-> pending[c][pick(r)]]
  BY DEF Flushed
<1> HIDE DEF I
<1>3. IsFiniteSet(I) /\ Cardinality(I) \in Nat
  <2>1. IsFiniteSet(1 .. Len(pending[c]))
    BY <1>1, FS_Interval
  <2>2. IsFiniteSet(I)
    BY <1>1, <2>1, FS_Subset
  <2> QED BY <2>2, FS_CardinalityType
<1>4. rank(i) \in 1 .. Cardinality(I)
  <2> DEFINE U == {j \in I : j <= i}
  <2>1. U \in SUBSET I /\ i \in U
    BY <1>1 DEF I
  <2> HIDE DEF U
  <2>2. IsFiniteSet(U) /\ Cardinality(U) <= Cardinality(I)
    BY <1>3, <2>1, FS_Subset
  <2>3. Cardinality(U) \in Nat /\ Cardinality(U) # 0
    BY <2>1, <2>2, FS_CardinalityType, FS_EmptySet
  <2> QED BY <1>3, <2>2, <2>3 DEF U
<1>5. pick(rank(i)) = i
  <2>1. i \in I
    BY DEF I
  <2>2. pick(rank(i)) \in I /\ rank(pick(rank(i))) = rank(i)
    BY <2>1
  <2>3. \A x \in I : rank(x) = rank(i) => x = i
    BY <1>1, <2>1, RanksDiffer
  <2> HIDE DEF pick, rank
  <2> QED BY <2>2, <2>3
<1>6. Flushed(c)[rank(i)] = pending[c][i] /\ rank(i) \in DOMAIN Flushed(c)
  <2> HIDE DEF rank, pick
  <2> QED BY <1>2, <1>4, <1>5
<1> QED BY <1>6 DEF Range

(* Going live: everything below the new cursor was replayed, left out or   *)
(* is flushed now, and the rest is in flight.                              *)
LEMMA FlushMail ==
    ASSUME NumbersKnown, NEW c \in Conns, Mail(c), GoLive(c),
           Has(KeyOf[c]) \subseteq Has(KeyOf[c])'
    PROVE  /\ Held \subseteq Has(KeyOf[c])' \cup Flying
           /\ \A s \in Held : s <= Covered(c) => s \in Has(KeyOf[c])'
           /\ Range(pending[c]) \cap Held \subseteq Has(KeyOf[c])'
<1>1. ReplayInv(c) /\ PendInv(c) /\ todo[c] = {}
  BY DEF GoLive, Mail
<1>2. /\ pending[c] \in Seq(Known) /\ DOMAIN pending[c] = 1 .. Len(pending[c])
      /\ Len(pending[c]) \in Nat
  BY LenProperties DEF NumbersKnown, SessionInv
<1>3. \A i \in DOMAIN pending[c] : pending[c][i] \in Known
  BY <1>2, ElementOfSeq
<1>4. Known \subseteq Nat /\ last[c] \in Known /\ Nums = Known \ {NoSeq} /\ Held \subseteq Nums
  BY HeldKnown DEF Known, Nums, NoSeq, NumbersKnown, StoreInv, SessionInv
<1>5. \A s \in Range(Flushed(c)) : s \in Has(KeyOf[c])'
  <2>1. handed' = [handed EXCEPT ![KeyOf[c]] = @ \cup Range(Flushed(c))]
    BY DEF GoLive, Write
  <2> QED BY <2>1, ServerAssumption DEF NumbersKnown, HistoryInv, Has
<1>6. ASSUME NEW i \in DOMAIN pending[c], pending[c][i] # NoSeq, pending[c][i] \in Held
      PROVE  pending[c][i] \in Has(KeyOf[c])'
  <2>2. CASE pending[c][i] <= last[c]
    BY <1>1, <1>6, <2>2 DEF ReplayInv
  <2>3. CASE pending[c][i] > last[c]
    <3>1. ASSUME NEW j \in 1 .. i - 1 PROVE pending[c][i] > pending[c][j]
      <4>1. j \in DOMAIN pending[c] /\ j < i
        BY <1>2
      <4>2. pending[c][i] \in Nat /\ pending[c][j] \in Nat
        BY <1>3, <1>4, <4>1
      <4>3. CASE pending[c][j] = NoSeq
        BY <1>6, <4>2, <4>3 DEF NoSeq
      <4>4. CASE pending[c][j] # NoSeq
        <5>1. pending[c][j] < pending[c][i]
          BY <1>1, <1>6, <4>1, <4>4 DEF PendInv
        <5> QED BY <4>2, <5>1
      <4> QED BY <4>3, <4>4
    <3>2. i \in Uncovered(c)
      BY <2>3, <3>1 DEF Uncovered
    <3>3. pending[c][i] \in Range(Flushed(c))
      BY <3>2, FlushedAll
    <3> QED BY <1>5, <3>3
  <2>4. pending[c][i] <= last[c] \/ pending[c][i] > last[c]
    <3>1. pending[c][i] \in Nat /\ last[c] \in Nat
      BY <1>3, <1>4
    <3> QED BY <3>1
  <2> QED BY <2>2, <2>3, <2>4
<1>7. Range(pending[c]) \cap Held \subseteq Has(KeyOf[c])'
  BY <1>4, <1>6 DEF Range
<1>8. Held \subseteq Has(KeyOf[c])' \cup Flying
  <2>1. Held' = Held
    BY DEF GoLive, storeVars, Held
  <2> QED BY <1>1, <1>7, <2>1 DEF ReplayInv, Near
<1>9. ASSUME NEW s \in Held, s <= Covered(c) PROVE s \in Has(KeyOf[c])'
  <2>1. CASE s <= last[c]
    BY <1>1, <2>1, <1>9 DEF ReplayInv
  <2>2. ASSUME ~(s <= last[c]), s \in Flying PROVE FALSE
    <3>1. Covered(c) \in {last[c]} \cup Range(pending[c])
      <4>1. {last[c]} \cup Range(pending[c]) \in SUBSET Nat
        BY <1>3, <1>4 DEF Range
      <4>2. \A x \in {last[c]} \cup Range(pending[c]) : x <= lastSeq
        BY <1>3, <1>4 DEF Range, Known
      <4>3. lastSeq \in Nat
        BY DEF NumbersKnown, StoreInv
      <4> HIDE DEF Range
      <4> QED BY <4>1, <4>2, <4>3, MaxOfBounded DEF Covered
    <3>2. PICK i \in DOMAIN pending[c] : Covered(c) = pending[c][i]
      BY <1>9, <2>2, <3>1 DEF Range
    <3>3. pending[c][i] # NoSeq
      BY <1>4, <1>9, <3>2 DEF Nums, NoSeq
    <3>4. s > pending[c][i]
      BY <1>1, <2>2, <3>2, <3>3 DEF PendInv
    <3>5. s \in Nat /\ pending[c][i] \in Nat /\ s <= pending[c][i]
      BY <1>3, <1>4, <1>9, <3>2
    <3> QED BY <3>4, <3>5
  <2> QED BY <1>8, <2>1, <2>2
<1> QED BY <1>7, <1>8, <1>9

-----------------------------------------------------------------------------
(* Every step keeps every session's mail in order.                         *)

(* A session's own step, handshake, replay or end. *)
LEMMA OwnStepMail ==
    ASSUME MeshTraffic, NumbersKnown, FeedInv, QueueInv, SavedInv, SeenInv,
           NEW c \in Conns, Mail(c), SessionStep(c), Flying' = Flying, UNCHANGED <<rows, lastSeq>>,
           Has(KeyOf[c]) \subseteq Has(KeyOf[c])'
    PROVE  Mail(c)'
<1> USE DEF storeVars, threadVars, sessionVars, histVars
<1>1. Nums' = Nums /\ Held' = Held /\ (pending'[c] = pending[c] => Near(c)' = Near(c))
  BY DEF Nums, Held, Near
<1>2. pending'[c] = pending[c] => PendInv(c)'
  BY <1>1 DEF Mail, PendInv
<1>3. pending'[c] = <<>> => PendInv(c)'
  BY DEF PendInv
<1>4. pc \in [Conns -> Pcs] /\ live \in [Conns -> BOOLEAN] /\ last \in [Conns -> Known]
      /\ cursor \in [Conns -> Known] /\ pending \in [Conns -> Seq(Known)]
  BY DEF NumbersKnown, SessionInv
<1>5. pc[c] \in InHandshake => ~live[c]
  BY DEF QueueInv
<1>6. CASE PostWake(c) \/ Drop(c)
  <2>1. /\ pc' = pc /\ live' = live /\ cursor' = cursor /\ offset' = offset
        /\ pending' = pending /\ todo' = todo /\ last' = last /\ clients' = clients
    BY <1>6 DEF PostWake, Drop
  <2> QED BY <1>1, <2>1, SessionFramed
<1>7. CASE Connect(c) \/ LookUp(c)
  <2>1. pc[c] \in Away /\ pc'[c] \in Away /\ pending' = pending /\ live' = live /\ clients' = clients
    BY <1>4, <1>7 DEF Connect, LookUp, Away
  <2> QED BY <1>2, <2>1 DEF Mail, Away
<1>8. CASE Join(c)
  <2>1. pc[c] = "opened" /\ pc'[c] = "read" /\ pending' = pending /\ live' = live /\ c \in clients'
    BY <1>4, <1>8 DEF Join
  <2> QED BY <1>2, <2>1 DEF Mail, Away
<1>9. CASE AskConfig(c)
  <2>1. pc[c] = "read" /\ pc'[c] = "asked" /\ pending' = pending /\ ~live'[c] /\ clients' = clients
    BY <1>4, <1>9 DEF AskConfig
  <2> QED BY <1>2, <2>1 DEF Mail, Away
<1>10. CASE ServeConfig(c)
  <2>1. /\ pc[c] = "asked" /\ pc'[c] \in {"read", "count"} /\ last'[c] = cursor[c]
        /\ pending' = pending /\ live' = live /\ clients' = clients /\ cursor' = cursor
    BY <1>4, <1>10 DEF ServeConfig, MeshTraffic
  <2> QED BY <1>2, <1>5, <2>1 DEF Mail, Away, InHandshake
<1>11. CASE CountBacklog(c)
  <2>1. /\ pc[c] = "count" /\ pc'[c] = "select" /\ last' = last /\ cursor' = cursor
        /\ pending' = pending /\ live' = live /\ clients' = clients
    BY <1>4, <1>11 DEF CountBacklog
  <2> QED BY <1>2, <1>5, <1>11, <2>1, CountMail DEF Mail, Away, InHandshake
<1>12. CASE SelectRows(c)
  <2>1. /\ pc[c] = "select" /\ pc'[c] = "selected"
        /\ pending' = pending /\ live' = live /\ clients' = clients
    BY <1>4, <1>12 DEF SelectRows
  <2>2. ReplayInv(c)'
    BY <1>1, <1>12, <2>1, SelectMail
  <2> QED BY <1>2, <1>5, <2>1, <2>2 DEF Mail, Away, InHandshake
<1>13. CASE CompleteConfig(c)
  <2>1. /\ pc[c] = "selected" /\ pc'[c] = "replay" /\ last' = last /\ todo' = todo
        /\ pending' = pending /\ live' = live /\ clients' = clients
    BY <1>4, <1>13 DEF CompleteConfig
  <2>2. ReplayInv(c)'
    BY <1>1, <2>1 DEF Mail, ReplayInv
  <2> QED BY <1>2, <1>5, <2>1, <2>2 DEF Mail, Away, InHandshake
<1>14. CASE ReplayRow(c)
  <2>1. /\ pc[c] = "replay" /\ pc' = pc
        /\ pending' = pending /\ live' = live /\ clients' = clients
    BY <1>14 DEF ReplayRow
  <2>2. ReplayInv(c)'
    BY <1>1, <1>14, <2>1, ReplayMail
  <2> QED BY <1>2, <1>5, <2>1, <2>2 DEF Mail, Away, InHandshake
<1>15. CASE GoLive(c)
  <2>1. pc[c] = "replay" /\ pc'[c] = "read" /\ pending'[c] = <<>> /\ clients' = clients
    BY <1>4, <1>15 DEF GoLive
  <2>2. Held \subseteq Has(KeyOf[c])' \cup Flying
    BY <1>15, FlushMail
  <2> QED BY <1>1, <1>3, <2>1, <2>2 DEF Mail, Away
<1>16. CASE Leave(c)
  <2>1. pc'[c] = "off" /\ c \notin clients' /\ ~live'[c] /\ pending'[c] = <<>>
    BY <1>16 DEF Leave, Forget
  <2> QED BY <1>3, <2>1 DEF Mail, Away
<1> QED BY <1>6, <1>7, <1>8, <1>9, <1>10, <1>11, <1>12, <1>13, <1>14, <1>15, <1>16 DEF SessionStep

(* Another session's step. *)
LEMMA OtherStepMail ==
    ASSUME NumbersKnown, NEW c \in Conns, NEW d \in Conns, d # c, Mail(d), SessionStep(c),
           Flying' = Flying, UNCHANGED <<rows, lastSeq>>,
           Has(KeyOf[d]) \subseteq Has(KeyOf[d])'
    PROVE  Mail(d)'
<1> USE DEF storeVars, threadVars, sessionVars, histVars
<1>1. /\ pc'[d] = pc[d] /\ live'[d] = live[d] /\ cursor'[d] = cursor[d]
      /\ offset'[d] = offset[d] /\ pending'[d] = pending[d] /\ todo'[d] = todo[d]
      /\ last'[d] = last[d] /\ (d \in clients' <=> d \in clients)
  <2>1. CASE PostWake(c) \/ Drop(c)
    BY <2>1 DEF PostWake, Drop
  <2>2. CASE Leave(c)
    BY <2>2 DEF Leave, Forget, NumbersKnown, SessionInv
  <2>3. CASE GoLive(c) \/ ReplayRow(c)
    BY <2>3 DEF GoLive, ReplayRow, NumbersKnown, SessionInv
  <2>4. CASE Connect(c) \/ LookUp(c) \/ Join(c) \/ AskConfig(c) \/ ServeConfig(c)
    BY <2>4 DEF Connect, LookUp, Join, AskConfig, ServeConfig, NumbersKnown, SessionInv
  <2>5. CASE CountBacklog(c) \/ SelectRows(c) \/ CompleteConfig(c)
    BY <2>5 DEF CountBacklog, SelectRows, CompleteConfig, NumbersKnown, SessionInv
  <2> QED BY <2>1, <2>2, <2>3, <2>4, <2>5 DEF SessionStep
<1>2. Held' = Held
  BY DEF Held
<1> QED BY <1>1, <1>2, SessionFramed

(* The oldest callback with a number is before all else in flight. *)
LEMMA OldestFirst ==
    ASSUME NumbersKnown, QueueOrder, ready # <<>>, Head(ready).seq # NoSeq
    PROVE  Head(ready).seq \in Nums => \A m \in Flying : m >= Head(ready).seq
<1>1. ready \in Seq(Posted(Known))
  BY DEF NumbersKnown, ThreadInv
<1>2. /\ Len(ready) \in Nat /\ DOMAIN ready = 1 .. Len(ready)
      /\ 1 \in 1 .. Len(ready) /\ ready[1] = Head(ready)
  <2>1. Len(ready) # 0 /\ Len(ready) \in Nat
    BY <1>1, EmptySeq, LenProperties
  <2> QED BY <1>1, <2>1, HeadTailProperties, LenProperties
<1>3. \A i \in DOMAIN ready : ready[i].seq \in Int
  <2>1. \A i \in DOMAIN ready : ready[i] \in Posted(Known)
    BY <1>1, <1>2, ElementOfSeq
  <2> QED BY <2>1 DEF Posted, Known
<1> SUFFICES ASSUME Head(ready).seq \in Nums, NEW m \in Flying PROVE m >= Head(ready).seq
  OBVIOUS
<1>4. m \in Nums /\ m # NoSeq /\ m \in Int
  BY DEF Flying, Nums, NoSeq, NumbersKnown, StoreInv
<1>5. CASE m = reader
  BY <1>2, <1>3, <1>4, <1>5 DEF QueueOrder
<1>6. ASSUME NEW i \in DOMAIN ready, ready[i].seq = m PROVE m >= Head(ready).seq
  BY <1>2, <1>3, <1>4, <1>6 DEF QueueOrder
<1> QED BY <1>5, <1>6 DEF Flying, Posting

(* A crash that cuts a fan-out short saves the cursors of apps that were   *)
(* written to, and they had everything before it.                          *)
LEMMA SeenCutFanout ==
    ASSUME NumbersKnown, FeedInv, SeenInv, \A c \in Conns : Mail(c), Held' = Held,
           \A k \in Keys : Has(k) \subseteq Has(k)',
           ready # <<>>, Head(ready).who \in {"reader", "web"},
           DiesDelivering(Head(ready).seq, clients, {})
    PROVE  SeenInv'
<1> DEFINE n == Head(ready).seq
<1>1. n \in Known
  <2>1. ready \in Seq(Posted(Known))
    BY DEF NumbersKnown, ThreadInv
  <2>2. Head(ready) \in Posted(Known)
    BY <2>1, HeadTailProperties
  <2> QED BY <2>2 DEF Posted
<1>2. n # NoSeq => n \in Nums /\ \A m \in Flying : m >= n
  <2>1. n # NoSeq => n \in Nums
    BY <1>1 DEF Known, Nums, NoSeq, NumbersKnown, StoreInv
  <2> QED BY <2>1, OldestFirst DEF FeedInv
<1>3. \E W \in SUBSET Receiving(clients), c \in Conns :
        Give(n, W) /\ lastSeen' = Moved(KeysOf({} \cup Moving(n, W \ {c})), n)
  BY DEF DiesDelivering
<1> HIDE DEF n
<1>4. PICK W \in SUBSET Receiving(clients), c \in Conns :
        Give(n, W) /\ lastSeen' = Moved(KeysOf({} \cup Moving(n, W \ {c})), n)
  BY <1>3
<1> DEFINE M == Moving(n, W \ {c})
<1>5. lastSeen' = Moved(KeysOf(M), n)
  BY <1>4
<1>6. ASSUME NEW d \in M, NEW s \in Held, s <= n PROVE s \in Has(KeyOf[d])'
  <2>1. d \in W /\ d \in Conns /\ live[d] /\ n > cursor[d] /\ KeyOf[d] \in Keys
    BY ServerAssumption DEF Moving, Receiving, NumbersKnown, SessionInv
  <2>2. n # NoSeq /\ s \in Nums /\ s \in Nat /\ n \in Nat /\ cursor[d] \in Nat
    BY <1>1, <2>1, HeldKnown DEF NumbersKnown, StoreInv, SessionInv, Known, NoSeq, Nums
  <2>3. CASE s = n
    <3>1. KeyOf[d] \in KeysOf(W)
      BY <2>1 DEF KeysOf
    <3>2. n \in handed'[KeyOf[d]]
      BY <1>4, <2>1, <3>1 DEF Give
    <3> QED BY <2>3, <3>2 DEF Has
  <2>4. CASE s # n
    <3>1. s \notin Flying
      BY <1>2, <1>6, <2>2, <2>4
    <3> QED BY <2>1, <3>1 DEF Mail
  <2> QED BY <2>3, <2>4
<1> HIDE DEF M
<1>7. ASSUME NEW k \in Keys, NEW s \in Held, s <= lastSeen'[k] PROVE s \in Has(k)'
  <2>1. CASE s <= lastSeen[k]
    BY <2>1 DEF SeenInv
  <2>2. CASE ~(s <= lastSeen[k])
    <3>1. k \in KeysOf(M) /\ s <= n
      BY <1>5, <1>7, <2>2 DEF Moved, Larger
    <3>2. PICK d \in M : k = KeyOf[d]
      BY <3>1 DEF KeysOf
    <3> QED BY <1>6, <3>1, <3>2
  <2> QED BY <2>1, <2>2
<1> QED BY <1>7 DEF SeenInv

(* One that cuts the end of a replay short saves at most what the rows     *)
(* covered, and they are written.                                          *)
LEMMA SeenCutReplay ==
    ASSUME NumbersKnown, SeenInv, NEW c \in Conns, Mail(c), Held' = Held,
           \A k \in Keys : Has(k) \subseteq Has(k)', DiesGoingLive(c)
    PROVE  SeenInv'
<1>1. /\ pc[c] = "replay" /\ todo[c] = {} /\ KeyOf[c] \in Keys
      /\ lastSeen' = lastSeen \/ lastSeen' = Moved({KeyOf[c]}, last[c])
  BY ServerAssumption DEF DiesGoingLive
<1>2. \A s \in Held : s <= last[c] => s \in Has(KeyOf[c])'
  BY <1>1 DEF Mail, ReplayInv
<1>3. ASSUME NEW k \in Keys, NEW s \in Held, s <= lastSeen'[k] PROVE s \in Has(k)'
  <2>1. CASE s <= lastSeen[k]
    BY <2>1 DEF SeenInv
  <2>2. CASE ~(s <= lastSeen[k])
    <3>1. k = KeyOf[c] /\ s <= last[c]
      BY <1>1, <1>3, <2>2 DEF Moved, Larger
    <3> QED BY <1>2, <3>1
  <2> QED BY <2>1, <2>2
<1> QED BY <1>3 DEF SeenInv

LEMMA SeenCrash ==
    ASSUME NumbersKnown, FeedInv, SeenInv, Restart, \A c \in Conns : Mail(c)
    PROVE  SeenInv'
<1>1. \A k \in Keys : Has(k) \subseteq Has(k)'
  BY CrashSaves DEF Restart, Has
<1>2. Held' = Held
  BY DEF Restart, Held
<1>3. CASE UNCHANGED lastSeen
  BY <1>1, <1>2, <1>3 DEF SeenInv
<1>4. ASSUME NEW c \in Conns, DiesGoingLive(c) PROVE SeenInv'
  BY <1>1, <1>2, <1>4, SeenCutReplay
<1>5. ASSUME ready # <<>>, Head(ready).who \in {"reader", "web"},
             DiesDelivering(Head(ready).seq, clients, {})
      PROVE  SeenInv'
  BY <1>1, <1>2, <1>5, SeenCutFanout
<1>6. \A c \in Conns : pc[c] # "stored"
  BY DEF FeedInv
<1> QED BY <1>3, <1>4, <1>5, <1>6 DEF Restart, Interrupted

(* A cursor passes only what its app has. *)
LEMMA SeenStep ==
    ASSUME NumbersKnown, FeedInv, QueueInv, SeenInv, Next, \A c \in Conns : Mail(c)
    PROVE  SeenInv'
<1>1. \A k \in Keys : Has(k) \subseteq Has(k)'
  BY GivenGrows
<1>0. \A e \in {"web", "send"} : budget'[e] = 0
  BY BudgetKept DEF FeedInv, Events
<1>2. lastSeq \in Nat /\ \A k \in Keys : lastSeen[k] \in Known \cup {NoRow}
  BY DEF NumbersKnown, StoreInv
<1>3. CASE UNCHANGED lastSeen /\ Held' \subseteq Held
  BY <1>1, <1>3 DEF SeenInv
<1>4. ASSUME NEW p \in MeshPackets, Arrival(p) PROVE SeenInv'
  <2>1. UNCHANGED lastSeen /\ lastSeq' = lastSeq + 1 /\ Held' = Held \cup {lastSeq'}
    BY <1>0, <1>4, ArrivalFeed DEF Arrival, Insert, NextSeq
  <2>2. \A k \in Keys, s \in Held' : s <= lastSeen[k] => s \in Held
    BY <1>2, <2>1 DEF Known, NoRow
  <2> QED BY <1>1, <2>1, <2>2 DEF SeenInv
<1>5. CASE Fanout
  <2> DEFINE n == Head(ready).seq
             movers == {c \in Receiving(clients) : n > cursor[c]}
  <2>1. /\ UNCHANGED lastSeq /\ n \in Known
        /\ Deliver(n, clients, {})
        /\ n # NoSeq => n \in Flying /\ Flying' = Flying \ {n} /\ \A m \in Flying' : m > n
    BY <1>5, FanoutFeed
  <2>2. Held' = Held /\ Held \subseteq Nums /\ lastSeen' = Moved({KeyOf[c] : c \in movers}, n)
    BY <2>1, FanoutFeed, HeldKnown, <1>5 DEF Held, Deliver, Give, Moving, KeysOf
  <2>3. ASSUME NEW c \in movers, NEW s \in Held, s <= n PROVE s \in Has(KeyOf[c])'
    <3>1. c \in Conns /\ live[c] /\ c \in Receiving(clients) /\ n > cursor[c] /\ KeyOf[c] \in Keys
      BY ServerAssumption DEF Receiving, NumbersKnown, SessionInv
    <3>2. n # NoSeq /\ s \in Nat /\ n \in Nat
      BY <1>2, <2>1, <2>2, <3>1 DEF NumbersKnown, SessionInv, Known, NoSeq, Nums
    <3>3. CASE s = n
      <4>1. n \in handed'[KeyOf[c]]
        BY <2>1, <3>1 DEF Deliver, Give, Moving, KeysOf
      <4> QED BY <3>3, <4>1 DEF Has
    <3>4. CASE s # n
      <4>1. s \notin Flying
        BY <2>1, <2>3, <3>2, <3>4
      <4> QED BY <1>1, <3>1, <4>1 DEF Mail
    <3> QED BY <3>3, <3>4
  <2> HIDE DEF n, movers
  <2>4. ASSUME NEW k \in Keys, NEW s \in Held, s <= lastSeen'[k] PROVE s \in Has(k)'
    <3>1. CASE s <= lastSeen[k]
      BY <1>1, <3>1 DEF SeenInv
    <3>2. CASE ~(s <= lastSeen[k])
      <4>1. k \in {KeyOf[c] : c \in movers} /\ s <= n
        BY <2>2, <2>4, <3>2 DEF Moved, Larger
      <4> QED BY <2>3, <4>1
    <3> QED BY <3>1, <3>2
  <2> QED BY <2>2, <2>4 DEF SeenInv
<1>6. ASSUME NEW c \in Conns, LookUp(c) PROVE SeenInv'
  <2>1. Held' = Held /\ lastSeen' = [lastSeen EXCEPT ![KeyOf[c]] = FoundOrCreated(KeyOf[c])]
    BY <1>6 DEF LookUp, Held
  <2>2. \A k \in Keys, s \in Held : s <= lastSeen'[k] => s <= lastSeen[k]
    BY <1>2, <2>1, HeldKnown DEF FoundOrCreated, Nums, NumbersKnown, StoreInv
  <2> QED BY <1>1, <2>1, <2>2 DEF SeenInv
<1>7. ASSUME NEW c \in Conns, GoLive(c) PROVE SeenInv'
  <2>1. /\ Held' = Held /\ lastSeen' = Moved({KeyOf[c]}, Covered(c))
        /\ KeyOf[c] \in Keys
    BY <1>7, ServerAssumption DEF GoLive, Held
  <2>2. \A s \in Held : s <= Covered(c) => s \in Has(KeyOf[c])'
    BY <1>1, <1>7, <2>1, FlushMail
  <2>3. ASSUME NEW k \in Keys, NEW s \in Held, s <= lastSeen'[k] PROVE s \in Has(k)'
    <3>1. CASE s <= lastSeen[k]
      BY <1>1, <3>1 DEF SeenInv
    <3>2. CASE ~(s <= lastSeen[k])
      <4>1. k = KeyOf[c] /\ s <= Covered(c)
        BY <2>1, <2>3, <3>2 DEF Moved, Larger
      <4> QED BY <2>2, <4>1
    <3> QED BY <3>1, <3>2
  <2> QED BY <2>1, <2>3 DEF SeenInv
<1>8. ASSUME NEW c \in Conns, SessionStep(c) PROVE SeenInv'
  <2>1. UNCHANGED <<lastSeen, rows>> \/ LookUp(c) \/ GoLive(c)
    BY <1>8 DEF SessionStep, PostWake, Drop, Connect, Join, AskConfig, ServeConfig, CountBacklog,
       SelectRows, CompleteConfig, ReplayRow, Leave, storeVars
  <2>2. UNCHANGED rows => Held' = Held
    BY DEF Held
  <2> QED BY <1>3, <1>6, <1>7, <2>1, <2>2
<1>9. CASE Restart
  BY <1>9, SeenCrash
<1>10. CASE Quiet
  BY <1>0, <1>3, <1>10, QuietFeed DEF Quiet
<1> QED BY <1>4, <1>5, <1>8, <1>9, <1>10, MeshSteps

(* The invariant holds before anything happened. *)
LEMMA MailInit == ASSUME MeshTraffic, Init PROVE MailInv
<1> USE DEF Init, StoreInit
<1>1. Nums = {} /\ Flying = {} /\ DOMAIN ready = {} /\ Held = {}
  BY DEF Nums, Flying, Held
<1>2. FeedInv
  BY <1>1 DEF FeedInv, QueueOrder, MeshTraffic, OnlyMesh
<1>3. \A c \in Conns : Mail(c)
  BY DEF Mail, PendInv, Away
<1> QED BY <1>1, <1>2, <1>3 DEF MailInv, SeenInv

(* The inductive step. *)
LEMMA MailStep ==
    ASSUME MeshTraffic, NumbersKnown, QueueInv, SavedInv, RoomLeft, MailInv, [Next]_vars,
           [Undisturbed]_vars
    PROVE  MailInv'
<1>1. CASE UNCHANGED vars
  <2>1. FeedInv'
    BY <1>1 DEF MailInv, FeedInv, QueueOrder, Flying, Posting, Nums, vars, storeVars, threadVars,
       sessionVars
  <2>2. SeenInv'
    BY <1>1 DEF MailInv, SeenInv, Has, Held, vars, storeVars, histVars
  <2>3. Flying' = Flying /\ Held' = Held /\ \A k \in Keys : Has(k)' = Has(k)
    BY <1>1 DEF Flying, Posting, Nums, Has, Held, vars, storeVars, threadVars, histVars
  <2>4. ASSUME NEW c \in Conns PROVE Mail(c)'
    <3>1. Has(KeyOf[c]) \subseteq Has(KeyOf[c])'
      BY <2>3, ServerAssumption
    <3> QED BY <1>1, <2>3, <3>1, SessionFramed DEF MailInv, vars, storeVars, sessionVars
  <2> QED BY <2>1, <2>2, <2>4 DEF MailInv
<1>2. CASE Next
  <2>1. FeedInv /\ SeenInv /\ \A c \in Conns : Mail(c)
    BY DEF MailInv
  <2>2. SeenInv'
    BY <1>2, <2>1, SeenStep
  <2>3. \A e \in {"web", "send"} : budget'[e] = 0
    BY <1>2, <2>1, BudgetKept DEF FeedInv, Events
  <2>4. \A c \in Conns : Has(KeyOf[c]) \subseteq Has(KeyOf[c])'
    BY <1>2, GivenGrows, ServerAssumption
  <2>5. ASSUME NEW p \in MeshPackets, Arrival(p) PROVE FeedInv' /\ \A c \in Conns : Mail(c)'
    <3>1. /\ FeedInv' /\ lastSeq' = lastSeq + 1
          /\ Nums' = Nums \cup {lastSeq'} /\ Flying' = Flying \cup {lastSeq'}
          /\ Held' = Held \cup {lastSeq'}
      BY <2>1, <2>3, <2>5, ArrivalFeed
    <3> QED BY <2>1, <2>5, <3>1, ArrivalMail
  <2>6. CASE Fanout
    BY <2>1, <2>2, <2>6, FanoutFeed, FanoutMail DEF MailInv
  <2>7. CASE Restart
    <3>1. FeedInv'
      BY <2>1, <2>3, <2>7, RestartFeed
    <3>2. ASSUME NEW c \in Conns PROVE Mail(c)'
      <4>1. pc'[c] = "off" /\ c \notin clients' /\ ~live'[c] /\ pending'[c] = <<>>
        BY <2>7 DEF Restart, Forget
      <4> QED BY <4>1 DEF Mail, PendInv, Away
    <3> QED BY <2>2, <3>1, <3>2 DEF MailInv
  <2>8. CASE Quiet
    <3>1. /\ FeedInv' /\ Flying' = Flying /\ Held' \subseteq Held
          /\ \A c \in Conns : rows' = rows \/ pc[c] # "select"
      BY <2>1, <2>3, <2>8, QuietFeed
    <3>2. ASSUME NEW c \in Conns PROVE Mail(c)'
      <4>1. /\ UNCHANGED <<lastSeq, pc, live, cursor, offset, pending, todo, last, clients>>
        BY <2>8 DEF Quiet, sessionVars
      <4> QED BY <2>1, <2>4, <3>1, <4>1, SessionFramed
    <3> QED BY <2>2, <3>1, <3>2 DEF MailInv
  <2>9. ASSUME NEW c \in Conns, SessionStep(c) PROVE FeedInv' /\ \A d \in Conns : Mail(d)'
    <3>1. FeedInv' /\ Flying' = Flying /\ UNCHANGED <<rows, lastSeq>>
      BY <2>1, <2>3, <2>9, SessionFeed
    <3>2. Mail(c)'
      BY <2>1, <2>4, <2>9, <3>1, OwnStepMail
    <3>3. \A d \in Conns : d # c => Mail(d)'
      BY <2>1, <2>4, <2>9, <3>1, OtherStepMail
    <3> QED BY <3>1, <3>2, <3>3
  <2> QED BY <1>2, <2>1, <2>2, <2>5, <2>6, <2>7, <2>8, <2>9, MeshSteps DEF MailInv
<1> QED BY <1>1, <1>2

-----------------------------------------------------------------------------
(* Where only the mesh sends, no queue fills up and no row is pruned       *)
(* between the two queries of a replay, the sessions' mail is in order in  *)
(* every reachable state.                                                  *)
THEOREM MailAlwaysInOrder ==
    ASSUME MeshTraffic PROVE Spec /\ []RoomLeft /\ PrunesApart => []MailInv
<1>1. Init => MailInv /\ SavedInv
  BY MailInit DEF Init, SavedInv, Registered
<1>2. NumbersKnown /\ QueueInv /\ SavedInv /\ RoomLeft /\ MailInv /\ [Next]_vars
      /\ [Undisturbed]_vars => MailInv' /\ SavedInv'
  BY MailStep, SavedStep
<1> QED BY <1>1, <1>2, NumbersAlwaysKnown, QueueAlways, PTL DEF Spec, PrunesApart

(* Whatever fan-outs, replays, reconnects, prunes and restarts interleave, *)
(* a cursor is past no message in store that was not written to its app or *)
(* left out by the replay's limit or age window.                           *)
THEOREM NothingEverPassedOver ==
    ASSUME MeshTraffic PROVE Spec /\ []RoomLeft /\ PrunesApart => []NothingPassedOver
<1>1. NumbersKnown /\ MailInv => NothingPassedOver
  <2> SUFFICES ASSUME NumbersKnown, MailInv, NEW k \in Keys, NEW r \in rows, lastSeen[k] >= r.seq
               PROVE  r.seq \in handed[k] \cup skipped[k]
    BY DEF NothingPassedOver
  <2>1. r.seq \in Held /\ r.seq <= lastSeen[k]
    BY DEF NumbersKnown, StoreInv, Row, Known, Held, NoRow
  <2> QED BY <2>1 DEF MailInv, SeenInv, Has
<1> QED BY <1>1, MailAlwaysInOrder, NumbersAlwaysKnown, PTL

(* Every message is in store: none is pruned.                              *)
NothingPruned == Budget["prune"] = 0
AllHeld == budget["prune"] = 0 /\ Nums \subseteq Held

LEMMA AllHeldStep ==
    ASSUME NumbersKnown, FeedInv, AllHeld, [Next]_vars
    PROVE  AllHeld'
<1>1. CASE UNCHANGED vars
  BY <1>1 DEF AllHeld, Nums, Held, vars, storeVars
<1>2. CASE Next
  <2>1. budget'["prune"] = 0 /\ \A e \in {"web", "send"} : budget'[e] = 0
    BY <1>2, BudgetKept DEF AllHeld, FeedInv, Events
  <2>2. ASSUME UNCHANGED <<rows, lastSeq>> PROVE AllHeld'
    BY <2>1, <2>2 DEF AllHeld, Nums, Held
  <2>3. ASSUME NEW p \in MeshPackets, Arrival(p) PROVE AllHeld'
    BY <2>1, <2>3, ArrivalFeed DEF AllHeld
  <2>4. CASE Quiet
    <3>1. Held' = Held /\ Nums' = Nums
      <4>1. Held' = Held \/ Prune
        BY <2>1, <2>4, QuietFeed
      <4>2. ~Spend("prune")
        BY DEF AllHeld, Spend
      <4>3. Housekeeping => Age
        BY <4>2 DEF Housekeeping
      <4>4. Age => Held' = Held
        BY HeldAges
      <4> QED BY <2>4, <4>1, <4>3, <4>4 DEF Quiet, Held, Nums, HearOther, PostFanout, Capture, storeVars
    <3> QED BY <2>1, <3>1 DEF AllHeld
  <2>5. CASE Fanout \/ Restart
    BY <2>2, <2>5 DEF Fanout, Restart, storeVars
  <2>6. ASSUME NEW c \in Conns, SessionStep(c) PROVE AllHeld'
    BY <2>1, <2>2, <2>6, SessionFeed
  <2> QED BY <1>2, <2>3, <2>4, <2>5, <2>6, MeshSteps
<1> QED BY <1>1, <1>2

LEMMA AllHeldQuiet ==
    ASSUME NumbersKnown, FeedInv, AllHeld, [Next]_vars
    PROVE  [Undisturbed]_vars
<1> SUFFICES ASSUME Prune, Next PROVE \A c \in Conns : pc[c] # "select"
  BY DEF Undisturbed
<1>1. rows' # rows /\ UNCHANGED lastSeq
  BY DEF Prune
<1>2. ~Fanout /\ ~Restart /\ \A c \in Conns : ~SessionStep(c)
  BY <1>1 DEF Fanout, Restart, SessionStep, PostWake, Drop, Connect, LookUp, Join, AskConfig,
     ServeConfig, CountBacklog, SelectRows, CompleteConfig, ReplayRow, GoLive, Leave, storeVars
<1>3. \A p \in MeshPackets : ~Arrival(p)
  BY <1>1 DEF Arrival, Insert, NextSeq, NumbersKnown, StoreInv
<1>4. Quiet
  BY <1>2, <1>3, MeshSteps
<1>5. Housekeeping
  BY <1>1, <1>4 DEF Quiet, HearOther, PostFanout, Capture, storeVars
<1>6. ~Spend("prune")
  BY DEF AllHeld, Spend
<1> QED BY <1>5, <1>6 DEF Housekeeping

(* What the flush skips of a session's queue, its app has, when no message *)
(* is pruned: the replay of a row in store covers the queued frames before *)
(* it, whose rows must be there too.                                       *)
THEOREM FlushKeepsAll ==
    ASSUME MeshTraffic, NothingPruned PROVE Spec /\ []RoomLeft => FlushSkipsOnlyCovered
<1> DEFINE Kept == \A c \in Conns : GoLive(c)
            => Range(pending[c]) \ {NoSeq} \subseteq handed'[KeyOf[c]] \cup skipped[KeyOf[c]]
<1>1. ASSUME NumbersKnown, MailInv, AllHeld, [Next]_vars PROVE [Kept]_vars
  <2> SUFFICES ASSUME NEW c \in Conns, GoLive(c)
               PROVE  Range(pending[c]) \ {NoSeq} \subseteq handed'[KeyOf[c]] \cup skipped[KeyOf[c]]
    OBVIOUS
  <2>1. Next
    BY DEF Next, Running, Handler
  <2>2. Has(KeyOf[c]) \subseteq Has(KeyOf[c])'
    BY <1>1, <2>1, GivenGrows, ServerAssumption
  <2>3. Range(pending[c]) \cap Held \subseteq Has(KeyOf[c])'
    BY <1>1, <2>2, FlushMail DEF MailInv
  <2>4. UNCHANGED skipped
    BY DEF GoLive
  <2>5. Range(pending[c]) \ {NoSeq} \subseteq Held
    <3>1. pending[c] \in Seq(Known)
      BY <1>1 DEF NumbersKnown, SessionInv
    <3>2. \A i \in DOMAIN pending[c] : pending[c][i] \in Known
      BY <3>1, LenProperties, ElementOfSeq
    <3>3. Known \ {NoSeq} \subseteq Held
      BY <1>1 DEF AllHeld, Known, Nums, NoSeq, NumbersKnown, StoreInv
    <3> QED BY <3>2, <3>3 DEF Range
  <2> QED BY <2>3, <2>4, <2>5 DEF Has
<1>2. NumbersKnown /\ MailInv /\ AllHeld /\ [Next]_vars => [Kept]_vars
  BY <1>1
<1>3. Init => MailInv /\ SavedInv /\ AllHeld
  BY MailInit DEF Init, StoreInit, SavedInv, Registered, NothingPruned, AllHeld, Nums
<1>4. NumbersKnown /\ QueueInv /\ SavedInv /\ RoomLeft /\ MailInv /\ AllHeld /\ [Next]_vars
        => MailInv' /\ SavedInv' /\ AllHeld'
  <2> SUFFICES ASSUME NumbersKnown, QueueInv, SavedInv, RoomLeft, MailInv, AllHeld, [Next]_vars
               PROVE  MailInv' /\ SavedInv' /\ AllHeld'
    OBVIOUS
  <2>1. AllHeld'
    BY AllHeldStep DEF MailInv
  <2>2. [Undisturbed]_vars
    BY AllHeldQuiet DEF MailInv
  <2> QED BY <2>1, <2>2, MailStep, SavedStep
<1> QED BY <1>2, <1>3, <1>4, NumbersAlwaysKnown, QueueAlways, PTL DEF Spec, FlushSkipsOnlyCovered

(* Sessions, threads and queues together are the mailbox of Mailbox.tla:   *)
(* an arrival is its Arrive, a prune its Throw, every other step at most   *)
(* its Serve.                                                              *)
THEOREM ServerIsMailbox ==
    ASSUME MeshTraffic PROVE Spec /\ []RoomLeft /\ PrunesApart => IsMailbox
<1>1. Init => Box!Init
  BY DEF Init, StoreInit, Box!Init, Larger, NoRow
<1>2. ASSUME NumbersKnown, NumbersKnown', MailInv, MailInv', [Next]_vars
      PROVE  [Box!Next]_(Box!vars)
  <2>1. ASSUME NEW p \in MeshPackets, Arrival(p) PROVE Box!Arrive
    <3> DEFINE new == [seq |-> NextSeq, pkt |-> p, origin |-> "mesh", fresh |-> TRUE]
    <3>1. /\ rows' = rows \cup {new} /\ lastSeq' = lastSeq + 1 /\ new.seq = lastSeq'
          /\ UNCHANGED <<lastSeen, handed, skipped>>
      BY <2>1 DEF Arrival, Insert, NextSeq, histVars
    <3> HIDE DEF new
    <3>2. {r.seq : r \in rows'} = {r.seq : r \in rows} \cup {lastSeq'}
      BY <3>1
    <3> QED BY <3>1, <3>2 DEF Box!Arrive
  <2>2. ASSUME {r.seq : r \in rows'} = {r.seq : r \in rows}, lastSeq' = lastSeq,
               \A k \in Keys : Has(k) \subseteq Has(k)'
        PROVE  Box!Serve
    <3>1. ASSUME NEW k \in Keys
          PROVE  /\ Larger(0, lastSeen'[k]) \in Larger(0, lastSeen[k]) .. lastSeq
                 /\ \A r \in rows : r.seq <= Larger(0, lastSeen'[k])
                                        => r.seq \in handed'[k] \cup skipped'[k]
      <4>1. lastSeen'[k] >= lastSeen[k]
        BY <1>2, SeenForward
      <4>2. lastSeen[k] \in Known \cup {NoRow} /\ lastSeen'[k] \in Known \cup {NoRow}
            /\ lastSeq \in Nat
        BY <1>2, <2>2 DEF NumbersKnown, StoreInv, Known
      <4>3. \A r \in rows : r.seq \in Held /\ r.seq \in Nums
        BY <1>2, HeldKnown DEF Held
      <4>4. \A s \in Held : s <= lastSeen'[k] => s \in handed'[k] \cup skipped'[k]
        BY <1>2, <2>2 DEF MailInv, SeenInv, Has, Held
      <4> QED BY <4>1, <4>2, <4>3, <4>4 DEF Larger, Known, NoRow, Nums
    <3> QED BY <2>2, <3>1 DEF Box!Serve, Has
  <2>3. CASE Next
    <3>1. \A k \in Keys : Has(k) \subseteq Has(k)'
      BY <1>2, <2>3, GivenGrows
    <3>2. \/ \E p \in MeshPackets : Arrival(p)
          \/ Fanout \/ Restart \/ Quiet
          \/ \E c \in Conns : SessionStep(c)
      BY <1>2, <2>3, MeshSteps DEF MailInv
    <3>3. CASE Fanout \/ Restart \/ \E c \in Conns : SessionStep(c)
      <4>1. UNCHANGED <<rows, lastSeq>>
        BY <3>3 DEF Fanout, Restart, SessionStep, PostWake, Drop, Connect, LookUp, Join, AskConfig,
           ServeConfig, CountBacklog, SelectRows, CompleteConfig, ReplayRow, GoLive, Leave, storeVars
      <4> QED BY <2>2, <3>1, <4>1 DEF Box!Next
    <3>4. CASE Quiet
      <4>1. \A e \in {"web", "send"} : budget'[e] = 0
        BY <1>2, <2>3, BudgetKept DEF MailInv, FeedInv, Events
      <4>2. Held' \subseteq Held /\ (Held' = Held \/ Prune)
        BY <1>2, <3>4, <4>1, QuietFeed DEF MailInv
      <4>3. UNCHANGED <<lastSeq, lastSeen, handed, skipped>>
        BY <3>4 DEF Quiet, histVars
      <4>4. CASE Held' = Held
        BY <2>2, <3>1, <4>3, <4>4 DEF Box!Next, Held
      <4>5. CASE Prune
        BY <4>2, <4>3 DEF Box!Next, Box!Throw, Held
      <4> QED BY <4>2, <4>4, <4>5
    <3> QED BY <2>1, <3>2, <3>3, <3>4 DEF Box!Next
  <2>4. CASE UNCHANGED vars
    BY <2>4 DEF Box!vars, vars, storeVars, histVars
  <2> QED BY <1>2, <2>3, <2>4
<1>3. NumbersKnown /\ NumbersKnown' /\ MailInv /\ MailInv' /\ [Next]_vars => [Box!Next]_(Box!vars)
  BY <1>2
<1> QED BY <1>1, <1>3, MailAlwaysInOrder, NumbersAlwaysKnown, PTL DEF Spec, IsMailbox, Box!Spec

-----------------------------------------------------------------------------
(* The order on the wire.                                                  *)
(*                                                                         *)
(* What a session was written is compared with what is still in flight to  *)
(* it.  The replay may read a row ahead of its fan-out; the worker's       *)
(* wake-up and the fan-outs share one queue, so that by the time the       *)
(* replay starts at most the last such row is still in flight, and the     *)
(* fan-out brings it before anything newer.                                *)

Mine(c) == Range(wrote[c]) \ {NoSeq}

(* In flight, with no fan-out ahead of session c's wake-up. *)
AfterWake(c) ==
    {n \in Flying : \A i \in DOMAIN ready : ready[i].seq = n =>
                        \E w \in DOMAIN ready : ready[w].who = c /\ w < i}

(* In flight by the time session c has taken its rows. *)
Behind(c) == IF pc[c] = "selected" THEN AfterWake(c) ELSE Flying

(* A queued wake-up is the only one of a session that waits for it. *)
WakeInv ==
    \A i \in DOMAIN ready : ready[i].who \in Conns =>
        /\ pc[ready[i].who] \in Finished
        /\ \A j \in DOMAIN ready : ready[j].who = ready[i].who => i = j

InOrder(s) ==
    \A i, j \in DOMAIN s : i < j /\ NoSeq < s[j] /\ s[j] < s[i] => \E h \in 1 .. i : s[h] = s[j]

Reading == {"count", "select", "selected", "replay"}

(* What was written is up to the replay's last row, or to the cursor.      *)
WrittenUpTo(c) ==
    /\ pc[c] \in Away => c \notin clients /\ wrote[c] = <<>>
    /\ pc[c] \notin {"selected", "replay"} => todo[c] = {}
    /\ pc[c] \in {"count", "select"} => last[c] = cursor[c]
    /\ pc[c] \in Reading => /\ \A n \in Mine(c) : n <= last[c]
                            /\ \A t \in todo[c] : t > last[c]
    /\ pc[c] \notin Reading => \A n \in Mine(c) : n <= cursor[c]

(* A queued frame is older than what is in flight. *)
QueuedBelow(c) == \A i \in DOMAIN pending[c], m \in Flying : pending[c][i] < m

(* What the replay read ahead of its fan-out is the next fan-out.          *)
ReadAhead(c) == \A n \in (todo[c] \cup Mine(c)) \cap Behind(c), m \in Behind(c) : n <= m

OrderOf(c) == InOrder(wrote[c]) /\ WrittenUpTo(c) /\ QueuedBelow(c) /\ ReadAhead(c)

OrderInv == FeedInv /\ WakeInv /\ \A c \in Conns : OrderOf(c)

(* Writing what is not older than anything before it keeps the order.      *)
LEMMA WritesInOrder ==
    ASSUME NEW s \in Seq(Nat), NEW t \in Seq(Nat), InOrder(s),
           \A j \in 1 .. Len(t) : t[j] # NoSeq =>
               /\ \A i \in 1 .. Len(s) : s[i] <= t[j]
               /\ \A i \in 1 .. Len(t) : i < j => t[i] <= t[j]
    PROVE  InOrder(s \o t)
<1> DEFINE r == s \o t
<1>1. Len(s) \in Nat /\ Len(t) \in Nat /\ DOMAIN s = 1 .. Len(s)
  BY LenProperties
<1>2. /\ r \in Seq(Nat) /\ DOMAIN r = 1 .. Len(s) + Len(t)
      /\ \A i \in 1 .. Len(s) : r[i] = s[i]
      /\ \A i \in 1 .. Len(s) + Len(t) : i > Len(s) => r[i] = t[i - Len(s)]
  BY ConcatProperties, LenProperties
<1> HIDE DEF r
<1>3. \A i \in 1 .. Len(s) : s[i] \in Nat
  BY <1>1, ElementOfSeq
<1>4. \A i \in 1 .. Len(t) : t[i] \in Nat
  BY <1>1, ElementOfSeq
<1>5. ASSUME NEW i \in DOMAIN r, NEW j \in DOMAIN r, i < j, NoSeq < r[j], r[j] < r[i]
      PROVE  \E h \in 1 .. i : r[h] = r[j]
  <2>1. CASE j <= Len(s)
    <3>1. i \in DOMAIN s /\ j \in DOMAIN s /\ r[i] = s[i] /\ r[j] = s[j]
      BY <1>1, <1>2, <1>5, <2>1
    <3>2. PICK h \in 1 .. i : s[h] = s[j]
      BY <1>5, <3>1 DEF InOrder
    <3>3. h \in 1 .. Len(s)
      BY <1>1, <3>1
    <3> QED BY <1>2, <3>1, <3>2, <3>3
  <2>2. CASE j > Len(s)
    <3>1. j - Len(s) \in 1 .. Len(t) /\ r[j] = t[j - Len(s)]
      BY <1>1, <1>2, <1>5, <2>2
    <3>2. r[j] \in Nat /\ r[j] # NoSeq
      BY <1>4, <1>5, <3>1 DEF NoSeq
    <3>3. r[i] <= r[j]
      <4>1. CASE i <= Len(s)
        <5>1. i \in 1 .. Len(s) /\ r[i] = s[i]
          BY <1>1, <1>2, <1>5, <4>1
        <5> QED BY <3>1, <3>2, <5>1
      <4>2. CASE i > Len(s)
        <5>1. i - Len(s) \in 1 .. Len(t) /\ r[i] = t[i - Len(s)] /\ i - Len(s) < j - Len(s)
          BY <1>1, <1>2, <1>5, <4>2
        <5> QED BY <3>1, <3>2, <5>1
      <4> QED BY <1>1, <1>2, <4>1, <4>2
    <3>4. r[i] \in Nat
      BY <1>2, ElementOfSeq, LenProperties
    <3> QED BY <1>5, <3>2, <3>3, <3>4
  <2> QED BY <1>1, <1>2, <2>1, <2>2
<1> QED BY <1>5 DEF InOrder, r

(* What a session was written, as numbers. *)
LEMMA WrittenKnown ==
    ASSUME NumbersKnown, NEW c \in Conns
    PROVE  /\ wrote[c] \in Seq(Nat) /\ wrote[c] \in Seq(Known)
           /\ \A i \in 1 .. Len(wrote[c]) :
                  wrote[c][i] \in Nat /\ (wrote[c][i] = NoSeq \/ wrote[c][i] \in Mine(c))
           /\ Mine(c) \subseteq Nums
<1>1. wrote[c] \in Seq(Known) /\ Known \subseteq Nat /\ Nums = Known \ {NoSeq}
  BY DEF NumbersKnown, HistoryInv, StoreInv, Known, Nums, NoSeq
<1>2. Len(wrote[c]) \in Nat /\ DOMAIN wrote[c] = 1 .. Len(wrote[c])
  BY <1>1, LenProperties
<1>3. \A i \in 1 .. Len(wrote[c]) : wrote[c][i] \in Known
  BY <1>1, ElementOfSeq
<1>4. wrote[c] \in Seq(Nat)
  BY <1>1, SeqMonotonic
<1> QED BY <1>1, <1>2, <1>3, <1>4 DEF Mine, Range

(* Writing adds what is written. *)
LEMMA MineGrows ==
    ASSUME NumbersKnown, NEW c \in Conns, NEW t \in Seq(Known), wrote'[c] = wrote[c] \o t
    PROVE  Mine(c)' = Mine(c) \cup (Range(t) \ {NoSeq})
<1>1. wrote[c] \in Seq(Known)
  BY WrittenKnown
<1>2. Range(wrote[c] \o t) = Range(wrote[c]) \cup Range(t)
  BY <1>1, RangeConcatenation
<1> QED BY <1>2 DEF Mine

(* How a step changes the queue. *)
Posts(c) ==
    /\ c \in Conns /\ pc[c] \in Finished /\ ~Queued(c)
    /\ PostTo(c, NoSeq)
    /\ UNCHANGED <<pc, reader>>
PostsReader == reader # Nothing /\ PostTo("reader", reader) /\ reader' = Nothing /\ UNCHANGED pc
Takes(who) == Take(who) /\ UNCHANGED reader /\ \A d \in Conns : pc'[d] = pc[d] \/ d = who
Leaves == UNCHANGED ready /\ \A d \in Conns : pc'[d] = pc[d] \/ pc[d] \notin Finished

(* A session has one wake-up queued at most, and only while it waits. *)
LEMMA WakeHeld ==
    ASSUME NumbersKnown, WakeInv, NEW who \in Conns \cup {"reader"},
           Posts(who) \/ PostsReader \/ Takes(who) \/ Leaves
    PROVE  WakeInv'
<1>0. "reader" \notin Conns
  BY ServerAssumption
<1>1. CASE Posts(who)
  <2>1. /\ DOMAIN ready' = DOMAIN ready \cup {Len(ready) + 1}
        /\ Len(ready) + 1 \notin DOMAIN ready
        /\ \A i \in DOMAIN ready : ready'[i] = ready[i]
        /\ ready'[Len(ready) + 1].who = who
    BY <1>1, QueueGrown, SeenKnown DEF Posts
  <2>2. pc[who] \in Finished /\ pc' = pc /\ \A i \in DOMAIN ready : ready[i].who # who
    BY <1>1 DEF Posts, Queued
  <2>3. Finished' = Finished
    BY DEF Finished
  <2> QED BY <2>1, <2>2, <2>3 DEF WakeInv
<1>2. CASE PostsReader
  <2>1. reader \in Known
    BY <1>2 DEF PostsReader, NumbersKnown, ThreadInv
  <2>2. /\ DOMAIN ready' = DOMAIN ready \cup {Len(ready) + 1}
        /\ \A i \in DOMAIN ready : ready'[i] = ready[i]
        /\ ready'[Len(ready) + 1].who = "reader"
    BY <1>2, <2>1, QueueGrown DEF PostsReader
  <2>3. pc' = pc /\ Finished' = Finished
    BY <1>2 DEF PostsReader, Finished
  <2> QED BY <1>0, <2>2, <2>3 DEF WakeInv
<1>3. CASE Takes(who)
  <2>1. /\ 1 \in DOMAIN ready /\ ready[1].who = who
        /\ \A i \in DOMAIN ready' :
               i \in Nat /\ i + 1 \in DOMAIN ready /\ 1 < i + 1 /\ ready'[i] = ready[i + 1]
    BY <1>3, QueueShrunk DEF Takes
  <2>2. ASSUME NEW i \in DOMAIN ready', ready'[i].who \in Conns
        PROVE  /\ pc'[ready'[i].who] \in Finished
               /\ \A j \in DOMAIN ready' : ready'[j].who = ready'[i].who => i = j
    <3>1. i + 1 \in DOMAIN ready /\ ready'[i].who = ready[i + 1].who /\ 1 # i + 1 /\ i \in Nat
      BY <2>1
    <3>2. ready[i + 1].who # who
      BY <2>1, <2>2, <3>1 DEF WakeInv
    <3>3. pc'[ready'[i].who] \in Finished
      BY <1>3, <2>2, <3>1, <3>2 DEF WakeInv, Takes
    <3>4. ASSUME NEW j \in DOMAIN ready', ready'[j].who = ready'[i].who PROVE i = j
      <4>1. j + 1 \in DOMAIN ready /\ ready[j + 1].who = ready[i + 1].who /\ j \in Nat
        BY <2>1, <3>1, <3>4
      <4>2. i + 1 = j + 1
        BY <2>2, <3>1, <4>1 DEF WakeInv
      <4> QED BY <3>1, <4>1, <4>2
    <3> QED BY <3>3, <3>4
  <2> QED BY <2>2 DEF WakeInv, Finished
<1>4. CASE Leaves
  BY <1>4 DEF Leaves, WakeInv, Finished
<1> QED BY <1>1, <1>2, <1>3, <1>4

(* Nothing that is in flight gets a fan-out behind a wake-up it had ahead. *)
LEMMA AfterWakeShrinks ==
    ASSUME NumbersKnown, QueueOrder, Flying' \subseteq Flying, NEW who \in Conns \cup {"reader"},
           NEW c \in Conns,
           \/ Posts(who) \/ PostsReader \/ Leaves
           \/ Takes(who) /\ who # c /\ Head(ready).seq \notin Flying'
    PROVE  AfterWake(c)' \subseteq AfterWake(c)
<1> SUFFICES ASSUME NEW n \in AfterWake(c)' PROVE n \in AfterWake(c)
  OBVIOUS
<1>1. /\ n \in Flying /\ n \in Flying' /\ n \in Nums
      /\ \A i \in DOMAIN ready' : ready'[i].seq = n => \E w \in DOMAIN ready' : ready'[w].who = c /\ w < i
  BY DEF AfterWake, Flying
<1>2. SUFFICES ASSUME NEW i \in DOMAIN ready, ready[i].seq = n
               PROVE  \E w \in DOMAIN ready : ready[w].who = c /\ w < i
  BY <1>1 DEF AfterWake
<1>3. CASE Posts(who) \/ PostsReader
  <2>1. reader # Nothing => reader \in Known
    BY DEF NumbersKnown, ThreadInv
  <2>2. PICK m \in Known, x \in Conns \cup {"reader"} : PostTo(x, m)
    BY <1>3, <2>1, SeenKnown DEF Posts, PostsReader
  <2>3. /\ DOMAIN ready' = DOMAIN ready \cup {Len(ready) + 1}
        /\ \A j \in DOMAIN ready : j \in Nat /\ j < Len(ready) + 1 /\ ready'[j] = ready[j]
    BY <2>2, QueueGrown
  <2>4. PICK w \in DOMAIN ready' : ready'[w].who = c /\ w < i
    BY <1>1, <1>2, <2>3
  <2>5. w \in DOMAIN ready
    <3>1. i < Len(ready) + 1 /\ i \in Nat /\ Len(ready) \in Nat
      <4>1. Len(ready) \in Nat
        BY LenProperties DEF NumbersKnown, ThreadInv
      <4> QED BY <1>2, <2>3, <4>1
    <3> QED BY <2>3, <2>4, <3>1
  <2> QED BY <2>3, <2>4, <2>5
<1>4. CASE Takes(who) /\ who # c /\ Head(ready).seq \notin Flying'
  <2>1. /\ 1 \in DOMAIN ready /\ ready[1].who = who /\ ready[1] = Head(ready)
        /\ \A j \in DOMAIN ready :
               /\ j \in Nat
               /\ j = 1 \/ (1 < j /\ j - 1 \in DOMAIN ready' /\ ready'[j - 1] = ready[j])
        /\ \A j \in DOMAIN ready' :
               j \in Nat /\ j + 1 \in DOMAIN ready /\ 1 < j + 1 /\ ready'[j] = ready[j + 1]
    BY <1>4, QueueShrunk DEF Takes
  <2>2. i # 1
    BY <1>1, <1>2, <1>4, <2>1
  <2>3. i - 1 \in DOMAIN ready' /\ ready'[i - 1].seq = n
    BY <1>2, <2>1, <2>2
  <2>4. PICK w \in DOMAIN ready' : ready'[w].who = c /\ w < i - 1
    BY <1>1, <2>3
  <2>5. w + 1 \in DOMAIN ready /\ ready[w + 1].who = c /\ w + 1 < i
    BY <1>2, <2>1, <2>4
  <2> QED BY <2>5
<1>5. CASE Leaves
  BY <1>1, <1>2, <1>5 DEF Leaves
<1> QED BY <1>3, <1>4, <1>5

(* The session that takes its wake-up has all that is in flight behind it. *)
LEMMA AllAfterHead ==
    ASSUME NumbersKnown, NEW c \in Conns, Take(c), Head(ready).seq = NoSeq
    PROVE  AfterWake(c) = Flying
<1>1. /\ 1 \in DOMAIN ready /\ ready[1].who = c /\ ready[1] = Head(ready)
      /\ \A i \in DOMAIN ready : i \in Nat /\ (i = 1 \/ 1 < i)
  BY QueueShrunk
<1>2. \A n \in Flying : n # NoSeq
  BY DEF Flying, Nums, NoSeq
<1>3. \A n \in Flying, i \in DOMAIN ready : ready[i].seq = n => 1 < i
  BY <1>1, <1>2
<1>4. \A n \in Flying : n \in AfterWake(c)
  BY <1>1, <1>3 DEF AfterWake
<1> QED BY <1>4 DEF AfterWake

(* A session that still waits for its rows has at most the reader's number *)
(* behind its wake-up.                                                     *)
LEMMA OneAfterWake ==
    ASSUME WakeInv, NEW c \in Conns, pc[c] = "select"
    PROVE  AfterWake(c) \subseteq {reader}
<1>1. \A w \in DOMAIN ready : ready[w].who # c
  BY DEF WakeInv, Finished
<1> QED BY <1>1 DEF AfterWake, Flying, Posting

(* A session that nothing touches keeps its order while less is in flight. *)
LEMMA OrderFramed ==
    ASSUME NumbersKnown, NEW c \in Conns, OrderOf(c),
           Flying' \subseteq Flying, AfterWake(c)' \subseteq AfterWake(c),
           pc'[c] = pc[c], cursor'[c] = cursor[c], pending'[c] = pending[c], todo'[c] = todo[c],
           last'[c] = last[c], wrote'[c] = wrote[c], c \in clients' => c \in clients
    PROVE  OrderOf(c)'
<1>1. Mine(c)' = Mine(c) /\ Behind(c)' \subseteq Behind(c)
  BY DEF Mine, Behind
<1>2. InOrder(wrote[c])'
  BY DEF OrderOf, InOrder
<1>3. WrittenUpTo(c)'
  BY <1>1 DEF OrderOf, WrittenUpTo, Away, Reading
<1>4. QueuedBelow(c)'
  BY DEF OrderOf, QueuedBelow
<1>5. ReadAhead(c)'
  BY <1>1 DEF OrderOf, ReadAhead
<1> QED BY <1>2, <1>3, <1>4, <1>5 DEF OrderOf

(* A new number is greater than all a session has, queued or written.      *)
LEMMA ArrivalOrder ==
    ASSUME NumbersKnown, FeedInv, NEW p \in MeshPackets, Arrival(p),
           Flying' = Flying \cup {lastSeq'}, lastSeq' = lastSeq + 1, NEW c \in Conns, OrderOf(c)
    PROVE  OrderOf(c)'
<1> USE DEF sessionVars, histVars
<1>1. /\ UNCHANGED <<pc, cursor, pending, todo, last, clients, wrote, ready>>
      /\ lastSeq \in Nat /\ \A s \in Known : s \in Nat /\ s < lastSeq'
  BY DEF NumbersKnown, StoreInv, Known, Arrival
<1>2. Mine(c)' = Mine(c) /\ Mine(c) \subseteq Known /\ todo[c] \subseteq Known
  <2>1. Nums \subseteq Known
    BY DEF Nums, Known
  <2> QED BY <1>1, <2>1, WrittenKnown DEF Mine, NumbersKnown, SessionInv
<1>3. InOrder(wrote[c])' /\ WrittenUpTo(c)'
  BY <1>1, <1>2 DEF OrderOf, InOrder, WrittenUpTo, Away, Reading
<1>4. QueuedBelow(c)'
  <2>1. pending[c] \in Seq(Known)
    BY DEF NumbersKnown, SessionInv
  <2>2. \A i \in DOMAIN pending[c] : pending[c][i] \in Known
    BY <2>1, LenProperties, ElementOfSeq
  <2> QED BY <1>1, <2>2 DEF OrderOf, QueuedBelow
<1>5. Behind(c)' \subseteq Behind(c) \cup {lastSeq'}
  BY <1>1 DEF Behind, AfterWake
<1>6. ReadAhead(c)'
  <2> SUFFICES ASSUME NEW n \in todo'[c] \cup Mine(c)', n \in Behind(c)', NEW m \in Behind(c)' PROVE n <= m
    BY DEF ReadAhead
  <2>1. n \in Known /\ n \in todo[c] \cup Mine(c) /\ n < lastSeq' /\ n \in Nat
    BY <1>1, <1>2
  <2>2. n \in Behind(c)
    BY <1>1, <1>5, <2>1
  <2>3. CASE m \in Behind(c)
    BY <2>1, <2>2, <2>3 DEF OrderOf, ReadAhead
  <2>4. CASE m = lastSeq'
    BY <1>1, <2>1, <2>4
  <2> QED BY <1>5, <2>3, <2>4
<1> QED BY <1>3, <1>4, <1>6 DEF OrderOf

(* The fan-out of the least number in flight: to a live session nothing    *)
(* newer was written, to a session in its handshake nothing newer queued.  *)
LEMMA FanoutOrder ==
    ASSUME NumbersKnown, FeedInv, QueueInv, Fanout, NEW c \in Conns, OrderOf(c)
    PROVE  OrderOf(c)'
<1> DEFINE n == Head(ready).seq
<1>1. /\ UNCHANGED <<lastSeq, clients, pc, live, todo, last, reader>>
      /\ Deliver(n, clients, {}) /\ n \in Known /\ Nums' = Nums
  BY FanoutFeed DEF Nums, Fanout
<1>2. n = NoSeq => Flying' = Flying
  BY FanoutFeed
<1>3. n # NoSeq => n \in Flying /\ Flying' = Flying \ {n} /\ \A m \in Flying' : m > n
  BY FanoutFeed
<1>4. /\ Flying \subseteq Nums /\ Known \subseteq Nat /\ n \in Nat
      /\ \A s \in Nums : s \in Nat /\ s # NoSeq /\ NoSeq < s
  BY <1>1 DEF Flying, Nums, NoSeq, Known, NumbersKnown, StoreInv
<1>5. Flying' \subseteq Flying /\ AfterWake(c)' \subseteq AfterWake(c)
  <2>1. Takes("reader") /\ "reader" # c /\ QueueOrder
    BY <1>1, ServerAssumption DEF Fanout, Takes, FeedInv
  <2>2. Flying' \subseteq Flying /\ Head(ready).seq \notin Flying'
    BY <1>2, <1>3, <1>4
  <2> QED BY <2>1, <2>2, AfterWakeShrinks
<1>6. Behind(c)' \subseteq Behind(c)
  BY <1>1, <1>5 DEF Behind
<1> HIDE DEF n
<1>7. CASE c \in clients /\ live[c]
  <2>1. /\ wrote'[c] = Append(wrote[c], n) /\ pending'[c] = pending[c]
        /\ cursor'[c] = (IF n > cursor[c] THEN Larger(cursor[c], n) ELSE cursor[c])
    BY <1>1, <1>7 DEF Deliver, Give, Moving, KeysOf, Receiving, Queueing, NumbersKnown, SessionInv
  <2>2. pc[c] \notin InHandshake /\ pc[c] \notin Away
    BY <1>7 DEF QueueInv, OrderOf, WrittenUpTo
  <2>3. Behind(c) = Flying /\ todo[c] = {} /\ pc[c] \notin Reading
    BY <2>2 DEF Behind, InHandshake, OrderOf, WrittenUpTo, Reading
  <2>4. ASSUME n # NoSeq, NEW x \in Mine(c) PROVE x <= n
    <3>1. x \in Nums /\ n \in Nums /\ x \in Nat
      BY <1>3, <1>4, <2>4, WrittenKnown
    <3>2. CASE x > n
      <4>1. x \in Flying
        BY <1>3, <2>4, <3>1, <3>2 DEF FeedInv
      <4> QED BY <1>3, <2>3, <2>4, <4>1 DEF OrderOf, ReadAhead
    <3> QED BY <1>4, <3>1, <3>2
  <2>5. wrote'[c] = wrote[c] \o <<n>> /\ <<n>> \in Seq(Known) /\ <<n>> \in Seq(Nat) /\ Len(<<n>>) = 1
    <3>1. wrote[c] \in Seq(Known)
      BY WrittenKnown
    <3> QED BY <1>1, <1>4, <2>1, <3>1
  <2>6. InOrder(wrote[c])'
    <3>1. wrote[c] \in Seq(Nat) /\ InOrder(wrote[c])
      BY WrittenKnown DEF OrderOf
    <3>2. ASSUME n # NoSeq, NEW i \in 1 .. Len(wrote[c]) PROVE wrote[c][i] <= n
      <4>1. wrote[c][i] \in Nat /\ (wrote[c][i] = NoSeq \/ wrote[c][i] \in Mine(c))
        BY <3>2, WrittenKnown
      <4> QED BY <1>4, <2>4, <3>2, <4>1 DEF NoSeq
    <3>3. \A j \in 1 .. Len(<<n>>) : <<n>>[j] # NoSeq =>
               /\ \A i \in 1 .. Len(wrote[c]) : wrote[c][i] <= <<n>>[j]
               /\ \A i \in 1 .. Len(<<n>>) : i < j => <<n>>[i] <= <<n>>[j]
      BY <2>5, <3>2
    <3>4. InOrder(wrote[c] \o <<n>>)
      BY <2>5, <3>1, <3>3, WritesInOrder
    <3>5. InOrder(wrote'[c])
      BY <2>5, <3>4, Zenon
    <3> QED BY <3>5 DEF InOrder
  <2>7. Mine(c)' = Mine(c) \cup ({n} \ {NoSeq})
    <3>1. Range(<<n>>) = {n}
      BY DEF Range
    <3> QED BY <2>5, <3>1, MineGrows
  <2>8. WrittenUpTo(c)'
    <3>1. cursor[c] \in Nat /\ cursor'[c] \in Nat /\ cursor[c] <= cursor'[c] /\ n <= cursor'[c]
      <4>1. cursor[c] \in Nat
        BY <1>4 DEF NumbersKnown, SessionInv
      <4> QED BY <1>4, <2>1, <4>1 DEF Larger
    <3>2. \A x \in Mine(c) : x \in Nat /\ x <= cursor[c]
      BY <1>4, <2>3, WrittenKnown DEF OrderOf, WrittenUpTo
    <3>3. \A x \in Mine(c)' : x <= cursor'[c]
      BY <2>7, <3>1, <3>2
    <3> QED BY <1>1, <2>2, <2>3, <3>3 DEF WrittenUpTo, Away, Reading
  <2>9. QueuedBelow(c)'
    BY <1>5, <2>1 DEF OrderOf, QueuedBelow
  <2>10. ReadAhead(c)'
    <3>1. ASSUME NEW x \in Mine(c)' \cap Behind(c)' PROVE x \in Mine(c)
      <4>1. x \in Flying'
        BY <3>1 DEF Behind, AfterWake
      <4> QED BY <1>3, <2>7, <3>1, <4>1
    <3> QED BY <1>1, <1>6, <2>3, <3>1 DEF OrderOf, ReadAhead
  <2> QED BY <2>6, <2>8, <2>9, <2>10 DEF OrderOf
<1>8. CASE ~(c \in clients /\ live[c])
  <2>1. wrote'[c] = wrote[c] /\ cursor'[c] = cursor[c]
    BY <1>1, <1>8 DEF Deliver, Give, Moving, KeysOf, Receiving, NumbersKnown, SessionInv, HistoryInv
  <2>2. pending'[c] = pending[c] \/ pending'[c] = Append(pending[c], n)
    BY <1>1 DEF Deliver, Give, Moving, KeysOf, NumbersKnown, SessionInv
  <2>3. CASE pending'[c] = pending[c]
    BY <1>1, <1>5, <2>1, <2>3, OrderFramed
  <2>4. CASE pending'[c] = Append(pending[c], n)
    <3>1. /\ Len(pending[c]) \in Nat /\ DOMAIN pending[c] = 1 .. Len(pending[c])
          /\ DOMAIN pending'[c] = 1 .. Len(pending[c]) + 1
          /\ \A i \in 1 .. Len(pending[c]) : pending'[c][i] = pending[c][i]
          /\ pending'[c][Len(pending[c]) + 1] = n
      <4>1. pending[c] \in Seq(Known)
        BY DEF NumbersKnown, SessionInv
      <4> QED BY <1>1, <2>4, <4>1, QueueElements
    <3>2. \A m \in Flying' : n < m
      BY <1>2, <1>3, <1>4
    <3>3. QueuedBelow(c)'
      <4> SUFFICES ASSUME NEW i \in DOMAIN pending'[c], NEW m \in Flying' PROVE pending'[c][i] < m
        BY DEF QueuedBelow
      <4>1. CASE i \in DOMAIN pending[c]
        BY <1>5, <3>1, <4>1 DEF OrderOf, QueuedBelow
      <4>2. CASE i = Len(pending[c]) + 1
        BY <3>1, <3>2, <4>2
      <4> QED BY <3>1, <4>1, <4>2
    <3>4. Mine(c)' = Mine(c)
      BY <2>1 DEF Mine
    <3>5. InOrder(wrote[c])'
      BY <2>1 DEF OrderOf, InOrder
    <3>6. WrittenUpTo(c)' /\ ReadAhead(c)'
      BY <1>1, <1>6, <2>1, <3>4 DEF OrderOf, WrittenUpTo, ReadAhead, Away, Reading
    <3> QED BY <3>3, <3>5, <3>6 DEF OrderOf
  <2> QED BY <2>2, <2>3, <2>4
<1> QED BY <1>7, <1>8

(* A position before another has the lower rank. *)
LEMMA RanksFollow ==
    ASSUME NEW n \in Nat, NEW I \in SUBSET (1 .. n), NEW i \in I, NEW j \in I,
           Cardinality({h \in I : h <= i}) < Cardinality({h \in I : h <= j})
    PROVE  i < j
<1> DEFINE Upto(x) == {h \in I : h <= x}
<1>1. i \in Nat /\ j \in Nat /\ \A h \in I : h \in Nat
  OBVIOUS
<1>2. SUFFICES ASSUME j <= i PROVE FALSE
  BY <1>1
<1>3. \A h \in I : h <= j => h <= i
  BY <1>1, <1>2
<1>4. Upto(j) \subseteq Upto(i) /\ Upto(i) \subseteq I /\ Upto(j) \subseteq I
  BY <1>3
<1>5. Cardinality(Upto(i)) < Cardinality(Upto(j))
  OBVIOUS
<1> HIDE DEF Upto
<1>6. IsFiniteSet(I)
  <2>1. IsFiniteSet(1 .. n)
    BY FS_Interval
  <2> QED BY <2>1, FS_Subset
<1>7. IsFiniteSet(Upto(i)) /\ IsFiniteSet(Upto(j))
  BY <1>4, <1>6, FS_Subset
<1>8. Cardinality(Upto(j)) <= Cardinality(Upto(i))
  BY <1>4, <1>7, FS_Subset
<1>9. Cardinality(Upto(j)) \in Nat /\ Cardinality(Upto(i)) \in Nat
  BY <1>7, FS_CardinalityType
<1> QED BY <1>5, <1>8, <1>9

(* What the flush writes is queued, past the replay, and ascending.        *)
LEMMA FlushedAscends ==
    ASSUME NumbersKnown, NEW c \in Conns, NEW r \in DOMAIN Flushed(c)
    PROVE  /\ \E i \in DOMAIN pending[c] : Flushed(c)[r] = pending[c][i]
           /\ Flushed(c)[r] # NoSeq =>
                /\ Flushed(c)[r] > last[c]
                /\ \A q \in DOMAIN Flushed(c) : q < r => Flushed(c)[q] < Flushed(c)[r]
<1> DEFINE I == Uncovered(c)
           rank(x) == Cardinality({j \in I : j <= x})
           pick(x) == CHOOSE i \in I : rank(i) = x
<1>1. /\ Len(pending[c]) \in Nat /\ I \in SUBSET (1 .. Len(pending[c]))
      /\ DOMAIN pending[c] = 1 .. Len(pending[c]) /\ pending[c] \in Seq(Known)
  <2>1. pending[c] \in Seq(Known)
    BY DEF NumbersKnown, SessionInv
  <2> QED BY <2>1, LenProperties DEF Uncovered
<1>2. Flushed(c) = [x \in 1 .. Cardinality(I) |-> pending[c][pick(x)]]
  BY DEF Flushed
<1>3. ASSUME NEW x \in 1 .. Cardinality(I)
      PROVE  pick(x) \in I /\ rank(pick(x)) = x
  <2>1. \E i \in I : rank(i) = x
    BY <1>1, EveryRankTaken
  <2> QED BY <2>1
<1>4. \A i \in I : pending[c][i] # NoSeq =>
        pending[c][i] > last[c] /\ \A j \in 1 .. i - 1 : pending[c][i] > pending[c][j]
  BY DEF Uncovered
<1>5. ASSUME NEW i \in I, NEW j \in I, rank(i) < rank(j) PROVE i < j
  BY <1>1, <1>5, RanksFollow
<1>6. \A i \in DOMAIN pending[c] : pending[c][i] \in Nat
  <2>1. Known \subseteq Nat
    BY DEF NumbersKnown, StoreInv, Known
  <2> QED BY <1>1, <2>1, ElementOfSeq
<1> HIDE DEF I, rank, pick
<1>7. /\ DOMAIN Flushed(c) = 1 .. Cardinality(I)
      /\ \A x \in 1 .. Cardinality(I) : Flushed(c)[x] = pending[c][pick(x)]
  BY <1>2
<1>8. /\ pick(r) \in I /\ rank(pick(r)) = r
      /\ pick(r) \in DOMAIN pending[c] /\ Flushed(c)[r] = pending[c][pick(r)]
  BY <1>1, <1>3, <1>7
<1>9. ASSUME NEW q \in DOMAIN Flushed(c), q < r, Flushed(c)[r] # NoSeq
      PROVE  Flushed(c)[q] < Flushed(c)[r]
  <2>1. pick(q) \in I /\ Flushed(c)[q] = pending[c][pick(q)] /\ rank(pick(q)) = q
    BY <1>3, <1>7
  <2>2. pick(q) < pick(r)
    BY <1>5, <1>8, <1>9, <2>1
  <2>3. pick(q) \in 1 .. pick(r) - 1 /\ pick(q) \in DOMAIN pending[c]
    <3>1. pick(q) \in 1 .. Len(pending[c]) /\ pick(r) \in 1 .. Len(pending[c])
      BY <1>1, <1>8, <2>1
    <3>2. pick(q) \in Int /\ pick(r) \in Int /\ 1 <= pick(q) /\ pick(q) < pick(r)
      BY <2>2, <3>1
    <3>3. pick(q) <= pick(r) - 1
      BY <3>2
    <3> QED BY <1>1, <3>1, <3>2, <3>3
  <2>4. pending[c][pick(r)] > pending[c][pick(q)]
    BY <1>4, <1>8, <1>9, <2>3
  <2> QED BY <1>6, <1>8, <2>1, <2>3, <2>4
<1> QED BY <1>4, <1>8, <1>9

(* The replay writes its least row, which is past what was written.        *)
LEMMA ReplayOrder ==
    ASSUME NumbersKnown, NEW c \in Conns, OrderOf(c), ReplayRow(c), Flying' = Flying
    PROVE  OrderOf(c)'
<1> USE DEF storeVars, threadVars
<1> DEFINE t == NextRow(c)
<1>1. /\ pc[c] = "replay" /\ pc' = pc /\ t \in todo[c] /\ t \in Known
      /\ UNCHANGED <<cursor, pending, clients>>
  BY NextRowKnown DEF ReplayRow
<1>2. \A y \in todo[c] : t <= y /\ y \in Nat
  <2>1. todo[c] \in SUBSET Nat
    BY DEF NumbersKnown, SessionInv, StoreInv, Known
  <2> QED BY <1>1, <2>1, MinOfNaturals DEF NextRow
<1>3. wrote'[c] = wrote[c] \o <<t>> /\ last'[c] = Larger(last[c], t) /\ todo'[c] = todo[c] \ {t}
  BY DEF ReplayRow, Write, NumbersKnown, SessionInv, HistoryInv
<1>4. last[c] \in Nat /\ t \in Nat /\ t > last[c] /\ t # NoSeq /\ \A n \in Mine(c) : n <= last[c] /\ n \in Nat
  <2>1. \A n \in Mine(c) : n <= last[c] /\ n \in Nat
    BY <1>1, WrittenKnown DEF OrderOf, WrittenUpTo, Reading, Nums
  <2>2. t > last[c]
    BY <1>1 DEF OrderOf, WrittenUpTo, Reading
  <2>3. last[c] \in Nat /\ t \in Nat
    BY <1>1, <1>2 DEF NumbersKnown, SessionInv, StoreInv, Known
  <2> QED BY <2>1, <2>2, <2>3 DEF NoSeq
<1> HIDE DEF t
<1>5. last'[c] = t
  BY <1>3, <1>4 DEF Larger
<1>6. <<t>> \in Seq(Known) /\ <<t>> \in Seq(Nat) /\ Len(<<t>>) = 1 /\ Range(<<t>>) = {t}
  BY <1>1, <1>4 DEF Range
<1>7. Mine(c)' = Mine(c) \cup {t}
  <2>1. Mine(c)' = Mine(c) \cup ({t} \ {NoSeq})
    BY <1>3, <1>6, MineGrows
  <2> QED BY <1>4, <2>1
<1>8. InOrder(wrote[c])'
  <2>1. wrote[c] \in Seq(Nat) /\ InOrder(wrote[c])
    BY WrittenKnown DEF OrderOf
  <2>2. \A i \in 1 .. Len(wrote[c]) : wrote[c][i] <= t
    <3> TAKE i \in 1 .. Len(wrote[c])
    <3>1. wrote[c][i] \in Nat /\ (wrote[c][i] = NoSeq \/ wrote[c][i] \in Mine(c))
      BY WrittenKnown
    <3> QED BY <1>4, <3>1 DEF NoSeq
  <2>3. \A j \in 1 .. Len(<<t>>) : <<t>>[j] # NoSeq =>
             /\ \A i \in 1 .. Len(wrote[c]) : wrote[c][i] <= <<t>>[j]
             /\ \A i \in 1 .. Len(<<t>>) : i < j => <<t>>[i] <= <<t>>[j]
    BY <1>6, <2>2
  <2>4. InOrder(wrote[c] \o <<t>>)
    BY <1>6, <2>1, <2>3, WritesInOrder
  <2>5. InOrder(wrote'[c])
    BY <1>3, <2>4, Zenon
  <2> QED BY <2>5 DEF InOrder
<1>9. WrittenUpTo(c)'
  <2>1. \A n \in Mine(c)' : n <= last'[c]
    BY <1>4, <1>5, <1>7
  <2>2. \A y \in todo'[c] : y > last'[c]
    BY <1>2, <1>3, <1>4, <1>5
  <2> QED BY <1>1, <2>1, <2>2 DEF WrittenUpTo, Away, Reading
<1>10. Behind(c)' = Behind(c)
  BY <1>1 DEF Behind
<1>11. todo'[c] \cup Mine(c)' = todo[c] \cup Mine(c)
  BY <1>1, <1>3, <1>7
<1>12. QueuedBelow(c)' /\ ReadAhead(c)'
  BY <1>1, <1>10, <1>11 DEF OrderOf, QueuedBelow, ReadAhead
<1> QED BY <1>8, <1>9, <1>12 DEF OrderOf

(* The flush writes, in order, what was queued after the replay's rows.    *)
LEMMA FlushOrder ==
    ASSUME NumbersKnown, NEW c \in Conns, OrderOf(c), GoLive(c), Flying' = Flying
    PROVE  OrderOf(c)'
<1> USE DEF storeVars, threadVars
<1> DEFINE f == Flushed(c)
<1>1. /\ pc[c] = "replay" /\ pc'[c] = "read" /\ todo[c] = {} /\ todo' = todo
      /\ wrote'[c] = wrote[c] \o f /\ cursor'[c] = Covered(c) /\ pending'[c] = <<>>
      /\ clients' = clients
  BY DEF GoLive, Write, NumbersKnown, SessionInv, HistoryInv
<1>2. f \in Seq(Known) /\ Known \subseteq Nat
  BY FlushedKnown DEF NumbersKnown, StoreInv, Known
<1>3. Len(f) \in Nat /\ DOMAIN f = 1 .. Len(f)
  BY <1>2, LenProperties
<1>4. \A r \in 1 .. Len(f) : f[r] \in Nat
  BY <1>2, ElementOfSeq
<1>5. f \in Seq(Nat)
  BY <1>2, SeqMonotonic
<1>6. \A r \in 1 .. Len(f) :
        /\ \E i \in DOMAIN pending[c] : f[r] = pending[c][i]
        /\ f[r] # NoSeq => f[r] > last[c] /\ \A q \in 1 .. Len(f) : q < r => f[q] < f[r]
  BY <1>3, FlushedAscends
<1> HIDE DEF f
<1>7. last[c] \in Nat /\ \A n \in Mine(c) : n <= last[c] /\ n \in Nat
  <2>1. last[c] \in Nat
    BY <1>2 DEF NumbersKnown, SessionInv
  <2>2. \A n \in Mine(c) : n \in Nat
    BY WrittenKnown DEF Nums
  <2> QED BY <1>1, <2>1, <2>2 DEF OrderOf, WrittenUpTo, Reading
<1>8. InOrder(wrote[c])'
  <2>1. wrote[c] \in Seq(Nat) /\ InOrder(wrote[c])
    BY WrittenKnown DEF OrderOf
  <2>2. ASSUME NEW j \in 1 .. Len(f), f[j] # NoSeq
        PROVE  /\ \A i \in 1 .. Len(wrote[c]) : wrote[c][i] <= f[j]
               /\ \A i \in 1 .. Len(f) : i < j => f[i] <= f[j]
    <3>1. ASSUME NEW i \in 1 .. Len(wrote[c]) PROVE wrote[c][i] <= f[j]
      <4>1. wrote[c][i] \in Nat /\ (wrote[c][i] = NoSeq \/ wrote[c][i] \in Mine(c))
        BY WrittenKnown
      <4>2. f[j] \in Nat /\ f[j] > last[c]
        BY <1>4, <1>6, <2>2
      <4> QED BY <1>7, <4>1, <4>2 DEF NoSeq
    <3>2. \A i \in 1 .. Len(f) : i < j => f[i] <= f[j]
      BY <1>4, <1>6, <2>2
    <3> QED BY <3>1, <3>2
  <2>3. InOrder(wrote[c] \o f)
    BY <1>5, <2>1, <2>2, WritesInOrder
  <2>4. InOrder(wrote'[c])
    BY <1>1, <2>3, Zenon
  <2> QED BY <2>4 DEF InOrder
<1>9. Mine(c)' = Mine(c) \cup (Range(f) \ {NoSeq})
  BY <1>1, <1>2, MineGrows
<1>10. \A n \in Range(f) : \E i \in DOMAIN pending[c] : n = pending[c][i]
  BY <1>3, <1>6 DEF Range
<1>11. \A n \in Mine(c)' : n <= cursor'[c]
  <2>1. /\ Covered(c) \in Nat /\ Covered(c) >= last[c]
        /\ \A i \in DOMAIN pending[c] : Covered(c) >= pending[c][i]
    BY <1>2, CoveredKnown
  <2>2. \A i \in DOMAIN pending[c] : pending[c][i] \in Nat
    <3>1. pending[c] \in Seq(Known)
      BY DEF NumbersKnown, SessionInv
    <3> QED BY <1>2, <3>1, LenProperties, ElementOfSeq
  <2>3. \A n \in Range(f) : n <= Covered(c)
    BY <1>10, <2>1, <2>2
  <2>4. \A n \in Mine(c) : n <= Covered(c)
    BY <1>7, <2>1
  <2> QED BY <1>1, <1>9, <2>3, <2>4
<1>12. WrittenUpTo(c)'
  BY <1>1, <1>11 DEF WrittenUpTo, Away, Reading
<1>13. QueuedBelow(c)'
  BY <1>1 DEF QueuedBelow
<1>14. Behind(c)' = Flying /\ Behind(c) = Flying
  BY <1>1 DEF Behind
<1>15. \A n \in Range(f) : n \notin Flying
  <2>1. \A n \in Flying : ~(n < n)
    BY DEF Flying, Nums
  <2>2. \A i \in DOMAIN pending[c], m \in Flying : pending[c][i] < m
    BY DEF OrderOf, QueuedBelow
  <2> QED BY <1>10, <2>1, <2>2
<1>16. ReadAhead(c)'
  BY <1>1, <1>9, <1>14, <1>15 DEF OrderOf, ReadAhead
<1> QED BY <1>8, <1>12, <1>13, <1>16 DEF OrderOf

(* A session that writes and reads nothing keeps its order. *)
LEMMA OrderSteady ==
    ASSUME NumbersKnown, NEW c \in Conns, OrderOf(c), WrittenUpTo(c)', wrote'[c] = wrote[c],
           Flying' = Flying, pending'[c] = pending[c] \/ pending'[c] = <<>>,
           todo'[c] = todo[c], Behind(c)' \subseteq Behind(c)
    PROVE  OrderOf(c)'
<1>1. Mine(c)' = Mine(c) /\ InOrder(wrote[c])'
  BY DEF Mine, OrderOf, InOrder
<1>2. QueuedBelow(c)' /\ ReadAhead(c)'
  BY <1>1 DEF OrderOf, QueuedBelow, ReadAhead
<1> QED BY <1>1, <1>2 DEF OrderOf

(* What the steps of the mesh do to the queue. *)
LEMMA QueueSteps ==
    ASSUME NumbersKnown, FeedInv
    PROVE  /\ \A p \in MeshPackets : Arrival(p) => Leaves
           /\ Fanout => Takes("reader")
           /\ Quiet => PostsReader \/ Leaves
           /\ \A c \in Conns : SessionStep(c) =>
                \/ Posts(c) \/ Leaves
                \/ Takes(c) /\ Head(ready).seq = NoSeq
<1> USE DEF storeVars, threadVars, sessionVars, histVars
<1>1. ASSUME NEW p \in MeshPackets, Arrival(p) PROVE Leaves
  BY <1>1 DEF Arrival, Leaves
<1>2. ASSUME Fanout PROVE Takes("reader")
  BY <1>2 DEF Fanout, Takes
<1>3. ASSUME Quiet PROVE PostsReader \/ Leaves
  BY <1>3 DEF Quiet, HearOther, PostFanout, Capture, Housekeeping, PostsReader, Leaves
<1>4. ASSUME NEW c \in Conns, SessionStep(c)
      PROVE  Posts(c) \/ Leaves \/ (Takes(c) /\ Head(ready).seq = NoSeq)
  <2>1. CASE PostWake(c)
    BY <2>1 DEF PostWake, Posts
  <2>2. CASE Join(c) \/ CompleteConfig(c)
    <3>1. Takes(c)
      BY <2>2 DEF Join, CompleteConfig, Takes, NumbersKnown, SessionInv
    <3>2. /\ QueueOrder /\ ready # <<>> /\ ready' = Tail(ready) /\ Head(ready).who = c
          /\ UNCHANGED <<reader, lastSeq>> /\ c # "reader"
      BY <2>2, ServerAssumption DEF FeedInv, Join, CompleteConfig, Take
    <3>3. Head(ready).seq = NoSeq
      BY <3>2, HeadTaken
    <3> QED BY <3>1, <3>3
  <2>3. CASE \/ Drop(c) \/ Connect(c) \/ LookUp(c) \/ AskConfig(c) \/ ServeConfig(c)
             \/ CountBacklog(c) \/ SelectRows(c) \/ ReplayRow(c) \/ GoLive(c)
    BY <2>3 DEF Drop, Connect, LookUp, AskConfig, ServeConfig, CountBacklog, SelectRows, ReplayRow,
       GoLive, Leaves, Finished, NumbersKnown, SessionInv
  <2>4. CASE Leave(c)
    BY <2>4 DEF Leave, Forget, Leaves, Finished, NumbersKnown, SessionInv
  <2> QED BY <1>4, <2>1, <2>2, <2>3, <2>4 DEF SessionStep
<1> QED BY <1>1, <1>2, <1>3, <1>4

(* A session's own step. *)
LEMMA OwnStepOrder ==
    ASSUME NumbersKnown, FeedInv, WakeInv, NEW c \in Conns, OrderOf(c), SessionStep(c),
           Flying' = Flying
    PROVE  OrderOf(c)'
<1> USE DEF storeVars, threadVars, sessionVars, histVars
<1>1. /\ pc \in [Conns -> Pcs] /\ last \in [Conns -> Known] /\ cursor \in [Conns -> Known]
      /\ todo \in [Conns -> SUBSET (Known \ {0})] /\ pending \in [Conns -> Seq(Known)]
      /\ wrote \in [Conns -> Seq(Known)]
  BY DEF NumbersKnown, SessionInv, HistoryInv
<1>2. WrittenUpTo(c)
  BY DEF OrderOf
<1>3. pc'[c] # "selected" /\ pc[c] # "selected" => Behind(c)' \subseteq Behind(c)
  BY DEF Behind
<1>4. wrote[c] = <<>> => Mine(c) = {}
  BY DEF Mine, Range
<1>5. wrote'[c] = wrote[c] => Mine(c)' = Mine(c)
  BY DEF Mine
<1>6. CASE PostWake(c) \/ Drop(c)
  <2>1. /\ UNCHANGED <<pc, cursor, pending, todo, last, wrote, clients>>
        /\ Posts(c) \/ Leaves
    BY <1>6 DEF PostWake, Drop, Posts, Leaves
  <2>2. AfterWake(c)' \subseteq AfterWake(c)
    BY <2>1, AfterWakeShrinks DEF FeedInv
  <2> QED BY <2>1, <2>2, OrderFramed
<1>7. CASE Connect(c) \/ LookUp(c) \/ Join(c)
  <2>1. /\ pc[c] \in Away /\ UNCHANGED <<wrote, todo, pending>>
        /\ \/ pc'[c] \in Away /\ clients' = clients
           \/ pc'[c] = "read"
    BY <1>1, <1>7 DEF Connect, LookUp, Join, Away
  <2>2. Mine(c)' = {} /\ todo[c] = {} /\ pc'[c] # "selected" /\ pc[c] # "selected"
    BY <1>2, <1>4, <1>5, <2>1 DEF WrittenUpTo, Away
  <2>3. WrittenUpTo(c)'
    BY <1>2, <2>1, <2>2 DEF WrittenUpTo, Away, Reading
  <2> QED BY <1>3, <2>1, <2>2, <2>3, OrderSteady
<1>8. CASE AskConfig(c)
  <2>1. pc[c] = "read" /\ pc'[c] = "asked" /\ UNCHANGED <<wrote, todo, pending, cursor>>
    BY <1>1, <1>8 DEF AskConfig
  <2>2. WrittenUpTo(c)'
    BY <1>2, <1>5, <2>1 DEF WrittenUpTo, Away, Reading
  <2> QED BY <1>3, <2>1, <2>2, OrderSteady
<1>9. CASE ServeConfig(c)
  <2>1. /\ pc[c] = "asked" /\ pc'[c] \in {"read", "count", "replay"} /\ last'[c] = cursor[c]
        /\ UNCHANGED <<wrote, todo, pending, cursor>>
    BY <1>1, <1>9 DEF ServeConfig
  <2>2. WrittenUpTo(c)'
    BY <1>2, <1>5, <2>1 DEF WrittenUpTo, Away, Reading
  <2> QED BY <1>3, <2>1, <2>2, OrderSteady
<1>10. CASE CountBacklog(c)
  <2>1. /\ pc[c] = "count" /\ pc'[c] = "select" /\ UNCHANGED <<wrote, todo, pending, cursor, last>>
    BY <1>1, <1>10 DEF CountBacklog
  <2>2. WrittenUpTo(c)'
    BY <1>2, <1>5, <2>1 DEF WrittenUpTo, Away, Reading
  <2> QED BY <1>3, <2>1, <2>2, OrderSteady
<1>11. CASE SelectRows(c)
  <2>1. /\ pc[c] = "select" /\ pc'[c] = "selected" /\ UNCHANGED <<wrote, pending, cursor, last>>
        /\ UNCHANGED <<ready, reader, lastSeq>>
        /\ todo'[c] = Slice(Backlog(cursor[c], Excluded(c)), ReplayLimit, offset[c])
    BY <1>1, <1>11 DEF SelectRows
  <2>2. \A t \in todo'[c] : t > cursor[c]
    BY <2>1 DEF Slice, Backlog
  <2>3. WrittenUpTo(c)'
    BY <1>2, <1>5, <2>1, <2>2 DEF WrittenUpTo, Away, Reading
  <2>4. Behind(c)' \subseteq {reader}
    <3>1. AfterWake(c)' = AfterWake(c)
      BY <2>1 DEF AfterWake
    <3> QED BY <2>1, <3>1, OneAfterWake DEF Behind
  <2>5. \A n \in Behind(c)' : n <= n
    BY DEF Behind, AfterWake, Flying, Nums
  <2>6. ReadAhead(c)'
    BY <2>4, <2>5 DEF ReadAhead
  <2>7. InOrder(wrote[c])' /\ QueuedBelow(c)'
    BY <2>1 DEF OrderOf, InOrder, QueuedBelow
  <2> QED BY <2>3, <2>6, <2>7 DEF OrderOf
<1>12. CASE CompleteConfig(c)
  <2>1. /\ pc[c] = "selected" /\ pc'[c] = "replay"
        /\ UNCHANGED <<wrote, todo, pending, cursor, last, reader, lastSeq>> /\ Take(c)
    BY <1>1, <1>12 DEF CompleteConfig
  <2>2. WrittenUpTo(c)'
    BY <1>2, <1>5, <2>1 DEF WrittenUpTo, Away, Reading
  <2>3. Head(ready).seq = NoSeq
    <3>1. QueueOrder /\ ready # <<>> /\ ready' = Tail(ready) /\ Head(ready).who = c /\ c # "reader"
      BY <2>1, ServerAssumption DEF FeedInv, Take
    <3> QED BY <2>1, <3>1, HeadTaken
  <2>4. Behind(c)' \subseteq Behind(c)
    <3>1. AfterWake(c) = Flying
      BY <2>1, <2>3, AllAfterHead
    <3> QED BY <2>1, <3>1 DEF Behind
  <2> QED BY <2>1, <2>2, <2>4, OrderSteady
<1>13. CASE ReplayRow(c) \/ GoLive(c)
  BY <1>13, ReplayOrder, FlushOrder
<1>14. CASE Leave(c)
  <2>1. /\ pc'[c] = "off" /\ c \notin clients' /\ wrote'[c] = <<>> /\ todo'[c] = {} /\ pending'[c] = <<>>
    BY <1>14 DEF Leave, Forget
  <2>2. Mine(c)' = {}
    BY <2>1 DEF Mine, Range
  <2> QED BY <2>1, <2>2 DEF OrderOf, InOrder, WrittenUpTo, QueuedBelow, ReadAhead, Away, Reading
<1> QED BY <1>6, <1>7, <1>8, <1>9, <1>10, <1>11, <1>12, <1>13, <1>14 DEF SessionStep

(* Another session's step. *)
LEMMA OtherStepOrder ==
    ASSUME NumbersKnown, FeedInv, NEW c \in Conns, NEW d \in Conns, d # c, OrderOf(d), SessionStep(c),
           Flying' = Flying
    PROVE  OrderOf(d)'
<1> USE DEF storeVars, threadVars, sessionVars, histVars
<1>1. /\ pc'[d] = pc[d] /\ cursor'[d] = cursor[d] /\ pending'[d] = pending[d]
      /\ todo'[d] = todo[d] /\ last'[d] = last[d] /\ wrote'[d] = wrote[d]
      /\ (d \in clients' <=> d \in clients)
  <2>1. CASE PostWake(c) \/ Drop(c)
    BY <2>1 DEF PostWake, Drop
  <2>2. CASE Leave(c)
    BY <2>2 DEF Leave, Forget, NumbersKnown, SessionInv
  <2>3. CASE GoLive(c) \/ ReplayRow(c)
    BY <2>3 DEF GoLive, ReplayRow, Write, NumbersKnown, SessionInv, HistoryInv
  <2>4. CASE Connect(c) \/ LookUp(c) \/ Join(c) \/ AskConfig(c) \/ ServeConfig(c)
    BY <2>4 DEF Connect, LookUp, Join, AskConfig, ServeConfig, NumbersKnown, SessionInv
  <2>5. CASE CountBacklog(c) \/ SelectRows(c) \/ CompleteConfig(c)
    BY <2>5 DEF CountBacklog, SelectRows, CompleteConfig, NumbersKnown, SessionInv
  <2> QED BY <2>1, <2>2, <2>3, <2>4, <2>5 DEF SessionStep
<1>2. NoSeq \notin Flying'
  BY DEF Flying, Nums, NoSeq
<1>3. AfterWake(d)' \subseteq AfterWake(d)
  <2>1. Posts(c) \/ Leaves \/ (Takes(c) /\ Head(ready).seq = NoSeq)
    BY QueueSteps
  <2> QED BY <1>2, <2>1, AfterWakeShrinks DEF FeedInv
<1> QED BY <1>1, <1>3, OrderFramed

(* The inductive step. *)
LEMMA OrderStep ==
    ASSUME NumbersKnown, QueueInv, OrderInv, [Next]_vars
    PROVE  OrderInv'
<1>1. FeedInv /\ WakeInv /\ QueueOrder /\ \A c \in Conns : OrderOf(c)
  BY DEF OrderInv, FeedInv
<1>2. CASE UNCHANGED vars
  <2> USE <1>2 DEF vars, storeVars, threadVars, sessionVars, histVars
  <2>1. FeedInv' /\ WakeInv' /\ Flying' = Flying
    BY <1>1 DEF FeedInv, QueueOrder, Flying, Posting, Nums, WakeInv, Finished
  <2>2. ASSUME NEW c \in Conns PROVE OrderOf(c)'
    <3>1. AfterWake(c)' = AfterWake(c)
      BY <2>1 DEF AfterWake
    <3> QED BY <1>1, <2>1, <3>1, OrderFramed
  <2> QED BY <2>1, <2>2 DEF OrderInv
<1>3. CASE Next
  <2>1. \A e \in {"web", "send"} : budget'[e] = 0
    BY <1>1, <1>3, BudgetKept DEF FeedInv, Events
  <2>2. ASSUME NEW p \in MeshPackets, Arrival(p) PROVE OrderInv'
    <3>1. /\ FeedInv' /\ lastSeq' = lastSeq + 1
          /\ Nums' = Nums \cup {lastSeq'} /\ Flying' = Flying \cup {lastSeq'}
      BY <1>1, <2>1, <2>2, ArrivalFeed
    <3>2. WakeInv'
      <4>1. Leaves
        BY <1>1, <2>2, QueueSteps
      <4> QED BY <1>1, <4>1, WakeHeld
    <3>3. \A c \in Conns : OrderOf(c)'
      BY <1>1, <2>2, <3>1, ArrivalOrder
    <3> QED BY <3>1, <3>2, <3>3 DEF OrderInv
  <2>3. CASE Fanout
    <3>1. FeedInv' /\ Takes("reader")
      BY <1>1, <2>3, FanoutFeed, QueueSteps
    <3>2. WakeInv'
      BY <1>1, <3>1, WakeHeld
    <3>3. \A c \in Conns : OrderOf(c)'
      BY <1>1, <2>3, FanoutOrder
    <3> QED BY <3>1, <3>2, <3>3 DEF OrderInv
  <2>4. CASE Restart
    <3>1. FeedInv' /\ ready' = <<>>
      BY <1>1, <2>1, <2>4, RestartFeed DEF Restart
    <3>2. WakeInv'
      BY <3>1 DEF WakeInv
    <3>3. ASSUME NEW c \in Conns PROVE OrderOf(c)'
      <4>1. /\ pc'[c] = "off" /\ c \notin clients' /\ wrote'[c] = <<>> /\ todo'[c] = {}
            /\ pending'[c] = <<>>
        BY <2>4 DEF Restart, Forget
      <4>2. Mine(c)' = {}
        BY <4>1 DEF Mine, Range
      <4> QED BY <4>1, <4>2 DEF OrderOf, InOrder, WrittenUpTo, QueuedBelow, ReadAhead, Away, Reading
    <3> QED BY <3>1, <3>2, <3>3 DEF OrderInv
  <2>5. CASE Quiet
    <3>1. FeedInv' /\ Flying' = Flying /\ (PostsReader \/ Leaves)
      BY <1>1, <2>1, <2>5, QuietFeed, QueueSteps
    <3>2. WakeInv'
      BY <1>1, <3>1, WakeHeld
    <3>3. ASSUME NEW c \in Conns PROVE OrderOf(c)'
      <4>1. AfterWake(c)' \subseteq AfterWake(c)
        BY <1>1, <3>1, AfterWakeShrinks
      <4>2. UNCHANGED <<pc, cursor, pending, todo, last, wrote, clients>>
        BY <2>5 DEF Quiet, sessionVars, histVars
      <4> QED BY <1>1, <3>1, <4>1, <4>2, OrderFramed
    <3> QED BY <3>1, <3>2, <3>3 DEF OrderInv
  <2>6. ASSUME NEW c \in Conns, SessionStep(c) PROVE OrderInv'
    <3>1. /\ FeedInv' /\ Flying' = Flying
          /\ Posts(c) \/ Leaves \/ Takes(c)
      BY <1>1, <2>1, <2>6, SessionFeed, QueueSteps
    <3>2. WakeInv'
      BY <1>1, <3>1, WakeHeld
    <3>3. \A d \in Conns : OrderOf(d)'
      BY <1>1, <2>6, <3>1, OwnStepOrder, OtherStepOrder
    <3> QED BY <3>1, <3>2, <3>3 DEF OrderInv
  <2> QED BY <1>1, <1>3, <2>2, <2>3, <2>4, <2>5, <2>6, MeshSteps
<1> QED BY <1>2, <1>3

-----------------------------------------------------------------------------
(* Where only the reader thread stores messages, whatever the replay, its  *)
(* limit and its pace are, whatever is pruned and however full the queues  *)
(* get, what a session is written follows the order of the store.          *)
THEOREM WrittenAlwaysInOrder ==
    ASSUME OnlyMesh PROVE Spec => []OrderInv
<1>1. Init => OrderInv
  <2> SUFFICES ASSUME Init PROVE OrderInv
    OBVIOUS
  <2> USE DEF Init, StoreInit
  <2>1. Nums = {} /\ Flying = {} /\ DOMAIN ready = {}
    BY DEF Nums, Flying
  <2>2. FeedInv /\ WakeInv
    BY <2>1 DEF FeedInv, QueueOrder, OnlyMesh, WakeInv
  <2>3. \A c \in Conns : Mine(c) = {}
    BY DEF Mine, Range
  <2>4. \A c \in Conns : OrderOf(c)
    BY <2>1, <2>3 DEF OrderOf, InOrder, WrittenUpTo, QueuedBelow, ReadAhead, Away, Reading
  <2> QED BY <2>2, <2>4 DEF OrderInv
<1>2. NumbersKnown /\ QueueInv /\ OrderInv /\ [Next]_vars => OrderInv'
  BY OrderStep
<1> QED BY <1>1, <1>2, NumbersAlwaysKnown, QueueAlways, PTL DEF Spec

(* In one session no message is seen for the first time after a newer one. *)
THEOREM FirstAlwaysInOrder ==
    ASSUME OnlyMesh PROVE Spec => []FirstSeenInOrder
<1>1. OrderInv => FirstSeenInOrder
  BY DEF OrderInv, OrderOf, InOrder, FirstSeenInOrder, Written
<1> QED BY <1>1, WrittenAlwaysInOrder, PTL

(* A live session gets a second copy of at most the one message its replay *)
(* read ahead of the fan-out.                                              *)
THEOREM NeverTwoSecondCopies ==
    ASSUME OnlyMesh PROVE Spec => []AtMostOneSecondCopy
<1>1. NumbersKnown /\ QueueInv /\ OrderInv => AtMostOneSecondCopy
  <2> SUFFICES ASSUME NumbersKnown, QueueInv, OrderInv, NEW c \in Conns, live[c]
               PROVE  Cardinality(InFlight(c))
                        + (IF reader \in Range(wrote[c]) \ {NoSeq} THEN 1 ELSE 0) <= 1
    BY DEF AtMostOneSecondCopy
  <2>1. Behind(c) = Flying
    BY DEF QueueInv, InHandshake, Behind
  <2>2. /\ \A n \in Mine(c) \cap Flying, m \in Flying : n <= m
        /\ QueueOrder /\ Mine(c) \subseteq Nums /\ \A n \in Nums : n \in Nat /\ n # NoSeq
    BY <2>1, WrittenKnown DEF OrderInv, OrderOf, ReadAhead, FeedInv, Nums, NoSeq
  <2>3. \A i \in InFlight(c) : /\ i \in DOMAIN ready /\ i \in Nat /\ ready[i].seq \in Mine(c) \cap Flying
                               /\ ready[i].seq \in Nat /\ ready[i].seq # NoSeq
    <3>1. \A i \in InFlight(c) : i \in DOMAIN ready /\ ready[i].seq \in Mine(c)
      BY DEF InFlight, Mine
    <3>2. \A i \in DOMAIN ready : i \in Nat
      BY LenProperties DEF NumbersKnown, ThreadInv
    <3> QED BY <2>2, <3>1, <3>2 DEF Flying, Posting
  <2>4. \A i, j \in InFlight(c) : i = j
    <3> SUFFICES ASSUME NEW i \in InFlight(c), NEW j \in InFlight(c), i < j PROVE FALSE
      BY <2>3
    <3>1. ready[i].seq < ready[j].seq
      BY <2>2, <2>3 DEF QueueOrder
    <3>2. ready[j].seq <= ready[i].seq
      BY <2>2, <2>3
    <3> QED BY <2>3, <3>1, <3>2
  <2>5. ASSUME reader \in Range(wrote[c]) \ {NoSeq} PROVE InFlight(c) = {}
    <3>1. reader \in Mine(c) \cap Flying /\ reader \in Nat /\ reader \in Nums
      BY <2>2, <2>5 DEF Mine, Flying
    <3>2. ASSUME NEW i \in InFlight(c) PROVE FALSE
      <4>1. ready[i].seq < reader /\ reader <= ready[i].seq
        BY <2>2, <2>3, <3>1 DEF QueueOrder
      <4> QED BY <2>3, <3>1, <4>1
    <3> QED BY <3>2
  <2>6. Cardinality({}) = 0 /\ \A i : Cardinality({i}) = 1
    BY FS_EmptySet, FS_Singleton
  <2>7. InFlight(c) = {} \/ \E i : InFlight(c) = {i}
    BY <2>4
  <2>8. Cardinality(InFlight(c)) = 0 \/ Cardinality(InFlight(c)) = 1
    BY <2>6, <2>7
  <2> QED BY <2>5, <2>6, <2>8
<1> QED BY <1>1, WrittenAlwaysInOrder, NumbersAlwaysKnown, QueueAlways, PTL
=============================================================================
