------------------------- MODULE VNodeServerProofs --------------------------
(***************************************************************************)
(* The safety of VNodeServer for every set of keys, connections and        *)
(* messages, every limit and every budget.                                 *)
(*                                                                         *)
(* One inductive invariant carries the numbers: every number the program   *)
(* holds anywhere, in the database, in a thread, on the loop's queue, in a *)
(* session or on the wire, is one the store has handed out.  Without it    *)
(* TypeOK is not inductive: the flush takes the greatest of the pending    *)
(* numbers, which exists because lastSeq bounds them.                      *)
(***************************************************************************)
EXTENDS VNodeServer, StoreProofs, SequenceTheorems

Known == 0 .. lastSeq

StoreInv ==
    /\ lastSeq \in Nat
    /\ rows \subseteq Row
    /\ \A r \in rows : r.seq \in Known
    /\ lastSeen \in [Keys -> Known \cup {NoRow}]

Posted(S) == [who: Conns \cup {"reader", "web", "wiper"}, seq: S]

ThreadInv ==
    /\ reader \in Known \cup {Nothing}
    /\ web \in Known \cup {Nothing}
    /\ ready \in Seq(Posted(Known))

SessionInv ==
    /\ clients \subseteq Conns
    /\ pc \in [Conns -> Pcs]
    /\ open \in [Conns -> BOOLEAN]
    /\ live \in [Conns -> BOOLEAN]
    /\ cursor \in [Conns -> Known]
    /\ pending \in [Conns -> Seq(Known)]
    /\ offset \in [Conns -> Nat]
    /\ todo \in [Conns -> SUBSET (Known \ {0})]
    /\ last \in [Conns -> Known]
    /\ own \in [Conns -> Known]

HistoryInv ==
    /\ wrote \in [Conns -> Seq(Known)]
    /\ handed \in [Keys -> SUBSET Known]
    /\ reached \in [Keys -> SUBSET Known]
    /\ skipped \in [Keys -> SUBSET Known]

OtherInv == captured \in BOOLEAN /\ budget \in [Events -> Nat]

NumbersKnown == StoreInv /\ ThreadInv /\ SessionInv /\ HistoryInv /\ OtherInv

(* The invariant is strong enough: it gives the types and bounds every     *)
(* cursor by the store's last number.                                      *)
LEMMA KnownImplies == NumbersKnown => TypeOK /\ CursorWithinStore
<1> SUFFICES ASSUME NumbersKnown PROVE TypeOK /\ CursorWithinStore
  OBVIOUS
<1>1. Known \subseteq Nat /\ \A S : S \subseteq Known => S \subseteq Nat
  BY DEF NumbersKnown, StoreInv, Known
<1>2. StoreTypeOK
  BY <1>1 DEF NumbersKnown, StoreInv, StoreTypeOK
<1>3. \A s \in Seq(Known) : s \in Seq(Nat)
  BY <1>1, SeqMonotonic
<1>4. ready \in Seq(Posted(Nat))
  <2>1. Posted(Known) \subseteq Posted(Nat)
    BY <1>1 DEF Posted
  <2> QED BY <2>1, SeqMonotonic DEF NumbersKnown, ThreadInv
<1>5. TypeOK
  <2>1. reader \in Nat \cup {Nothing} /\ web \in Nat \cup {Nothing}
    BY <1>1 DEF NumbersKnown, ThreadInv
  <2>2. /\ cursor \in [Conns -> Nat] /\ last \in [Conns -> Nat] /\ own \in [Conns -> Nat]
        /\ todo \in [Conns -> SUBSET (Nat \ {0})]
    BY <1>1 DEF NumbersKnown, SessionInv
  <2>3. pending \in [Conns -> Seq(Nat)] /\ wrote \in [Conns -> Seq(Nat)]
    BY <1>3 DEF NumbersKnown, SessionInv, HistoryInv
  <2>4. /\ handed \in [Keys -> SUBSET Nat] /\ reached \in [Keys -> SUBSET Nat]
        /\ skipped \in [Keys -> SUBSET Nat]
    BY <1>1 DEF NumbersKnown, HistoryInv
  <2> QED BY <1>2, <1>4, <2>1, <2>2, <2>3, <2>4
      DEF TypeOK, NumbersKnown, SessionInv, OtherInv, Posted
<1>6. CursorWithinStore
  BY DEF NumbersKnown, StoreInv, SessionInv, CursorWithinStore, Known, NoRow
<1> QED BY <1>5, <1>6

(* No number is known yet when the program starts. *)
LEMMA KnownInit == ASSUME Init PROVE NumbersKnown
<1> USE DEF Init
<1>1. 0 \in Known /\ Known \subseteq Nat
  BY DEF StoreInit, Known
<1>2. StoreInv
  BY <1>1 DEF StoreInit, StoreInv
<1>3. ThreadInv
  BY <1>1 DEF ThreadInv
<1>4. SessionInv
  BY <1>1 DEF SessionInv, Pcs, NoSeq
<1>5. HistoryInv
  BY <1>1 DEF HistoryInv
<1>6. OtherInv
  BY ServerAssumption DEF OtherInv
<1> QED BY <1>2, <1>3, <1>4, <1>5, <1>6 DEF NumbersKnown

-----------------------------------------------------------------------------
(* What a step leaves alone stays in order while the numbering grows.      *)
LEMMA KnownGrows ==
    ASSUME NumbersKnown, lastSeq' \in Nat, lastSeq' >= lastSeq
    PROVE  /\ Known \subseteq Known' /\ Known \subseteq Nat
           /\ ready \in Seq(Posted(Known'))
           /\ UNCHANGED <<reader, web, ready>> => ThreadInv'
           /\ UNCHANGED sessionVars => SessionInv'
           /\ UNCHANGED histVars => HistoryInv'
           /\ UNCHANGED <<captured, budget>> => OtherInv'
<1>1. Known \subseteq Known' /\ Known \subseteq Nat
  BY DEF Known, NumbersKnown, StoreInv
<1>2. \A s \in Seq(Known) : s \in Seq(Known')
  BY <1>1, SeqMonotonic
<1>3. ready \in Seq(Posted(Known'))
  <2>1. Posted(Known) \subseteq Posted(Known')
    BY <1>1 DEF Posted
  <2> QED BY <2>1, SeqMonotonic DEF NumbersKnown, ThreadInv
<1>4. ASSUME UNCHANGED <<reader, web, ready>> PROVE ThreadInv'
  BY <1>1, <1>4, <1>3 DEF NumbersKnown, ThreadInv, Posted
<1>5. ASSUME UNCHANGED sessionVars PROVE SessionInv'
  BY <1>1, <1>2, <1>5 DEF NumbersKnown, SessionInv, sessionVars
<1>6. ASSUME UNCHANGED histVars PROVE HistoryInv'
  BY <1>1, <1>2, <1>6 DEF NumbersKnown, HistoryInv, histVars
<1>7. ASSUME UNCHANGED <<captured, budget>> PROVE OtherInv'
  BY <1>7 DEF NumbersKnown, OtherInv
<1> QED BY <1>1, <1>3, <1>4, <1>5, <1>6, <1>7

-----------------------------------------------------------------------------
(* The helpers of the session code keep their numbers among the known.     *)

(* Moving a cursor to a known number leaves it at a known number.          *)
LEMMA MovedKnown ==
    ASSUME NumbersKnown, NEW n \in Known, NEW K
    PROVE  Moved(K, n) \in [Keys -> Known \cup {NoRow}]
BY DEF Moved, Larger, NumbersKnown, StoreInv

(* One delivery, to some sessions live and to some not. *)
LEMMA DeliverKnown ==
    ASSUME NumbersKnown, NEW n \in Known, NEW S, NEW senders, Deliver(n, S, senders)
    PROVE  /\ pending' \in [Conns -> Seq(Known)]
           /\ cursor' \in [Conns -> Known]
           /\ lastSeen' \in [Keys -> Known \cup {NoRow}]
           /\ wrote' \in [Conns -> Seq(Known)]
           /\ handed' \in [Keys -> SUBSET Known]
           /\ reached' \in [Keys -> SUBSET Known]
<1>1. \A s \in Seq(Known) : Append(s, n) \in Seq(Known)
  BY AppendProperties
<1>2. pending' \in [Conns -> Seq(Known)]
  BY <1>1 DEF Deliver, Give, Moving, KeysOf, NumbersKnown, SessionInv
<1>3. cursor' \in [Conns -> Known]
  BY DEF Deliver, Give, Moving, KeysOf, Larger, NumbersKnown, SessionInv
<1>4. lastSeen' \in [Keys -> Known \cup {NoRow}]
  BY MovedKnown DEF Deliver, Give, Moving, KeysOf
<1>5. wrote' \in [Conns -> Seq(Known)]
  BY <1>1 DEF Deliver, Give, Moving, KeysOf, NumbersKnown, HistoryInv
<1>6. handed' \in [Keys -> SUBSET Known] /\ reached' \in [Keys -> SUBSET Known]
  BY DEF Deliver, Give, Moving, KeysOf, NumbersKnown, HistoryInv
<1> QED BY <1>2, <1>3, <1>4, <1>5, <1>6

(* One write of several stored messages. *)
LEMMA WriteKnown ==
    ASSUME NumbersKnown, NEW c \in Conns, NEW ns \in Seq(Known), Write(c, ns)
    PROVE  /\ wrote' \in [Conns -> Seq(Known)]
           /\ handed' \in [Keys -> SUBSET Known]
           /\ reached' \in [Keys -> SUBSET Known]
<1>1. KeyOf[c] \in Keys
  BY ServerAssumption
<1>2. Range(ns) \subseteq Known
  BY ElementOfSeq, LenProperties DEF Range
<1>3. \A s \in Seq(Known) : s \o ns \in Seq(Known)
  BY ConcatProperties
<1>4. wrote' \in [Conns -> Seq(Known)]
  BY <1>3 DEF Write, NumbersKnown, HistoryInv
<1>5. handed' \in [Keys -> SUBSET Known] /\ reached' \in [Keys -> SUBSET Known]
  BY <1>1, <1>2 DEF Write, NumbersKnown, HistoryInv
<1> QED BY <1>4, <1>5

(* The replay's next row is one of those left to write. *)
LEMMA NextRowKnown ==
    ASSUME NumbersKnown, NEW c \in Conns, todo[c] # {}
    PROVE  NextRow(c) \in todo[c] /\ NextRow(c) \in Known
<1>1. todo[c] \in SUBSET Nat /\ todo[c] \subseteq Known
  BY DEF NumbersKnown, SessionInv, StoreInv, Known
<1> QED BY <1>1, MinOfNaturals DEF NextRow

(* What the flush covers is a number of the store, past what the replay    *)
(* wrote and past every pending frame.                                     *)
LEMMA CoveredKnown ==
    ASSUME NumbersKnown, NEW c \in Conns
    PROVE  /\ Covered(c) \in Known
           /\ Covered(c) >= last[c]
           /\ \A i \in DOMAIN pending[c] : Covered(c) >= pending[c][i]
<1> DEFINE S == {last[c]} \cup Range(pending[c])
<1>1. pending[c] \in Seq(Known) /\ last[c] \in Known
  BY DEF NumbersKnown, SessionInv
<1>2. Range(pending[c]) \subseteq Known
  BY <1>1, ElementOfSeq, LenProperties DEF Range
<1>3. S \in SUBSET Nat /\ S # {} /\ lastSeq \in Nat /\ \A x \in S : x <= lastSeq
  BY <1>1, <1>2 DEF Known, NumbersKnown, StoreInv
<1>4. Max(S) \in S /\ \A y \in S : Max(S) >= y
  BY <1>3, MaxOfBounded
<1>5. Max(S) \in Known
  BY <1>1, <1>2, <1>4
<1>6. \A i \in DOMAIN pending[c] : pending[c][i] \in S
  BY DEF Range
<1> QED BY <1>4, <1>5, <1>6 DEF Covered

(* The flush writes pending frames, one for each place. *)
LEMMA FlushedKnown ==
    ASSUME NumbersKnown, NEW c \in Conns
    PROVE  Flushed(c) \in Seq(Known)
<1> DEFINE I == Uncovered(c)
           rank(i) == Cardinality({j \in I : j <= i})
           pick(r) == CHOOSE i \in I : rank(i) = r
<1>1. pending[c] \in Seq(Known)
  BY DEF NumbersKnown, SessionInv
<1>2. Len(pending[c]) \in Nat /\ DOMAIN pending[c] = 1 .. Len(pending[c])
  BY <1>1, LenProperties
<1>3. I \in SUBSET (1 .. Len(pending[c]))
  BY <1>2 DEF Uncovered
<1>4. Cardinality(I) \in Nat
  <2>1. IsFiniteSet(1 .. Len(pending[c]))
    BY <1>2, FS_Interval
  <2>2. IsFiniteSet(I)
    BY <2>1, <1>3, FS_Subset
  <2> QED BY <2>2, FS_CardinalityType
<1>5. ASSUME NEW r \in 1 .. Cardinality(I)
      PROVE  pending[c][pick(r)] \in Known
  <2>1. \E i \in I : rank(i) = r
    BY <1>2, <1>3, EveryRankTaken
  <2>2. pick(r) \in I
    BY <2>1
  <2> QED BY <2>2, <1>1, <1>3, ElementOfSeq
<1>6. Flushed(c) = [r \in 1 .. Cardinality(I) |-> pending[c][pick(r)]]
  BY DEF Flushed
<1> HIDE DEF I, pick
<1>7. Flushed(c) \in [1 .. Cardinality(I) -> Known]
  BY <1>5, <1>6
<1> QED BY <1>4, <1>7, SeqDef

(* The flush writes nothing that was not pending. *)
LEMMA FlushedPending ==
    ASSUME NumbersKnown, NEW c \in Conns
    PROVE  Range(Flushed(c)) \subseteq Range(pending[c])
<1> DEFINE I == Uncovered(c)
           rank(i) == Cardinality({j \in I : j <= i})
           pick(r) == CHOOSE i \in I : rank(i) = r
<1>1. /\ Len(pending[c]) \in Nat /\ I \in SUBSET (1 .. Len(pending[c]))
      /\ I \subseteq DOMAIN pending[c]
  <2>1. pending[c] \in Seq(Known)
    BY DEF NumbersKnown, SessionInv
  <2> QED BY <2>1, LenProperties DEF Uncovered
<1>2. ASSUME NEW r \in 1 .. Cardinality(I) PROVE pick(r) \in DOMAIN pending[c]
  <2>1. \E i \in I : rank(i) = r
    BY <1>1, EveryRankTaken
  <2> QED BY <1>1, <2>1
<1>3. Flushed(c) = [r \in 1 .. Cardinality(I) |-> pending[c][pick(r)]]
  BY DEF Flushed
<1> HIDE DEF I, pick
<1> QED BY <1>2, <1>3 DEF Range

(* A handler that ends leaves its slot as it was before the connect. *)
LEMMA ForgetKnown ==
    ASSUME NumbersKnown, NEW C, Forget(C)
    PROVE  /\ clients' \subseteq Conns
           /\ pc' \in [Conns -> Pcs]
           /\ open' \in [Conns -> BOOLEAN] /\ live' \in [Conns -> BOOLEAN]
           /\ cursor' \in [Conns -> Known] /\ pending' \in [Conns -> Seq(Known)]
           /\ offset' \in [Conns -> Nat]   /\ todo' \in [Conns -> SUBSET (Known \ {0})]
           /\ last' \in [Conns -> Known]   /\ own' \in [Conns -> Known]
           /\ wrote' \in [Conns -> Seq(Known)]
<1>1. 0 \in Known /\ <<>> \in Seq(Known)
  BY EmptySeq DEF Known, NumbersKnown, StoreInv
<1> QED BY <1>1 DEF Forget, NumbersKnown, SessionInv, HistoryInv, Pcs, NoSeq

-----------------------------------------------------------------------------
(* Every step keeps the numbers known, one group of actions at a time.     *)

(* A step that numbers nothing new keeps the groups it does not change.    *)
LEMMA SameNumbering ==
    ASSUME NumbersKnown, UNCHANGED <<rows, lastSeq>>,
           lastSeen' \in [Keys -> Known \cup {NoRow}]
    PROVE  /\ StoreInv'
           /\ Known' = Known
           /\ UNCHANGED <<reader, web, ready>> => ThreadInv'
           /\ UNCHANGED sessionVars => SessionInv'
           /\ UNCHANGED histVars => HistoryInv'
           /\ UNCHANGED <<captured, budget>> => OtherInv'
<1>1. lastSeq' \in Nat /\ lastSeq' >= lastSeq
  BY DEF NumbersKnown, StoreInv
<1>2. Known' = Known
  BY DEF Known
<1>3. StoreInv'
  BY <1>1, <1>2 DEF NumbersKnown, StoreInv
<1> QED BY <1>1, <1>2, <1>3, KnownGrows

(* Storing a message hands out the next number. *)
LEMMA InsertKnown ==
    ASSUME NumbersKnown, NEW p \in Packets, NEW o \in Origins, Insert(p, o),
           UNCHANGED lastSeen
    PROVE  /\ StoreInv'
           /\ lastSeq' \in Nat /\ lastSeq' >= lastSeq
           /\ NextSeq \in Known' \ {0}
<1>1. NextSeq = lastSeq + 1 /\ lastSeq \in Nat /\ lastSeq' = NextSeq
  BY DEF NextSeq, Insert, NumbersKnown, StoreInv
<1>2. Known \subseteq Known' /\ NextSeq \in Known' \ {0}
  BY <1>1 DEF Known
<1> DEFINE new == [seq |-> NextSeq, pkt |-> p, origin |-> o, fresh |-> TRUE]
<1>3. rows' \subseteq Row /\ \A r \in rows' : r.seq \in Known'
  <2>1. new \in Row /\ new.seq = NextSeq
    BY <1>1 DEF Row
  <2>2. rows' = rows \cup {new}
    BY DEF Insert
  <2>3. rows \subseteq Row /\ \A r \in rows : r.seq \in Known
    BY DEF NumbersKnown, StoreInv
  <2> HIDE DEF new
  <2> QED BY <1>2, <2>1, <2>2, <2>3
<1>4. lastSeen' \in [Keys -> Known' \cup {NoRow}]
  BY <1>2 DEF NumbersKnown, StoreInv
<1> QED BY <1>1, <1>2, <1>3, <1>4 DEF StoreInv

(* Taking a callback from the loop's queue, and posting one. *)
LEMMA QueueKnown ==
    ASSUME NumbersKnown, NEW who \in Conns \cup {"reader", "web", "wiper"}, UNCHANGED lastSeq
    PROVE  /\ Take(who) => ready' \in Seq(Posted(Known)) /\ Head(ready).seq \in Known
           /\ \A n \in Known : PostTo(who, n) => ready' \in Seq(Posted(Known))
<1>1. ready \in Seq(Posted(Known))
  BY DEF NumbersKnown, ThreadInv
<1>2. ASSUME Take(who) PROVE ready' \in Seq(Posted(Known)) /\ Head(ready).seq \in Known
  <2>1. Head(ready) \in Posted(Known) /\ Tail(ready) \in Seq(Posted(Known))
    BY <1>1, <1>2, HeadTailProperties DEF Take
  <2>2. Head(ready).seq \in Known
    BY <2>1 DEF Posted
  <2> QED BY <1>2, <2>1, <2>2 DEF Take
<1>3. ASSUME NEW n \in Known, PostTo(who, n) PROVE ready' \in Seq(Posted(Known))
  <2>1. [who |-> who, seq |-> n] \in Posted(Known)
    BY DEF Posted
  <2> QED BY <1>1, <1>3, <2>1, AppendProperties DEF PostTo
<1> QED BY <1>2, <1>3

(* What is posted goes last, what is taken was first. *)
LEMMA QueueElements ==
    ASSUME NEW S, NEW s \in Seq(S), NEW e \in S
    PROVE  /\ Append(s, e) \in Seq(S) /\ Len(s) \in Nat
           /\ DOMAIN s = 1 .. Len(s) /\ DOMAIN Append(s, e) = 1 .. Len(s) + 1
           /\ \A i \in 1 .. Len(s) : Append(s, e)[i] = s[i]
           /\ Append(s, e)[Len(s) + 1] = e
           /\ s # <<>> => /\ DOMAIN Tail(s) = 1 .. Len(s) - 1
                          /\ 1 \in 1 .. Len(s) /\ s[1] = Head(s)
                          /\ \A i \in 1 .. Len(s) - 1 : Tail(s)[i] = s[i + 1]
<1>1. Len(s) \in Nat /\ DOMAIN s = 1 .. Len(s)
  BY LenProperties
<1>2. /\ Append(s, e) \in Seq(S) /\ Len(Append(s, e)) = Len(s) + 1
      /\ \A i \in 1 .. Len(s) : Append(s, e)[i] = s[i]
      /\ Append(s, e)[Len(s) + 1] = e
  BY AppendProperties
<1>3. DOMAIN Append(s, e) = 1 .. Len(s) + 1
  BY <1>2, LenProperties
<1>4. ASSUME s # <<>>
      PROVE  /\ DOMAIN Tail(s) = 1 .. Len(s) - 1
             /\ 1 \in 1 .. Len(s) /\ s[1] = Head(s)
             /\ \A i \in 1 .. Len(s) - 1 : Tail(s)[i] = s[i + 1]
  <2>1. Tail(s) \in Seq(S) /\ Len(Tail(s)) = Len(s) - 1
        /\ \A i \in 1 .. Len(Tail(s)) : Tail(s)[i] = s[i + 1]
    BY <1>4, HeadTailProperties
  <2>2. DOMAIN Tail(s) = 1 .. Len(Tail(s))
    BY <2>1, LenProperties
  <2>3. Len(s) # 0
    BY <1>4, EmptySeq
  <2>4. Head(s) = s[1]
    OBVIOUS
  <2> QED BY <1>1, <2>1, <2>2, <2>3, <2>4
<1> QED BY <1>1, <1>2, <1>3, <1>4

(* Using up one of the bounded events leaves every bound a natural number. *)
LEMMA SpendKnown == ASSUME NumbersKnown, NEW e \in Events, Spend(e) PROVE budget' \in [Events -> Nat]
BY DEF Spend, NumbersKnown, OtherInv

(* What an app has seen stays a set of known numbers when it is given one. *)
LEMMA SeenKnown ==
    ASSUME NumbersKnown PROVE lastSeen \in [Keys -> Known \cup {NoRow}] /\ 0 \in Known /\ NoSeq \in Known
BY DEF NumbersKnown, StoreInv, Known, NoSeq

(* The reader thread, the worker of a web request and the loop's fan-out.  *)
LEMMA ThreadStepKnown == ASSUME NumbersKnown, Threads PROVE NumbersKnown'
<1> USE SeenKnown
<1>1. CASE PostFanout
  <2>1. reader \in Known
    BY <1>1 DEF PostFanout, NumbersKnown, ThreadInv
  <2>2. ready' \in Seq(Posted(Known))
    BY <1>1, <2>1, QueueKnown DEF PostFanout, storeVars
  <2> QED BY <1>1, <2>2, SameNumbering
      DEF PostFanout, NumbersKnown, ThreadInv, storeVars, Posted
<1>2. CASE PostWeb
  <2>1. web \in Known
    BY <1>2 DEF PostWeb, NumbersKnown, ThreadInv
  <2>2. ready' \in Seq(Posted(Known))
    BY <1>2, <2>1, QueueKnown DEF PostWeb, storeVars
  <2> QED BY <1>2, <2>2, SameNumbering
      DEF PostWeb, NumbersKnown, ThreadInv, storeVars, Posted
<1>3. CASE Fanout
  <2>1. ready' \in Seq(Posted(Known)) /\ Head(ready).seq \in Known
    BY <1>3, QueueKnown DEF Fanout
  <2>2. Deliver(Head(ready).seq, clients, {})
    BY <1>3 DEF Fanout
  <2>3. StoreInv' /\ Known' = Known /\ OtherInv'
    BY <1>3, <2>1, <2>2, DeliverKnown, SameNumbering DEF Fanout
  <2>4. ThreadInv'
    BY <1>3, <2>1, <2>3 DEF Fanout, NumbersKnown, ThreadInv, Posted
  <2>5. SessionInv' /\ HistoryInv'
    BY <1>3, <2>1, <2>2, <2>3, DeliverKnown
    DEF Fanout, NumbersKnown, SessionInv, HistoryInv
  <2> QED BY <2>3, <2>4, <2>5 DEF NumbersKnown
<1>4. CASE MirrorWeb
  <2>1. ready' \in Seq(Posted(Known)) /\ Head(ready).seq \in Known
    BY <1>4, QueueKnown DEF MirrorWeb
  <2>2. Deliver(Head(ready).seq, clients, {})
    BY <1>4 DEF MirrorWeb
  <2>3. StoreInv' /\ Known' = Known /\ OtherInv'
    BY <1>4, <2>1, <2>2, DeliverKnown, SameNumbering DEF MirrorWeb
  <2>4. ThreadInv'
    BY <1>4, <2>1, <2>3 DEF MirrorWeb, NumbersKnown, ThreadInv, Posted
  <2>5. SessionInv' /\ HistoryInv'
    BY <1>4, <2>1, <2>2, <2>3, DeliverKnown
    DEF MirrorWeb, NumbersKnown, SessionInv, HistoryInv
  <2> QED BY <2>3, <2>4, <2>5 DEF NumbersKnown
<1> QED BY <1>1, <1>2, <1>3, <1>4 DEF Threads

(* What the world outside does: messages, the capture, the housekeeping.   *)
LEMMA WorldStepKnown == ASSUME NumbersKnown, World PROVE NumbersKnown'
<1> USE SeenKnown
<1>1. ASSUME NEW p \in MeshPackets, HearText(p) PROVE NumbersKnown'
  <2>1. budget' \in [Events -> Nat]
    BY <1>1, SpendKnown DEF HearText, Events
  <2>2. CASE Insert(p, "mesh") /\ reader' = NextSeq
    <3>1. p \in Packets /\ "mesh" \in Origins
      BY DEF Packets, Origins
    <3>2. StoreInv' /\ lastSeq' \in Nat /\ lastSeq' >= lastSeq /\ NextSeq \in Known'
      BY <1>1, <2>2, <3>1, InsertKnown DEF HearText
    <3> QED BY <1>1, <2>1, <2>2, <3>2, KnownGrows
        DEF HearText, NumbersKnown, ThreadInv, OtherInv, Posted
  <2>3. CASE reader' = NoSeq /\ UNCHANGED <<rows, lastSeq>>
    BY <1>1, <2>1, <2>3, SameNumbering
    DEF HearText, NumbersKnown, ThreadInv, OtherInv, Posted
  <2> QED BY <1>1, <2>2, <2>3 DEF HearText
<1>2. ASSUME NEW p \in AppPackets, WebSend(p) PROVE NumbersKnown'
  <2>1. budget' \in [Events -> Nat]
    BY <1>2, SpendKnown DEF WebSend, Events
  <2>2. p \in Packets /\ "webui" \in Origins
    BY DEF Packets, Origins
  <2>3. StoreInv' /\ lastSeq' \in Nat /\ lastSeq' >= lastSeq /\ NextSeq \in Known'
    BY <1>2, <2>2, InsertKnown DEF WebSend
  <2> QED BY <1>2, <2>1, <2>3, KnownGrows
      DEF WebSend, NumbersKnown, ThreadInv, OtherInv, Posted
<1>3. CASE HearOther
  <2>1. budget' \in [Events -> Nat]
    BY <1>3, SpendKnown DEF HearOther, Events
  <2> QED BY <1>3, <2>1, SameNumbering
      DEF HearOther, NumbersKnown, ThreadInv, OtherInv, Posted, storeVars
<1>4. CASE Capture
  BY <1>4, SameNumbering DEF Capture, NumbersKnown, OtherInv, storeVars, threadVars
<1>5. CASE Housekeeping
  <2>1. budget' \in [Events -> Nat]
    BY <1>5, SpendKnown DEF Housekeeping, Events
  <2>2. StoreInv' /\ lastSeq' = lastSeq
    <3>1. CASE Prune
      BY <3>1 DEF Prune, NumbersKnown, StoreInv, Known
    <3>2. CASE Age
      <4>1. PICK r \in rows : rows' = (rows \ {r}) \cup {[r EXCEPT !.fresh = FALSE]}
        BY <3>2 DEF Age
      <4>2. /\ [r EXCEPT !.fresh = FALSE] \in Row
            /\ [r EXCEPT !.fresh = FALSE].seq = r.seq
        BY DEF NumbersKnown, StoreInv, Row
      <4> QED BY <3>2, <4>1, <4>2 DEF Age, NumbersKnown, StoreInv, Known
    <3> QED BY <1>5, <3>1, <3>2 DEF Housekeeping
  <2>3. lastSeq' \in Nat /\ lastSeq' >= lastSeq
    BY <2>2 DEF NumbersKnown, StoreInv
  <2> QED BY <1>5, <2>1, <2>2, <2>3, KnownGrows
      DEF Housekeeping, NumbersKnown, OtherInv, threadVars
<1> QED BY <1>1, <1>2, <1>3, <1>4, <1>5 DEF World

(* What an app does to its connection. *)
LEMMA AppStepKnown == ASSUME NumbersKnown, NEW c \in Conns, App(c) PROVE NumbersKnown'
<1> USE SeenKnown
<1>1. CASE Connect(c)
  <2>1. budget' \in [Events -> Nat]
    BY <1>1, SpendKnown DEF Connect, Events
  <2> QED BY <1>1, <2>1, SameNumbering
      DEF Connect, NumbersKnown, SessionInv, OtherInv, Pcs, storeVars, threadVars
<1>2. CASE AskConfig(c)
  BY <1>2, SameNumbering
  DEF AskConfig, NumbersKnown, SessionInv, Pcs, storeVars, threadVars
<1>3. CASE SendPacket(c)
  <2>1. budget' \in [Events -> Nat]
    BY <1>3, SpendKnown DEF SendPacket, Events
  <2> QED BY <1>3, <2>1, SameNumbering
      DEF SendPacket, NumbersKnown, SessionInv, OtherInv, Pcs, storeVars, threadVars
<1>4. CASE Drop(c)
  <2>1. budget' \in [Events -> Nat]
    BY <1>4, SpendKnown DEF Drop, Events
  <2> QED BY <1>4, <2>1, SameNumbering
      DEF Drop, NumbersKnown, SessionInv, OtherInv, storeVars, threadVars
<1> QED BY <1>1, <1>2, <1>3, <1>4 DEF App

(* A handler's steps from the connect to the replay query. *)
LEMMA OpeningStepKnown ==
    ASSUME NumbersKnown, NEW c \in Conns,
           LookUp(c) \/ PostWake(c) \/ Join(c) \/ ServeConfig(c) \/ CountBacklog(c)
    PROVE  NumbersKnown'
<1> USE SeenKnown
<1>1. KeyOf[c] \in Keys
  BY ServerAssumption
<1>2. CASE LookUp(c)
  <2>1. FoundOrCreated(KeyOf[c]) \in Known
    BY <1>1 DEF FoundOrCreated
  <2>2. lastSeen' \in [Keys -> Known \cup {NoRow}]
    BY <1>2, <2>1 DEF LookUp
  <2> QED BY <1>2, <2>1, <2>2, SameNumbering
      DEF LookUp, NumbersKnown, SessionInv, Pcs, threadVars
<1>3. CASE PostWake(c)
  <2>1. ready' \in Seq(Posted(Known))
    BY <1>3, QueueKnown DEF PostWake, storeVars
  <2> QED BY <1>3, <2>1, SameNumbering
      DEF PostWake, NumbersKnown, ThreadInv, storeVars, Posted
<1>4. CASE Join(c)
  <2>1. ready' \in Seq(Posted(Known))
    BY <1>4, QueueKnown DEF Join, storeVars
  <2> QED BY <1>4, <2>1, SameNumbering
      DEF Join, NumbersKnown, ThreadInv, SessionInv, storeVars, Posted, Pcs
<1>5. CASE ServeConfig(c)
  BY <1>5, SameNumbering
  DEF ServeConfig, NumbersKnown, SessionInv, Pcs, storeVars, threadVars
<1>6. CASE CountBacklog(c)
  <2>1. Backlog(cursor[c], Excluded(c)) \subseteq 0 .. lastSeq
    BY DEF Backlog, NumbersKnown, StoreInv, Known
  <2>2. Cardinality(Backlog(cursor[c], Excluded(c))) \in Nat
    <3>1. IsFiniteSet(0 .. lastSeq)
      BY FS_Interval DEF NumbersKnown, StoreInv
    <3> QED BY <2>1, <3>1, FS_Subset, FS_CardinalityType
  <2>3. ReplayLimit \in Nat
    BY ServerAssumption
  <2>4. Larger(0, Cardinality(Backlog(cursor[c], Excluded(c))) - ReplayLimit) \in Nat
    BY <2>2, <2>3 DEF Larger
  <2> QED BY <1>6, <2>4, SameNumbering
      DEF CountBacklog, NumbersKnown, SessionInv, Pcs, storeVars, threadVars
<1> QED BY <1>2, <1>3, <1>4, <1>5, <1>6

(* A handler's steps from the replay query to the live session. *)
LEMMA ReplayStepKnown ==
    ASSUME NumbersKnown, NEW c \in Conns,
           SelectRows(c) \/ CompleteConfig(c) \/ ReplayRow(c) \/ GoLive(c)
    PROVE  NumbersKnown'
<1> USE SeenKnown
<1>1. KeyOf[c] \in Keys
  BY ServerAssumption
<1>2. CASE SelectRows(c)
  <2> DEFINE chosen == Slice(Backlog(cursor[c], Excluded(c)), ReplayLimit, offset[c])
             left   == {r \in rows : r.seq > cursor[c] /\ r.seq \notin chosen}
             passed == {r.seq : r \in {q \in left : ~q.fresh \/ \E n \in chosen : n > q.seq}}
  <2>1. chosen \subseteq Known \ {0}
    BY DEF Slice, Backlog, NumbersKnown, StoreInv, Row
  <2>2. passed \subseteq Known
    BY DEF NumbersKnown, StoreInv
  <2>3. /\ todo' = [todo EXCEPT ![c] = chosen]
        /\ skipped' = [skipped EXCEPT ![KeyOf[c]] = @ \cup passed]
    BY <1>2 DEF SelectRows
  <2> HIDE DEF chosen, passed
  <2>4. todo' \in [Conns -> SUBSET (Known \ {0})]
    BY <2>1, <2>3 DEF NumbersKnown, SessionInv
  <2>5. skipped' \in [Keys -> SUBSET Known]
    BY <1>1, <2>2, <2>3 DEF NumbersKnown, HistoryInv
  <2> QED BY <1>2, <2>4, <2>5, SameNumbering
      DEF SelectRows, NumbersKnown, SessionInv, HistoryInv, Pcs, storeVars, threadVars
<1>3. CASE CompleteConfig(c)
  <2>1. ready' \in Seq(Posted(Known))
    BY <1>3, QueueKnown DEF CompleteConfig, storeVars
  <2> QED BY <1>3, <2>1, SameNumbering
      DEF CompleteConfig, NumbersKnown, ThreadInv, SessionInv, storeVars, Posted, Pcs
<1>4. CASE ReplayRow(c)
  <2>1. NextRow(c) \in Known
    BY <1>4, NextRowKnown DEF ReplayRow
  <2>2. <<NextRow(c)>> \in Seq(Known)
    BY <2>1
  <2>3. /\ wrote' \in [Conns -> Seq(Known)]
        /\ handed' \in [Keys -> SUBSET Known] /\ reached' \in [Keys -> SUBSET Known]
    BY <1>4, <2>2, WriteKnown DEF ReplayRow
  <2>4. /\ last' \in [Conns -> Known]
        /\ todo' \in [Conns -> SUBSET (Known \ {0})]
    BY <1>4, <2>1 DEF ReplayRow, Larger, NumbersKnown, SessionInv
  <2> QED BY <1>4, <2>3, <2>4, SameNumbering
      DEF ReplayRow, NumbersKnown, SessionInv, HistoryInv, storeVars, threadVars
<1>5. CASE GoLive(c)
  <2>1. Covered(c) \in Known
    BY CoveredKnown
  <2>2. /\ wrote' \in [Conns -> Seq(Known)]
        /\ handed' \in [Keys -> SUBSET Known] /\ reached' \in [Keys -> SUBSET Known]
    BY <1>5, FlushedKnown, WriteKnown DEF GoLive
  <2>3. lastSeen' \in [Keys -> Known \cup {NoRow}]
    BY <1>5, <2>1, MovedKnown DEF GoLive
  <2>4. <<>> \in Seq(Known)
    BY EmptySeq
  <2>5. /\ pending' \in [Conns -> Seq(Known)] /\ cursor' \in [Conns -> Known]
        /\ live' \in [Conns -> BOOLEAN] /\ pc' \in [Conns -> Pcs]
    BY <1>5, <2>1, <2>4 DEF GoLive, NumbersKnown, SessionInv, Pcs
  <2> QED BY <1>5, <2>2, <2>3, <2>5, SameNumbering
      DEF GoLive, NumbersKnown, SessionInv, HistoryInv, threadVars
<1> QED BY <1>2, <1>3, <1>4, <1>5

(* A handler's steps that send a packet, and its end. *)
LEMMA SendingStepKnown ==
    ASSUME NumbersKnown, NEW c \in Conns,
           (\E p \in AppPackets : StoreOwn(c, p)) \/ MirrorOwn(c) \/ Sent(c) \/ Leave(c)
    PROVE  NumbersKnown'
<1> USE SeenKnown
<1>1. ASSUME NEW p \in AppPackets, StoreOwn(c, p) PROVE NumbersKnown'
  <2>1. p \in Packets /\ KeyOf[c] \in Origins
    BY ServerAssumption DEF Packets, Origins
  <2>2. CASE Insert(p, KeyOf[c]) /\ own' = [own EXCEPT ![c] = NextSeq]
    <3>1. StoreInv' /\ lastSeq' \in Nat /\ lastSeq' >= lastSeq /\ NextSeq \in Known'
      BY <1>1, <2>1, <2>2, InsertKnown DEF StoreOwn
    <3>2. Known \subseteq Known' /\ \A s \in Seq(Known) : s \in Seq(Known')
      BY <3>1, KnownGrows, SeqMonotonic
    <3>3. SessionInv'
      BY <1>1, <2>2, <3>1, <3>2 DEF StoreOwn, NumbersKnown, SessionInv, Pcs
    <3> QED BY <1>1, <3>1, <3>3, KnownGrows DEF StoreOwn, NumbersKnown, threadVars
  <2>3. CASE own' = [own EXCEPT ![c] = NoSeq] /\ UNCHANGED <<rows, lastSeq>>
    BY <1>1, <2>3, SameNumbering
    DEF StoreOwn, NumbersKnown, SessionInv, Pcs, threadVars
  <2> QED BY <1>1, <2>2, <2>3 DEF StoreOwn
<1>2. CASE MirrorOwn(c)
  <2>1. ready' \in Seq(Posted(Known))
    BY <1>2, QueueKnown DEF MirrorOwn
  <2>2. /\ pending' \in [Conns -> Seq(Known)] /\ cursor' \in [Conns -> Known]
        /\ lastSeen' \in [Keys -> Known \cup {NoRow}]
        /\ wrote' \in [Conns -> Seq(Known)]
        /\ handed' \in [Keys -> SUBSET Known] /\ reached' \in [Keys -> SUBSET Known]
    <3>1. CASE Deliver(own[c], Others(c), {c})
      <4>1. own[c] \in Known
        BY DEF NumbersKnown, SessionInv
      <4> QED BY <3>1, <4>1, DeliverKnown
    <3>2. CASE UNCHANGED <<pending, cursor, lastSeen, wrote, handed, reached>>
      BY <3>2 DEF NumbersKnown, StoreInv, SessionInv, HistoryInv
    <3> QED BY <1>2, <3>1, <3>2 DEF MirrorOwn
  <2>3. pc' \in [Conns -> Pcs]
    BY <1>2 DEF MirrorOwn, NumbersKnown, SessionInv, Pcs
  <2> QED BY <1>2, <2>1, <2>2, <2>3, SameNumbering
      DEF MirrorOwn, NumbersKnown, ThreadInv, SessionInv, HistoryInv, Posted
<1>3. CASE Sent(c)
  BY <1>3, SameNumbering DEF Sent, NumbersKnown, SessionInv, Pcs, storeVars, threadVars
<1>4. CASE Leave(c)
  <2>1. Forget({c})
    BY <1>4 DEF Leave
  <2> QED BY <1>4, <2>1, ForgetKnown, SameNumbering
      DEF Leave, NumbersKnown, SessionInv, HistoryInv, storeVars, threadVars
<1> QED BY <1>1, <1>2, <1>3, <1>4

(* A message that is written joins what its apps were given, nothing else. *)
LEMMA GiveAdds ==
    ASSUME NumbersKnown, NEW n \in Known, NEW W, Give(n, W)
    PROVE  /\ handed' \in [Keys -> SUBSET Known] /\ reached' \in [Keys -> SUBSET Known]
           /\ \A k \in Keys :
                handed[k] \subseteq handed'[k] /\ handed'[k] \subseteq handed[k] \cup {n}
BY DEF Give, NumbersKnown, HistoryInv

(* Which stretch of the loop a crash cuts short.                           *)
LEMMA CrashCases ==
    ASSUME NumbersKnown, Restart
    PROVE  \/ UNCHANGED <<lastSeen, handed, reached>>
           \/ \E n \in Known, S \in SUBSET clients, senders \in SUBSET Conns :
                /\ DiesDelivering(n, S, senders)
                /\ \/ senders = {} /\ S = clients /\ Head(ready).who \in {"reader", "web"}
                         /\ ready # <<>> /\ Head(ready).seq = n
                   \/ \E c \in Conns : senders = {c} /\ pc[c] = "stored"
           \/ \E c \in Conns : DiesGoingLive(c)
<1>1. ASSUME ready # <<>>, Head(ready).who \in {"reader", "web"} PROVE Head(ready).seq \in Known
  <2>1. ready \in Seq(Posted(Known))
    BY DEF NumbersKnown, ThreadInv
  <2>2. Head(ready) \in Posted(Known)
    BY <1>1, <2>1, HeadTailProperties
  <2> QED BY <2>2 DEF Posted
<1>2. ASSUME NEW c \in Conns PROVE own[c] \in Known /\ Others(c) \in SUBSET clients
  BY DEF NumbersKnown, SessionInv, Others
<1> QED BY <1>1, <1>2 DEF Restart, Interrupted

(* Whatever it cuts short, a crash leaves saved cursors moved by one MAX,  *)
(* if at all, and takes nothing back from what the apps were given.        *)
LEMMA CrashSaves ==
    ASSUME NumbersKnown, Restart
    PROVE  /\ handed' \in [Keys -> SUBSET Known] /\ reached' \in [Keys -> SUBSET Known]
           /\ \A k \in Keys : handed[k] \subseteq handed'[k]
           /\ lastSeen' = lastSeen \/ \E n \in Known : \E K : lastSeen' = Moved(K, n)
           /\ lastSeen' \in [Keys -> Known \cup {NoRow}]
<1>1. CASE UNCHANGED <<lastSeen, handed, reached>>
  BY <1>1 DEF NumbersKnown, StoreInv, HistoryInv
<1>2. ASSUME NEW n \in Known, NEW S, NEW senders, DiesDelivering(n, S, senders)
      PROVE  /\ handed' \in [Keys -> SUBSET Known] /\ reached' \in [Keys -> SUBSET Known]
             /\ \A k \in Keys : handed[k] \subseteq handed'[k]
             /\ \E m \in Known : \E K : lastSeen' = Moved(K, m)
  <2>1. PICK W \in SUBSET Receiving(S), c \in Conns :
          /\ Give(n, W)
          /\ lastSeen' = Moved(KeysOf(senders \cup Moving(n, W \ {c})), n)
    BY <1>2 DEF DiesDelivering
  <2>2. \E m \in Known : \E K : lastSeen' = Moved(K, m)
    BY <2>1
  <2>3. Give(n, W)
    BY <2>1
  <2>4. /\ handed' \in [Keys -> SUBSET Known] /\ reached' \in [Keys -> SUBSET Known]
        /\ \A k \in Keys : handed[k] \subseteq handed'[k]
    BY <2>3, GiveAdds
  <2> QED BY <2>2, <2>4, Zenon
<1>3. ASSUME NEW c \in Conns, DiesGoingLive(c)
      PROVE  /\ handed' \in [Keys -> SUBSET Known] /\ reached' \in [Keys -> SUBSET Known]
             /\ \A k \in Keys : handed[k] \subseteq handed'[k]
             /\ lastSeen' = lastSeen \/ \E m \in Known : \E K : lastSeen' = Moved(K, m)
  <2>1. PICK m \in 0 .. Len(Flushed(c)) :
          LET given == {Flushed(c)[i] : i \in 1 .. m}
          IN  /\ handed' = [handed EXCEPT ![KeyOf[c]] = @ \cup given]
              /\ reached' = IF open[c] THEN [reached EXCEPT ![KeyOf[c]] = @ \cup given] ELSE reached
    BY <1>3 DEF DiesGoingLive
  <2> DEFINE given == {Flushed(c)[i] : i \in 1 .. m}
  <2>2. given \subseteq Known
    BY FlushedKnown, ElementOfSeq, LenProperties
  <2>3. /\ handed' = [handed EXCEPT ![KeyOf[c]] = @ \cup given]
        /\ reached' = IF open[c] THEN [reached EXCEPT ![KeyOf[c]] = @ \cup given] ELSE reached
    BY <2>1
  <2>4. KeyOf[c] \in Keys /\ last[c] \in Known
    BY ServerAssumption DEF NumbersKnown, SessionInv
  <2> HIDE DEF given
  <2>5. /\ handed' \in [Keys -> SUBSET Known] /\ reached' \in [Keys -> SUBSET Known]
        /\ \A k \in Keys : handed[k] \subseteq handed'[k]
    BY <2>2, <2>3, <2>4 DEF NumbersKnown, HistoryInv
  <2> QED BY <1>3, <2>4, <2>5 DEF DiesGoingLive
<1>4. /\ handed' \in [Keys -> SUBSET Known] /\ reached' \in [Keys -> SUBSET Known]
      /\ \A k \in Keys : handed[k] \subseteq handed'[k]
      /\ lastSeen' = lastSeen \/ \E n \in Known : \E K : lastSeen' = Moved(K, n)
  BY <1>1, <1>2, <1>3, CrashCases, Zenon
<1> QED BY <1>4, MovedKnown DEF NumbersKnown, StoreInv

(* The process dies: threads, queue and sessions are gone. *)
LEMMA RestartKnown == ASSUME NumbersKnown, Restart PROVE NumbersKnown'
<1> USE SeenKnown
<1>1. budget' \in [Events -> Nat]
  BY SpendKnown DEF Restart, Events
<1>2. Forget(Conns)
  BY DEF Restart
<1>3. <<>> \in Seq(Posted(Known))
  BY EmptySeq
<1>4. StoreInv' /\ Known' = Known
  BY CrashSaves, SameNumbering DEF Restart
<1>5. ThreadInv' /\ SessionInv' /\ OtherInv'
  BY <1>1, <1>2, <1>3, <1>4, ForgetKnown
    DEF Restart, NumbersKnown, ThreadInv, SessionInv, OtherInv, Posted
<1>6. HistoryInv'
  BY <1>2, <1>4, ForgetKnown, CrashSaves DEF Restart, NumbersKnown, HistoryInv
<1> QED BY <1>4, <1>5, <1>6 DEF NumbersKnown

(* The invariant is inductive: every step of the program keeps it.         *)
LEMMA KnownStep == ASSUME NumbersKnown, [Next]_vars PROVE NumbersKnown'
<1>1. ASSUME NEW c \in Conns, Handler(c) \/ App(c) PROVE NumbersKnown'
  BY <1>1, OpeningStepKnown, ReplayStepKnown, SendingStepKnown, AppStepKnown DEF Handler
<1>2. CASE UNCHANGED vars
  BY <1>2, SameNumbering, SeenKnown
  DEF vars, storeVars, threadVars, NumbersKnown
<1> QED BY <1>1, <1>2, ThreadStepKnown, WorldStepKnown, RestartKnown DEF Next, Running

-----------------------------------------------------------------------------
(* No thread, queue, session or cursor ever holds a number the store has   *)
(* not handed out: the inductive invariant behind the theorems below.      *)
THEOREM NumbersAlwaysKnown == Spec => []NumbersKnown
<1>1. Init => NumbersKnown
  BY KnownInit
<1>2. NumbersKnown /\ [Next]_vars => NumbersKnown'
  BY KnownStep
<1> QED BY <1>1, <1>2, PTL DEF Spec

(* Every variable keeps its type, in every instance. *)
THEOREM TypeCorrect == Spec => []TypeOK
BY NumbersAlwaysKnown, KnownImplies, PTL

(* No cursor is ever past the last number handed out, so a message stored  *)
(* later is always in the replay of every app.                             *)
THEOREM CursorsWithinStore == Spec => []CursorWithinStore
BY NumbersAlwaysKnown, KnownImplies, PTL

-----------------------------------------------------------------------------
(* The cursors in the database.                                            *)

(* A saved cursor moves by MAX, so no update takes it back.                *)
LEMMA MovedForward ==
    ASSUME NumbersKnown, NEW n \in Known, NEW K, NEW k \in Keys
    PROVE  /\ Moved(K, n)[k] >= lastSeen[k]
           /\ lastSeen[k] # NoRow => Moved(K, n)[k] # NoRow
           /\ k \in K /\ lastSeen[k] # NoRow => Moved(K, n)[k] >= n
BY DEF Moved, Larger, NoRow, NumbersKnown, StoreInv, Known

(* Which deliveries a step makes: to which sessions and on whose behalf.   *)
LEMMA DeliveryCases ==
    ASSUME NumbersKnown, Next
    PROVE  \/ UNCHANGED <<lastSeen, wrote, cursor, pending, pc, clients, live, last>>
           \/ /\ UNCHANGED <<lastSeen, wrote, cursor, pending>>
              /\ \E c \in Conns : Join(c) \/ Connect(c) \/ AskConfig(c) \/ ServeConfig(c)
                    \/ CountBacklog(c) \/ SelectRows(c) \/ CompleteConfig(c)
                    \/ SendPacket(c) \/ Sent(c) \/ \E p \in AppPackets : StoreOwn(c, p)
           \/ \E n \in Known :
                /\ Deliver(n, clients, {})
                /\ UNCHANGED <<pc, clients, live, last>>
           \/ \E c \in Conns : LookUp(c) \/ ReplayRow(c) \/ GoLive(c) \/ MirrorOwn(c)
           \/ \E C \in SUBSET Conns : Forget(C) /\ UNCHANGED lastSeen
           \/ Restart /\ Forget(Conns)
<1> USE DEF storeVars, threadVars, sessionVars, histVars
<1>1. CASE World
  BY <1>1 DEF World, HearText, WebSend, HearOther, Capture, Housekeeping, Prune, Age, Insert
<1>2. CASE Threads
  <2>1. ASSUME Fanout \/ MirrorWeb
        PROVE  /\ Head(ready).seq \in Known
               /\ Deliver(Head(ready).seq, clients, {})
               /\ UNCHANGED <<pc, clients, live, last>>
    BY <2>1, QueueKnown DEF Fanout, MirrorWeb
  <2> QED BY <1>2, <2>1 DEF Threads, PostFanout, PostWeb
<1>3. CASE Restart
  BY <1>3 DEF Restart
<1>4. ASSUME NEW c \in Conns, App(c) \/ Handler(c), ~PostWake(c), ~Drop(c), ~Leave(c),
             ~LookUp(c), ~ReplayRow(c), ~GoLive(c), ~MirrorOwn(c)
      PROVE  /\ UNCHANGED <<lastSeen, wrote, cursor, pending>>
             /\ Join(c) \/ Connect(c) \/ AskConfig(c) \/ ServeConfig(c)
                  \/ CountBacklog(c) \/ SelectRows(c) \/ CompleteConfig(c)
                  \/ SendPacket(c) \/ Sent(c) \/ \E p \in AppPackets : StoreOwn(c, p)
  BY <1>4 DEF App, Handler, Connect, AskConfig, SendPacket, Join, ServeConfig, CountBacklog,
      SelectRows, CompleteConfig, Sent, StoreOwn
<1>5. ASSUME NEW c \in Conns, PostWake(c) \/ Drop(c)
      PROVE  UNCHANGED <<lastSeen, wrote, cursor, pending, pc, clients, live, last>>
  BY <1>5 DEF PostWake, Drop
<1>6. ASSUME NEW c \in Conns, Leave(c)
      PROVE  {c} \in SUBSET Conns /\ Forget({c}) /\ UNCHANGED lastSeen
  BY <1>6 DEF Leave
<1>7. ASSUME NEW c \in Conns, App(c) \/ Handler(c)
      PROVE  \/ UNCHANGED <<lastSeen, wrote, cursor, pending, pc, clients, live, last>>
             \/ /\ UNCHANGED <<lastSeen, wrote, cursor, pending>>
                /\ \E d \in Conns : Join(d) \/ Connect(d) \/ AskConfig(d) \/ ServeConfig(d)
                      \/ CountBacklog(d) \/ SelectRows(d) \/ CompleteConfig(d)
                      \/ SendPacket(d) \/ Sent(d) \/ \E p \in AppPackets : StoreOwn(d, p)
             \/ \E d \in Conns : LookUp(d) \/ ReplayRow(d) \/ GoLive(d) \/ MirrorOwn(d)
             \/ \E C \in SUBSET Conns : Forget(C) /\ UNCHANGED lastSeen
  BY <1>4, <1>5, <1>6, <1>7, Zenon
<1> QED BY <1>1, <1>2, <1>3, <1>7, Zenon DEF Next, Running

(* No step of the program takes a saved cursor back.                       *)
LEMMA SeenForward ==
    ASSUME NumbersKnown, [Next]_vars, NEW k \in Keys
    PROVE  lastSeen'[k] >= lastSeen[k] /\ (lastSeen[k] # NoRow => lastSeen'[k] # NoRow)
<1>1. lastSeen[k] \in Int /\ lastSeen[k] >= NoRow
  BY DEF NumbersKnown, StoreInv, Known, NoRow
<1>2. CASE UNCHANGED lastSeen
  BY <1>1, <1>2
<1>10. CASE Restart
  BY <1>2, <1>10, CrashSaves, MovedForward
<1>3. ASSUME NEW n \in Known, NEW S, NEW senders, Deliver(n, S, senders)
      PROVE  lastSeen'[k] >= lastSeen[k] /\ (lastSeen[k] # NoRow => lastSeen'[k] # NoRow)
  BY <1>3, MovedForward DEF Deliver, Give, Moving, KeysOf
<1>4. ASSUME NEW c \in Conns, LookUp(c)
      PROVE  lastSeen'[k] >= lastSeen[k] /\ (lastSeen[k] # NoRow => lastSeen'[k] # NoRow)
  BY <1>1, <1>4, SeenKnown DEF LookUp, FoundOrCreated, NoRow
<1>5. ASSUME NEW c \in Conns, GoLive(c)
      PROVE  lastSeen'[k] >= lastSeen[k] /\ (lastSeen[k] # NoRow => lastSeen'[k] # NoRow)
  BY <1>5, CoveredKnown, MovedForward DEF GoLive
<1>6. ASSUME NEW c \in Conns, MirrorOwn(c)
      PROVE  UNCHANGED lastSeen \/ (own[c] \in Known /\ Deliver(own[c], Others(c), {c}))
  BY <1>6 DEF MirrorOwn, NumbersKnown, SessionInv
<1>7. ASSUME NEW c \in Conns, ReplayRow(c)
      PROVE  UNCHANGED lastSeen
  BY <1>7 DEF ReplayRow, storeVars
<1>8. CASE UNCHANGED vars
  BY <1>2, <1>8 DEF vars, storeVars
<1>9. CASE Next
  <2>1. \/ UNCHANGED lastSeen
        \/ \E n \in Known : Deliver(n, clients, {})
        \/ \E c \in Conns : LookUp(c) \/ ReplayRow(c) \/ GoLive(c) \/ MirrorOwn(c)
        \/ Restart
    BY <1>9, DeliveryCases, Zenon
  <2> QED BY <2>1, <1>10, <1>2, <1>3, <1>4, <1>5, <1>6, <1>7, Zenon
<1> QED BY <1>8, <1>9

(* Whatever the sessions of one app do at the same time, its saved cursor  *)
(* never goes back.                                                        *)
THEOREM CursorsOnlyForward == Spec => CursorOnlyForward
<1>1. NumbersKnown /\ [Next]_vars
        => [\A k \in Keys : lastSeen[k] # NoRow => lastSeen'[k] >= lastSeen[k]]_vars
  BY SeenForward
<1> QED BY <1>1, NumbersAlwaysKnown, PTL DEF Spec, CursorOnlyForward

(* Deleted rows or not, a new message is numbered past every saved cursor. *)
THEOREM NewRowsPastAllCursors == Spec => NewRowsPastCursors
<1> DEFINE Past == \A r \in rows' : (\A q \in rows : q.seq # r.seq) => \A k \in Keys : r.seq > lastSeen[k]
<1>1. ASSUME NumbersKnown, [Next]_vars PROVE Past
  <2>1. \A k \in Keys : lastSeen[k] \in Int /\ lastSeen[k] <= lastSeq
    BY <1>1 DEF NumbersKnown, StoreInv, Known, NoRow
  <2>2. lastSeq \in Nat
    BY <1>1 DEF NumbersKnown, StoreInv
  <2>3. ASSUME NEW p, NEW o, Insert(p, o) PROVE Past
    <3>1. \A r \in rows' : r \in rows \/ r.seq = lastSeq + 1
      BY <2>3 DEF Insert, NextSeq
    <3> QED BY <2>1, <2>2, <3>1
  <2>4. CASE UNCHANGED rows
    BY <2>4
  <2>5. CASE Prune
    BY <2>5 DEF Prune
  <2>6. CASE Age
    <3>1. PICK r \in rows : rows' = (rows \ {r}) \cup {[r EXCEPT !.fresh = FALSE]}
      BY <2>6 DEF Age
    <3>2. [r EXCEPT !.fresh = FALSE].seq = r.seq
      BY <1>1 DEF NumbersKnown, StoreInv, Row
    <3> QED BY <3>1, <3>2
  <2>7. \/ UNCHANGED rows \/ Prune \/ Age
        \/ \E p \in MeshPackets : Insert(p, "mesh")
        \/ \E p \in AppPackets : Insert(p, "webui")
        \/ \E c \in Conns, p \in AppPackets : Insert(p, KeyOf[c])
    <3>1. CASE World
      BY <3>1 DEF World, HearText, WebSend, HearOther, Capture, Housekeeping, storeVars
    <3>2. CASE Threads
      BY <3>2 DEF Threads, PostFanout, Fanout, PostWeb, MirrorWeb, storeVars
    <3>3. ASSUME NEW c \in Conns, App(c) \/ Handler(c)
          PROVE  UNCHANGED rows \/ \E p \in AppPackets : Insert(p, KeyOf[c])
      BY <3>3 DEF App, Connect, AskConfig, SendPacket, Drop, Handler, LookUp, PostWake, Join,
         ServeConfig, CountBacklog, SelectRows, CompleteConfig, ReplayRow, GoLive, StoreOwn,
         MirrorOwn, Sent, Leave, storeVars
    <3>4. CASE Restart \/ UNCHANGED vars
      BY <3>4 DEF Restart, vars, storeVars
    <3> QED BY <1>1, <3>1, <3>2, <3>3, <3>4 DEF Next, Running
  <2> QED BY <2>3, <2>4, <2>5, <2>6, <2>7
<1>2. NumbersKnown /\ [Next]_vars => [Past]_vars
  BY <1>1
<1> QED BY <1>2, NumbersAlwaysKnown, PTL DEF Spec, NewRowsPastCursors

-----------------------------------------------------------------------------
(* The saved cursors keep up with those of the sessions.                   *)

Registered == Pcs \ {"off", "opening"}   \* the session has its key's row

SavedInv ==
    /\ \A c \in Conns : pc[c] \in Registered =>
           lastSeen[KeyOf[c]] # NoRow /\ cursor[c] <= lastSeen[KeyOf[c]]
    /\ \A c \in clients : pc[c] \in Registered

(* A delivery that is not cut short moves a session's and its saved one.   *)
LEMMA DeliverSaves ==
    ASSUME NumbersKnown, SavedInv, NEW n \in Known, NEW senders \in SUBSET Conns,
           NEW S \in SUBSET clients, Deliver(n, S, senders),
           \A c \in senders : pc[c] \in Registered, UNCHANGED clients,
           \A c \in Conns : pc'[c] \in Registered => pc[c] \in Registered,
           \A c \in clients : pc'[c] \in Registered
    PROVE  SavedInv'
<1> DEFINE movers == senders \cup Moving(n, Receiving(S))
<1>1. /\ cursor' = [c \in Conns |-> IF c \in movers THEN Larger(cursor[c], n) ELSE cursor[c]]
      /\ lastSeen' = Moved({KeyOf[c] : c \in movers}, n)
  BY DEF Deliver, KeysOf
<1>2. movers \subseteq Conns
  BY DEF Moving, Receiving, NumbersKnown, SessionInv
<1> HIDE DEF movers
<1>3. ASSUME NEW c \in Conns, pc'[c] \in Registered
      PROVE  lastSeen'[KeyOf[c]] # NoRow /\ cursor'[c] <= lastSeen'[KeyOf[c]]
  <2>1. /\ KeyOf[c] \in Keys /\ cursor[c] \in Int /\ n \in Int
        /\ lastSeen[KeyOf[c]] # NoRow /\ cursor[c] <= lastSeen[KeyOf[c]]
        /\ lastSeen[KeyOf[c]] \in Int /\ lastSeen'[KeyOf[c]] \in Int
    BY <1>1, <1>3, ServerAssumption, MovedKnown
    DEF SavedInv, NumbersKnown, SessionInv, StoreInv, Known, NoRow
  <2>2. /\ lastSeen'[KeyOf[c]] >= lastSeen[KeyOf[c]]
        /\ lastSeen'[KeyOf[c]] # NoRow
        /\ c \in movers => lastSeen'[KeyOf[c]] >= n
    BY <1>1, <2>1, MovedForward
  <2>3. cursor'[c] = IF c \in movers THEN Larger(cursor[c], n) ELSE cursor[c]
    BY <1>1
  <2> QED BY <2>1, <2>2, <2>3 DEF Larger
<1> QED BY <1>3 DEF SavedInv

(* A step that changes no cursor and registers nobody keeps them.          *)
LEMMA SavedSame ==
    ASSUME SavedInv, UNCHANGED <<lastSeen, cursor>>,
           \A d \in Conns : pc'[d] \in Registered => pc[d] \in Registered,
           \A d \in clients' : pc'[d] \in Registered
    PROVE  SavedInv'
<1>1. ASSUME NEW d \in Conns, pc'[d] \in Registered
      PROVE  lastSeen'[KeyOf[d]] # NoRow /\ cursor'[d] <= lastSeen'[KeyOf[d]]
  <2>1. lastSeen[KeyOf[d]] # NoRow /\ cursor[d] <= lastSeen[KeyOf[d]]
    BY <1>1, Zenon DEF SavedInv
  <2> QED BY <2>1
<1> QED BY <1>1, Zenon DEF SavedInv

(* No step leaves a session's own cursor ahead of the saved one.           *)
LEMMA SavedStep == ASSUME NumbersKnown, SavedInv, [Next]_vars PROVE SavedInv'
<1>1. CASE UNCHANGED <<lastSeen, cursor, pc, clients>>
  BY <1>1 DEF SavedInv
<1>2. ASSUME UNCHANGED <<lastSeen, cursor>>, NEW c \in Conns,
             Join(c) \/ Connect(c) \/ AskConfig(c) \/ ServeConfig(c) \/ CountBacklog(c)
               \/ SelectRows(c) \/ CompleteConfig(c) \/ SendPacket(c) \/ Sent(c)
               \/ \E p \in AppPackets : StoreOwn(c, p)
      PROVE  SavedInv'
  <2>1. pc \in [Conns -> Pcs] /\ Registered = Pcs \ {"off", "opening"}
    BY DEF NumbersKnown, SessionInv, Registered
  <2>5. clients \subseteq Conns /\ \A d \in clients : pc[d] \in Registered
    BY DEF SavedInv, NumbersKnown, SessionInv
  <2>2. CASE Join(c)
    <3>1. \A d \in Conns : pc'[d] \in Registered <=> pc[d] \in Registered
      BY <2>1, <2>2 DEF Join, Pcs
    <3>2. \A d \in clients' : pc'[d] \in Registered
      BY <2>1, <2>2, <3>1 DEF Join, Pcs, SavedInv
    <3> QED BY <1>2, <3>1, <3>2, SavedSame
  <2>3. CASE Connect(c) \/ AskConfig(c) \/ ServeConfig(c) \/ CountBacklog(c) \/ SelectRows(c)
    <3>1. \A d \in Conns : pc'[d] \in Registered => pc[d] \in Registered
      BY <2>1, <2>3 DEF Connect, AskConfig, ServeConfig, CountBacklog, SelectRows, Pcs
    <3>2. \A d \in Conns : pc[d] \in Registered => pc'[d] \in Registered
      BY <2>1, <2>3 DEF Connect, AskConfig, ServeConfig, CountBacklog, SelectRows, Pcs
    <3>3. clients' \subseteq clients
      BY <2>3 DEF Connect, AskConfig, ServeConfig, CountBacklog, SelectRows
    <3>4. \A d \in clients' : pc'[d] \in Registered
      BY <3>2, <3>3, <2>5
    <3> QED BY <1>2, <3>1, <3>4, SavedSame
  <2>4. CASE CompleteConfig(c) \/ SendPacket(c) \/ Sent(c) \/ \E p \in AppPackets : StoreOwn(c, p)
    <3>1. \A d \in Conns : pc'[d] \in Registered <=> pc[d] \in Registered
      BY <2>1, <2>4 DEF CompleteConfig, SendPacket, Sent, StoreOwn, Pcs
    <3>2. clients' = clients
      BY <2>4 DEF CompleteConfig, SendPacket, Sent, StoreOwn
    <3>4. \A d \in clients' : pc'[d] \in Registered
      BY <3>1, <3>2, <2>5
    <3> QED BY <1>2, <3>1, <3>4, SavedSame
  <2> QED BY <1>2, <2>2, <2>3, <2>4
<1>3. ASSUME NEW n \in Known, Deliver(n, clients, {}), UNCHANGED <<pc, clients>>
      PROVE  SavedInv'
  BY <1>3, DeliverSaves DEF SavedInv
<1>4. ASSUME NEW c \in Conns, LookUp(c) PROVE SavedInv'
  <2>1. KeyOf[c] \in Keys
    BY ServerAssumption
  <2>2. \A k \in Keys : lastSeen'[k] >= lastSeen[k] /\ (lastSeen[k] # NoRow => lastSeen'[k] # NoRow)
    BY <1>4, SeenForward DEF Next, Running, Handler
  <2>3. FoundOrCreated(KeyOf[c]) \in Known
    BY <2>1 DEF FoundOrCreated, NumbersKnown, StoreInv, Known
  <2>4. ASSUME NEW d \in Conns, pc'[d] \in Registered
        PROVE  lastSeen'[KeyOf[d]] # NoRow /\ cursor'[d] <= lastSeen'[KeyOf[d]]
    <3>1. KeyOf[d] \in Keys
      BY ServerAssumption
    <3>2. CASE d = c
      BY <1>4, <2>1, <2>3, <3>2 DEF LookUp, NumbersKnown, StoreInv, SessionInv, Known, NoRow
    <3>3. CASE d # c
      <4>1. pc'[d] = pc[d] /\ cursor'[d] = cursor[d]
        BY <1>4, <3>3 DEF LookUp, NumbersKnown, SessionInv
      <4>2. lastSeen[KeyOf[d]] # NoRow /\ cursor[d] <= lastSeen[KeyOf[d]]
        BY <2>4, <4>1 DEF SavedInv
      <4>3. cursor[d] \in Int /\ lastSeen[KeyOf[d]] \in Int /\ lastSeen'[KeyOf[d]] \in Int
        BY <1>4, <2>1, <2>3, <3>1 DEF LookUp, NumbersKnown, StoreInv, SessionInv, Known, NoRow
      <4> QED BY <2>2, <3>1, <4>1, <4>2, <4>3
    <3> QED BY <3>2, <3>3
  <2>5. \A d \in clients' : pc'[d] \in Registered
    BY <1>4 DEF LookUp, SavedInv, Registered, Pcs, NumbersKnown, SessionInv
  <2> QED BY <2>4, <2>5 DEF SavedInv
<1>5. ASSUME NEW c \in Conns, ReplayRow(c) PROVE SavedInv'
  BY <1>1, <1>5 DEF ReplayRow, storeVars
<1>6. ASSUME NEW c \in Conns, GoLive(c) PROVE SavedInv'
  <2>1. Covered(c) \in Known /\ KeyOf[c] \in Keys
    BY CoveredKnown, ServerAssumption
  <2>2. /\ cursor' = [cursor EXCEPT ![c] = Covered(c)]
        /\ lastSeen' = Moved({KeyOf[c]}, Covered(c))
        /\ pc' = [pc EXCEPT ![c] = "read"] /\ pc[c] = "replay" /\ UNCHANGED clients
    BY <1>6 DEF GoLive
  <2>3. ASSUME NEW d \in Conns, pc'[d] \in Registered
        PROVE  lastSeen'[KeyOf[d]] # NoRow /\ cursor'[d] <= lastSeen'[KeyOf[d]]
    <3>1. pc[d] \in Registered /\ KeyOf[d] \in Keys
      BY <2>2, <2>3, ServerAssumption DEF Registered, Pcs, NumbersKnown, SessionInv
    <3>2. /\ lastSeen[KeyOf[d]] # NoRow /\ cursor[d] <= lastSeen[KeyOf[d]]
          /\ cursor[d] \in Int /\ lastSeen[KeyOf[d]] \in Int /\ lastSeen'[KeyOf[d]] \in Int
      <4>1. lastSeen' \in [Keys -> Known \cup {NoRow}]
        BY <2>1, <2>2, MovedKnown
      <4>2. \A k \in Keys : lastSeen[k] \in Int /\ lastSeen'[k] \in Int
        BY <4>1 DEF NumbersKnown, StoreInv, Known, NoRow
      <4>3. cursor[d] \in Int
        BY DEF NumbersKnown, SessionInv, Known
      <4> QED BY <3>1, <4>2, <4>3 DEF SavedInv
    <3>3. /\ lastSeen'[KeyOf[d]] >= lastSeen[KeyOf[d]] /\ lastSeen'[KeyOf[d]] # NoRow
          /\ d = c => lastSeen'[KeyOf[d]] >= Covered(c)
      BY <2>1, <2>2, <3>1, <3>2, MovedForward
    <3>4. cursor'[d] = IF d = c THEN Covered(c) ELSE cursor[d]
      BY <2>2 DEF NumbersKnown, SessionInv
    <3> QED BY <2>1, <3>2, <3>3, <3>4 DEF Known
  <2>4. \A d \in clients' : pc'[d] \in Registered
    BY <2>2 DEF SavedInv, Registered, Pcs, NumbersKnown, SessionInv
  <2> QED BY <2>3, <2>4 DEF SavedInv
<1>7. ASSUME NEW c \in Conns, MirrorOwn(c) PROVE SavedInv'
  <2>1. /\ pc[c] = "stored" /\ pc' = [pc EXCEPT ![c] = "sending"] /\ UNCHANGED clients
        /\ own[c] \in Known /\ Others(c) \in SUBSET clients
    BY <1>7 DEF MirrorOwn, Others, NumbersKnown, SessionInv
  <2>2. /\ \A d \in Conns : pc'[d] \in Registered => pc[d] \in Registered
        /\ \A d \in clients : pc'[d] \in Registered
        /\ pc[c] \in Registered
    BY <2>1 DEF SavedInv, Registered, Pcs, NumbersKnown, SessionInv
  <2>3. CASE Deliver(own[c], Others(c), {c})
    BY <2>1, <2>2, <2>3, DeliverSaves
  <2>4. CASE UNCHANGED <<cursor, lastSeen>>
    BY <2>1, <2>2, <2>4 DEF SavedInv
  <2> QED BY <1>7, <2>3, <2>4 DEF MirrorOwn
<1>8. ASSUME NEW C \in SUBSET Conns, Forget(C), UNCHANGED lastSeen PROVE SavedInv'
  BY <1>8 DEF Forget, SavedInv, Registered, Pcs, NumbersKnown, SessionInv
<1>9. CASE UNCHANGED vars
  BY <1>1, <1>9 DEF vars, storeVars, sessionVars
<1>10. ASSUME Forget(Conns) PROVE SavedInv'
  BY <1>10 DEF Forget, SavedInv, Registered, NumbersKnown, SessionInv
<1> QED BY <1>1, <1>2, <1>3, <1>4, <1>5, <1>6, <1>7, <1>8, <1>9, <1>10, DeliveryCases, Zenon

(* A session's cursor is never ahead of the saved one.                     *)
LEMMA SavedAlways == Spec => []SavedInv
<1>1. Init => SavedInv
  BY DEF Init, SavedInv, Registered
<1>2. NumbersKnown /\ SavedInv /\ [Next]_vars => SavedInv'
  BY SavedStep
<1> QED BY <1>1, <1>2, NumbersAlwaysKnown, PTL DEF Spec

-----------------------------------------------------------------------------
(* The handshake and the queue behind it.                                  *)

InHandshake == {"asked", "count", "select", "selected", "replay"}

QueueInv ==
    /\ \A c \in Conns : live[c] => pending[c] = <<>>
    /\ \A c \in Conns : pc[c] \in InHandshake => ~live[c]

(* A delivery puts a message in the queue of a session in its handshake.   *)
LEMMA DeliverQueues ==
    ASSUME NumbersKnown, QueueInv, NEW n, NEW S, NEW senders, Deliver(n, S, senders),
           UNCHANGED live, \A c \in Conns : pc'[c] \in InHandshake => pc[c] \in InHandshake
    PROVE  QueueInv'
<1>1. \A c \in Conns : live[c] => pending'[c] = pending[c]
  BY DEF Deliver, Give, Moving, KeysOf, Queueing, NumbersKnown, SessionInv
<1> QED BY <1>1 DEF QueueInv

(* No step leaves a live session with a queue or a handshake marked live.  *)
LEMMA QueueStep == ASSUME NumbersKnown, QueueInv, [Next]_vars PROVE QueueInv'
<1>1. CASE UNCHANGED <<pending, pc, live>>
  BY <1>1 DEF QueueInv
<1>2. ASSUME UNCHANGED pending, NEW c \in Conns,
             Join(c) \/ Connect(c) \/ AskConfig(c) \/ ServeConfig(c) \/ CountBacklog(c)
               \/ SelectRows(c) \/ CompleteConfig(c) \/ SendPacket(c) \/ Sent(c)
               \/ \E p \in AppPackets : StoreOwn(c, p)
      PROVE  QueueInv'
  BY <1>2 DEF QueueInv, InHandshake, Join, Connect, AskConfig, ServeConfig, CountBacklog,
     SelectRows, CompleteConfig, SendPacket, Sent, StoreOwn, NumbersKnown, SessionInv
<1>3. ASSUME NEW n \in Known, Deliver(n, clients, {}), UNCHANGED <<pc, live>>
      PROVE  QueueInv'
  BY <1>3, DeliverQueues
<1>4. ASSUME NEW c \in Conns, LookUp(c) \/ ReplayRow(c)
      PROVE  QueueInv'
  BY <1>4 DEF QueueInv, InHandshake, LookUp, ReplayRow, NumbersKnown, SessionInv
<1>5. ASSUME NEW c \in Conns, GoLive(c) PROVE QueueInv'
  BY <1>5 DEF QueueInv, InHandshake, GoLive, NumbersKnown, SessionInv
<1>6. ASSUME NEW c \in Conns, MirrorOwn(c) PROVE QueueInv'
  <2>1. /\ UNCHANGED live
        /\ \A d \in Conns : pc'[d] \in InHandshake => pc[d] \in InHandshake
    BY <1>6 DEF MirrorOwn, InHandshake, NumbersKnown, SessionInv
  <2>2. CASE Deliver(own[c], Others(c), {c})
    BY <2>1, <2>2, DeliverQueues
  <2>3. CASE UNCHANGED pending
    BY <2>1, <2>3 DEF QueueInv
  <2> QED BY <1>6, <2>2, <2>3 DEF MirrorOwn
<1>7. ASSUME NEW C \in SUBSET Conns, Forget(C) PROVE QueueInv'
  BY <1>7 DEF Forget, QueueInv, InHandshake, NumbersKnown, SessionInv
<1>8. CASE UNCHANGED vars
  BY <1>1, <1>8 DEF vars, sessionVars
<1> QED BY <1>1, <1>2, <1>3, <1>4, <1>5, <1>6, <1>7, <1>8, DeliveryCases, Zenon

(* A live session never has queued messages, in any reachable state.       *)
LEMMA QueueAlways == Spec => []QueueInv
<1>1. Init => QueueInv
  BY DEF Init, QueueInv, InHandshake
<1>2. NumbersKnown /\ QueueInv /\ [Next]_vars => QueueInv'
  BY QueueStep
<1> QED BY <1>1, <1>2, NumbersAlwaysKnown, PTL DEF Spec

(* A live session has nothing left in the queue nobody reads any more. *)
THEOREM LiveSessionsFlushed == Spec => []LiveHasNoBacklog
<1>1. QueueInv => LiveHasNoBacklog
  BY DEF QueueInv, LiveHasNoBacklog
<1> QED BY <1>1, QueueAlways, PTL

(* No stored or live traffic is written between want_config_id and         *)
(* config_complete, whatever arrives meanwhile.                            *)
THEOREM HandshakeStaysQuiet == Spec => QuietHandshake
<1> DEFINE Quiet == \A c \in Conns :
                pc[c] \in {"asked", "count", "select", "selected"} /\ c \in clients'
                    => wrote'[c] = wrote[c]
<1>1. ASSUME NumbersKnown, QueueInv, [Next]_vars PROVE Quiet
  <2>1. CASE UNCHANGED wrote
    BY <2>1
  <2>2. ASSUME NEW n, NEW S, NEW senders, Deliver(n, S, senders) PROVE Quiet
    BY <1>1, <2>2
    DEF Deliver, Give, Moving, KeysOf, Receiving, QueueInv, InHandshake, NumbersKnown, HistoryInv
  <2>3. ASSUME NEW c \in Conns, ReplayRow(c) \/ GoLive(c) PROVE Quiet
    BY <1>1, <2>3 DEF ReplayRow, GoLive, Write, NumbersKnown, HistoryInv
  <2>4. ASSUME NEW c \in Conns, LookUp(c) PROVE Quiet
    BY <2>4 DEF LookUp, histVars
  <2>5. ASSUME NEW c \in Conns, MirrorOwn(c) PROVE Quiet
    BY <2>1, <2>2, <2>5 DEF MirrorOwn
  <2>6. ASSUME NEW C \in SUBSET Conns, Forget(C) PROVE Quiet
    BY <2>6 DEF Forget
  <2>7. CASE UNCHANGED vars
    BY <2>1, <2>7 DEF vars, histVars
  <2> QED BY <1>1, <2>1, <2>2, <2>3, <2>4, <2>5, <2>6, <2>7, DeliveryCases, Zenon
<1>2. NumbersKnown /\ QueueInv /\ [Next]_vars => [Quiet]_vars
  BY <1>1
<1> QED BY <1>2, NumbersAlwaysKnown, QueueAlways, PTL DEF Spec, QuietHandshake

-----------------------------------------------------------------------------
(* What a crash repeats.                                                   *)

(* All that session c was written is behind its cursor, or behind what its *)
(* replay has reached.                                                     *)
ShownOf(c) ==
    /\ live[c] => pc[c] \in Registered
    /\ pc[c] \in {"off", "opening"} => wrote[c] = <<>>
    /\ pc[c] \in {"count", "select", "selected", "replay"} => cursor[c] <= last[c]
    /\ \A n \in Range(wrote[c]) : n <= cursor[c] \/ (pc[c] = "replay" /\ n <= last[c])

ShownInv == \A c \in Conns : ShownOf(c)

(* What is appended to a sequence is all that comes to its range. *)
LEMMA RangeAppended ==
    ASSUME NEW S, NEW s \in Seq(S), NEW t \in Seq(S)
    PROVE  /\ Range(s \o t) \subseteq Range(s) \cup Range(t)
           /\ \A e \in S : Range(Append(s, e)) \subseteq Range(s) \cup {e}
           /\ Range(<<>>) = {}
<1>1. Range(s \o t) \subseteq Range(s) \cup Range(t)
  BY ConcatProperties, LenProperties DEF Range
<1>2. \A e \in S : Range(Append(s, e)) \subseteq Range(s) \cup {e}
  BY AppendProperties, LenProperties DEF Range
<1>3. Range(<<>>) = {}
  BY DEF Range
<1> QED BY <1>1, <1>2, <1>3

(* A delivery moves the cursor of each session it writes to. *)
LEMMA DeliverShows ==
    ASSUME NumbersKnown, QueueInv, NEW n \in Known, NEW S, NEW senders, Deliver(n, S, senders),
           UNCHANGED <<live, last>>, NEW c \in Conns, ShownOf(c), c \in senders => pc[c] = "stored",
           pc'[c] = pc[c] \/ (pc[c] = "stored" /\ pc'[c] = "sending")
    PROVE  ShownOf(c)'
<1> DEFINE movers == senders \cup Moving(n, Receiving(S))
<1>1. /\ cursor[c] \in Int /\ last[c] \in Int /\ n \in Int /\ wrote[c] \in Seq(Known)
      /\ Known \subseteq Int
  BY DEF NumbersKnown, SessionInv, HistoryInv, StoreInv, Known
<1>2. /\ cursor'[c] = IF c \in movers THEN Larger(cursor[c], n) ELSE cursor[c]
      /\ wrote'[c] = IF c \in Receiving(S) THEN Append(wrote[c], n) ELSE wrote[c]
  BY DEF Deliver
<1>3. /\ c \in Receiving(S) => live[c] /\ pc[c] \notin InHandshake /\ (c \in movers \/ n <= cursor[c])
      /\ c \in movers => c \in Receiving(S) \/ pc[c] = "stored"
  BY <1>1 DEF Receiving, Moving, QueueInv
<1>4. /\ live'[c] => pc'[c] \in Registered
      /\ pc'[c] \in {"off", "opening"} => wrote'[c] = <<>>
  BY <1>2, <1>3 DEF ShownOf, Registered, Pcs
<1> HIDE DEF movers
<1>5. cursor'[c] \in Int /\ cursor'[c] >= cursor[c] /\ (c \in Receiving(S) => n <= cursor'[c])
  BY <1>1, <1>2, <1>3 DEF Larger
<1>6. pc'[c] \in {"count", "select", "selected", "replay"} => cursor'[c] <= last'[c]
  BY <1>2, <1>3 DEF ShownOf, InHandshake
<1>7. \A m \in Range(wrote'[c]) : m <= cursor'[c] \/ (pc'[c] = "replay" /\ m <= last'[c])
  <2> SUFFICES ASSUME NEW m \in Range(wrote'[c]) PROVE m <= cursor'[c] \/ (pc'[c] = "replay" /\ m <= last'[c])
    OBVIOUS
  <2>1. m \in Range(wrote[c]) \/ (c \in Receiving(S) /\ m = n)
    BY <1>1, <1>2, RangeAppended
  <2>2. Range(wrote[c]) \subseteq Known
    BY <1>1, ElementOfSeq, LenProperties DEF Range
  <2>3. CASE m \in Range(wrote[c])
    <3>1. m <= cursor[c] \/ (pc[c] = "replay" /\ m <= last[c])
      BY <2>3 DEF ShownOf
    <3>2. m \in Int /\ last'[c] = last[c] /\ (pc[c] = "replay" => pc'[c] = "replay")
      BY <1>1, <2>2, <2>3
    <3> QED BY <1>1, <1>5, <3>1, <3>2
  <2> QED BY <1>5, <2>1, <2>3
<1> QED BY <1>4, <1>6, <1>7 DEF ShownOf

(* The replay of a row, and the flush, move what they write behind them. *)
LEMMA ReplayShows ==
    ASSUME NumbersKnown, QueueInv, NEW c \in Conns, ShownOf(c), ReplayRow(c) \/ GoLive(c)
    PROVE  ShownOf(c)'
<1>1. /\ cursor[c] \in Int /\ last[c] \in Int /\ wrote[c] \in Seq(Known) /\ Known \subseteq Int
      /\ Range(wrote[c]) \subseteq Int /\ pc[c] = "replay" /\ cursor[c] <= last[c] /\ ~live[c]
  <2>1. wrote[c] \in Seq(Known)
    BY DEF NumbersKnown, HistoryInv
  <2>2. Range(wrote[c]) \subseteq Known
    BY <2>1, ElementOfSeq, LenProperties DEF Range
  <2>3. pc[c] = "replay"
    BY DEF ReplayRow, GoLive
  <2> QED BY <2>1, <2>2, <2>3 DEF NumbersKnown, SessionInv, StoreInv, Known, QueueInv, InHandshake, ShownOf
<1>2. CASE ReplayRow(c)
  <2>1. NextRow(c) \in Known
    BY <1>2, NextRowKnown DEF ReplayRow
  <2>2. /\ wrote'[c] = wrote[c] \o <<NextRow(c)>> /\ last'[c] = Larger(last[c], NextRow(c))
        /\ pc'[c] = "replay" /\ cursor'[c] = cursor[c] /\ ~live'[c]
    BY <1>1, <1>2 DEF ReplayRow, Write, NumbersKnown, SessionInv, HistoryInv
  <2>3. Range(wrote'[c]) \subseteq Range(wrote[c]) \cup {NextRow(c)}
    <3>1. <<NextRow(c)>> \in Seq(Known) /\ Range(<<NextRow(c)>>) = {NextRow(c)}
      BY <2>1 DEF Range
    <3> DEFINE t == <<NextRow(c)>>
    <3>2. wrote'[c] = wrote[c] \o t /\ t \in Seq(Known) /\ Range(t) = {NextRow(c)}
      BY <2>2, <3>1
    <3> HIDE DEF t
    <3>3. Range(wrote[c] \o t) \subseteq Range(wrote[c]) \cup Range(t)
      BY <1>1, <3>2, RangeAppended
    <3> QED BY <3>2, <3>3
  <2>4. /\ last'[c] \in Int /\ last'[c] >= last[c] /\ last'[c] >= NextRow(c)
    <3>1. NextRow(c) \in Int
      BY <1>1, <2>1
    <3>2. last'[c] = Larger(last[c], NextRow(c))
      BY <2>2
    <3> HIDE DEF NextRow
    <3> QED BY <1>1, <3>1, <3>2 DEF Larger
  <2>5. \A m \in Range(wrote'[c]) : m <= last'[c]
    BY <1>1, <2>1, <2>3, <2>4 DEF ShownOf
  <2> QED BY <1>1, <2>2, <2>4, <2>5 DEF ShownOf
<1>3. CASE GoLive(c)
  <2>1. /\ wrote'[c] = wrote[c] \o Flushed(c) /\ cursor'[c] = Covered(c)
        /\ pc'[c] = "read"
    BY <1>3 DEF GoLive, Write, NumbersKnown, SessionInv, HistoryInv
  <2>2. /\ Covered(c) \in Int /\ Covered(c) >= last[c] /\ Flushed(c) \in Seq(Known)
        /\ \A m \in Range(Flushed(c)) : Covered(c) >= m
    <3>1. \A m \in Range(pending[c]) : Covered(c) >= m
      BY CoveredKnown DEF Range
    <3> QED BY <1>1, <3>1, CoveredKnown, FlushedKnown, FlushedPending
  <2>3. Range(wrote'[c]) \subseteq Range(wrote[c]) \cup Range(Flushed(c))
    BY <1>1, <2>1, <2>2, RangeAppended
  <2>4. \A m \in Range(wrote'[c]) : m <= cursor'[c]
    <3>1. \A m \in Range(wrote[c]) : m <= Covered(c)
      BY <1>1, <2>2 DEF ShownOf
    <3>2. \A m \in Range(Flushed(c)) : m <= Covered(c)
      <4>1. Range(Flushed(c)) \subseteq Int
        BY <1>1, <2>2, ElementOfSeq, LenProperties DEF Range
      <4> QED BY <2>2, <4>1
    <3> QED BY <2>1, <2>3, <3>1, <3>2
  <2> QED BY <2>1, <2>4 DEF ShownOf, Registered, Pcs
<1> QED BY <1>2, <1>3

(* No step writes a message past both. *)
LEMMA ShownStep == ASSUME NumbersKnown, QueueInv, ShownInv, [Next]_vars PROVE ShownInv'
<1>1. ASSUME NEW d \in Conns, UNCHANGED <<wrote, cursor>>,
             Join(d) \/ Connect(d) \/ AskConfig(d) \/ ServeConfig(d) \/ CountBacklog(d)
               \/ SelectRows(d) \/ CompleteConfig(d) \/ SendPacket(d) \/ Sent(d)
               \/ \E p \in AppPackets : StoreOwn(d, p)
      PROVE  ShownInv'
  <2> SUFFICES ASSUME NEW c \in Conns PROVE ShownOf(c)'
    BY DEF ShownInv
  <2> USE DEF sessionVars
  <2>1. /\ pc \in [Conns -> Pcs] /\ live \in [Conns -> BOOLEAN] /\ last \in [Conns -> Known]
        /\ cursor[c] \in Int /\ cursor'[c] = cursor[c] /\ wrote'[c] = wrote[c] /\ ShownOf(c)
    BY <1>1 DEF NumbersKnown, SessionInv, ShownInv, Known, StoreInv
  <2>2. CASE c # d
    <3>1. pc'[c] = pc[c] /\ live'[c] = live[c] /\ last'[c] = last[c]
      BY <1>1, <2>1, <2>2 DEF Join, Connect, AskConfig, ServeConfig, CountBacklog, SelectRows,
         CompleteConfig, SendPacket, Sent, StoreOwn
    <3> QED BY <2>1, <3>1 DEF ShownOf
  <2>3. CASE c = d
    <3>1. CASE Connect(c)
      BY <2>1, <3>1 DEF Connect, ShownOf, Registered
    <3>2. CASE ServeConfig(c)
      BY <2>1, <3>2 DEF ServeConfig, ShownOf, Registered, Pcs
    <3>3. CASE Join(c) \/ AskConfig(c) \/ CountBacklog(c) \/ SelectRows(c) \/ CompleteConfig(c)
      BY <2>1, <3>3 DEF Join, AskConfig, CountBacklog, SelectRows, CompleteConfig, ShownOf,
         Registered, Pcs
    <3>4. CASE SendPacket(c) \/ Sent(c) \/ \E p \in AppPackets : StoreOwn(c, p)
      BY <2>1, <3>4 DEF SendPacket, Sent, StoreOwn, ShownOf, Registered, Pcs
    <3> QED BY <1>1, <2>3, <3>1, <3>2, <3>3, <3>4
  <2> QED BY <2>2, <2>3
<1>2. CASE UNCHANGED <<wrote, cursor, pc, live, last>>
  BY <1>2 DEF ShownInv, ShownOf
<1>3. ASSUME NEW n \in Known, Deliver(n, clients, {}), UNCHANGED <<pc, live, last>>
      PROVE  ShownInv'
  BY <1>3, DeliverShows DEF ShownInv
<1>4. ASSUME NEW d \in Conns, LookUp(d) PROVE ShownInv'
  <2> SUFFICES ASSUME NEW c \in Conns PROVE ShownOf(c)'
    BY DEF ShownInv
  <2>1. ShownOf(c) /\ UNCHANGED <<wrote, live, last>>
        /\ (c # d => pc'[c] = pc[c] /\ cursor'[c] = cursor[c])
        /\ (c = d => pc[c] = "opening" /\ pc'[c] = "opened")
    BY <1>4 DEF ShownInv, LookUp, histVars, NumbersKnown, SessionInv
  <2>2. Range(<<>>) = {}
    BY DEF Range
  <2> QED BY <2>1, <2>2 DEF ShownOf, Registered, Pcs
<1>5. ASSUME NEW d \in Conns, ReplayRow(d) \/ GoLive(d) PROVE ShownInv'
  <2> SUFFICES ASSUME NEW c \in Conns, c # d PROVE ShownOf(c)'
    BY <1>5, ReplayShows DEF ShownInv
  <2>1. /\ wrote'[c] = wrote[c] /\ cursor'[c] = cursor[c] /\ pc'[c] = pc[c] /\ live'[c] = live[c]
        /\ last'[c] = last[c] /\ ShownOf(c)
    BY <1>5 DEF ReplayRow, GoLive, Write, ShownInv, NumbersKnown, SessionInv, HistoryInv
  <2> QED BY <2>1 DEF ShownOf
<1>6. ASSUME NEW d \in Conns, MirrorOwn(d) PROVE ShownInv'
  <2> SUFFICES ASSUME NEW c \in Conns PROVE ShownOf(c)'
    BY DEF ShownInv
  <2>1. /\ own[d] \in Known /\ UNCHANGED <<live, last>> /\ pc[d] = "stored" /\ ShownOf(c)
        /\ pc'[c] = pc[c] \/ (pc[c] = "stored" /\ pc'[c] = "sending")
    BY <1>6 DEF MirrorOwn, ShownInv, NumbersKnown, SessionInv
  <2>2. CASE Deliver(own[d], Others(d), {d})
    BY <2>1, <2>2, DeliverShows
  <2>3. CASE UNCHANGED <<cursor, wrote>>
    BY <2>1, <2>3 DEF ShownOf, Registered, Pcs
  <2> QED BY <1>6, <2>2, <2>3 DEF MirrorOwn
<1>7. ASSUME NEW C \in SUBSET Conns, Forget(C) PROVE ShownInv'
  <2> SUFFICES ASSUME NEW c \in Conns PROVE ShownOf(c)'
    BY DEF ShownInv
  <2>1. Range(<<>>) = {}
    BY DEF Range
  <2>2. CASE c \in C
    BY <1>7, <2>1, <2>2 DEF Forget, ShownOf
  <2>3. CASE c \notin C
    BY <1>7, <2>3 DEF Forget, ShownOf, ShownInv, NumbersKnown, SessionInv
  <2> QED BY <2>2, <2>3
<1>8. CASE UNCHANGED vars
  BY <1>2, <1>8 DEF vars, sessionVars, histVars
<1> QED BY <1>1, <1>2, <1>3, <1>4, <1>5, <1>6, <1>7, <1>8, DeliveryCases, Zenon

(* The one message a crash can leave given and not counted is the one the  *)
(* last write, to session c, was of.                                       *)
LEMMA CrashAgain ==
    ASSUME NumbersKnown, SavedInv, QueueInv, ShownInv, Restart,
           NEW k \in Keys, ~Replaying(k), NEW m \in Again(k)
    PROVE  m \in handed'[k] \ handed[k] /\ m > lastSeen'[k]
<1>1. lastSeen'[k] \in Int /\ lastSeen[k] \in Int /\ lastSeen'[k] >= lastSeen[k]
  <2>1. lastSeen' \in [Keys -> Known \cup {NoRow}]
    BY CrashSaves
  <2> QED BY <2>1, SeenForward DEF Next, NumbersKnown, StoreInv, Known, NoRow
<1>2. ASSUME NEW c \in Conns, live[c], KeyOf[c] = k, NEW n \in Range(wrote[c]) PROVE n <= lastSeen'[k]
  <2>1. /\ wrote[c] \in Seq(Known) /\ cursor[c] \in Int /\ Known \subseteq Int
    BY DEF NumbersKnown, SessionInv, HistoryInv, StoreInv, Known
  <2>2. n \in Int
    BY <2>1, <1>2, ElementOfSeq, LenProperties DEF Range
  <2>3. pc[c] \in Registered /\ n <= cursor[c]
    BY <1>2 DEF ShownInv, ShownOf, QueueInv, InHandshake
  <2>4. cursor[c] <= lastSeen[k]
    BY <1>2, <2>3 DEF SavedInv
  <2> QED BY <1>1, <2>1, <2>2, <2>3, <2>4
<1>3. m > lastSeen'[k]
  BY DEF Again
<1>4. \/ m \in handed'[k] \ handed[k]
      \/ \E c \in Conns : live[c] /\ KeyOf[c] = k /\ m \in Range(wrote[c])
  BY DEF Again
<1>5. ASSUME NEW c \in Conns, live[c], KeyOf[c] = k, m \in Range(wrote[c]) PROVE FALSE
  <2>1. m <= lastSeen'[k]
    BY <1>2, <1>5
  <2>2. m \in Int
    BY <1>5, ElementOfSeq, LenProperties DEF Range, NumbersKnown, HistoryInv, StoreInv, Known
  <2> QED BY <1>1, <1>3, <2>1, <2>2
<1> QED BY <1>3, <1>4, <1>5

(* A crash shows the apps at most one live message a second time, and that *)
(* to one app: in every instance, wherever in its work the loop was.       *)
THEOREM CrashesRepeatOne == Spec => CrashRepeatsOne
<1> DEFINE One == Restart => \A k, l \in {h \in Keys : ~Replaying(h)} :
                                \A m \in Again(k), n \in Again(l) : k = l /\ m = n
<1>1. ASSUME NumbersKnown, SavedInv, QueueInv, ShownInv, Restart PROVE One
  <2>1. CASE UNCHANGED <<lastSeen, handed, reached>>
    <3>1. \A k \in Keys : ~Replaying(k) => Again(k) = {}
      BY <1>1, <2>1, CrashAgain
    <3> QED BY <3>1
  <2>2. ASSUME NEW c \in Conns, DiesGoingLive(c) PROVE One
    <3>1. Replaying(KeyOf[c])
      BY <2>2 DEF DiesGoingLive, Replaying
    <3>2. \A k \in Keys : k # KeyOf[c] => handed'[k] = handed[k]
      BY <1>1, <2>2 DEF DiesGoingLive, NumbersKnown, HistoryInv
    <3>3. \A k \in Keys : ~Replaying(k) => Again(k) = {}
      BY <1>1, <3>1, <3>2, CrashAgain
    <3> QED BY <3>3
  <2>3. ASSUME NEW n \in Known, NEW S \in SUBSET clients, NEW senders, DiesDelivering(n, S, senders)
        PROVE  One
    <3>1. PICK W \in SUBSET Receiving(S), c \in Conns :
            /\ Give(n, W)
            /\ lastSeen' = Moved(KeysOf(senders \cup Moving(n, W \ {c})), n)
      BY <2>3 DEF DiesDelivering
    <3>2. ASSUME NEW k \in Keys, ~Replaying(k), NEW m \in Again(k) PROVE k = KeyOf[c] /\ m = n
      <4>1. m \in handed'[k] \ handed[k] /\ m > lastSeen'[k]
        BY <1>1, <3>2, CrashAgain
      <4>2. m = n
        <5>1. handed'[k] \subseteq handed[k] \cup {n}
          <6>1. NumbersKnown /\ Give(n, W)
            BY <1>1, <3>1
          <6> QED BY <6>1, GiveAdds
        <5> QED BY <4>1, <5>1
      <4>3. PICK d \in W : KeyOf[d] = k
        BY <1>1, <3>1, <4>1 DEF Give, KeysOf, NumbersKnown, HistoryInv
      <4>4. /\ d \in Conns /\ live[d] /\ pc[d] \in Registered /\ cursor[d] \in Int
            /\ lastSeen[k] # NoRow /\ cursor[d] <= lastSeen[k]
        <5>1. d \in Conns /\ live[d]
          BY <1>1, <3>1 DEF Receiving, NumbersKnown, SessionInv
        <5>2. pc[d] \in Registered
          BY <1>1, <5>1 DEF ShownInv, ShownOf
        <5>3. cursor[d] \in Int
          BY <1>1, <5>1 DEF NumbersKnown, SessionInv, StoreInv, Known
        <5> QED BY <1>1, <4>3, <5>1, <5>2, <5>3 DEF SavedInv
      <4>5. lastSeen'[k] \in Int /\ lastSeen[k] \in Int /\ lastSeen'[k] >= lastSeen[k] /\ n \in Int
        <5>1. lastSeen' \in [Keys -> Known \cup {NoRow}]
          BY <1>1, CrashSaves
        <5> QED BY <1>1, <5>1, SeenForward DEF Next, NumbersKnown, StoreInv, Known, NoRow
      <4>6. CASE d # c
        <5>1. n > cursor[d]
          BY <4>1, <4>2, <4>4, <4>5
        <5>2. d \in Moving(n, W \ {c})
          BY <4>6, <5>1 DEF Moving
        <5>3. k \in KeysOf(senders \cup Moving(n, W \ {c}))
          BY <4>3, <5>2 DEF KeysOf
        <5>4. lastSeen'[k] >= n
          BY <1>1, <3>1, <4>4, <5>3, MovedForward
        <5> QED BY <4>1, <4>2, <4>5, <5>4
      <4> QED BY <4>2, <4>3, <4>6
    <3> QED BY <3>2
  <2> QED BY <1>1, <2>1, <2>2, <2>3, CrashCases
<1>2. Init => ShownInv
  <2>1. Range(<<>>) = {}
    BY DEF Range
  <2> QED BY <2>1 DEF Init, ShownInv, ShownOf
<1>3. NumbersKnown /\ QueueInv /\ ShownInv /\ [Next]_vars => ShownInv'
  BY ShownStep
<1>4. NumbersKnown /\ SavedInv /\ QueueInv /\ ShownInv /\ [Next]_vars => [One]_vars
  BY <1>1
<1> QED BY <1>2, <1>3, <1>4, NumbersAlwaysKnown, SavedAlways, QueueAlways, PTL
    DEF Spec, CrashRepeatsOne

-----------------------------------------------------------------------------
(* A session's own message.                                                *)

Posting == {ready[i].seq : i \in DOMAIN ready}

(* The numbers session c was written, and those that may still come to it. *)
Toward(c) == Range(wrote[c]) \cup Range(pending[c]) \cup todo[c] \cup {reader, web} \cup Posting

(* A number is its sender's alone, is not underway to it, and is behind    *)
(* its cursor, where no replay returns it, from its mirroring on.          *)
EchoOf(c) ==
    /\ pc[c] \in {"off", "opening", "opened"} => own[c] = NoSeq
    /\ own[c] # NoSeq =>
         /\ own[c] \notin Toward(c)
         /\ \A d \in Conns : d # c => own[d] # own[c]
         /\ pc[c] # "stored" => own[c] <= cursor[c]
         /\ pc[c] \in {"count", "select", "selected", "replay"} => own[c] <= last[c]

EchoInv == \A c \in Conns : EchoOf(c)

(* What the queue holds after a callback was posted or taken. *)
LEMMA QueuePosting ==
    ASSUME NumbersKnown, NEW who \in Conns \cup {"reader", "web", "wiper"}
    PROVE  /\ Take(who) => Head(ready).seq \in Posting /\ Posting' \subseteq Posting
           /\ \A n \in Known : PostTo(who, n) => Posting' \subseteq Posting \cup {n}
<1>1. ready \in Seq(Posted(Known))
  BY DEF NumbersKnown, ThreadInv
<1>2. ASSUME Take(who) PROVE Head(ready).seq \in Posting /\ Posting' \subseteq Posting
  <2>1. ready # <<>> /\ ready' = Tail(ready) /\ Head(ready) \in Posted(Known)
    BY <1>1, <1>2, HeadTailProperties DEF Take
  <2>2. /\ DOMAIN ready = 1 .. Len(ready) /\ DOMAIN ready' = 1 .. Len(ready) - 1
        /\ Len(ready) \in Nat /\ 1 \in 1 .. Len(ready) /\ ready[1] = Head(ready)
        /\ \A i \in 1 .. Len(ready) - 1 : ready'[i] = ready[i + 1]
    BY <1>1, <2>1, QueueElements
  <2>3. \A i \in DOMAIN ready' : i + 1 \in DOMAIN ready /\ ready'[i] = ready[i + 1]
    BY <2>2
  <2> QED BY <2>2, <2>3 DEF Posting
<1>3. ASSUME NEW n \in Known, PostTo(who, n) PROVE Posting' \subseteq Posting \cup {n}
  <2> DEFINE e == [who |-> who, seq |-> n]
  <2>1. e \in Posted(Known) /\ ready' = Append(ready, e) /\ e.seq = n
    BY <1>3 DEF Posted, PostTo
  <2> HIDE DEF e
  <2>2. /\ DOMAIN ready = 1 .. Len(ready) /\ DOMAIN ready' = 1 .. Len(ready) + 1
        /\ \A i \in 1 .. Len(ready) : ready'[i] = ready[i]
        /\ ready'[Len(ready) + 1] = e /\ Len(ready) \in Nat
    BY <1>1, <2>1, QueueElements
  <2>3. \A i \in DOMAIN ready' : i \in DOMAIN ready \/ i = Len(ready) + 1
    BY <2>2
  <2> QED BY <2>1, <2>2, <2>3 DEF Posting
<1> QED BY <1>2, <1>3

(* The numbers underway are known; the next one is not among them. *)
LEMMA TowardKnown ==
    ASSUME NumbersKnown, NEW c \in Conns
    PROVE  /\ Toward(c) \subseteq Known \cup {Nothing}
           /\ own[c] \in Known /\ NextSeq \notin Known \cup {Nothing, NoSeq}
<1>1. /\ lastSeq \in Nat /\ wrote[c] \in Seq(Known) /\ pending[c] \in Seq(Known)
      /\ ready \in Seq(Posted(Known)) /\ todo[c] \subseteq Known
      /\ reader \in Known \cup {Nothing} /\ web \in Known \cup {Nothing} /\ own[c] \in Known
  BY DEF NumbersKnown, StoreInv, ThreadInv, SessionInv, HistoryInv
<1>2. Range(wrote[c]) \subseteq Known /\ Range(pending[c]) \subseteq Known
  BY <1>1, LenProperties, ElementOfSeq DEF Range
<1>3. Posting \subseteq Known
  <2>1. \A i \in DOMAIN ready : ready[i] \in Posted(Known)
    BY <1>1, LenProperties, ElementOfSeq
  <2> QED BY <2>1 DEF Posting, Posted
<1>4. NextSeq \notin Known \cup {Nothing, NoSeq}
  BY <1>1 DEF NextSeq, Nothing, NoSeq, Known
<1>5. Toward(c) \subseteq Known \cup {Nothing}
  BY <1>1, <1>2, <1>3 DEF Toward
<1> QED BY <1>1, <1>4, <1>5

(* A step that brings the session nothing but new numbers, or another      *)
(* session's, and does not take it back, brings it no echo.                *)
LEMMA EchoFramed ==
    ASSUME NumbersKnown, NEW c \in Conns, EchoOf(c), own' = own, pc'[c] = pc[c],
           cursor'[c] >= cursor[c], cursor'[c] \in Nat, cursor[c] \in Nat, last'[c] = last[c],
           Toward(c)' \subseteq Toward(c) \cup {NoSeq, Nothing, NextSeq}
                                \cup {own[d] : d \in Conns \ {c}}
    PROVE  EchoOf(c)'
<1>1. CASE own[c] = NoSeq
  BY <1>1 DEF EchoOf
<1>2. CASE own[c] # NoSeq
  <2>1. own[c] \in Known /\ NextSeq \notin Known /\ Nothing \notin Known /\ Known \subseteq Nat
    BY TowardKnown DEF Known, Nothing, NumbersKnown, StoreInv
  <2>2. own[c] \notin Toward(c)'
    BY <1>2, <2>1 DEF EchoOf
  <2>3. own[c] <= cursor[c] => own[c] <= cursor'[c]
    <3>1. own[c] \in Nat
      BY <2>1
    <3> QED BY <3>1
  <2> QED BY <1>2, <2>2, <2>3 DEF EchoOf
<1> QED BY <1>1, <1>2

(* A delivery of another number. *)
LEMMA EchoDelivery ==
    ASSUME NumbersKnown, NEW c \in Conns, NEW n \in Known, NEW S, NEW senders, Deliver(n, S, senders),
           UNCHANGED <<todo, reader>>, web' \in {web, Nothing}, Posting' \subseteq Posting
    PROVE  /\ cursor[c] \in Nat /\ cursor'[c] \in Nat /\ cursor'[c] >= cursor[c]
           /\ c \in senders => cursor'[c] >= n
           /\ Toward(c)' \subseteq Toward(c) \cup {n, Nothing}
           /\ c \notin S => Toward(c)' \subseteq Toward(c) \cup {Nothing}
<1>1. /\ wrote[c] \in Seq(Known) /\ pending[c] \in Seq(Known) /\ Known \subseteq Nat /\ cursor[c] \in Known
  BY DEF NumbersKnown, StoreInv, SessionInv, HistoryInv, Known
<1>2. /\ cursor'[c] = cursor[c] \/ cursor'[c] = Larger(cursor[c], n)
      /\ c \in senders => cursor'[c] = Larger(cursor[c], n)
      /\ wrote'[c] = wrote[c] \/ (c \in S /\ wrote'[c] = Append(wrote[c], n))
      /\ pending'[c] = pending[c] \/ (c \in S /\ pending'[c] = Append(pending[c], n))
  BY DEF Deliver, Give, Moving, KeysOf, Receiving, Queueing
<1>3. \A s \in Seq(Known) : Range(Append(s, n)) \subseteq Range(s) \cup {n}
  <2> SUFFICES ASSUME NEW s \in Seq(Known), NEW i \in DOMAIN Append(s, n)
               PROVE  Append(s, n)[i] \in Range(s) \cup {n}
    BY DEF Range
  <2>1. /\ Len(s) \in Nat /\ DOMAIN s = 1 .. Len(s) /\ DOMAIN Append(s, n) = 1 .. Len(s) + 1
        /\ \A j \in 1 .. Len(s) : Append(s, n)[j] = s[j]
        /\ Append(s, n)[Len(s) + 1] = n
    BY QueueElements
  <2>2. i \in DOMAIN s \/ i = Len(s) + 1
    BY <2>1
  <2> QED BY <2>1, <2>2 DEF Range
<1>4. /\ Range(wrote'[c]) = Range(wrote[c]) \/ (c \in S /\ Range(wrote'[c]) \subseteq Range(wrote[c]) \cup {n})
      /\ Range(pending'[c]) = Range(pending[c]) \/ (c \in S /\ Range(pending'[c]) \subseteq Range(pending[c]) \cup {n})
  BY <1>1, <1>2, <1>3
<1>5. cursor'[c] \in Nat /\ cursor'[c] >= cursor[c] /\ (c \in senders => cursor'[c] >= n)
  BY <1>1, <1>2 DEF Larger
<1> QED BY <1>1, <1>4, <1>5 DEF Toward

(* The reader, the web request and the loop's fan-outs. *)
LEMMA ThreadEcho == ASSUME NumbersKnown, EchoInv, Threads PROVE EchoInv'
<1> USE DEF storeVars, sessionVars, histVars
<1>1. \A c \in Conns : EchoOf(c) /\ cursor[c] \in Nat
  BY DEF EchoInv, NumbersKnown, StoreInv, SessionInv, Known
<1>2. CASE PostFanout \/ PostWeb
  <2>1. UNCHANGED <<pc, cursor, pending, todo, last, own, wrote>>
    BY <1>2 DEF PostFanout, PostWeb
  <2>2. /\ reader' \in {reader, Nothing} /\ web' \in {web, Nothing}
        /\ Posting' \subseteq Posting \cup {reader, web}
    <3>1. CASE PostFanout
      <4>1. reader \in Known /\ PostTo("reader", reader)
        BY <3>1 DEF PostFanout, NumbersKnown, ThreadInv
      <4> QED BY <3>1, <4>1, QueuePosting DEF PostFanout
    <3>2. CASE PostWeb
      <4>1. web \in Known /\ PostTo("web", web)
        BY <3>2 DEF PostWeb, NumbersKnown, ThreadInv
      <4> QED BY <3>2, <4>1, QueuePosting DEF PostWeb
    <3> QED BY <1>2, <3>1, <3>2
  <2>3. \A c \in Conns : Toward(c)' \subseteq Toward(c) \cup {Nothing}
    BY <2>1, <2>2 DEF Toward
  <2>4. \A c \in Conns : EchoOf(c)'
    BY <1>1, <2>1, <2>3, EchoFramed
  <2> QED BY <2>4 DEF EchoInv
<1>3. CASE Fanout \/ MirrorWeb
  <2>1. /\ UNCHANGED <<pc, todo, last, own, reader, lastSeq>> /\ web' \in {web, Nothing}
        /\ Deliver(Head(ready).seq, clients, {})
        /\ Take("reader") \/ Take("web")
    BY <1>3 DEF Fanout, MirrorWeb
  <2>2. Head(ready).seq \in Known /\ Head(ready).seq \in Posting /\ Posting' \subseteq Posting
    BY <2>1, QueueKnown, QueuePosting
  <2>3. \A c \in Conns : Head(ready).seq \in Toward(c)
    BY <2>2 DEF Toward
  <2>4. ASSUME NEW c \in Conns PROVE EchoOf(c)'
    <3>1. /\ cursor'[c] \in Nat /\ cursor'[c] >= cursor[c]
          /\ Toward(c)' \subseteq Toward(c) \cup {Head(ready).seq, Nothing}
      BY <2>1, <2>2, EchoDelivery
    <3> QED BY <1>1, <2>1, <2>3, <3>1, EchoFramed
  <2> QED BY <2>4 DEF EchoInv
<1> QED BY <1>2, <1>3 DEF Threads

(* What the mesh and the web UI store has a new number. *)
LEMMA WorldEcho == ASSUME NumbersKnown, EchoInv, World PROVE EchoInv'
<1> USE DEF storeVars, threadVars, sessionVars, histVars
<1>1. /\ UNCHANGED <<pc, cursor, pending, todo, last, own, wrote, ready>>
      /\ reader' \in {reader, NoSeq, NextSeq} /\ web' \in {web, NextSeq}
  BY DEF World, HearText, WebSend, HearOther, Capture, Housekeeping
<1>2. \A c \in Conns : Toward(c)' \subseteq Toward(c) \cup {NoSeq, NextSeq}
  BY <1>1 DEF Toward, Posting
<1>3. \A c \in Conns : EchoOf(c) /\ cursor[c] \in Nat
  BY DEF EchoInv, NumbersKnown, StoreInv, SessionInv, Known
<1>4. \A c \in Conns : EchoOf(c)'
  BY <1>1, <1>2, <1>3, EchoFramed
<1> QED BY <1>4 DEF EchoInv

(* Another session's step, which may take or post its own wake-up. *)
LEMMA OtherEcho ==
    ASSUME NumbersKnown, NEW c \in Conns, EchoOf(c), NEW d \in Conns, d # c, App(d) \/ Handler(d)
    PROVE  EchoOf(c)'
<1> USE DEF storeVars, threadVars, sessionVars, histVars
<1>1. cursor[c] \in Nat
  BY DEF NumbersKnown, StoreInv, SessionInv, Known
<1>2. CASE \/ PostWake(d) \/ Join(d) \/ CompleteConfig(d)
  <2>1. /\ pc'[c] = pc[c] /\ UNCHANGED <<cursor, pending, todo, last, own, wrote, reader, web>>
        /\ Take(d) \/ PostTo(d, NoSeq)
    BY <1>2 DEF PostWake, Join, CompleteConfig, NumbersKnown, SessionInv
  <2>2. Posting' \subseteq Posting \cup {NoSeq}
    BY <2>1, QueuePosting, SeenKnown
  <2>3. Toward(c)' \subseteq Toward(c) \cup {NoSeq}
    BY <2>1, <2>2 DEF Toward
  <2> QED BY <1>1, <2>1, <2>3, EchoFramed
<1>3. CASE MirrorOwn(d)
  <2>1. /\ pc'[c] = pc[c] /\ UNCHANGED <<todo, last, own, reader, web>> /\ Take(d)
        /\ UNCHANGED <<pending, cursor, wrote>> \/ Deliver(own[d], Others(d), {d})
    BY <1>3 DEF MirrorOwn, NumbersKnown, SessionInv
  <2>2. Posting' \subseteq Posting /\ own[d] \in Known
    BY <2>1, QueuePosting, TowardKnown
  <2>3. /\ cursor'[c] \in Nat /\ cursor'[c] >= cursor[c]
        /\ Toward(c)' \subseteq Toward(c) \cup {own[d], Nothing}
    <3>1. CASE UNCHANGED <<pending, cursor, wrote>>
      BY <1>1, <2>1, <2>2, <3>1 DEF Toward
    <3>2. CASE Deliver(own[d], Others(d), {d})
      BY <2>1, <2>2, <3>2, EchoDelivery
    <3> QED BY <2>1, <3>1, <3>2
  <2> QED BY <2>1, <2>3, <1>1, EchoFramed
<1>4. ASSUME NEW p \in AppPackets, StoreOwn(d, p) PROVE EchoOf(c)'
  <2>1. /\ pc'[c] = pc[c] /\ own'[c] = own[c]
        /\ UNCHANGED <<cursor, pending, todo, last, wrote, reader, web, ready>>
        /\ \A e \in Conns : own'[e] = own[e] \/ (e = d /\ own'[e] \in {NextSeq, NoSeq})
    BY <1>4 DEF StoreOwn, NumbersKnown, SessionInv
  <2>2. Toward(c)' = Toward(c)
    BY <2>1 DEF Toward, Posting
  <2>3. own[c] \in Known /\ NextSeq \notin Known
    BY TowardKnown
  <2> QED BY <2>1, <2>2, <2>3 DEF EchoOf
<1>5. CASE Leave(d)
  <2>1. /\ pc'[c] = pc[c] /\ own'[c] = own[c] /\ cursor'[c] = cursor[c] /\ pending'[c] = pending[c]
        /\ todo'[c] = todo[c] /\ last'[c] = last[c] /\ wrote'[c] = wrote[c]
        /\ UNCHANGED <<reader, web, ready>>
        /\ \A e \in Conns : own'[e] = own[e] \/ own'[e] = NoSeq
    BY <1>5 DEF Leave, Forget, NumbersKnown, SessionInv
  <2>2. Toward(c)' = Toward(c)
    BY <2>1 DEF Toward, Posting
  <2> QED BY <2>1, <2>2 DEF EchoOf
<1>6. CASE \/ Connect(d) \/ AskConfig(d) \/ SendPacket(d) \/ Drop(d)
           \/ LookUp(d) \/ ServeConfig(d) \/ CountBacklog(d) \/ SelectRows(d) \/ Sent(d)
           \/ ReplayRow(d) \/ GoLive(d)
  <2>1. /\ pc'[c] = pc[c] /\ cursor'[c] = cursor[c] /\ pending'[c] = pending[c]
        /\ todo'[c] = todo[c] /\ last'[c] = last[c] /\ wrote'[c] = wrote[c]
        /\ UNCHANGED <<reader, web, ready, own>>
    BY <1>6 DEF Connect, AskConfig, SendPacket, Drop, LookUp, ServeConfig, CountBacklog, SelectRows,
       Sent, ReplayRow, GoLive, Write, NumbersKnown, SessionInv, HistoryInv
  <2>2. Toward(c)' = Toward(c)
    BY <2>1 DEF Toward, Posting
  <2> QED BY <2>1, <2>2 DEF EchoOf
<1> QED BY <1>2, <1>3, <1>4, <1>5, <1>6 DEF App, Handler

(* A session's own step. *)
LEMMA OwnEcho ==
    ASSUME NumbersKnown, NEW c \in Conns, EchoOf(c), App(c) \/ Handler(c)
    PROVE  EchoOf(c)'
<1> USE DEF storeVars, threadVars, sessionVars, histVars
<1>1. /\ cursor[c] \in Nat /\ last[c] \in Nat /\ own[c] \in Nat /\ own[c] \in Known
      /\ own \in [Conns -> Known] /\ pc \in [Conns -> Pcs]
      /\ cursor \in [Conns -> Known] /\ last \in [Conns -> Known]
      /\ todo \in [Conns -> SUBSET (Known \ {0})] /\ pending \in [Conns -> Seq(Known)]
      /\ wrote \in [Conns -> Seq(Known)]
  BY DEF NumbersKnown, StoreInv, SessionInv, HistoryInv, Known
<1>2. CASE PostWake(c) \/ Drop(c)
  <2>1. /\ UNCHANGED <<pc, cursor, pending, todo, last, own, wrote, reader, web>>
        /\ ready' = ready \/ PostTo(c, NoSeq)
    BY <1>2 DEF PostWake, Drop
  <2>2. Posting' \subseteq Posting \cup {NoSeq}
    BY <2>1, QueuePosting, SeenKnown DEF Posting
  <2>3. Toward(c)' \subseteq Toward(c) \cup {NoSeq}
    BY <2>1, <2>2 DEF Toward
  <2>4. cursor'[c] \in Nat /\ cursor'[c] >= cursor[c]
    BY <1>1, <2>1
  <2> QED BY <1>1, <2>1, <2>3, <2>4, EchoFramed
<1>3. CASE Connect(c) \/ LookUp(c) \/ Join(c)
  <2>1. pc[c] \in {"off", "opening", "opened"} /\ own' = own
    BY <1>3 DEF Connect, LookUp, Join
  <2> QED BY <2>1 DEF EchoOf
<1>4. CASE SendPacket(c) \/ AskConfig(c) \/ Sent(c)
  <2>1. /\ pc[c] \in {"read", "sending"} /\ pc'[c] \in {"asked", "storing", "sending", "read"}
        /\ UNCHANGED <<cursor, pending, todo, last, own, wrote, reader, web, ready>>
    BY <1>1, <1>4 DEF SendPacket, AskConfig, Sent
  <2>2. Toward(c)' = Toward(c)
    BY <2>1 DEF Toward, Posting
  <2> QED BY <2>1, <2>2 DEF EchoOf
<1>5. CASE ServeConfig(c)
  <2>1. /\ pc[c] = "asked" /\ last'[c] = cursor[c] /\ pc'[c] \in {"read", "count", "replay"}
        /\ UNCHANGED <<cursor, pending, todo, own, wrote, reader, web, ready>>
    BY <1>1, <1>5 DEF ServeConfig
  <2>2. Toward(c)' = Toward(c)
    BY <2>1 DEF Toward, Posting
  <2> QED BY <2>1, <2>2 DEF EchoOf
<1>6. CASE CountBacklog(c)
  <2>1. /\ pc[c] = "count" /\ pc'[c] = "select"
        /\ UNCHANGED <<cursor, last, pending, todo, own, wrote, reader, web, ready>>
    BY <1>1, <1>6 DEF CountBacklog
  <2>2. Toward(c)' = Toward(c)
    BY <2>1 DEF Toward, Posting
  <2> QED BY <2>1, <2>2 DEF EchoOf
<1>7. CASE SelectRows(c)
  <2>1. /\ pc[c] = "select" /\ pc'[c] = "selected"
        /\ UNCHANGED <<cursor, last, pending, own, wrote, reader, web, ready>>
        /\ todo'[c] = Slice(Backlog(cursor[c], Excluded(c)), ReplayLimit, offset[c])
    BY <1>1, <1>7 DEF SelectRows
  <2>2. \A t \in todo'[c] : t > cursor[c]
    BY <2>1 DEF Slice, Backlog
  <2>3. own[c] # NoSeq => own[c] <= cursor[c] /\ own[c] \notin todo'[c]
    BY <1>1, <2>1, <2>2 DEF EchoOf
  <2>4. own[c] # NoSeq => own[c] \notin Toward(c)'
    BY <2>1, <2>3 DEF Toward, Posting, EchoOf
  <2> QED BY <2>1, <2>4 DEF EchoOf
<1>8. CASE CompleteConfig(c)
  <2>1. /\ pc[c] = "selected" /\ pc'[c] = "replay" /\ Take(c)
        /\ UNCHANGED <<cursor, last, todo, pending, own, wrote, reader, web>>
    BY <1>1, <1>8 DEF CompleteConfig
  <2>2. Toward(c)' \subseteq Toward(c)
    BY <2>1, QueuePosting DEF Toward
  <2> QED BY <2>1, <2>2 DEF EchoOf
<1>9. CASE ReplayRow(c)
  <2> DEFINE t == NextRow(c)
  <2>1. /\ pc[c] = "replay" /\ pc' = pc /\ t \in todo[c] /\ t \in Known
        /\ UNCHANGED <<cursor, pending, own, reader, web, ready>>
        /\ wrote'[c] = wrote[c] \o <<t>> /\ last'[c] = Larger(last[c], t)
        /\ todo'[c] \subseteq todo[c]
    BY <1>1, <1>9, NextRowKnown DEF ReplayRow, Write
  <2> HIDE DEF t
  <2>2. Range(wrote'[c]) = Range(wrote[c]) \cup {t}
    <3>1. wrote[c] \in Seq(Known) /\ <<t>> \in Seq(Known)
      BY <1>1, <2>1
    <3>2. Range(<<t>>) = {t}
      BY DEF Range
    <3>3. Range(wrote[c] \o <<t>>) = Range(wrote[c]) \cup Range(<<t>>)
      BY <3>1, RangeConcatenation
    <3> QED BY <2>1, <3>2, <3>3, Zenon
  <2>3. Toward(c)' \subseteq Toward(c)
    BY <2>1, <2>2 DEF Toward, Posting
  <2>4. last'[c] >= last[c] /\ last'[c] \in Nat
    <3>1. t \in Nat
      BY <2>1 DEF Known, NumbersKnown, StoreInv
    <3> QED BY <1>1, <2>1, <3>1 DEF Larger
  <2> QED BY <1>1, <2>1, <2>3, <2>4 DEF EchoOf
<1>10. CASE GoLive(c)
  <2>1. /\ pc[c] = "replay" /\ pc'[c] = "read" /\ pending'[c] = <<>> /\ cursor'[c] = Covered(c)
        /\ UNCHANGED <<last, todo, own, reader, web, ready>>
        /\ wrote'[c] = wrote[c] \o Flushed(c)
    BY <1>1, <1>10 DEF GoLive, Write
  <2>2. Covered(c) \in Nat /\ Covered(c) >= last[c]
    BY CoveredKnown DEF Known, NumbersKnown, StoreInv
  <2>3. Range(wrote'[c]) = Range(wrote[c]) \cup Range(Flushed(c))
    <3>1. wrote[c] \in Seq(Known) /\ Flushed(c) \in Seq(Known)
      BY <1>1, FlushedKnown
    <3> QED BY <2>1, <3>1, RangeConcatenation
  <2>4. Range(Flushed(c)) \subseteq Range(pending[c])
    BY FlushedPending
  <2>5. Range(pending'[c]) = {}
    BY <2>1 DEF Range
  <2>6. Toward(c)' \subseteq Toward(c)
    BY <2>1, <2>3, <2>4, <2>5 DEF Toward, Posting
  <2> QED BY <1>1, <2>1, <2>2, <2>6 DEF EchoOf
<1>11. ASSUME NEW p \in AppPackets, StoreOwn(c, p) PROVE EchoOf(c)'
  <2>1. /\ pc'[c] = "stored" /\ own'[c] \in {NextSeq, NoSeq}
        /\ \A d \in Conns : d # c => own'[d] = own[d] /\ own[d] \in Known
        /\ UNCHANGED <<pending, todo, wrote, reader, web, ready>>
    BY <1>1, <1>11 DEF StoreOwn
  <2>2. Toward(c)' = Toward(c)
    BY <2>1 DEF Toward, Posting
  <2>3. NextSeq \notin Toward(c) /\ NextSeq \notin Known
    BY TowardKnown
  <2> QED BY <2>1, <2>2, <2>3 DEF EchoOf
<1>12. CASE MirrorOwn(c)
  <2>1. /\ pc[c] = "stored" /\ pc'[c] = "sending" /\ UNCHANGED <<todo, last, own, reader, web>> /\ Take(c)
        /\ \/ own[c] = NoSeq
           \/ Deliver(own[c], Others(c), {c})
    BY <1>1, <1>12 DEF MirrorOwn
  <2>2. Posting' \subseteq Posting
    BY <2>1, QueuePosting
  <2>3. CASE own[c] = NoSeq
    BY <2>1, <2>3 DEF EchoOf
  <2>4. CASE Deliver(own[c], Others(c), {c})
    <3>1. c \notin Others(c)
      BY DEF Others
    <3>2. cursor'[c] >= own[c] /\ Toward(c)' \subseteq Toward(c) \cup {Nothing} /\ cursor'[c] \in Nat
      BY <1>1, <2>1, <2>2, <2>4, <3>1, EchoDelivery
    <3>3. own[c] # Nothing
      BY <1>1 DEF Nothing
    <3> QED BY <1>1, <2>1, <3>2, <3>3 DEF EchoOf
  <2> QED BY <2>1, <2>3, <2>4
<1>13. CASE Leave(c)
  BY <1>13 DEF Leave, Forget, EchoOf
<1> QED BY <1>2, <1>3, <1>4, <1>5, <1>6, <1>7, <1>8, <1>9, <1>10, <1>11, <1>12, <1>13 DEF App, Handler

(* Whatever the sessions, the mesh and the web UI store and replay at the  *)
(* same time, and whatever is pruned, no session is shown the message it   *)
(* sent last.                                                              *)
THEOREM NeverAnEcho == Spec => []NoEcho
<1>1. Init => EchoInv
  BY DEF Init, EchoInv, EchoOf
<1>2. ASSUME NumbersKnown, EchoInv, [Next]_vars PROVE EchoInv'
  <2>1. CASE UNCHANGED vars
    BY <1>2, <2>1 DEF vars, storeVars, threadVars, sessionVars, histVars, EchoInv, EchoOf, Toward, Posting
  <2>2. ASSUME NEW d \in Conns, App(d) \/ Handler(d) PROVE EchoInv'
    <3>1. \A c \in Conns : EchoOf(c)
      BY <1>2 DEF EchoInv
    <3>2. \A c \in Conns : EchoOf(c)'
      BY <1>2, <2>2, <3>1, OwnEcho, OtherEcho
    <3> QED BY <3>2 DEF EchoInv
  <2>3. CASE Restart
    BY <2>3 DEF Restart, Forget, EchoInv, EchoOf
  <2> QED BY <1>2, <2>1, <2>2, <2>3, ThreadEcho, WorldEcho DEF Next, Running
<1>3. NumbersKnown /\ EchoInv /\ [Next]_vars => EchoInv'
  BY <1>2
<1>4. EchoInv => NoEcho
  BY DEF EchoInv, EchoOf, Toward, NoEcho
<1> QED BY <1>1, <1>3, <1>4, NumbersAlwaysKnown, PTL DEF Spec

-----------------------------------------------------------------------------
(* The replay's limit.                                                     *)

(* No pending queue is full. *)
RoomLeft == \A c \in Conns : Len(pending[c]) < MaxPending

Nums == 1 .. lastSeq

(* What a replay of session c would return now. *)
Waiting(c) == Backlog(cursor[c], Excluded(c))
Rank(S, n) == Cardinality({m \in S : m < n})

(* Ranks follow the numbers. *)
LEMMA RanksAscend ==
    ASSUME NEW W \in SUBSET Nums, lastSeq \in Nat, NEW s \in Nums, NEW t \in Nums, s <= t
    PROVE  Rank(W, s) \in Nat /\ Rank(W, t) \in Nat /\ Rank(W, s) <= Rank(W, t)
<1>1. IsFiniteSet(W)
  <2>1. IsFiniteSet(Nums)
    BY FS_Interval DEF Nums
  <2> QED BY <2>1, FS_Subset
<1>2. {m \in W : m < s} \subseteq {m \in W : m < t} /\ {m \in W : m < t} \subseteq W
  <2>1. \A m \in W : m < s => m < t
    BY DEF Nums
  <2> QED BY <2>1
<1>3. IsFiniteSet({m \in W : m < t})
  BY <1>1, <1>2, FS_Subset
<1>4. Cardinality({m \in W : m < s}) <= Cardinality({m \in W : m < t})
      /\ IsFiniteSet({m \in W : m < s})
  BY <1>2, <1>3, FS_Subset
<1> QED BY <1>3, <1>4, FS_CardinalityType DEF Rank

(* The queue with one more callback.                                       *)
LEMMA QueueGrown ==
    ASSUME NumbersKnown, NEW who \in Conns \cup {"reader", "web", "wiper"}, NEW n \in Known, PostTo(who, n)
    PROVE  /\ DOMAIN ready' = DOMAIN ready \cup {Len(ready) + 1}
           /\ Len(ready) + 1 \notin DOMAIN ready
           /\ \A i \in DOMAIN ready : i \in Nat /\ i < Len(ready) + 1 /\ ready'[i] = ready[i]
           /\ ready'[Len(ready) + 1].who = who /\ ready'[Len(ready) + 1].seq = n
<1> DEFINE e == [who |-> who, seq |-> n]
<1>1. ready \in Seq(Posted(Known)) /\ e \in Posted(Known) /\ ready' = Append(ready, e)
  BY DEF NumbersKnown, ThreadInv, Posted, PostTo
<1>2. e.who = who /\ e.seq = n
  OBVIOUS
<1> HIDE DEF e
<1>3. /\ Len(ready) \in Nat /\ DOMAIN ready = 1 .. Len(ready)
      /\ DOMAIN ready' = 1 .. Len(ready) + 1
      /\ \A i \in 1 .. Len(ready) : ready'[i] = ready[i]
      /\ ready'[Len(ready) + 1] = e
  BY <1>1, QueueElements
<1> QED BY <1>2, <1>3

(* The queue without its oldest callback. *)
LEMMA QueueShrunk ==
    ASSUME NumbersKnown, NEW who, Take(who)
    PROVE  /\ 1 \in DOMAIN ready /\ ready[1].who = who /\ ready[1] = Head(ready)
           /\ \A i \in DOMAIN ready :
                  /\ i \in Nat
                  /\ i = 1 \/ (1 < i /\ i - 1 \in DOMAIN ready' /\ ready'[i - 1] = ready[i])
           /\ \A i \in DOMAIN ready' :
                  i \in Nat /\ i + 1 \in DOMAIN ready /\ 1 < i + 1 /\ ready'[i] = ready[i + 1]
<1>1. ready \in Seq(Posted(Known)) /\ ready # <<>> /\ ready' = Tail(ready) /\ Head(ready).who = who
  BY DEF NumbersKnown, ThreadInv, Take
<1>2. Head(ready) \in Posted(Known)
  BY <1>1, HeadTailProperties
<1>3. /\ Len(ready) \in Nat /\ DOMAIN ready = 1 .. Len(ready)
      /\ DOMAIN ready' = 1 .. Len(ready) - 1
      /\ 1 \in 1 .. Len(ready) /\ ready[1] = Head(ready)
      /\ \A i \in 1 .. Len(ready) - 1 : ready'[i] = ready[i + 1]
  BY <1>1, <1>2, QueueElements
<1>4. \A i \in DOMAIN ready : i \in Nat /\ (i = 1 \/ (1 < i /\ i - 1 \in DOMAIN ready'))
  BY <1>3
<1>5. \A i \in DOMAIN ready' : i \in Nat /\ i + 1 \in DOMAIN ready /\ 1 < i + 1 /\ ready'[i] = ready[i + 1]
  BY <1>3
<1>6. \A i \in DOMAIN ready : i - 1 \in DOMAIN ready' => ready'[i - 1] = ready[i]
  BY <1>4, <1>5
<1> QED BY <1>1, <1>3, <1>4, <1>5, <1>6

(* A rank in a set of the store's numbers is below the set's size. *)
LEMMA RanksBelow ==
    ASSUME NEW W \in SUBSET Nums, lastSeq \in Nat
    PROVE  /\ IsFiniteSet(W) /\ Cardinality(W) \in Nat
           /\ \A n \in W : /\ Rank(W, n) \in Nat /\ Rank(W, n) < Cardinality(W)
                           /\ Cardinality({m \in W : m <= n}) = Rank(W, n) + 1
<1>1. IsFiniteSet(W) /\ Cardinality(W) \in Nat
  <2>1. IsFiniteSet(Nums)
    BY FS_Interval DEF Nums
  <2>2. IsFiniteSet(W)
    BY <2>1, FS_Subset
  <2> QED BY <2>2, FS_CardinalityType
<1>2. ASSUME NEW n \in W
      PROVE  /\ Rank(W, n) \in Nat /\ Rank(W, n) < Cardinality(W)
             /\ Cardinality({m \in W : m <= n}) = Rank(W, n) + 1
  <2> DEFINE L == {m \in W : m < n}
             U == {m \in W : m <= n}
  <2>1. \A m \in W : m <= n <=> m < n \/ m = n
    BY DEF Nums
  <2>2. U = L \cup {n} /\ n \notin L /\ L \in SUBSET W /\ U \in SUBSET W
    <3>1. ~(n < n)
      BY DEF Nums
    <3> QED BY <2>1, <3>1, Zenon
  <2>3. Rank(W, n) = Cardinality(L)
    BY DEF Rank
  <2> HIDE DEF L, U
  <2>4. /\ IsFiniteSet(L) /\ Cardinality(L) \in Nat
        /\ Cardinality(U) = Cardinality(L) + 1 /\ Cardinality(U) <= Cardinality(W)
    BY <1>1, <2>2, FS_Subset, FS_AddElement, FS_CardinalityType
  <2>5. Rank(W, n) < Cardinality(W) /\ Cardinality(U) = Rank(W, n) + 1
    BY <1>1, <2>3, <2>4
  <2> QED BY <2>3, <2>4, <2>5 DEF U
<1> QED BY <1>1, <1>2

(* A slice that does not run past the end has the limit's size.            *)
LEMMA SliceFull ==
    ASSUME NEW W \in SUBSET Nums, lastSeq \in Nat, NEW limit \in Nat, NEW start \in Nat \ {0},
           start + limit <= Cardinality(W)
    PROVE  Cardinality(Slice(W, limit, start)) = limit
<1> DEFINE Upto(n) == {m \in W : m <= n}
           S == Slice(W, limit, start)
<1>1. /\ IsFiniteSet(W) /\ Cardinality(W) \in Nat /\ W \in SUBSET (1 .. lastSeq)
      /\ \A n \in W : n \in Nat /\ Rank(W, n) \in Nat /\ Cardinality(Upto(n)) = Rank(W, n) + 1
  <2>1. \A n \in W : Rank(W, n) \in Nat /\ Cardinality({m \in W : m <= n}) = Rank(W, n) + 1
    BY RanksBelow
  <2>2. IsFiniteSet(W) /\ Cardinality(W) \in Nat
    BY RanksBelow
  <2> QED BY <2>1, <2>2 DEF Nums
<1> HIDE DEF Upto
<1>0. /\ Cardinality(W) \in Nat /\ start \in Nat /\ limit \in Nat
      /\ \A n \in W : n \in Nat /\ Rank(W, n) \in Nat
  BY <1>1
<1>2. S \subseteq W /\ \A n \in W : n \in S <=> start <= Rank(W, n) /\ Rank(W, n) < start + limit
  <2>1. \A n \in W : n \in S <=> Rank(W, n) \in start .. start + limit - 1
    BY DEF Slice, Rank
  <2>2. S \subseteq W
    BY DEF Slice
  <2> HIDE DEF S
  <2>3. \A r \in Nat : r \in start .. start + limit - 1 <=> start <= r /\ r < start + limit
    BY <1>0
  <2> QED BY <1>0, <2>1, <2>2, <2>3
<1>3. ASSUME NEW r \in 1 .. Cardinality(W)
      PROVE  \E a \in W : Cardinality(Upto(a)) = r
  BY <1>1, EveryRankTaken DEF Upto
<1>4. \A a, n \in W : /\ n <= a => Rank(W, n) <= Rank(W, a)
                      /\ n > a => Rank(W, n) > Rank(W, a)
  <2> SUFFICES ASSUME NEW a \in W, NEW n \in W
               PROVE  /\ n <= a => Rank(W, n) <= Rank(W, a)
                      /\ n > a => Rank(W, n) > Rank(W, a)
    OBVIOUS
  <2>1. n <= a => Rank(W, n) <= Rank(W, a)
    BY RanksAscend
  <2>2. ASSUME n > a PROVE Rank(W, n) > Rank(W, a)
    <3> DEFINE U == Upto(a)
               L == {m \in W : m < n}
    <3>1. U \subseteq L /\ L \subseteq W
      <4>1. \A m \in W : m <= a => m < n
        BY <1>0, <2>2
      <4> QED BY <4>1 DEF Upto
    <3>2. Cardinality(U) = Rank(W, a) + 1 /\ Rank(W, n) = Cardinality(L)
      BY <1>1 DEF Rank
    <3> HIDE DEF U, L
    <3>3. IsFiniteSet(L)
      BY <1>1, <3>1, FS_Subset
    <3>4. Cardinality(U) <= Cardinality(L)
      BY <3>1, <3>3, FS_Subset
    <3>5. Rank(W, a) \in Nat /\ Rank(W, n) \in Nat
      BY <1>0
    <3> QED BY <3>2, <3>4, <3>5
  <2> QED BY <2>1, <2>2
<1> HIDE DEF S
<1>5. CASE limit = 0
  <2>1. S = {}
    BY <1>0, <1>2, <1>5
  <2> QED BY <1>5, <2>1, FS_EmptySet DEF S
<1>6. CASE limit # 0
  <2>1. PICK a \in W : Cardinality(Upto(a)) = start
    <3>1. start \in 1 .. Cardinality(W)
      BY <1>1
    <3> QED BY <1>3, <3>1
  <2>2. PICK b \in W : Cardinality(Upto(b)) = start + limit
    <3>1. start + limit \in 1 .. Cardinality(W)
      BY <1>1
    <3> QED BY <1>3, <3>1
  <2>3. Rank(W, a) = start - 1 /\ Rank(W, b) = (start + limit) - 1
    <3>1. Rank(W, a) + 1 = start /\ Rank(W, b) + 1 = start + limit
      BY <1>1, <2>1, <2>2
    <3> QED BY <1>0, <3>1
  <2>4. \A n \in W : n \in S <=> n <= b /\ ~(n <= a)
    <3> TAKE n \in W
    <3>1. start <= Rank(W, n) <=> ~(n <= a)
      BY <1>0, <1>4, <2>3
    <3>2. Rank(W, n) < start + limit <=> n <= b
      BY <1>0, <1>4, <2>3
    <3> QED BY <1>2, <3>1, <3>2
  <2>5. S = Upto(b) \ Upto(a) /\ Upto(b) \cap Upto(a) = Upto(a)
    <3>1. a <= b
      BY <1>0, <1>4, <1>6, <2>3
    <3>2. \A n \in W : n <= a => n <= b
      BY <1>0, <3>1
    <3>3. S = Upto(b) \ Upto(a)
      BY <1>2, <2>4, Zenon DEF Upto
    <3>4. Upto(b) \cap Upto(a) = Upto(a)
      BY <3>2, Zenon DEF Upto
    <3> QED BY <3>3, <3>4
  <2>6. IsFiniteSet(Upto(b))
    <3>1. Upto(b) \in SUBSET W
      BY DEF Upto
    <3> QED BY <1>1, <3>1, FS_Subset
  <2>7. Cardinality(S) = (start + limit) - start
    BY <2>1, <2>2, <2>5, <2>6, FS_Difference
  <2> QED BY <2>7 DEF S
<1> QED BY <1>5, <1>6

Away == {"off", "opening", "opened"}

(* No row is pruned between a count and the select that takes its offset.  *)
Undisturbed == Prune => \A c \in Conns : pc[c] # "select"
PrunesApart == [][Undisturbed]_vars

(* A wake-up carries no number, the web UI's callback the one it holds.    *)
QueueTagged ==
    /\ \A i \in DOMAIN ready : /\ ready[i].who \in Conns => ready[i].seq = NoSeq
                               /\ ready[i].who = "web" => ready[i].seq = web
    /\ \A i, j \in DOMAIN ready : ready[i].who = "web" /\ ready[j].who = "web" => i = j

(* Between the count and the select the offset leaves just the limit of    *)
(* all but the messages still on their way; after it nothing else is left  *)
(* out that is not older than what is returned.                            *)
LimitOf(c) ==
    /\ pc[c] = "select" =>
         /\ offset[c] > 0 => Cardinality(Waiting(c)) >= offset[c] + ReplayLimit
         /\ \A n \in Waiting(c) \ Coming(c) : Rank(Waiting(c), n) < offset[c] + ReplayLimit
    /\ pc[c] = "selected" =>
         \A n \in Waiting(c) \ todo[c] :
            \/ Cardinality({m \in todo[c] : m > n}) = ReplayLimit
            \/ n \in Coming(c)

LimitInv ==
    /\ QueueTagged
    /\ \A c \in Conns : pc[c] \notin Away => c \in clients
    /\ \A c \in Conns : LimitOf(c)

(* Posting a callback, and taking one. *)
LEMMA TagsPosted ==
    ASSUME NumbersKnown, QueueTagged, NEW who \in Conns \cup {"reader", "web"}, NEW n \in Known,
           PostTo(who, n), who \in Conns => n = NoSeq,
           who = "web" => n = web /\ ~Queued("web"), web' = web
    PROVE  QueueTagged' /\ Posting' = Posting \cup {n}
<1>1. /\ DOMAIN ready' = DOMAIN ready \cup {Len(ready) + 1}
      /\ \A i \in DOMAIN ready : ready'[i] = ready[i]
      /\ ready'[Len(ready) + 1].who = who /\ ready'[Len(ready) + 1].seq = n
  BY QueueGrown
<1>2. who = "web" => \A i \in DOMAIN ready : ready[i].who # "web"
  BY DEF Queued
<1>3. QueueTagged'
  BY <1>1, <1>2 DEF QueueTagged
<1>4. Posting' = Posting \cup {n}
  BY <1>1 DEF Posting
<1> QED BY <1>3, <1>4

LEMMA TagsTaken ==
    ASSUME NumbersKnown, QueueTagged, NEW who, Take(who), who = "web" \/ web' = web
    PROVE  /\ QueueTagged' /\ Posting \subseteq Posting' \cup {Head(ready).seq}
           /\ who \in Conns => Head(ready).seq = NoSeq
           /\ who = "web" => Head(ready).seq = web
<1>1. /\ 1 \in DOMAIN ready /\ ready[1].who = who /\ ready[1] = Head(ready)
      /\ \A i \in DOMAIN ready : \/ i = 1
                                 \/ i - 1 \in DOMAIN ready' /\ ready'[i - 1] = ready[i]
      /\ \A i \in DOMAIN ready' : /\ i \in Nat /\ i + 1 \in DOMAIN ready /\ 1 < i + 1
                                  /\ ready'[i] = ready[i + 1]
  BY QueueShrunk
<1>2. who = "web" => \A i \in DOMAIN ready' : ready'[i].who # "web"
  BY <1>1 DEF QueueTagged
<1>3. \A i, j \in DOMAIN ready' : ready'[i].who = "web" /\ ready'[j].who = "web" => i = j
  <2> SUFFICES ASSUME NEW i \in DOMAIN ready', NEW j \in DOMAIN ready',
                      ready'[i].who = "web", ready'[j].who = "web"
               PROVE  i = j
    OBVIOUS
  <2>1. i + 1 = j + 1
    BY <1>1 DEF QueueTagged
  <2> QED BY <1>1, <2>1
<1>4. QueueTagged'
  BY <1>1, <1>2, <1>3 DEF QueueTagged
<1>5. Posting \subseteq Posting' \cup {Head(ready).seq}
  BY <1>1 DEF Posting
<1> QED BY <1>1, <1>4, <1>5 DEF QueueTagged

(* What is waiting for session c when its cursor stands. *)
LEMMA WaitingChanges ==
    ASSUME NumbersKnown, NEW c \in Conns, cursor'[c] = cursor[c]
    PROVE  /\ Waiting(c) \subseteq Nums /\ lastSeq \in Nat
           /\ UNCHANGED rows => Waiting(c)' = Waiting(c)
           /\ Age \/ Prune => Waiting(c)' \subseteq Waiting(c)
           /\ \A p, o : Insert(p, o) => \/ Waiting(c)' = Waiting(c)
                                        \/ Waiting(c)' = Waiting(c) \cup {NextSeq}
<1>1. Excluded(c)' = Excluded(c)
  BY DEF Excluded
<1>2. /\ lastSeq \in Nat /\ cursor[c] \in Nat /\ cursor[c] <= lastSeq /\ rows \subseteq Row
      /\ \A r \in rows : r.seq \in Nums
  BY DEF NumbersKnown, StoreInv, SessionInv, Known, Row, Nums
<1>3. Waiting(c) \subseteq Nums
  BY <1>2 DEF Waiting, Backlog
<1>4. ASSUME UNCHANGED rows PROVE Waiting(c)' = Waiting(c)
  BY <1>1, <1>4 DEF Waiting, Backlog
<1>5. ASSUME Age PROVE Waiting(c)' \subseteq Waiting(c)
  <2>1. PICK r \in rows : rows' = (rows \ {r}) \cup {[r EXCEPT !.fresh = FALSE]}
    BY <1>5 DEF Age
  <2>2. [r EXCEPT !.fresh = FALSE].fresh = FALSE
    BY <1>2 DEF Row
  <2>3. \A q \in rows' : q.fresh => q \in rows
    BY <2>1, <2>2
  <2> QED BY <1>1, <2>3 DEF Waiting, Backlog
<1>6. ASSUME NEW p, NEW o, Insert(p, o)
      PROVE  \/ Waiting(c)' = Waiting(c)
             \/ Waiting(c)' = Waiting(c) \cup {NextSeq}
  <2> DEFINE e == [seq |-> NextSeq, pkt |-> p, origin |-> o, fresh |-> TRUE]
  <2>1. rows' = rows \cup {e} /\ e.seq = NextSeq /\ e.origin = o /\ e.fresh
    BY <1>6 DEF Insert
  <2> HIDE DEF e
  <2>2. NextSeq > cursor[c]
    BY <1>2 DEF NextSeq
  <2>3. CASE o \in Excluded(c)
    <3>1. Waiting(c)' = Waiting(c)
      BY <1>1, <2>1, <2>3 DEF Waiting, Backlog
    <3> QED BY <3>1
  <2>4. CASE o \notin Excluded(c)
    <3>1. Waiting(c)' = Waiting(c) \cup {NextSeq}
      BY <1>1, <2>1, <2>2, <2>4 DEF Waiting, Backlog
    <3> QED BY <3>1
  <2> QED BY <2>3, <2>4
<1>7. ASSUME Prune PROVE Waiting(c)' \subseteq Waiting(c)
  <2>1. rows' \subseteq rows
    BY <1>7 DEF Prune
  <2> QED BY <1>1, <2>1 DEF Waiting, Backlog
<1> QED BY <1>2, <1>3, <1>4, <1>5, <1>6, <1>7

(* What stores, ages or passes on messages without losing one that is      *)
(* coming keeps the replay within its limit.                               *)
LEMMA LimitFramed ==
    ASSUME NumbersKnown, NEW c \in Conns, LimitOf(c),
           pc'[c] = pc[c], offset'[c] = offset[c], todo'[c] = todo[c],
           Coming(c) \ {Nothing, NoSeq} \subseteq Coming(c)',
           \/ Waiting(c)' = Waiting(c)
           \/ Waiting(c)' \subseteq Waiting(c) /\ pc[c] # "select"
           \/ Waiting(c)' = Waiting(c) \cup {NextSeq} /\ NextSeq \in Coming(c)'
    PROVE  LimitOf(c)'
<1> DEFINE W == Waiting(c)
           V == Waiting(c)'
<1>1. /\ W \subseteq Nums /\ lastSeq \in Nat /\ offset[c] \in Nat /\ ReplayLimit \in Nat
      /\ IsFiniteSet(W) /\ Cardinality(W) \in Nat /\ NextSeq = lastSeq + 1
      /\ \A n \in W : Rank(W, n) \in Nat
  <2>1. W \subseteq Nums /\ lastSeq \in Nat
    BY DEF Waiting, Backlog, NumbersKnown, StoreInv, SessionInv, Known, Row, Nums
  <2> HIDE DEF W
  <2>2. IsFiniteSet(W) /\ Cardinality(W) \in Nat /\ \A n \in W : Rank(W, n) \in Nat
    BY <2>1, RanksBelow
  <2> QED BY <2>1, <2>2, ServerAssumption DEF NumbersKnown, SessionInv, NextSeq
<1>2. \A n \in W : n \notin Coming(c)' => n \notin Coming(c)
  BY <1>1 DEF Nums, Nothing, NoSeq
<1>3. /\ V = W \/ (V \subseteq W /\ pc[c] # "select") \/ (V = W \cup {NextSeq} /\ NextSeq \in Coming(c)')
      /\ \A n \in V : n \in W \/ n \in Coming(c)'
  OBVIOUS
<1>4. /\ pc[c] = "select" => /\ offset[c] > 0 => Cardinality(W) >= offset[c] + ReplayLimit
                             /\ \A n \in W \ Coming(c) : Rank(W, n) < offset[c] + ReplayLimit
      /\ pc[c] = "selected" => \A n \in W \ todo[c] :
            \/ Cardinality({m \in todo[c] : m > n}) = ReplayLimit
            \/ n \in Coming(c)
  BY DEF LimitOf
<1> HIDE DEF W, V
<1>5. ASSUME pc[c] = "select"
      PROVE  /\ offset[c] > 0 => Cardinality(V) >= offset[c] + ReplayLimit
             /\ \A n \in V \ Coming(c)' : Rank(V, n) < offset[c] + ReplayLimit
  <2>1. CASE V = W
    BY <1>2, <1>4, <1>5, <2>1
  <2>2. CASE V = W \cup {NextSeq} /\ NextSeq \in Coming(c)'
    <3>1. NextSeq \notin W
      BY <1>1 DEF Nums
    <3>2. Cardinality(V) = Cardinality(W) + 1
      BY <1>1, <2>2, <3>1, FS_AddElement
    <3>3. \A n \in W : Rank(V, n) = Rank(W, n)
      <4> TAKE n \in W
      <4>1. \A m \in V : m < n => m \in W
        BY <1>1, <2>2 DEF Nums
      <4>2. {m \in V : m < n} = {m \in W : m < n}
        BY <2>2, <4>1
      <4> QED BY <4>2 DEF Rank
    <3>4. \A n \in V \ Coming(c)' : n \in W \ Coming(c)
      BY <1>2, <2>2
    <3>5. \A n \in V \ Coming(c)' : Rank(V, n) < offset[c] + ReplayLimit
      BY <1>4, <1>5, <3>3, <3>4
    <3>6. offset[c] > 0 => Cardinality(V) >= offset[c] + ReplayLimit
      BY <1>1, <1>4, <1>5, <3>2
    <3> QED BY <3>5, <3>6
  <2> QED BY <1>3, <1>5, <2>1, <2>2
<1>6. ASSUME pc[c] = "selected"
      PROVE  \A n \in V \ todo[c] : \/ Cardinality({m \in todo[c] : m > n}) = ReplayLimit
                                    \/ n \in Coming(c)'
  BY <1>2, <1>3, <1>4, <1>6
<1> QED BY <1>5, <1>6 DEF LimitOf, V

(* The offset is taken from what the select would return at this moment.   *)
LEMMA CountLimit ==
    ASSUME NumbersKnown, NEW c \in Conns, CountBacklog(c)
    PROVE  LimitOf(c)'
<1> DEFINE W == Waiting(c)
<1>1. /\ offset'[c] = Larger(0, Cardinality(W) - ReplayLimit) /\ pc'[c] = "select"
      /\ cursor'[c] = cursor[c] /\ UNCHANGED rows
  BY DEF CountBacklog, storeVars, NumbersKnown, SessionInv, Waiting
<1>2. Waiting(c)' = W /\ W \subseteq Nums /\ lastSeq \in Nat
  BY <1>1, WaitingChanges
<1>3. ReplayLimit \in Nat
  BY ServerAssumption
<1> HIDE DEF W
<1>4. Cardinality(W) \in Nat /\ \A n \in W : Rank(W, n) \in Nat /\ Rank(W, n) < Cardinality(W)
  BY <1>2, RanksBelow
<1>5. offset'[c] > 0 => Cardinality(W) >= offset'[c] + ReplayLimit
  BY <1>1, <1>3, <1>4 DEF Larger
<1>6. \A n \in W : Rank(W, n) < offset'[c] + ReplayLimit
  <2>1. Cardinality(W) <= offset'[c] + ReplayLimit /\ offset'[c] \in Nat
    BY <1>1, <1>3, <1>4 DEF Larger
  <2> QED BY <1>3, <1>4, <2>1
<1> QED BY <1>1, <1>2, <1>5, <1>6 DEF LimitOf

(* The select leaves out what is older than a full slice, or is coming.    *)
LEMMA SelectLimit ==
    ASSUME NumbersKnown, NEW c \in Conns, LimitOf(c), SelectRows(c), Coming(c)' = Coming(c)
    PROVE  LimitOf(c)'
<1> DEFINE W == Waiting(c)
           S == Slice(W, ReplayLimit, offset[c])
<1>1. /\ pc[c] = "select" /\ pc'[c] = "selected" /\ todo'[c] = S
      /\ cursor'[c] = cursor[c] /\ UNCHANGED rows
  BY DEF SelectRows, storeVars, NumbersKnown, SessionInv, Waiting
<1>2. Waiting(c)' = W /\ W \subseteq Nums /\ lastSeq \in Nat
  BY <1>1, WaitingChanges
<1>3. ReplayLimit \in Nat /\ offset[c] \in Nat
  BY ServerAssumption DEF NumbersKnown, SessionInv
<1>4. /\ offset[c] > 0 => Cardinality(W) >= offset[c] + ReplayLimit
      /\ \A n \in W \ Coming(c) : Rank(W, n) < offset[c] + ReplayLimit
  BY <1>1 DEF LimitOf
<1>5. S \subseteq W /\ \A n \in W : n \in S <=> Rank(W, n) \in offset[c] .. offset[c] + ReplayLimit - 1
  BY DEF Slice, Rank
<1> HIDE DEF W, S
<1>6. Cardinality(W) \in Nat /\ \A n \in W : Rank(W, n) \in Nat
  BY <1>2, RanksBelow
<1>7. \A n \in W : n \in S <=> offset[c] <= Rank(W, n) /\ Rank(W, n) < offset[c] + ReplayLimit
  <2>1. \A r \in Nat : r \in offset[c] .. offset[c] + ReplayLimit - 1
                          <=> offset[c] <= r /\ r < offset[c] + ReplayLimit
    BY <1>3
  <2> QED BY <1>5, <1>6, <2>1
<1>8. ASSUME NEW n \in W \ S, n \notin Coming(c)
      PROVE  Cardinality({m \in S : m > n}) = ReplayLimit
  <2>1. Rank(W, n) < offset[c]
    BY <1>3, <1>4, <1>6, <1>7, <1>8
  <2>2. offset[c] \in Nat \ {0} /\ offset[c] + ReplayLimit <= Cardinality(W)
    BY <1>3, <1>4, <1>6, <2>1
  <2>3. Cardinality(S) = ReplayLimit
    BY <1>2, <1>3, <2>2, SliceFull DEF S
  <2>4. \A m \in S : m > n
    <3> TAKE m \in S
    <3>1. offset[c] <= Rank(W, m) /\ m \in W
      BY <1>5, <1>7
    <3>2. m <= n => Rank(W, m) <= Rank(W, n)
      BY <1>2, <3>1, RanksAscend
    <3>3. m \in Int /\ n \in Int
      BY <1>2, <3>1 DEF Nums
    <3> QED BY <1>3, <1>6, <2>1, <3>1, <3>2, <3>3
  <2>5. {m \in S : m > n} = S
    BY <2>4
  <2> QED BY <2>3, <2>5
<1> QED BY <1>1, <1>2, <1>8 DEF LimitOf

(* A delivery puts the number into the queue of a session in its replay's  *)
(* count or select, as long as the queue has room.                         *)
LEMMA DeliverComes ==
    ASSUME NumbersKnown, QueueInv, RoomLeft, NEW c \in Conns, pc[c] \in {"select", "selected"},
           NEW n \in Known, NEW S, NEW senders, c \in S, c \notin senders, Deliver(n, S, senders)
    PROVE  cursor'[c] = cursor[c] /\ Range(pending[c]) \cup {n} \subseteq Range(pending'[c])
<1>1. ~live[c] /\ Len(pending[c]) < MaxPending /\ pending[c] \in Seq(Known)
  BY DEF QueueInv, InHandshake, RoomLeft, NumbersKnown, SessionInv
<1>2. pending'[c] = Append(pending[c], n) /\ cursor'[c] = cursor[c]
  BY <1>1 DEF Deliver, Give, Moving, KeysOf, Receiving, Queueing
<1>3. /\ DOMAIN pending[c] = 1 .. Len(pending[c]) /\ Len(pending[c]) \in Nat
      /\ DOMAIN pending'[c] = 1 .. Len(pending[c]) + 1
      /\ \A i \in 1 .. Len(pending[c]) : pending'[c][i] = pending[c][i]
      /\ pending'[c][Len(pending[c]) + 1] = n
  BY <1>1, <1>2, QueueElements
<1>4. Len(pending[c]) + 1 \in DOMAIN pending'[c]
      /\ \A i \in DOMAIN pending[c] : i \in DOMAIN pending'[c] /\ pending'[c][i] = pending[c][i]
  BY <1>3
<1> QED BY <1>2, <1>3, <1>4 DEF Range

(* A session at another place of its handler has no replay to lose.        *)
LEMMA LimitElsewhere ==
    ASSUME NEW c \in Conns, pc'[c] \notin {"select", "selected"}
    PROVE  LimitOf(c)'
BY DEF LimitOf

(* The numbers the sessions are about to mirror. *)
Mirroring == {own[d] : d \in {e \in Conns : pc[e] = "stored"}}

(* The reader, the web request and the loop's fan-outs. *)
LEMMA ThreadLimit ==
    ASSUME NumbersKnown, QueueInv, RoomLeft, LimitInv, Threads
    PROVE  LimitInv'
<1> USE DEF storeVars, sessionVars, histVars
<1>1. UNCHANGED <<pc, clients, offset, todo, own, rows, budget, lastSeq>>
  BY DEF Threads, PostFanout, Fanout, PostWeb, MirrorWeb
<1>2. Mirroring' = Mirroring /\ QueueTagged
  BY <1>1 DEF Mirroring, LimitInv
<1>3. \A c \in Conns : Coming(c) = {reader, web} \cup Range(pending[c]) \cup Posting \cup Mirroring
  BY DEF Coming, Posting, Mirroring
<1>4. \A c \in Conns : Coming(c)' = {reader', web'} \cup Range(pending'[c]) \cup Posting' \cup Mirroring'
  BY DEF Coming, Posting, Mirroring
<1>5. CASE PostFanout \/ PostWeb
  <2>1. UNCHANGED <<cursor, pending>>
    BY <1>5 DEF PostFanout, PostWeb
  <2>2. QueueTagged' /\ {reader, web} \cup Posting \subseteq {reader', web'} \cup Posting' \cup {Nothing}
    <3>1. CASE PostFanout
      <4>1. reader \in Known /\ PostTo("reader", reader) /\ web' = web /\ "reader" \notin Conns
        BY <3>1, ServerAssumption DEF PostFanout, NumbersKnown, ThreadInv
      <4>2. QueueTagged' /\ Posting' = Posting \cup {reader}
        BY <1>2, <4>1, TagsPosted
      <4> QED BY <4>1, <4>2
    <3>2. CASE PostWeb
      <4>1. /\ web \in Known /\ PostTo("web", web) /\ web' = web /\ reader' = reader /\ ~Queued("web")
            /\ "web" \notin Conns
        BY <3>2, ServerAssumption DEF PostWeb, NumbersKnown, ThreadInv
      <4>2. QueueTagged' /\ Posting' = Posting \cup {web}
        BY <1>2, <4>1, TagsPosted
      <4> QED BY <4>1, <4>2
    <3> QED BY <1>5, <3>1, <3>2
  <2>3. ASSUME NEW c \in Conns PROVE LimitOf(c)'
    <3>1. Coming(c) \ {Nothing, NoSeq} \subseteq Coming(c)'
      BY <1>2, <1>3, <1>4, <2>1, <2>2
    <3>2. Waiting(c)' = Waiting(c)
      BY <1>1, <2>1, WaitingChanges
    <3> QED BY <1>1, <2>1, <3>1, <3>2, LimitFramed DEF LimitInv
  <2> QED BY <1>1, <2>2, <2>3 DEF LimitInv
<1>6. CASE Fanout \/ MirrorWeb
  <2> DEFINE n == Head(ready).seq
  <2>1. PICK who \in {"reader", "web"} :
          /\ Take(who) /\ (who = "web" \/ web' = web)
          /\ Deliver(n, clients, {}) /\ UNCHANGED reader
          /\ web' = web \/ (who = "web" /\ web' = Nothing)
    BY <1>6 DEF Fanout, MirrorWeb
  <2>2. /\ n \in Known /\ QueueTagged' /\ Posting \subseteq Posting' \cup {n}
        /\ who = "web" => n = web
    <3>1. who \in Conns \cup {"reader", "web", "wiper"}
      OBVIOUS
    <3>2. n \in Known
      BY <1>1, <2>1, <3>1, QueueKnown
    <3> QED BY <1>2, <2>1, <3>2, TagsTaken
  <2> HIDE DEF n
  <2>3. ASSUME NEW c \in Conns, pc[c] \in {"select", "selected"} PROVE LimitOf(c)'
    <3>1. c \in clients
      BY <2>3 DEF LimitInv, Away
    <3>2. cursor'[c] = cursor[c] /\ Range(pending[c]) \cup {n} \subseteq Range(pending'[c])
      BY <2>1, <2>2, <2>3, <3>1, DeliverComes
    <3>3. Coming(c) \ {Nothing, NoSeq} \subseteq Coming(c)'
      BY <1>2, <1>3, <1>4, <2>1, <2>2, <3>2
    <3>4. Waiting(c)' = Waiting(c)
      BY <1>1, <3>2, WaitingChanges
    <3> QED BY <1>1, <3>3, <3>4, LimitFramed DEF LimitInv
  <2>4. \A c \in Conns : LimitOf(c)'
    BY <1>1, <2>3, LimitElsewhere
  <2> QED BY <1>1, <2>2, <2>4 DEF LimitInv
<1> QED BY <1>5, <1>6 DEF Threads

(* A message stored now is coming; one that ages or is pruned is so        *)
(* outside of the two queries.                                             *)
LEMMA WorldLimit ==
    ASSUME NumbersKnown, LimitInv, World, [Undisturbed]_vars
    PROVE  LimitInv'
<1> USE DEF storeVars, threadVars, sessionVars, histVars
<1>1. UNCHANGED <<pc, clients, offset, todo, own, cursor, pending, ready>>
  BY DEF World, HearText, WebSend, HearOther, Capture, Housekeeping
<1>2. /\ reader' = reader \/ reader = Nothing
      /\ web' = web \/ web = Nothing
  BY DEF World, HearText, WebSend, HearOther, Capture, Housekeeping
<1>3. \/ UNCHANGED rows
      \/ (Age \/ Prune) /\ \A c \in Conns : pc[c] # "select"
      \/ /\ \E p, o : Insert(p, o)
         /\ NextSeq \in {reader', web'}
  <2>1. Prune => UNCHANGED rows \/ \A c \in Conns : pc[c] # "select"
    BY DEF Undisturbed, vars
  <2>2. CASE Housekeeping
    BY <2>1, <2>2 DEF Housekeeping
  <2>3. ASSUME NEW p \in MeshPackets, HearText(p)
        PROVE  UNCHANGED rows \/ ((\E q, o : Insert(q, o)) /\ NextSeq \in {reader', web'})
    BY <2>3 DEF HearText
  <2>4. ASSUME NEW p \in AppPackets, WebSend(p)
        PROVE  (\E q, o : Insert(q, o)) /\ NextSeq \in {reader', web'}
    BY <2>4 DEF WebSend
  <2>5. CASE HearOther \/ Capture
    BY <2>5 DEF HearOther, Capture
  <2> QED BY <2>2, <2>3, <2>4, <2>5 DEF World
<1>4. QueueTagged'
  <2>1. QueueTagged /\ \A i \in DOMAIN ready : ready[i].seq # Nothing
    <3>1. ready \in Seq(Posted(Known)) /\ Nothing \notin Known
      BY DEF NumbersKnown, ThreadInv, Known, Nothing
    <3>2. \A i \in DOMAIN ready : ready[i] \in Posted(Known)
      BY <3>1, LenProperties, ElementOfSeq
    <3> QED BY <3>1, <3>2 DEF LimitInv, Posted
  <2> QED BY <1>1, <1>2, <2>1 DEF QueueTagged
<1>5. ASSUME NEW c \in Conns PROVE LimitOf(c)'
  <2>1. /\ Coming(c) \ {Nothing, NoSeq} \subseteq Coming(c)'
        /\ reader' \in Coming(c)' /\ web' \in Coming(c)'
    BY <1>1, <1>2 DEF Coming
  <2>2. \/ Waiting(c)' = Waiting(c)
        \/ Waiting(c)' \subseteq Waiting(c) /\ pc[c] # "select"
        \/ Waiting(c)' = Waiting(c) \cup {NextSeq} /\ NextSeq \in Coming(c)'
    BY <1>1, <1>3, <2>1, WaitingChanges
  <2> QED BY <1>1, <2>1, <2>2, LimitFramed DEF LimitInv
<1> QED BY <1>1, <1>4, <1>5 DEF LimitInv

(* What a handler's step does to the queue, the budget and the sessions.   *)
LEMMA HandlerLimit ==
    ASSUME NumbersKnown, LimitInv, NEW d \in Conns, App(d) \/ Handler(d)
    PROVE  /\ QueueTagged' /\ Posting \subseteq Posting' \cup {NoSeq}
           /\ UNCHANGED <<reader, web>>
           /\ \A c \in Conns : pc'[c] \notin Away => c \in clients'
<1> USE DEF storeVars, threadVars, sessionVars, histVars
<1>0. /\ pc \in [Conns -> Pcs] /\ clients \subseteq Conns /\ QueueTagged
      /\ \A c \in Conns : pc[c] \notin Away => c \in clients
  BY DEF NumbersKnown, SessionInv, LimitInv
<1>1. /\ UNCHANGED <<reader, web>>
      /\ UNCHANGED ready \/ Take(d) \/ PostTo(d, NoSeq)
  <2>1. CASE App(d)
    BY <2>1 DEF App, Connect, AskConfig, SendPacket, Drop
  <2>2. CASE Handler(d)
    BY <2>2 DEF Handler, LookUp, PostWake, Join, ServeConfig, CountBacklog, SelectRows,
       CompleteConfig, ReplayRow, GoLive, StoreOwn, MirrorOwn, Sent, Leave
  <2> QED BY <2>1, <2>2
<1>2. QueueTagged' /\ Posting \subseteq Posting' \cup {NoSeq}
  <2>1. CASE UNCHANGED ready
    BY <1>0, <1>1, <2>1 DEF QueueTagged, Posting
  <2>2. CASE Take(d)
    <3>1. Head(ready).seq = NoSeq /\ QueueTagged' /\ Posting \subseteq Posting' \cup {Head(ready).seq}
      BY <1>0, <1>1, <2>2, TagsTaken
    <3> QED BY <3>1
  <2>3. CASE PostTo(d, NoSeq)
    <3>1. NoSeq \in Known /\ d # "web"
      BY SeenKnown, ServerAssumption
    <3>2. QueueTagged' /\ Posting' = Posting \cup {NoSeq}
      BY <1>0, <1>1, <2>3, <3>1, TagsPosted
    <3> QED BY <3>2
  <2> QED BY <1>1, <2>1, <2>2, <2>3
<1>3. ASSUME NEW c \in Conns, pc'[c] \notin Away PROVE c \in clients'
  <2>1. CASE Leave(d)
    BY <1>0, <1>3, <2>1 DEF Leave, Forget, Away
  <2>2. CASE Join(d)
    BY <1>0, <1>3, <2>2 DEF Join
  <2>3. CASE LookUp(d) \/ Connect(d)
    BY <1>0, <1>3, <2>3 DEF LookUp, Connect, Away
  <2>4. ASSUME ~Leave(d), ~Join(d), ~LookUp(d), ~Connect(d)
        PROVE  /\ UNCHANGED clients
               /\ pc'[c] = pc[c] \/ (c = d /\ pc[c] \notin Away)
    <3>1. CASE App(d)
      BY <1>0, <2>4, <3>1 DEF App, AskConfig, SendPacket, Drop, Away
    <3>2. CASE Handler(d)
      BY <1>0, <2>4, <3>2 DEF Handler, PostWake, ServeConfig, CountBacklog, SelectRows,
         CompleteConfig, ReplayRow, GoLive, StoreOwn, MirrorOwn, Sent, Away
    <3> QED BY <3>1, <3>2
  <2> QED BY <1>0, <1>3, <2>1, <2>2, <2>3, <2>4
<1> QED BY <1>1, <1>2, <1>3

(* Another session's step. *)
LEMMA OtherLimit ==
    ASSUME NumbersKnown, QueueInv, RoomLeft, LimitInv, NEW d \in Conns, App(d) \/ Handler(d),
           NEW c \in Conns, c # d, pc[c] \in {"select", "selected"}
    PROVE  LimitOf(c)'
<1> USE DEF storeVars, threadVars, sessionVars, histVars
<1>1. /\ pc \in [Conns -> Pcs] /\ offset \in [Conns -> Nat] /\ own \in [Conns -> Known]
      /\ todo \in [Conns -> SUBSET (Known \ {0})] /\ pending \in [Conns -> Seq(Known)]
      /\ cursor \in [Conns -> Known] /\ c \in clients /\ LimitOf(c)
  BY DEF NumbersKnown, SessionInv, LimitInv, Away
<1>2. /\ pc'[c] = pc[c] /\ offset'[c] = offset[c] /\ todo'[c] = todo[c]
  <2>1. CASE App(d)
    BY <1>1, <2>1 DEF App, Connect, AskConfig, SendPacket, Drop
  <2>2. CASE Handler(d) /\ ~Leave(d)
    BY <1>1, <2>2 DEF Handler, LookUp, PostWake, Join, ServeConfig, CountBacklog, SelectRows,
       CompleteConfig, ReplayRow, GoLive, StoreOwn, MirrorOwn, Sent
  <2>3. CASE Leave(d)
    BY <1>1, <2>3 DEF Leave, Forget
  <2> QED BY <2>1, <2>2, <2>3
<1>3. Posting \subseteq Posting' \cup {NoSeq} /\ UNCHANGED <<reader, web>>
  BY HandlerLimit
<1>4. /\ Coming(c) = {reader, web} \cup Range(pending[c]) \cup Posting \cup Mirroring
      /\ Coming(c)' = {reader', web'} \cup Range(pending'[c]) \cup Posting' \cup Mirroring'
  BY DEF Coming, Posting, Mirroring
<1>5. CASE MirrorOwn(d)
  <2>1. /\ pc[d] = "stored" /\ \A e \in Conns : e # d => pc'[e] = pc[e] /\ own'[e] = own[e]
        /\ UNCHANGED rows
        /\ \/ own[d] # NoSeq /\ Deliver(own[d], Others(d), {d})
           \/ own[d] = NoSeq /\ UNCHANGED <<pending, cursor>>
    BY <1>1, <1>5 DEF MirrorOwn
  <2>2. Mirroring \subseteq Mirroring' \cup {own[d]}
    BY <2>1 DEF Mirroring
  <2>3. cursor'[c] = cursor[c] /\ Range(pending[c]) \cup {own[d]} \subseteq Range(pending'[c]) \cup {NoSeq}
    <3>1. CASE own[d] # NoSeq /\ Deliver(own[d], Others(d), {d})
      <4>1. c \in Others(d) /\ c \notin {d} /\ own[d] \in Known
        BY <1>1 DEF Others
      <4> QED BY <3>1, <4>1, DeliverComes
    <3>2. CASE own[d] = NoSeq /\ UNCHANGED <<pending, cursor>>
      BY <3>2
    <3> QED BY <2>1, <3>1, <3>2
  <2>4. Coming(c) \ {Nothing, NoSeq} \subseteq Coming(c)'
    BY <1>3, <1>4, <2>2, <2>3
  <2>5. Waiting(c)' = Waiting(c)
    BY <2>1, <2>3, WaitingChanges
  <2> QED BY <1>1, <1>2, <2>4, <2>5, LimitFramed
<1>6. ASSUME NEW p \in AppPackets, StoreOwn(d, p) PROVE LimitOf(c)'
  <2>1. /\ pc[d] = "storing" /\ pc'[d] = "stored" /\ \A e \in Conns : e # d => pc'[e] = pc[e] /\ own'[e] = own[e]
        /\ UNCHANGED <<pending, cursor>>
        /\ \/ Insert(p, KeyOf[d]) /\ own'[d] = NextSeq
           \/ UNCHANGED rows
    BY <1>1, <1>6 DEF StoreOwn
  <2>2. Mirroring \subseteq Mirroring' /\ own'[d] \in Mirroring'
    BY <2>1 DEF Mirroring
  <2>3. Coming(c) \ {Nothing, NoSeq} \subseteq Coming(c)' /\ own'[d] \in Coming(c)'
    BY <1>3, <1>4, <2>1, <2>2
  <2>4. \/ Waiting(c)' = Waiting(c)
        \/ Waiting(c)' = Waiting(c) \cup {NextSeq} /\ NextSeq \in Coming(c)'
    BY <2>1, <2>3, WaitingChanges
  <2> QED BY <1>1, <1>2, <2>3, <2>4, LimitFramed
<1>7. ASSUME ~MirrorOwn(d), \A p \in AppPackets : ~StoreOwn(d, p) PROVE LimitOf(c)'
  <2>1. /\ cursor'[c] = cursor[c] /\ pending'[c] = pending[c] /\ UNCHANGED rows
        /\ \A e \in Conns : pc[e] = "stored" => pc'[e] = "stored" /\ own'[e] = own[e]
    <3>1. CASE App(d)
      BY <1>1, <3>1 DEF App, Connect, AskConfig, SendPacket, Drop
    <3>2. CASE LookUp(d) \/ PostWake(d) \/ Join(d) \/ ServeConfig(d) \/ CountBacklog(d)
      BY <1>1, <3>2 DEF LookUp, PostWake, Join, ServeConfig, CountBacklog
    <3>3. CASE SelectRows(d) \/ CompleteConfig(d) \/ ReplayRow(d) \/ GoLive(d) \/ Sent(d)
      BY <1>1, <3>3 DEF SelectRows, CompleteConfig, ReplayRow, GoLive, Sent
    <3>4. CASE Leave(d)
      BY <1>1, <3>4 DEF Leave, Forget
    <3> QED BY <1>7, <3>1, <3>2, <3>3, <3>4 DEF Handler
  <2>2. Mirroring \subseteq Mirroring'
    BY <2>1 DEF Mirroring
  <2>3. Coming(c) \ {Nothing, NoSeq} \subseteq Coming(c)'
    BY <1>3, <1>4, <2>1, <2>2
  <2>4. Waiting(c)' = Waiting(c)
    BY <2>1, WaitingChanges
  <2> QED BY <1>1, <1>2, <2>3, <2>4, LimitFramed
<1> QED BY <1>5, <1>6, <1>7

(* A session's own step. *)
LEMMA OwnLimit ==
    ASSUME NumbersKnown, LimitInv, NEW c \in Conns, App(c) \/ Handler(c)
    PROVE  LimitOf(c)'
<1> USE DEF storeVars, threadVars, sessionVars, histVars
<1>1. pc \in [Conns -> Pcs] /\ LimitOf(c)
  BY DEF NumbersKnown, SessionInv, LimitInv
<1>2. Posting \subseteq Posting' \cup {NoSeq} /\ UNCHANGED <<reader, web>>
  BY HandlerLimit
<1>3. CASE PostWake(c) \/ Drop(c)
  <2>1. UNCHANGED <<rows, pc, offset, todo, own, cursor, pending>>
    BY <1>3 DEF PostWake, Drop
  <2>2. Coming(c) \ {Nothing, NoSeq} \subseteq Coming(c)'
    BY <1>2, <2>1 DEF Coming, Posting
  <2>3. Waiting(c)' = Waiting(c)
    BY <2>1, WaitingChanges
  <2> QED BY <1>1, <2>1, <2>2, <2>3, LimitFramed
<1>4. CASE SelectRows(c)
  <2>1. /\ UNCHANGED <<reader, web, ready, pending, own>>
        /\ \A d \in Conns : pc'[d] = "stored" <=> pc[d] = "stored"
    BY <1>1, <1>4 DEF SelectRows
  <2>2. Coming(c)' = Coming(c)
    BY <2>1 DEF Coming
  <2> QED BY <1>1, <1>4, <2>2, SelectLimit
<1>5. ASSUME ~PostWake(c), ~Drop(c), ~SelectRows(c), ~CountBacklog(c)
      PROVE  pc'[c] \notin {"select", "selected"}
  <2>1. CASE App(c)
    BY <1>1, <1>5, <2>1 DEF App, Connect, AskConfig, SendPacket
  <2>2. CASE Handler(c)
    BY <1>1, <1>5, <2>2 DEF Handler, LookUp, Join, ServeConfig, CompleteConfig, ReplayRow, GoLive,
       StoreOwn, MirrorOwn, Sent, Leave, Forget
  <2> QED BY <2>1, <2>2
<1> QED BY <1>3, <1>4, <1>5, CountLimit, LimitElsewhere

(* The inductive step. *)
LEMMA LimitStep ==
    ASSUME NumbersKnown, QueueInv, RoomLeft, LimitInv, [Next]_vars, [Undisturbed]_vars
    PROVE  LimitInv'
<1>1. CASE UNCHANGED vars
  <2> USE <1>1 DEF vars, storeVars, threadVars, sessionVars, histVars
  <2>1. \A c \in Conns : /\ LimitOf(c) /\ Coming(c)' = Coming(c) /\ Waiting(c)' = Waiting(c)
    BY DEF LimitInv, Coming, Waiting, Backlog, Excluded
  <2>2. \A c \in Conns : LimitOf(c)'
    BY <2>1 DEF LimitOf
  <2>3. QueueTagged'
    BY DEF LimitInv, QueueTagged
  <2> QED BY <2>2, <2>3 DEF LimitInv
<1>2. ASSUME NEW d \in Conns, App(d) \/ Handler(d) PROVE LimitInv'
  <2>1. ASSUME NEW c \in Conns PROVE LimitOf(c)'
    <3>1. CASE c = d
      BY <1>2, <3>1, OwnLimit
    <3>2. CASE c # d /\ pc[c] \in {"select", "selected"}
      BY <1>2, <3>2, OtherLimit
    <3>3. CASE c # d /\ pc[c] \notin {"select", "selected"}
      <4>1. pc'[c] \notin {"select", "selected"}
        <5> USE DEF NumbersKnown, SessionInv, sessionVars
        <5>1. CASE App(d)
          BY <3>3, <5>1 DEF App, Connect, AskConfig, SendPacket, Drop
        <5>2. CASE Handler(d)
          BY <3>3, <5>2 DEF Handler, LookUp, PostWake, Join, ServeConfig, CountBacklog, SelectRows,
             CompleteConfig, ReplayRow, GoLive, StoreOwn, MirrorOwn, Sent, Leave, Forget
        <5> QED BY <1>2, <5>1, <5>2
      <4> QED BY <4>1, LimitElsewhere
    <3> QED BY <3>1, <3>2, <3>3
  <2>2. QueueTagged' /\ \A c \in Conns : pc'[c] \notin Away => c \in clients'
    BY <1>2, HandlerLimit
  <2> QED BY <2>1, <2>2 DEF LimitInv
<1>3. CASE Restart
  <2>1. ready' = <<>> /\ \A c \in Conns : pc'[c] = "off"
    BY <1>3 DEF Restart, Forget
  <2>2. QueueTagged'
    BY <2>1 DEF QueueTagged
  <2> QED BY <2>1, <2>2 DEF LimitInv, LimitOf, Away
<1> QED BY <1>1, <1>2, <1>3, ThreadLimit, WorldLimit DEF Next, Running

(* A replay that cannot return the whole backlog leaves out only messages  *)
(* older than ReplayLimit others it returns, or ones stored after the      *)
(* count that are on their way: for every limit, whatever the other        *)
(* sessions, the mesh and the web UI store between the two queries, as     *)
(* long as nothing is pruned between them and no queue is full.            *)
THEOREM LimitAlwaysKeepsNewest ==
    Spec /\ []RoomLeft /\ PrunesApart => []LimitKeepsNewest
<1>1. Init => LimitInv
  <2> SUFFICES ASSUME Init PROVE LimitInv
    OBVIOUS
  <2>1. DOMAIN ready = {}
    BY DEF Init
  <2> QED BY <2>1 DEF Init, LimitInv, LimitOf, QueueTagged, Away
<1>2. NumbersKnown /\ QueueInv /\ RoomLeft /\ LimitInv /\ [Next]_vars /\ [Undisturbed]_vars
        => LimitInv'
  BY LimitStep
<1>3. LimitInv => LimitKeepsNewest
  BY DEF LimitInv, LimitOf, LimitKeepsNewest, Waiting
<1> QED BY <1>1, <1>2, <1>3, NumbersAlwaysKnown, QueueAlways, PTL
    DEF Spec, PrunesApart
=============================================================================
