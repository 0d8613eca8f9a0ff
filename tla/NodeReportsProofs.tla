------------------------- MODULE NodeReportsProofs ---------------------------
(***************************************************************************)
(* What holds of the delivery status, its evidence and the reports that    *)
(* came too early, for every set of texts and requests, every mix of       *)
(* packets sent together, and any number of reports and restarts.          *)
(***************************************************************************)
EXTENDS NodeReports, SequenceTheorems, TLAPS

Entry == [id: Ids, reports: Seq(Reports)]

(* _early_status is a dict: one entry for each key.                        *)
EarlyOK ==
    /\ early \in Seq(Entry)
    /\ \A i, j \in DOMAIN early : early[i].id = early[j].id => i = j

(* s has x for the key q. *)
Has(s, q, x) == \E i \in DOMAIN s : s[i].id = q /\ s[i].reports = x

Dict ==
    /\ \A q, x : Has(early, q, x) => Waiting(q) # {} /\ WaitingReports(q) = x
    /\ \A q : Waiting(q) # {} => Has(early, q, WaitingReports(q))
    /\ \A q : Waiting(q) = {} => WaitingReports(q) = <<>>
    /\ \A q : WaitingReports(q) \in Seq(Reports)

(* A text has a row from where its thread stored it, nothing is said of a  *)
(* text without one, and a thread holds reports only while it applies      *)
(* them.  An app's text has its row before it is transmitted.              *)
TextInv ==
    \A p \in Texts :
        /\ pc[p] \in {"idle", "aired"} => status[p] = NoStatus
        /\ pc[p] \in {"stored", "applying", "applied", "leaving"} => status[p] # NoStatus
        /\ status[p] = NoStatus => evidence[p] = <<>>
        /\ pc[p] \notin {"applying", "applied"} => applying[p] = <<>>
        /\ pc[p] = "applied" => applying[p] # <<>>
        /\ p \in AppTexts /\ p \in onAir => status[p] # NoStatus

(* The same of the requests and the log of exchanges.                      *)
RequestInv ==
    \A r \in Requests :
        /\ pc[r] \in {"idle", "aired"} => exchange[r] = NoExchange
        /\ pc[r] = "leaving" => exchange[r] # NoExchange
        /\ r \in AppRequests /\ r \in onAir => exchange[r] # NoExchange

(* The queue status the reader is at is about a packet the node was given. *)
(* Where its list has gone shows how far the packet's sender is.           *)
QueueInv ==
    queueReport # NoReport =>
        /\ queueReport.id \in onAir
        /\ queueReport.report \in QueueEvents
        /\ queueReport.at = "advance" => IsStored(queueReport.id)
        /\ queueReport.at \in {"keep", "append"} => queueReport.id \notin AppTexts
        /\ queueReport.at = "shared" => /\ queueReport.id \in Texts
                                        /\ pc[queueReport.id] \in {"applying", "applied"}
        /\ queueReport.at = "astray" => /\ queueReport.id \in Texts
                                        /\ LookedThrough(queueReport.id)

AppsWaitNever == \A p \in AppTexts : Waiting(p) = {}

(* The reports on a text add up. *)
Once(p) ==
    Len(evidence[p]) + Len(WaitingReports(p)) + Held(p) + lost[p] + strayed[p] = heard[p]

OnceInv == \A p \in Texts : Once(p)

ReportsInv ==
    /\ TypeOK
    /\ EarlyOK
    /\ TextInv
    /\ RequestInv
    /\ QueueInv
    /\ AppsWaitNever
    /\ OnceInv

(* What has been logged of a text and has yet to move its status.          *)
Unapplied(p) ==
    (IF pc[p] = "applied" THEN {Head(applying[p])} ELSE {})
      \cup (IF queueReport.id = p /\ queueReport.at = "advance" THEN {queueReport.report} ELSE {})

(* The status shows a report, or what overrules it. *)
Shows(current, report) ==
    CASE report = "ack" -> current = "delivered"
      [] report \in {"refused", "nak"} -> current \in {"failed", "relayed", "delivered"}
      [] report = "implicit_ack" -> current \in {"relayed", "delivered", "failed"}
      [] report = "queued" -> current \in {"sent", "relayed", "delivered", "failed"}

BackedInv ==
    \A p \in Texts :
        /\ status[p] \notin {NoStatus, "pending"} => \E report \in Said(p) : StatusOf[report] = status[p]
        /\ Unapplied(p) \subseteq Said(p)

ShownInv ==
    restarts = 0 =>
        \A p \in Texts : \A report \in Said(p) : Shows(status[p], report) \/ report \in Unapplied(p)

-----------------------------------------------------------------------------
(* The reports that wait, as a dict.                                       *)

LEMMA IdsOf == Texts \subseteq Ids /\ Requests \subseteq Ids
BY DEF Ids

LEMMA EarlyLen ==
    ASSUME early \in Seq(Entry)
    PROVE  /\ Len(early) \in Nat /\ DOMAIN early = 1 .. Len(early)
           /\ \A i \in 1 .. Len(early) : early[i] \in Entry
BY LenProperties, ElementOfSeq

LEMMA EarlyIsDict == EarlyOK => Dict
<1> SUFFICES ASSUME EarlyOK PROVE Dict
  OBVIOUS
<1>1. ASSUME NEW q, NEW i \in DOMAIN early, early[i].id = q
      PROVE  Waiting(q) # {} /\ WaitingReports(q) = early[i].reports
  <2>1. Waiting(q) = {i}
    BY <1>1 DEF EarlyOK, Waiting
  <2>2. (CHOOSE j \in Waiting(q) : TRUE) = i
    BY <2>1
  <2> QED BY <2>1, <2>2 DEF WaitingReports
<1>2. \A q, x : Has(early, q, x) => Waiting(q) # {} /\ WaitingReports(q) = x
  BY <1>1 DEF Has
<1>3. ASSUME NEW q, Waiting(q) # {}
      PROVE  Has(early, q, WaitingReports(q)) /\ WaitingReports(q) \in Seq(Reports)
  <2>1. PICK i \in DOMAIN early : early[i].id = q
    BY <1>3 DEF Waiting
  <2>2. WaitingReports(q) = early[i].reports
    BY <1>1, <2>1
  <2>3. early[i] \in Entry
    BY EarlyLen DEF EarlyOK
  <2> QED BY <2>1, <2>2, <2>3 DEF Has, Entry
<1>4. ASSUME NEW q, Waiting(q) = {}
      PROVE  WaitingReports(q) = <<>> /\ WaitingReports(q) \in Seq(Reports)
  <2>1. <<>> \in Seq(Reports)
    BY EmptySeq
  <2> QED BY <1>4, <2>1 DEF WaitingReports
<1> QED BY <1>2, <1>3, <1>4 DEF Dict

LEMMA EarlyIsDictNext == EarlyOK' => Dict'
BY EarlyIsDict, PTL

(* With adds the report to the key's entry, or an entry for it at the end. *)
LEMMA WithEffect ==
    ASSUME EarlyOK, NEW p \in Ids, NEW r \in Reports
    PROVE  /\ With(p, r) \in Seq(Entry)
           /\ Len(With(p, r)) = Len(early) + (IF Waiting(p) = {} THEN 1 ELSE 0)
           /\ \A i \in 1 .. Len(early) : With(p, r)[i].id = early[i].id
           /\ Waiting(p) = {} => With(p, r)[Len(early) + 1].id = p
           /\ \A i, j \in DOMAIN With(p, r) : With(p, r)[i].id = With(p, r)[j].id => i = j
           /\ \A q, x : q # p => (Has(With(p, r), q, x) <=> Has(early, q, x))
           /\ \A x : Has(With(p, r), p, x) <=> x = Append(WaitingReports(p), r)
<1> DEFINE all == With(p, r)
           e == [id |-> p, reports |-> <<r>>]
<1>1. /\ Len(early) \in Nat /\ DOMAIN early = 1 .. Len(early)
      /\ \A i \in 1 .. Len(early) : early[i] \in Entry
  BY EarlyLen DEF EarlyOK
<1>2. <<>> \in Seq(Reports) /\ Append(<<>>, r) = <<r>> /\ <<r>> \in Seq(Reports)
  BY EmptySeq
<1>3. CASE Waiting(p) = {}
  <2>1. e \in Entry /\ e.id = p /\ e.reports = <<r>>
    BY <1>2 DEF Entry
  <2>2. all = Append(early, e)
    BY <1>3 DEF With
  <2> HIDE DEF e, all
  <2>3. /\ all \in Seq(Entry) /\ Len(all) = Len(early) + 1
        /\ \A i \in 1 .. Len(early) : all[i] = early[i]
        /\ all[Len(early) + 1] = e
    BY <2>1, <2>2, AppendProperties DEF EarlyOK
  <2>4. DOMAIN all = 1 .. Len(early) + 1
    BY <2>3, LenProperties
  <2>5. \A i \in DOMAIN all : i \in DOMAIN early \/ i = Len(early) + 1
    BY <1>1, <2>4
  <2>6. \A i \in DOMAIN early : early[i].id # p
    BY <1>3 DEF Waiting
  <2>7. \A i, j \in DOMAIN all : all[i].id = all[j].id => i = j
    BY <1>1, <2>1, <2>3, <2>5, <2>6 DEF EarlyOK
  <2>8. \A i \in DOMAIN early : i \in DOMAIN all /\ all[i] = early[i]
    BY <1>1, <2>3, <2>4
  <2>9. Len(early) + 1 \in DOMAIN all
    BY <1>1, <2>4
  <2>10. \A q, x : q # p => (Has(all, q, x) <=> Has(early, q, x))
    BY <2>1, <2>3, <2>5, <2>8 DEF Has
  <2>11. \A x : Has(all, p, x) <=> x = <<r>>
    BY <2>1, <2>3, <2>5, <2>6, <2>8, <2>9 DEF Has
  <2>12. Append(WaitingReports(p), r) = <<r>>
    BY <1>2, <1>3 DEF WaitingReports
  <2>13. \A i \in 1 .. Len(early) : all[i].id = early[i].id
    BY <2>3
  <2>14. all[Len(early) + 1].id = p
    BY <2>1, <2>3
  <2> QED BY <1>3, <2>3, <2>7, <2>10, <2>11, <2>12, <2>13, <2>14 DEF all
<1>4. CASE Waiting(p) # {}
  <2>1. PICK k \in DOMAIN early : early[k].id = p
    BY <1>4 DEF Waiting
  <2>2. Waiting(p) = {k}
    BY <2>1 DEF Waiting, EarlyOK
  <2>3. WaitingReports(p) = early[k].reports
    BY <2>2 DEF WaitingReports
  <2>4. early[k].reports \in Seq(Reports) /\ early[k].id = p
    BY <1>1, <2>1 DEF Entry
  <2> DEFINE f == [id |-> p, reports |-> Append(early[k].reports, r)]
  <2>5. f \in Entry /\ f.id = p /\ f.reports = Append(WaitingReports(p), r)
    BY <2>3, <2>4, AppendProperties DEF Entry
  <2>6. [early[k] EXCEPT !.reports = Append(@, r)] = f
    <3>1. early[k] \in Entry
      BY <1>1, <2>1
    <3>2. early[k] = [id |-> p, reports |-> early[k].reports]
      BY <2>1, <3>1 DEF Entry
    <3> QED BY <3>2
  <2>7. all = [i \in DOMAIN early |-> IF i = k THEN f ELSE early[i]]
    BY <1>4, <2>2, <2>6 DEF With
  <2> HIDE DEF f, all
  <2>8. \A i \in 1 .. Len(early) : (IF i = k THEN f ELSE early[i]) \in Entry
    BY <1>1, <2>5
  <2>9. all \in Seq(Entry)
    BY <1>1, <2>7, <2>8, IsASeq
  <2>10. DOMAIN all = DOMAIN early /\ Len(all) = Len(early)
    BY <1>1, <2>7, <2>9, LenProperties
  <2>11. \A i \in DOMAIN early : all[i].id = early[i].id
    BY <2>1, <2>5, <2>7
  <2>12. \A q, x : q # p => (Has(all, q, x) <=> Has(early, q, x))
    BY <2>1, <2>5, <2>7, <2>10 DEF Has
  <2>13. \A x : Has(all, p, x) <=> x = Append(WaitingReports(p), r)
    BY <2>1, <2>5, <2>7, <2>10, <2>11 DEF Has, EarlyOK
  <2>14. \A i, j \in DOMAIN all : all[i].id = all[j].id => i = j
    BY <2>10, <2>11 DEF EarlyOK
  <2>15. \A i \in 1 .. Len(early) : all[i].id = early[i].id
    BY <1>1, <2>11
  <2>16. Len(all) = Len(early) + (IF Waiting(p) = {} THEN 1 ELSE 0)
    <3>1. Len(all) = Len(early) + 0
      BY <1>1, <2>10
    <3> QED BY <1>4, <3>1, Zenon
  <2>17. Waiting(p) = {} => all[Len(early) + 1].id = p
    BY <1>4
  <2> QED BY <2>9, <2>12, <2>13, <2>14, <2>15, <2>16, <2>17 DEF all
<1> QED BY <1>3, <1>4

(* Making room gives up at most the first packet's reports, and the others *)
(* wait on.                                                                *)
LEMMA RoomEffect ==
    ASSUME NEW all \in Seq(Entry), \A i, j \in DOMAIN all : all[i].id = all[j].id => i = j,
           lost \in [Texts -> Nat], NEW over \in {0, 1}, over <= Len(all), GiveUp(all, over)
    PROVE  /\ EarlyOK' /\ Len(early') = Len(all) - over /\ lost' \in [Texts -> Nat]
           /\ \/ /\ over = 0 /\ early' = all /\ lost' = lost
              \/ /\ over = 1 /\ 1 \in DOMAIN all
                 /\ \A q, x : Has(early', q, x) <=> Has(all, q, x) /\ q # all[1].id
                 /\ \A q \in Texts : lost'[q] = IF q = all[1].id THEN lost[q] + Len(all[1].reports)
                                                ELSE lost[q]
<1>2. /\ early' = SubSeq(all, over + 1, Len(all))
      /\ lost' = [q \in Texts |-> IF \E i \in 1 .. over : all[i].id = q
                                  THEN lost[q] + Len(all[CHOOSE i \in 1 .. over : all[i].id = q].reports)
                                  ELSE lost[q]]
  BY DEF GiveUp
<1>5. Len(all) \in Nat /\ DOMAIN all = 1 .. Len(all)
  BY LenProperties
<1>6. CASE over = 0
  <2>1. over = 0
    BY <1>6
  <2>2. early' = all
    <3>1. over + 1 = 1
      BY <2>1
    <3>2. early' = SubSeq(all, 1, Len(all))
      BY <1>2, <3>1, Zenon
    <3> QED BY <3>2, SubSeqFull
  <2>3. EarlyOK' /\ Len(early') = Len(all) - over
    <3> DEFINE n == Len(all)
    <3>1. n \in Nat /\ Len(early') = n
      BY <1>5, <2>2
    <3> HIDE DEF n
    <3>2. Len(early') = n - over
      BY <2>1, <3>1
    <3> QED BY <2>2, <3>2 DEF EarlyOK, n
  <2>4. lost' = lost
    <3>1. \A q : ~ \E i \in 1 .. over : all[i].id = q
      BY <2>1
    <3>2. lost' = [q \in Texts |-> lost[q]]
      BY <1>2, <3>1, Zenon
    <3> QED BY <3>2
  <2> QED BY <2>2, <2>3, <2>4
<1>7. CASE over = 1
  <2>1. over = 1 /\ Len(all) >= 1
    BY <1>5, <1>7
  <2>2. 1 \in DOMAIN all
    BY <1>5, <2>1
  <2>3. early' = SubSeq(all, 2, Len(all))
    <3>1. over + 1 = 2
      BY <2>1
    <3> QED BY <1>2, <3>1, Zenon
  <2>4. \A i \in 2 .. Len(all) : all[i] \in Entry
    BY <1>5, ElementOfSeq
  <2>5. /\ early' \in Seq(Entry) /\ Len(early') = Len(all) - 1
        /\ \A i \in 1 .. Len(all) - 1 : early'[i] = all[i + 1]
    <3>1. /\ SubSeq(all, 2, Len(all)) \in Seq(Entry)
          /\ Len(SubSeq(all, 2, Len(all))) = IF 2 <= Len(all) THEN Len(all) - 2 + 1 ELSE 0
          /\ \A i \in 1 .. Len(all) - 2 + 1 : SubSeq(all, 2, Len(all))[i] = all[2 + i - 1]
      BY <1>5, <2>4, SubSeqProperties
    <3>2. Len(all) - 2 + 1 = Len(all) - 1 /\ (Len(all) < 2 => Len(all) - 1 = 0)
      BY <1>5, <2>1
    <3>3. \A i \in 1 .. Len(all) - 1 : 2 + i - 1 = i + 1
      OBVIOUS
    <3> QED BY <1>5, <2>1, <2>3, <3>1, <3>2, <3>3
  <2>6. DOMAIN early' = 1 .. Len(all) - 1
    BY <2>5, LenProperties
  <2>7. \A i \in DOMAIN early' : i + 1 \in DOMAIN all /\ i + 1 # 1 /\ early'[i] = all[i + 1]
    BY <1>5, <2>5, <2>6
  <2>8. \A k \in DOMAIN all : k # 1 => k - 1 \in DOMAIN early' /\ early'[k - 1] = all[k]
    <3>1. \A k \in DOMAIN all : k # 1 => k - 1 \in 1 .. Len(all) - 1 /\ (k - 1) + 1 = k
      BY <1>5
    <3> QED BY <2>5, <2>6, <3>1
  <2>9. EarlyOK' /\ Len(early') = Len(all) - over
    <3>1. \A i, j \in DOMAIN early' : early'[i].id = early'[j].id => i + 1 = j + 1
      BY <2>7
    <3>2. \A i, j \in DOMAIN early' : i + 1 = j + 1 => i = j
      BY <2>6
    <3>3. Len(early') = Len(all) - over
      BY <2>1, <2>5
    <3> QED BY <2>5, <3>1, <3>2, <3>3 DEF EarlyOK
  <2>10. \A q, x : Has(early', q, x) <=> Has(all, q, x) /\ q # all[1].id
    BY <2>2, <2>7, <2>8 DEF Has
  <2>11. lost' = [q \in Texts |-> IF q = all[1].id THEN lost[q] + Len(all[1].reports) ELSE lost[q]]
    <3>1. \A q : (\E i \in 1 .. over : all[i].id = q) <=> q = all[1].id
      BY <2>1
    <3>3. ASSUME NEW q \in Texts
          PROVE  lost'[q] = IF q = all[1].id THEN lost[q] + Len(all[1].reports) ELSE lost[q]
      <4>1. lost'[q] = IF \E i \in 1 .. over : all[i].id = q
                       THEN lost[q] + Len(all[CHOOSE i \in 1 .. over : all[i].id = q].reports)
                       ELSE lost[q]
        BY <1>2, Zenon
      <4>2. CASE q = all[1].id
        <5>1. lost'[q] = lost[q] + Len(all[CHOOSE i \in 1 .. over : all[i].id = q].reports)
          BY <3>1, <4>1, <4>2, Zenon
        <5>2. (CHOOSE i \in 1 .. over : all[i].id = q) = 1
          BY <2>1, <4>2
        <5> QED BY <4>2, <5>1, <5>2, Zenon
      <4>3. CASE q # all[1].id
        BY <3>1, <4>1, <4>3, Zenon
      <4> QED BY <4>2, <4>3
    <3>4. lost' = [q \in Texts |-> lost'[q]]
      BY <1>2
    <3> QED BY <3>3, <3>4, Zenon
  <2>12. Len(all[1].reports) \in Nat
    <3>1. all[1] \in Entry
      BY <1>5, <2>2, ElementOfSeq
    <3>2. all[1].reports \in Seq(Reports)
      BY <3>1 DEF Entry
    <3> QED BY <3>2, LenProperties
  <2>13. lost' \in [Texts -> Nat]
    BY <2>11, <2>12
  <2>14. \A q \in Texts : lost'[q] = IF q = all[1].id THEN lost[q] + Len(all[1].reports) ELSE lost[q]
    BY <2>11, Zenon
  <2> QED BY <2>1, <2>2, <2>9, <2>10, <2>13, <2>14
<1> QED BY <1>6, <1>7

(* What waits is what the entries say, before and after.                   *)
LEMMA EntriesSay ==
    ASSUME EarlyOK, EarlyOK'
    PROVE  /\ \A q, x : Has(early, q, x) => Waiting(q) # {} /\ WaitingReports(q) = x
           /\ \A q : Waiting(q) # {} => Has(early, q, WaitingReports(q))
           /\ \A q : Waiting(q) = {} => WaitingReports(q) = <<>>
           /\ \A q, x : Has(early', q, x) => Waiting(q)' # {} /\ WaitingReports(q)' = x
           /\ \A q : Waiting(q)' # {} => Has(early', q, WaitingReports(q)')
           /\ \A q : Waiting(q)' = {} => WaitingReports(q)' = <<>>
<1>1. /\ \A q, x : Has(early, q, x) => Waiting(q) # {} /\ WaitingReports(q) = x
      /\ \A q : Waiting(q) # {} => Has(early, q, WaitingReports(q))
      /\ \A q : Waiting(q) = {} => WaitingReports(q) = <<>>
  BY EarlyIsDict DEF Dict
<1>2. /\ \A q, x : Has(early', q, x) => Waiting(q)' # {} /\ WaitingReports(q)' = x
      /\ \A q : Waiting(q)' # {} => Has(early', q, WaitingReports(q)')
      /\ \A q : Waiting(q)' = {} => WaitingReports(q)' = <<>>
  BY EarlyIsDictNext DEF Dict, Has
<1> QED BY <1>1, <1>2

(* One id too many at most. *)
LEMMA OverIs ==
    ASSUME NEW all, Len(all) \in Nat, Len(all) <= MaxEarly + 1
    PROVE  /\ Over(all) \in {0, 1} /\ Over(all) <= Len(all)
           /\ Len(all) - Over(all) <= MaxEarly
           /\ Over(all) = 1 => Len(all) = MaxEarly + 1
<1> DEFINE n == Len(all)
<1>1. n \in Nat /\ MaxEarly \in Nat /\ n <= MaxEarly + 1
  BY DeliveryAssumption
<1>2. Over(all) = IF n > MaxEarly THEN n - MaxEarly ELSE 0
  BY Zenon DEF Over
<1> HIDE DEF n
<1>3. CASE n > MaxEarly
  <2>1. n = MaxEarly + 1 /\ n - MaxEarly = 1 /\ n - 1 <= MaxEarly /\ 1 <= n
    BY <1>1, <1>3
  <2>2. Over(all) = 1
    BY <1>2, <1>3, <2>1, Zenon
  <2> QED BY <2>1, <2>2 DEF n
<1>4. CASE ~(n > MaxEarly)
  <2>1. n <= MaxEarly /\ n - 0 <= MaxEarly /\ 0 <= n
    BY <1>1, <1>4
  <2>2. Over(all) = 0
    BY <1>2, <1>4, Zenon
  <2> QED BY <2>1, <2>2 DEF n
<1> QED BY <1>3, <1>4

(* Keeping one report more: it waits with those of its packet, and at most *)
(* one other packet's reports are given up for it.                         *)
LEMMA KeepEffect ==
    ASSUME EarlyOK, Len(early) <= MaxEarly, lost \in [Texts -> Nat],
           NEW p \in Ids, NEW r \in Reports, KeepEarly(p, r)
    PROVE  /\ EarlyOK' /\ Len(early') <= MaxEarly /\ lost' \in [Texts -> Nat]
           /\ \A q \in Ids : \/ /\ Waiting(q)' = {} /\ q # p
                                /\ q \in Texts => lost'[q] = lost[q] + Len(WaitingReports(q))
                             \/ /\ WaitingReports(q)' = IF q = p THEN Append(WaitingReports(p), r)
                                                                ELSE WaitingReports(q)
                                /\ q # p /\ Waiting(q) = {} => Waiting(q)' = {}
                                /\ q \in Texts => lost'[q] = lost[q]
<1> DEFINE all == With(p, r)
<1>1. /\ all \in Seq(Entry)
      /\ Len(all) = Len(early) + (IF Waiting(p) = {} THEN 1 ELSE 0)
      /\ \A i \in 1 .. Len(early) : all[i].id = early[i].id
      /\ \A i, j \in DOMAIN all : all[i].id = all[j].id => i = j
      /\ \A q, x : q # p => (Has(all, q, x) <=> Has(early, q, x))
      /\ \A x : Has(all, p, x) <=> x = Append(WaitingReports(p), r)
  BY WithEffect
<1>2. GiveUp(all, Over(all))
  BY DEF KeepEarly
<1>3. /\ Len(early) \in Nat /\ DOMAIN early = 1 .. Len(early)
      /\ MaxEarly \in Nat /\ MaxEarly > 0
  BY EarlyLen, DeliveryAssumption DEF EarlyOK
<1> HIDE DEF all
<1>4. /\ Waiting(p) = {} => Len(all) = Len(early) + 1
      /\ Waiting(p) # {} => Len(all) = Len(early) + 0
  BY <1>1, Zenon
<1>5. /\ Over(all) \in {0, 1} /\ Over(all) <= Len(all)
      /\ Len(all) - Over(all) <= MaxEarly
      /\ Over(all) = 1 => Len(all) = MaxEarly + 1
  <2>1. Len(all) \in Nat /\ Len(all) <= MaxEarly + 1
    <3>1. /\ Len(all) \in Nat
          /\ Len(all) = Len(early) + 1 \/ Len(all) = Len(early) + 0
      BY <1>1, <1>4, LenProperties
    <3> DEFINE m == Len(early)
               n == Len(all)
    <3>2. /\ n \in Nat /\ m \in Nat /\ MaxEarly \in Nat /\ m <= MaxEarly
          /\ n = m + 1 \/ n = m + 0
      BY <1>3, <3>1
    <3> HIDE DEF m, n
    <3>3. n \in Nat /\ n <= MaxEarly + 1
      BY <3>2
    <3> QED BY <3>3 DEF n
  <2> QED BY <2>1, OverIs
<1>6. /\ EarlyOK' /\ Len(early') <= MaxEarly /\ lost' \in [Texts -> Nat]
      /\ \/ /\ early' = all /\ lost' = lost
         \/ /\ Len(all) = MaxEarly + 1 /\ 1 \in DOMAIN all
            /\ \A q, x : Has(early', q, x) <=> Has(all, q, x) /\ q # all[1].id
            /\ \A q \in Texts : lost'[q] = IF q = all[1].id THEN lost[q] + Len(all[1].reports)
                                           ELSE lost[q]
  <2> DEFINE over == Over(all)
  <2>1. over \in {0, 1} /\ over <= Len(all) /\ GiveUp(all, over)
    BY <1>2, <1>5
  <2> HIDE DEF over
  <2>2. /\ EarlyOK' /\ Len(early') = Len(all) - over /\ lost' \in [Texts -> Nat]
        /\ \/ /\ over = 0 /\ early' = all /\ lost' = lost
           \/ /\ over = 1 /\ 1 \in DOMAIN all
              /\ \A q, x : Has(early', q, x) <=> Has(all, q, x) /\ q # all[1].id
              /\ \A q \in Texts : lost'[q] = IF q = all[1].id THEN lost[q] + Len(all[1].reports)
                                             ELSE lost[q]
    BY <1>1, <2>1, RoomEffect
  <2>3. Len(early') <= MaxEarly /\ (over = 1 => Len(all) = MaxEarly + 1)
    BY <1>5, <2>2 DEF over
  <2> QED BY <2>2, <2>3
<1>7. /\ \A q, x : Has(early, q, x) => Waiting(q) # {} /\ WaitingReports(q) = x
      /\ \A q : Waiting(q) # {} => Has(early, q, WaitingReports(q))
      /\ \A q : Waiting(q) = {} => WaitingReports(q) = <<>>
      /\ \A q, x : Has(early', q, x) => Waiting(q)' # {} /\ WaitingReports(q)' = x
      /\ \A q : Waiting(q)' # {} => Has(early', q, WaitingReports(q)')
      /\ \A q : Waiting(q)' = {} => WaitingReports(q)' = <<>>
  BY <1>6, EntriesSay
<1>8. ASSUME early' = all, lost' = lost, NEW q \in Ids
      PROVE  /\ WaitingReports(q)' = IF q = p THEN Append(WaitingReports(p), r) ELSE WaitingReports(q)
             /\ q # p /\ Waiting(q) = {} => Waiting(q)' = {}
             /\ q \in Texts => lost'[q] = lost[q]
  <2>1. CASE q = p
    BY <1>1, <1>7, <1>8, <2>1
  <2>2. CASE q # p
    BY <1>1, <1>7, <1>8, <2>2
  <2> QED BY <2>1, <2>2
<1>9. ASSUME Len(all) = MaxEarly + 1, 1 \in DOMAIN all,
             \A q, x : Has(early', q, x) <=> Has(all, q, x) /\ q # all[1].id,
             \A q \in Texts : lost'[q] = IF q = all[1].id THEN lost[q] + Len(all[1].reports)
                                         ELSE lost[q],
             NEW q \in Ids
      PROVE  \/ /\ Waiting(q)' = {} /\ q # p
                /\ q \in Texts => lost'[q] = lost[q] + Len(WaitingReports(q))
             \/ /\ WaitingReports(q)' = IF q = p THEN Append(WaitingReports(p), r)
                                                ELSE WaitingReports(q)
                /\ q # p /\ Waiting(q) = {} => Waiting(q)' = {}
                /\ q \in Texts => lost'[q] = lost[q]
  <2>1. Waiting(p) = {} /\ 1 \in DOMAIN early /\ all[1].id = early[1].id
    <3> DEFINE n == Len(early)
               m == Len(all)
    <3>1. /\ n \in Nat /\ MaxEarly \in Nat /\ MaxEarly > 0 /\ n <= MaxEarly
          /\ m = MaxEarly + 1 /\ (Waiting(p) # {} => m = n + 0) /\ (Waiting(p) = {} => m = n + 1)
      BY <1>3, <1>4, <1>9
    <3> HIDE DEF n, m
    <3>2. Waiting(p) = {} /\ 1 \in 1 .. n
      BY <3>1
    <3> QED BY <1>1, <1>3, <3>2 DEF n
  <2>2. all[1].id # p
    BY <2>1 DEF Waiting
  <2>3. CASE q = all[1].id
    <3>1. Has(all, q, all[1].reports)
      BY <1>9, <2>3 DEF Has
    <3>2. Has(early, q, all[1].reports)
      BY <1>1, <2>2, <2>3, <3>1
    <3>3. WaitingReports(q) = all[1].reports
      BY <1>7, <3>2
    <3>4. Waiting(q)' = {}
      BY <1>7, <1>9, <2>3
    <3> QED BY <1>9, <2>2, <2>3, <3>3, <3>4
  <2>4. CASE q # all[1].id
    <3>1. \A x : Has(early', q, x) <=> Has(all, q, x)
      BY <1>9, <2>4
    <3>2. q \in Texts => lost'[q] = lost[q]
      BY <1>9, <2>4
    <3>3. CASE q = p
      BY <1>1, <1>7, <3>1, <3>2, <3>3
    <3>4. CASE q # p
      BY <1>1, <1>7, <3>1, <3>2, <3>4
    <3> QED BY <3>3, <3>4
  <2> QED BY <2>3, <2>4
<1> QED BY <1>6, <1>8, <1>9

(* The loop of the queue status alone.                                     *)
LEMMA TrimEffect ==
    ASSUME EarlyOK, Len(early) <= MaxEarly + 1, lost \in [Texts -> Nat],
           GiveUp(early, IF early = <<>> THEN 0 ELSE 1)
    PROVE  /\ EarlyOK' /\ Len(early') <= MaxEarly /\ lost' \in [Texts -> Nat]
           /\ \A q \in Ids : /\ Waiting(q) = {} => Waiting(q)' = {}
                             /\ \/ /\ WaitingReports(q)' = <<>>
                                   /\ q \in Texts => lost'[q] = lost[q] + Len(WaitingReports(q))
                                \/ /\ WaitingReports(q)' = WaitingReports(q)
                                   /\ q \in Texts => lost'[q] = lost[q]
<1>1. /\ EarlyOK' /\ Len(early') <= MaxEarly /\ lost' \in [Texts -> Nat]
      /\ \/ /\ early' = early /\ lost' = lost
         \/ /\ 1 \in DOMAIN early
            /\ \A q, x : Has(early', q, x) <=> Has(early, q, x) /\ q # early[1].id
            /\ \A q \in Texts : lost'[q] = IF q = early[1].id THEN lost[q] + Len(early[1].reports)
                                           ELSE lost[q]
  <2> DEFINE over == IF early = <<>> THEN 0 ELSE 1
             n == Len(early)
  <2>1. n \in Nat /\ MaxEarly \in Nat /\ MaxEarly > 0 /\ n <= MaxEarly + 1
    BY EarlyLen, DeliveryAssumption DEF EarlyOK
  <2>2. over \in {0, 1} /\ over <= n /\ n - over <= MaxEarly
    <3>1. CASE early = <<>>
      <4>1. n = 0 /\ over = 0
        BY <3>1, EmptySeq
      <4> HIDE DEF n, over
      <4> QED BY <2>1, <4>1
    <3>2. CASE early # <<>>
      <4>1. n # 0 /\ over = 1
        BY <3>2, EmptySeq DEF EarlyOK
      <4> HIDE DEF n, over
      <4> QED BY <2>1, <4>1
    <3> QED BY <3>1, <3>2
  <2>3. GiveUp(early, over)
    OBVIOUS
  <2> HIDE DEF over
  <2>4. /\ EarlyOK' /\ Len(early') = Len(early) - over /\ lost' \in [Texts -> Nat]
        /\ \/ /\ over = 0 /\ early' = early /\ lost' = lost
           \/ /\ over = 1 /\ 1 \in DOMAIN early
              /\ \A q, x : Has(early', q, x) <=> Has(early, q, x) /\ q # early[1].id
              /\ \A q \in Texts : lost'[q] = IF q = early[1].id THEN lost[q] + Len(early[1].reports)
                                             ELSE lost[q]
    BY <2>2, <2>3, RoomEffect DEF EarlyOK
  <2> QED BY <2>2, <2>4
<1>2. /\ \A q, x : Has(early, q, x) => Waiting(q) # {} /\ WaitingReports(q) = x
      /\ \A q : Waiting(q) # {} => Has(early, q, WaitingReports(q))
      /\ \A q : Waiting(q) = {} => WaitingReports(q) = <<>>
      /\ \A q, x : Has(early', q, x) => Waiting(q)' # {} /\ WaitingReports(q)' = x
      /\ \A q : Waiting(q)' # {} => Has(early', q, WaitingReports(q)')
      /\ \A q : Waiting(q)' = {} => WaitingReports(q)' = <<>>
  BY <1>1, EntriesSay
<1>3. CASE early' = early /\ lost' = lost
  <2>1. \A q : Waiting(q)' = Waiting(q) /\ WaitingReports(q)' = WaitingReports(q)
    BY <1>3 DEF Waiting, WaitingReports
  <2> QED BY <1>1, <1>3, <2>1
<1>4. ASSUME 1 \in DOMAIN early,
             \A q, x : Has(early', q, x) <=> Has(early, q, x) /\ q # early[1].id,
             \A q \in Texts : lost'[q] = IF q = early[1].id THEN lost[q] + Len(early[1].reports)
                                         ELSE lost[q],
             NEW q \in Ids
      PROVE  /\ Waiting(q) = {} => Waiting(q)' = {}
             /\ \/ /\ WaitingReports(q)' = <<>>
                   /\ q \in Texts => lost'[q] = lost[q] + Len(WaitingReports(q))
                \/ /\ WaitingReports(q)' = WaitingReports(q)
                   /\ q \in Texts => lost'[q] = lost[q]
  <2>1. Waiting(q) = {} => Waiting(q)' = {}
    BY <1>2, <1>4
  <2>2. CASE q = early[1].id
    <3>1. Has(early, q, early[1].reports)
      BY <1>4, <2>2 DEF Has
    <3>2. WaitingReports(q) = early[1].reports /\ WaitingReports(q)' = <<>>
      BY <1>2, <1>4, <2>2, <3>1
    <3> QED BY <1>4, <2>1, <2>2, <3>2
  <2>3. CASE q # early[1].id
    <3>1. \A x : Has(early', q, x) <=> Has(early, q, x)
      BY <1>4, <2>3
    <3>2. WaitingReports(q)' = WaitingReports(q)
      BY <1>2, <3>1
    <3> QED BY <1>4, <2>1, <2>3, <3>2
  <2> QED BY <2>2, <2>3
<1> QED BY <1>1, <1>3, <1>4

(* A key's entry is taken out, and no other.                               *)
LEMMA PopEffect ==
    ASSUME EarlyOK, NEW p, PopEarly(p)
    PROVE  /\ EarlyOK' /\ Waiting(p)' = {}
           /\ Len(early') <= Len(early) - (IF Waiting(p) = {} THEN 0 ELSE 1)
           /\ \A q : q # p => /\ WaitingReports(q)' = WaitingReports(q)
                              /\ Waiting(q) = {} => Waiting(q)' = {}
<1>1. /\ Len(early) \in Nat /\ DOMAIN early = 1 .. Len(early)
      /\ \A i \in 1 .. Len(early) : early[i] \in Entry
  BY EarlyLen DEF EarlyOK
<1>2. CASE Waiting(p) = {} /\ UNCHANGED early
  BY <1>2 DEF EarlyOK, Waiting, WaitingReports
<1>3. ASSUME NEW i \in Waiting(p),
             early' = SubSeq(early, 1, i - 1) \o SubSeq(early, i + 1, Len(early))
      PROVE  /\ EarlyOK' /\ Len(early') = Len(early) - 1
             /\ \A q, x : Has(early', q, x) <=> Has(early, q, x) /\ q # p
  <2> DEFINE n == Len(early)
             s == SubSeq(early, 1, i - 1)
             t == SubSeq(early, i + 1, n)
  <2>1. i \in Nat /\ i >= 1 /\ i <= n /\ n \in Nat /\ early[i].id = p /\ i \in DOMAIN early
    BY <1>1, <1>3 DEF Waiting
  <2>2. s \in Seq(Entry) /\ Len(s) = i - 1 /\ \A k \in 1 .. i - 1 : s[k] = early[k]
    <3>1. \A k \in 1 .. i - 1 : early[k] \in Entry
      BY <1>1, <2>1
    <3>2. /\ s \in Seq(Entry) /\ Len(s) = IF 1 <= i - 1 THEN (i - 1) - 1 + 1 ELSE 0
          /\ \A k \in 1 .. (i - 1) - 1 + 1 : s[k] = early[1 + k - 1]
      BY <2>1, <3>1, SubSeqProperties
    <3> HIDE DEF s
    <3>3. Len(s) = i - 1
      BY <2>1, <3>2
    <3> QED BY <2>1, <3>2, <3>3
  <2>3. t \in Seq(Entry) /\ Len(t) = n - i /\ \A k \in 1 .. n - i : t[k] = early[i + k]
    <3>1. \A k \in i + 1 .. n : early[k] \in Entry
      BY <1>1, <2>1
    <3>2. /\ t \in Seq(Entry) /\ Len(t) = IF i + 1 <= n THEN n - (i + 1) + 1 ELSE 0
          /\ \A k \in 1 .. n - (i + 1) + 1 : t[k] = early[(i + 1) + k - 1]
      BY <2>1, <3>1, SubSeqProperties
    <3> HIDE DEF t
    <3>3. Len(t) = n - i
      BY <2>1, <3>2
    <3>4. \A k \in 1 .. n - i : k \in 1 .. n - (i + 1) + 1 /\ (i + 1) + k - 1 = i + k
      BY <2>1
    <3> QED BY <3>2, <3>3, <3>4
  <2>4. early' = s \o t
    BY <1>3
  <2> HIDE DEF s, t, n
  <2>5. /\ early' \in Seq(Entry) /\ Len(early') = n - 1
        /\ \A k \in 1 .. n - 1 : early'[k] = IF k <= i - 1 THEN s[k] ELSE t[k - (i - 1)]
    <3>1. /\ s \o t \in Seq(Entry) /\ Len(s \o t) = Len(s) + Len(t)
          /\ \A k \in 1 .. Len(s) + Len(t) : (s \o t)[k] = IF k <= Len(s) THEN s[k] ELSE t[k - Len(s)]
      BY <2>2, <2>3, ConcatProperties
    <3>2. Len(s) + Len(t) = n - 1
      BY <2>1, <2>2, <2>3
    <3> QED BY <2>2, <2>4, <3>1, <3>2
  <2>6. DOMAIN early' = 1 .. n - 1 /\ DOMAIN early = 1 .. n
    BY <1>1, <2>5, LenProperties DEF n
  <2>7. \A k \in 1 .. n - 1 : k < i => early'[k] = early[k]
    <3>1. \A k \in 1 .. n - 1 : k < i => k \in 1 .. i - 1 /\ k <= i - 1
      BY <2>1
    <3> QED BY <2>2, <2>5, <3>1
  <2>8. \A k \in 1 .. n - 1 : ~(k < i) => early'[k] = early[k + 1]
    <3>1. \A k \in 1 .. n - 1 : ~(k < i) => /\ ~(k <= i - 1) /\ k - (i - 1) \in 1 .. n - i
                                             /\ i + (k - (i - 1)) = k + 1
      BY <2>1
    <3> QED BY <2>3, <2>5, <3>1
  <2> DEFINE old(k) == IF k < i THEN k ELSE k + 1
             new(k) == IF k < i THEN k ELSE k - 1
  <2>9. \A k \in DOMAIN early' : old(k) \in DOMAIN early /\ old(k) # i /\ early'[k] = early[old(k)]
    <3>1. \A k \in 1 .. n - 1 : k < i => k \in 1 .. n /\ k # i
      BY <2>1
    <3>2. \A k \in 1 .. n - 1 : ~(k < i) => k + 1 \in 1 .. n /\ k + 1 # i
      BY <2>1
    <3> QED BY <2>6, <2>7, <2>8, <3>1, <3>2
  <2>10. \A k \in DOMAIN early : k # i => new(k) \in DOMAIN early' /\ early'[new(k)] = early[k]
    <3>1. \A k \in 1 .. n : k # i /\ k < i => k \in 1 .. n - 1
      BY <2>1
    <3>2. \A k \in 1 .. n : k # i /\ ~(k < i) => /\ k - 1 \in 1 .. n - 1 /\ ~(k - 1 < i)
                                                  /\ (k - 1) + 1 = k
      BY <2>1
    <3>3. \A k \in 1 .. n : k # i /\ ~(k < i) => early'[k - 1] = early[k]
      BY <2>8, <3>2
    <3> QED BY <2>6, <2>7, <3>1, <3>2, <3>3
  <2>11. \A j, k \in DOMAIN early' : old(j) = old(k) => j = k
    <3>1. \A k \in DOMAIN early' : k \in Int
      BY <2>6
    <3> QED BY <2>1, <3>1
  <2>12. i \in DOMAIN early /\ early[i].id = p
    BY <2>1
  <2> HIDE DEF old, new
  <2>13. \A k \in DOMAIN early : early[k].id = p => k = i
    BY <2>12 DEF EarlyOK
  <2>14. \A q, x : Has(early', q, x) => Has(early, q, x) /\ q # p
    BY <2>9, <2>13 DEF Has
  <2>15. \A q, x : Has(early, q, x) /\ q # p => Has(early', q, x)
    BY <2>10, <2>12 DEF Has
  <2>16. \A j, k \in DOMAIN early' : early'[j].id = early'[k].id => j = k
    BY <2>9, <2>11 DEF EarlyOK
  <2>17. Len(early') = Len(early) - 1
    BY <2>5 DEF n
  <2>18. EarlyOK'
    BY <2>5, <2>16 DEF EarlyOK
  <2> QED BY <2>14, <2>15, <2>17, <2>18
<1>4. ASSUME NEW i \in Waiting(p),
             early' = SubSeq(early, 1, i - 1) \o SubSeq(early, i + 1, Len(early))
      PROVE  /\ EarlyOK' /\ Waiting(p)' = {} /\ Len(early') = Len(early) - 1
             /\ \A q : q # p => /\ WaitingReports(q)' = WaitingReports(q)
                                /\ Waiting(q) = {} => Waiting(q)' = {}
  <2>1. /\ EarlyOK' /\ Len(early') = Len(early) - 1
        /\ \A q, x : Has(early', q, x) <=> Has(early, q, x) /\ q # p
    BY <1>3, <1>4
  <2>2. /\ \A q, x : Has(early', q, x) => Waiting(q)' # {} /\ WaitingReports(q)' = x
        /\ \A q : Waiting(q)' # {} => Has(early', q, WaitingReports(q)')
        /\ \A q : Waiting(q)' = {} => WaitingReports(q)' = <<>>
    BY <2>1, EarlyIsDictNext DEF Dict, Has
  <2>3. /\ \A q, x : Has(early, q, x) => Waiting(q) # {} /\ WaitingReports(q) = x
        /\ \A q : Waiting(q) # {} => Has(early, q, WaitingReports(q))
        /\ \A q : Waiting(q) = {} => WaitingReports(q) = <<>>
    BY EarlyIsDict DEF Dict
  <2> QED BY <2>1, <2>2, <2>3
<1>5. CASE \E i \in Waiting(p) : early' = SubSeq(early, 1, i - 1) \o SubSeq(early, i + 1, Len(early))
  <2>1. Waiting(p) # {}
    BY <1>5
  <2>2. /\ EarlyOK' /\ Waiting(p)' = {} /\ Len(early') = Len(early) - 1
        /\ \A q : q # p => /\ WaitingReports(q)' = WaitingReports(q)
                           /\ Waiting(q) = {} => Waiting(q)' = {}
    BY <1>4, <1>5
  <2>3. (IF Waiting(p) = {} THEN 0 ELSE 1) = 1
    BY <2>1
  <2>4. Len(early') <= Len(early) - (IF Waiting(p) = {} THEN 0 ELSE 1)
    BY <1>1, <2>2, <2>3
  <2> QED BY <2>2, <2>4
<1> QED BY <1>1, <1>2, <1>5 DEF PopEarly

-----------------------------------------------------------------------------
(* Counting the reports on a text.                                         *)

TakenOut(p) == IF pc[p] = "applied" THEN 1 ELSE 0
InReader(p) == IF queueReport.id = p /\ queueReport.at \in InHand THEN 1 ELSE 0

LEMMA HeldIs ==
    ASSUME NEW p
    PROVE  /\ Held(p) = Len(applying[p]) - TakenOut(p) + InReader(p)
           /\ Held(p)' = Len(applying'[p]) - TakenOut(p)' + InReader(p)'
BY DEF Held, TakenOut, InReader

LEMMA CountsTyped ==
    ASSUME ReportsInv, NEW p \in Texts
    PROVE  /\ Len(evidence[p]) \in Nat /\ Len(WaitingReports(p)) \in Nat
           /\ Len(applying[p]) \in Nat /\ lost[p] \in Nat /\ heard[p] \in Nat
           /\ strayed[p] \in Nat
           /\ TakenOut(p) \in {0, 1} /\ InReader(p) \in {0, 1}
           /\ evidence[p] \in Seq(Reports) /\ applying[p] \in Seq(Reports)
           /\ WaitingReports(p) \in Seq(Reports)
<1>1. evidence[p] \in Seq(Reports) /\ applying[p] \in Seq(Reports) /\ lost[p] \in Nat
      /\ heard[p] \in Nat /\ strayed[p] \in Nat
  BY IdsOf DEF ReportsInv, TypeOK, DeliveryTypeOK
<1>2. WaitingReports(p) \in Seq(Reports)
  BY EarlyIsDict DEF ReportsInv, Dict
<1>3. TakenOut(p) \in {0, 1} /\ InReader(p) \in {0, 1}
  BY DEF TakenOut, InReader
<1> QED BY <1>1, <1>2, <1>3, LenProperties

LEMMA EarlySame ==
    ASSUME UNCHANGED early
    PROVE  \A q : Waiting(q)' = Waiting(q) /\ WaitingReports(q)' = WaitingReports(q)
BY DEF Waiting, WaitingReports

(* The equation holds on when both sides change by the same.               *)
LEMMA OnceBalanced ==
    ASSUME ReportsInv, UNCHANGED strayed, NEW p \in Texts,
           NEW e \in Int, NEW w \in Int, NEW a \in Int, NEW t \in Int, NEW n \in Int, NEW l \in Int,
           Len(evidence'[p]) = Len(evidence[p]) + e,
           Len(WaitingReports(p)') = Len(WaitingReports(p)) + w,
           Len(applying'[p]) = Len(applying[p]) + a,
           TakenOut(p)' = TakenOut(p) + t,
           InReader(p)' = InReader(p) + n,
           lost'[p] = lost[p] + l,
           heard'[p] = heard[p] + (e + w + a - t + n + l)
    PROVE  Once(p)'
<1>1. Once(p)
  BY DEF ReportsInv, OnceInv
<1>2. Len(evidence[p]) + Len(WaitingReports(p)) + (Len(applying[p]) - TakenOut(p) + InReader(p))
        + lost[p] + strayed[p] = heard[p]
  BY <1>1, HeldIs, Zenon DEF Once
<1>3. Len(evidence'[p]) + Len(WaitingReports(p)') + (Len(applying'[p]) - TakenOut(p)' + InReader(p)')
        + lost'[p] + strayed'[p] = heard'[p]
  <2> DEFINE E == Len(evidence[p])
             W == Len(WaitingReports(p))
             A == Len(applying[p])
             T == TakenOut(p)
             N == InReader(p)
             L == lost[p]
             S == strayed[p]
             H == heard[p]
  <2>1. /\ E \in Int /\ W \in Int /\ A \in Int /\ T \in Int /\ N \in Int
        /\ L \in Int /\ S \in Int /\ H \in Int
    <3>1. /\ E \in Nat /\ W \in Nat /\ A \in Nat /\ T \in {0, 1} /\ N \in {0, 1}
          /\ L \in Nat /\ S \in Nat /\ H \in Nat
      BY CountsTyped
    <3> HIDE DEF E, W, A, T, N, L, S, H
    <3> QED BY <3>1
  <2>2. E + W + (A - T + N) + L + S = H
    BY <1>2
  <2>3. (E + e) + (W + w) + ((A + a) - (T + t) + (N + n)) + (L + l) + S
          = H + (e + w + a - t + n + l)
    <3> HIDE DEF E, W, A, T, N, L, S, H
    <3> QED BY <2>1, <2>2
  <2> QED BY <2>3, Zenon
<1> QED BY <1>3, HeldIs, Zenon DEF Once

(* What the reader had in hand goes astray. *)
LEMMA OnceStrayed ==
    ASSUME ReportsInv, UNCHANGED <<early, lost, evidence, applying, heard>>, NEW p \in Texts,
           TakenOut(p)' = TakenOut(p), NEW k \in Int,
           InReader(p)' = InReader(p) - k, strayed'[p] = strayed[p] + k
    PROVE  Once(p)'
<1>1. Once(p)
  BY DEF ReportsInv, OnceInv
<1>2. Len(evidence[p]) + Len(WaitingReports(p)) + (Len(applying[p]) - TakenOut(p) + InReader(p))
        + lost[p] + strayed[p] = heard[p]
  BY <1>1, HeldIs, Zenon DEF Once
<1>3. Len(evidence'[p]) + Len(WaitingReports(p)') + (Len(applying'[p]) - TakenOut(p)' + InReader(p)')
        + lost'[p] + strayed'[p] = heard'[p]
  <2> DEFINE E == Len(evidence[p])
             W == Len(WaitingReports(p))
             A == Len(applying[p])
             T == TakenOut(p)
             N == InReader(p)
             L == lost[p]
             S == strayed[p]
             H == heard[p]
  <2>1. /\ E \in Int /\ W \in Int /\ A \in Int /\ T \in Int /\ N \in Int
        /\ L \in Int /\ S \in Int /\ H \in Int
    <3>1. /\ E \in Nat /\ W \in Nat /\ A \in Nat /\ T \in {0, 1} /\ N \in {0, 1}
          /\ L \in Nat /\ S \in Nat /\ H \in Nat
      BY CountsTyped
    <3> HIDE DEF E, W, A, T, N, L, S, H
    <3> QED BY <3>1
  <2>2. E + W + (A - T + N) + L + S = H
    BY <1>2
  <2>3. E + W + (A - T + (N - k)) + L + (S + k) = H
    <3> HIDE DEF E, W, A, T, N, L, S, H
    <3> QED BY <2>1, <2>2
  <2>4. /\ Len(evidence'[p]) = E /\ Len(WaitingReports(p)') = W /\ Len(applying'[p]) = A
        /\ TakenOut(p)' = T /\ InReader(p)' = N - k /\ lost'[p] = L /\ strayed'[p] = S + k
        /\ heard'[p] = H
    BY EarlySame
  <2> HIDE DEF E, W, A, T, N, L, S, H
  <2> QED BY <2>3, <2>4, Zenon
<1> QED BY <1>3, HeldIs, Zenon DEF Once

(* A step that changes none of the numbers. *)
LEMMA OnceKept ==
    ASSUME ReportsInv, NEW p \in Texts, UNCHANGED <<early, lost, strayed>>,
           evidence'[p] = evidence[p], applying'[p] = applying[p], heard'[p] = heard[p],
           TakenOut(p)' = TakenOut(p), InReader(p)' = InReader(p)
    PROVE  Once(p)'
<1>1. WaitingReports(p)' = WaitingReports(p)
  BY EarlySame
<1>2. /\ Len(evidence'[p]) = Len(evidence[p]) + 0
      /\ Len(WaitingReports(p)') = Len(WaitingReports(p)) + 0
      /\ Len(applying'[p]) = Len(applying[p]) + 0
      /\ TakenOut(p)' = TakenOut(p) + 0
      /\ InReader(p)' = InReader(p) + 0
      /\ lost'[p] = lost[p] + 0
      /\ heard'[p] = heard[p] + (0 + 0 + 0 - 0 + 0 + 0)
  BY <1>1, CountsTyped
<1>3. 0 \in Int
  OBVIOUS
<1> QED BY <1>2, <1>3, OnceBalanced

LEMMA AllOnce ==
    (\A p \in Texts : Once(p)') => OnceInv'
BY DEF OnceInv

LEMMA RoomThere ==
    ASSUME TypeOK, queueReport.at \notin {"append", "count", "trim"}
    PROVE  Len(early) <= MaxEarly
BY DeliveryAssumption, EarlyLen DEF TypeOK, Surplus, MakingRoom, Entry

LEMMA RoomKept ==
    ASSUME TypeOK, UNCHANGED early,
           \/ UNCHANGED queueReport
           \/ queueReport.at \notin {"append", "count", "trim"}
           \/ queueReport'.at \in {"append", "count", "trim"}
    PROVE  Len(early') <= MaxEarly + Surplus'
<1>1. Len(early) \in Nat /\ MaxEarly \in Nat /\ Len(early) <= MaxEarly + Surplus
  BY DeliveryAssumption, EarlyLen DEF TypeOK, Entry
<1>2. Surplus \in {0, 1} /\ Surplus' \in {0, 1}
  BY DEF Surplus, MakingRoom
<1>3. \/ Surplus' = Surplus
      \/ Surplus = 0
      \/ Surplus' = 1
  BY DEF Surplus, MakingRoom
<1> QED BY <1>1, <1>2, <1>3

(* Room for all but what the reader is about to make room for. *)
LEMMA RoomMade ==
    ASSUME EarlyOK', Len(early') <= MaxEarly
    PROVE  Len(early') <= MaxEarly + Surplus'
<1>1. Len(early') \in Nat /\ MaxEarly \in Nat
  BY DeliveryAssumption, LenProperties DEF EarlyOK
<1>2. Surplus' \in {0, 1}
  BY DEF Surplus, MakingRoom
<1> QED BY <1>1, <1>2

LEMMA EarlyKept ==
    ASSUME ReportsInv, UNCHANGED early
    PROVE  EarlyOK' /\ AppsWaitNever'
BY EarlySame DEF ReportsInv, EarlyOK, AppsWaitNever

-----------------------------------------------------------------------------
(* The sender's steps.                                                     *)

LEMMA FirstAirsAre ==
    /\ AppTexts \cap FirstAirs = {} /\ AppRequests \cap FirstAirs = {}
    /\ Texts \cap Requests = {}
    /\ AppTexts \subseteq Texts /\ AppRequests \subseteq Requests
BY DeliveryAssumption, ExchangeAssumption, ReportsAssumption DEF FirstAirs, Texts, Requests

LEMMA QueueTyped ==
    ASSUME TypeOK, QueueInv, queueReport.at # "idle"
    PROVE  /\ queueReport \in [id: Ids, report: Reports, at: QueueSteps]
           /\ queueReport.id \in Ids /\ queueReport.report \in Reports
           /\ queueReport.id \in onAir /\ queueReport.report \in QueueEvents
           /\ queueReport.at = "advance" => IsStored(queueReport.id)
           /\ queueReport.at \in {"keep", "append"} => queueReport.id \notin AppTexts
           /\ queueReport.at \in {"shared", "astray"} => queueReport.id \in Texts
<1>1. queueReport # NoReport
  BY DEF NoReport
<1>2. queueReport \in [id: Ids, report: Reports, at: QueueSteps]
  BY <1>1 DEF TypeOK
<1> QED BY <1>1, <1>2 DEF QueueInv

LEMMA NobodyIs == /\ "nobody" \notin Ids /\ NoReport.id = "nobody" /\ NoReport.at = "idle"
                  /\ \A q \in Texts : q # "nobody"
BY ReportsAssumption, IdsOf DEF NoReport

LEMMA MovesTyped ==
    ASSUME NEW q \in [id: Ids, report: Reports, at: QueueSteps], NEW to \in QueueSteps
    PROVE  /\ [q EXCEPT !.at = to] \in [id: Ids, report: Reports, at: QueueSteps]
           /\ [q EXCEPT !.at = to].id = q.id /\ [q EXCEPT !.at = to].report = q.report
           /\ [q EXCEPT !.at = to].at = to
OBVIOUS

LEMMA AirKeeps ==
    ASSUME ReportsInv, NEW p \in Ids, Air(p) \/ DropUnsent(p)
    PROVE  ReportsInv'
<1> USE DEF ReportsInv
<1>1. UNCHANGED <<deliveryVars, exchange, applying, queueReport, heard, strayed, restarts>>
  BY DEF Air, DropUnsent
<1>2. \E x \in {"aired", "done"} : pc' = [pc EXCEPT ![p] = x]
  BY DEF Air, DropUnsent
<1>3. pc \in [Ids -> Pcs] /\ onAir \subseteq Ids /\ onAir' \in {onAir, onAir \cup {p}}
  BY DEF TypeOK, Air, DropUnsent
<1>4. TypeOK'
  BY <1>1, <1>2, <1>3, RoomKept DEF TypeOK, DeliveryTypeOK, ExchangeTypeOK, deliveryVars, Pcs
<1>5. EarlyOK' /\ AppsWaitNever'
  BY <1>1, EarlyKept DEF deliveryVars
<1>6. \/ pc[p] = "leaving" /\ pc'[p] = "done"
      \/ pc[p] = "idle" /\ p \in FirstAirs /\ pc'[p] = "aired"
  BY <1>3 DEF Air, DropUnsent
<1>7. TextInv'
  BY <1>1, <1>2, <1>3, <1>6, IdsOf, FirstAirsAre DEF TextInv, deliveryVars
<1>8. RequestInv'
  BY <1>1, <1>2, <1>3, <1>6, IdsOf, FirstAirsAre DEF RequestInv
<1>9. QueueInv'
  <2>1. \A q \in Texts : /\ pc[q] \in {"applying", "applied"} => pc'[q] = pc[q]
                         /\ LookedThrough(q) => LookedThrough(q)'
    <3>1. \A q \in Ids : q # p => pc'[q] = pc[q]
      BY <1>2, <1>3
    <3>2. \A q : IsStored(q)' = IsStored(q)
      BY <1>1 DEF IsStored, deliveryVars
    <3>3. ASSUME NEW q \in Texts
          PROVE  /\ pc[q] \in {"applying", "applied"} => pc'[q] = pc[q]
                 /\ LookedThrough(q) => LookedThrough(q)'
      <4>1. q \in Ids
        BY IdsOf
      <4>2. CASE q # p
        BY <3>1, <3>2, <4>1, <4>2 DEF LookedThrough
      <4>3. CASE q = p
        BY <1>6, <3>2, <4>3 DEF LookedThrough
      <4> QED BY <4>2, <4>3
    <3> QED BY <3>3
  <2>2. \A q : IsStored(q)' = IsStored(q)
    BY <1>1 DEF IsStored, deliveryVars
  <2> QED BY <1>1, <1>3, <2>1, <2>2 DEF QueueInv
<1>10. ASSUME NEW q \in Texts
       PROVE  Once(q)'
  <2>1. TakenOut(q)' = TakenOut(q) /\ InReader(q)' = InReader(q)
    BY <1>1, <1>2, <1>3, <1>6, IdsOf DEF TakenOut, InReader
  <2> QED BY <1>1, <2>1, OnceKept DEF deliveryVars
<1> QED BY <1>4, <1>5, <1>7, <1>8, <1>9, <1>10, AllOnce

LEMMA StoreTextKeeps ==
    ASSUME ReportsInv, NEW p \in Texts, StoreText(p)
    PROVE  ReportsInv'
<1> USE DEF ReportsInv
<1>1. UNCHANGED <<evidence, early, lost, exchange, applying, onAir, queueReport, heard, strayed, restarts>>
      /\ status' = [status EXCEPT ![p] = "pending"] /\ pc' = [pc EXCEPT ![p] = "stored"]
  BY DEF StoreText
<1>2. /\ pc \in [Ids -> Pcs] /\ status \in [Texts -> Statuses \cup {NoStatus}]
      /\ p \in Ids /\ pc[p] \in {"idle", "aired"}
  BY IdsOf DEF TypeOK, DeliveryTypeOK, StoreText, RowDue
<1>3. TypeOK'
  BY <1>1, <1>2, RoomKept DEF TypeOK, DeliveryTypeOK, ExchangeTypeOK, Pcs, Statuses
<1>4. EarlyOK' /\ AppsWaitNever'
  BY <1>1, EarlyKept
<1>5. TextInv'
  BY <1>1, <1>2, IdsOf DEF TextInv, NoStatus
<1>6. RequestInv'
  BY <1>1, <1>2, IdsOf, FirstAirsAre DEF RequestInv
<1>7. QueueInv'
  BY <1>1, <1>2 DEF QueueInv, IsStored, LookedThrough, NoStatus
<1>8. ASSUME NEW q \in Texts
      PROVE  Once(q)'
  <2>1. TakenOut(q)' = TakenOut(q) /\ InReader(q)' = InReader(q)
    BY <1>1, <1>2, IdsOf DEF TakenOut, InReader
  <2> QED BY <1>1, <2>1, OnceKept
<1> QED BY <1>3, <1>4, <1>5, <1>6, <1>7, <1>8, AllOnce

LEMMA TakeEarlyKeeps ==
    ASSUME ReportsInv, NEW p \in Texts, TakeEarly(p)
    PROVE  ReportsInv'
<1> USE DEF ReportsInv
<1>1. UNCHANGED <<status, evidence, lost, exchange, onAir, heard, strayed, restarts>>
      /\ applying' = [applying EXCEPT ![p] = WaitingReports(p)]
      /\ pc' = [pc EXCEPT ![p] = "applying"]
  BY DEF TakeEarly
<1>2. pc \in [Ids -> Pcs] /\ p \in Ids /\ pc[p] = "stored" /\ applying \in [Texts -> Seq(Reports)]
  BY IdsOf DEF TypeOK, TakeEarly
<1>3. /\ EarlyOK' /\ Waiting(p)' = {}
      /\ Len(early') <= Len(early) - (IF Waiting(p) = {} THEN 0 ELSE 1)
      /\ \A q : q # p => /\ WaitingReports(q)' = WaitingReports(q)
                         /\ Waiting(q) = {} => Waiting(q)' = {}
  BY PopEffect DEF TakeEarly
<1>4. WaitingReports(p) \in Seq(Reports)
  BY CountsTyped
<1>13. \/ UNCHANGED queueReport
       \/ /\ Waiting(p) # {} /\ queueReport.id = p /\ queueReport.at = "append"
          /\ queueReport' = [queueReport EXCEPT !.at = "shared"]
  BY DEF TakeEarly, ListMoves
<1>14. /\ queueReport' \in {NoReport} \cup [id: Ids, report: Reports, at: QueueSteps]
       /\ queueReport'.id = queueReport.id /\ queueReport'.report = queueReport.report
       /\ UNCHANGED queueReport \/ (/\ queueReport.id = p /\ queueReport.at = "append"
                                     /\ queueReport'.at = "shared" /\ queueReport # NoReport)
  <2>1. CASE UNCHANGED queueReport
    BY <2>1 DEF TypeOK
  <2>2. CASE /\ queueReport.id = p /\ queueReport.at = "append"
             /\ queueReport' = [queueReport EXCEPT !.at = "shared"]
    <3>1. queueReport # NoReport /\ queueReport \in [id: Ids, report: Reports, at: QueueSteps]
      BY <2>2, NobodyIs, QueueTyped
    <3>2. "shared" \in QueueSteps
      BY DEF QueueSteps
    <3> QED BY <2>2, <3>1, <3>2, MovesTyped
  <2> QED BY <1>13, <2>1, <2>2
<1>15. Len(early') <= MaxEarly + Surplus'
  <2>1. /\ Len(early') \in Nat /\ Len(early) \in Nat /\ MaxEarly \in Nat
        /\ Len(early) <= MaxEarly + Surplus
    BY <1>3, EarlyLen, LenProperties, DeliveryAssumption DEF EarlyOK, TypeOK
  <2>2. Surplus \in {0, 1} /\ Surplus' \in {0, 1}
    BY DEF Surplus, MakingRoom
  <2>3. CASE UNCHANGED queueReport
    <3>1. Surplus' = Surplus
      BY <2>3 DEF Surplus, MakingRoom
    <3>2. Len(early') <= Len(early)
      BY <1>3, <2>1
    <3> QED BY <2>1, <2>2, <3>1, <3>2
  <2>4. CASE Waiting(p) # {}
    <3>1. Len(early') <= Len(early) - 1
      BY <1>3, <2>4
    <3> QED BY <2>1, <2>2, <3>1
  <2> QED BY <1>13, <2>3, <2>4
<1>5. TypeOK'
  <2>1. pc' \in [Ids -> Pcs] /\ applying' \in [Texts -> Seq(Reports)]
    BY <1>1, <1>2, <1>4 DEF Pcs
  <2>2. early' \in Seq([id: Ids, reports: Seq(Reports)])
    BY <1>3 DEF EarlyOK, Entry
  <2> QED BY <1>1, <1>14, <1>15, <2>1, <2>2 DEF TypeOK, DeliveryTypeOK, ExchangeTypeOK
<1>6. AppsWaitNever'
  BY <1>3 DEF AppsWaitNever
<1>7. TextInv'
  BY <1>1, <1>2, IdsOf DEF TextInv
<1>8. RequestInv'
  BY <1>1, <1>2, IdsOf, FirstAirsAre DEF RequestInv
<1>9. QueueInv'
  BY <1>1, <1>2, <1>14 DEF QueueInv, IsStored, LookedThrough, TypeOK
<1>10. applying[p] = <<>> /\ Len(applying[p]) = 0
  BY <1>2, EmptySeq DEF TextInv
<1>11. Once(p)'
  <2>1. WaitingReports(p)' = <<>>
    BY <1>3 DEF WaitingReports
  <2>2. TakenOut(p)' = TakenOut(p) /\ InReader(p)' = InReader(p)
    BY <1>1, <1>2, <1>14 DEF TakenOut, InReader, InHand
  <2>3. Len(applying'[p]) = Len(WaitingReports(p))
    BY <1>1, <1>2
  <2>4. DEFINE w == Len(WaitingReports(p))
  <2>5. w \in Int /\ -w \in Int /\ 0 \in Int
    BY CountsTyped
  <2>6. Len(WaitingReports(p)') = Len(WaitingReports(p)) + (-w)
    BY <2>1, EmptySeq, CountsTyped
  <2>7. /\ Len(applying'[p]) = Len(applying[p]) + w
        /\ Len(evidence'[p]) = Len(evidence[p]) + 0 /\ lost'[p] = lost[p] + 0
        /\ TakenOut(p)' = TakenOut(p) + 0 /\ InReader(p)' = InReader(p) + 0
        /\ heard'[p] = heard[p] + (0 + (-w) + w - 0 + 0 + 0)
    BY <1>1, <1>10, <2>2, <2>3, CountsTyped
  <2> HIDE DEF w
  <2> QED BY <1>1, <2>5, <2>6, <2>7, OnceBalanced
<1>12. ASSUME NEW q \in Texts, q # p
       PROVE  Once(q)'
  <2>1. TakenOut(q)' = TakenOut(q) /\ InReader(q)' = InReader(q)
    BY <1>1, <1>2, <1>12, <1>14, IdsOf DEF TakenOut, InReader, InHand
  <2>2. applying'[q] = applying[q] /\ WaitingReports(q)' = WaitingReports(q)
    BY <1>1, <1>2, <1>3, <1>12
  <2>3. /\ Len(evidence'[q]) = Len(evidence[q]) + 0
        /\ Len(WaitingReports(q)') = Len(WaitingReports(q)) + 0
        /\ Len(applying'[q]) = Len(applying[q]) + 0
        /\ TakenOut(q)' = TakenOut(q) + 0
        /\ InReader(q)' = InReader(q) + 0
        /\ lost'[q] = lost[q] + 0
        /\ heard'[q] = heard[q] + (0 + 0 + 0 - 0 + 0 + 0)
    <3>1. UNCHANGED <<evidence, lost, heard>>
      BY <1>1
    <3> QED BY <2>1, <2>2, <3>1, CountsTyped
  <2>4. 0 \in Int
    OBVIOUS
  <2> QED BY <1>1, <2>3, <2>4, OnceBalanced
<1> QED BY <1>3, <1>5, <1>6, <1>7, <1>8, <1>9, <1>11, <1>12, AllOnce

(* update_status moves the one row, and never to none. *)
LEMMA AdvancedTyped ==
    ASSUME status \in [Texts -> Statuses \cup {NoStatus}], NEW p \in Texts, status[p] # NoStatus,
           NEW report \in Reports
    PROVE  /\ Advanced(p, report) \in [Texts -> Statuses \cup {NoStatus}]
           /\ \A q \in Texts : q # p => Advanced(p, report)[q] = status[q]
           /\ Advanced(p, report)[p] # NoStatus
<1>1. StatusOf[report] \in Statuses /\ StatusOf[report] # NoStatus
  BY DEF StatusOf, Statuses, Reports, QueueEvents, RoutingEvents, NoStatus
<1>2. CASE Advances(status[p], StatusOf[report])
  <2>1. Advanced(p, report) = [status EXCEPT ![p] = StatusOf[report]]
    BY <1>2 DEF Advanced
  <2> QED BY <1>1, <2>1
<1>3. CASE ~Advances(status[p], StatusOf[report])
  <2>1. Advanced(p, report) = status
    BY <1>3 DEF Advanced
  <2> QED BY <2>1
<1> QED BY <1>2, <1>3

LEMMA LoggedTyped ==
    ASSUME evidence \in [Texts -> Seq(Reports)], NEW p \in Texts, NEW report \in Reports
    PROVE  /\ Logged(p, report) \in [Texts -> Seq(Reports)]
           /\ \A q \in Texts : q # p => Logged(p, report)[q] = evidence[q]
           /\ Logged(p, report)[p] = Append(evidence[p], report)
           /\ Len(Logged(p, report)[p]) = Len(evidence[p]) + 1
<1>1. evidence[p] \in Seq(Reports)
  OBVIOUS
<1>2. Append(evidence[p], report) \in Seq(Reports)
      /\ Len(Append(evidence[p], report)) = Len(evidence[p]) + 1
  BY <1>1, AppendProperties
<1> QED BY <1>2 DEF Logged

(* The report a thread is about to log or to apply.                        *)
LEMMA NextReport ==
    ASSUME ReportsInv, NEW p \in Texts, applying[p] # <<>>
    PROVE  /\ Head(applying[p]) \in Reports
           /\ Tail(applying[p]) \in Seq(Reports)
           /\ Len(Tail(applying[p])) = Len(applying[p]) - 1
<1>1. applying[p] \in Seq(Reports)
  BY CountsTyped
<1> QED BY <1>1, HeadTailProperties

LEMMA LogTakenKeeps ==
    ASSUME ReportsInv, NEW p \in Texts, LogTaken(p)
    PROVE  ReportsInv'
<1> USE DEF ReportsInv
<1>1. UNCHANGED <<status, early, lost, exchange, applying, onAir, queueReport, heard, strayed, restarts>>
      /\ evidence' = Logged(p, Head(applying[p])) /\ pc' = [pc EXCEPT ![p] = "applied"]
      /\ pc[p] = "applying" /\ applying[p] # <<>>
  BY DEF LogTaken
<1>2. pc \in [Ids -> Pcs] /\ p \in Ids /\ evidence \in [Texts -> Seq(Reports)]
  BY IdsOf DEF TypeOK, DeliveryTypeOK
<1>3. /\ evidence' \in [Texts -> Seq(Reports)]
      /\ \A q \in Texts : q # p => evidence'[q] = evidence[q]
      /\ Len(evidence'[p]) = Len(evidence[p]) + 1
  BY <1>1, <1>2, NextReport, LoggedTyped
<1>4. TypeOK'
  BY <1>1, <1>2, <1>3, RoomKept DEF TypeOK, DeliveryTypeOK, ExchangeTypeOK, Pcs
<1>5. EarlyOK' /\ AppsWaitNever'
  BY <1>1, EarlyKept
<1>6. TextInv'
  <2>1. status[p] # NoStatus
    BY <1>1 DEF TextInv
  <2> QED BY <1>1, <1>2, <1>3, <2>1, IdsOf DEF TextInv
<1>7. RequestInv'
  BY <1>1, <1>2, IdsOf, FirstAirsAre DEF RequestInv
<1>8. QueueInv'
  BY <1>1 DEF QueueInv, IsStored, LookedThrough
<1>9. Once(p)'
  <2>1. TakenOut(p)' = TakenOut(p) + 1 /\ InReader(p)' = InReader(p) + 0
    <3>1. TakenOut(p)' = 1 /\ TakenOut(p) = 0 /\ InReader(p)' = InReader(p)
      BY <1>1, <1>2 DEF TakenOut, InReader
    <3> QED BY <3>1, CountsTyped
  <2>2. /\ Len(evidence'[p]) = Len(evidence[p]) + 1
        /\ Len(WaitingReports(p)') = Len(WaitingReports(p)) + 0
        /\ Len(applying'[p]) = Len(applying[p]) + 0
        /\ lost'[p] = lost[p] + 0
        /\ heard'[p] = heard[p] + (1 + 0 + 0 - 1 + 0 + 0)
    BY <1>1, <1>3, EarlySame, CountsTyped
  <2>3. 0 \in Int /\ 1 \in Int
    OBVIOUS
  <2> QED BY <1>1, <2>1, <2>2, <2>3, OnceBalanced
<1>10. ASSUME NEW q \in Texts, q # p
       PROVE  Once(q)'
  <2>1. TakenOut(q)' = TakenOut(q) /\ InReader(q)' = InReader(q)
    BY <1>1, <1>2, <1>10, IdsOf DEF TakenOut, InReader
  <2> QED BY <1>1, <1>3, <1>10, <2>1, OnceKept
<1> QED BY <1>4, <1>5, <1>6, <1>7, <1>8, <1>9, <1>10, AllOnce

LEMMA AdvanceTakenKeeps ==
    ASSUME ReportsInv, NEW p \in Texts, AdvanceTaken(p)
    PROVE  ReportsInv'
<1> USE DEF ReportsInv
<1>1. UNCHANGED <<evidence, early, lost, exchange, onAir, queueReport, heard, strayed, restarts>>
      /\ status' = Advanced(p, Head(applying[p])) /\ applying' = [applying EXCEPT ![p] = Tail(@)]
      /\ pc[p] = "applied" /\ pc' = [pc EXCEPT ![p] = "applying"]
  BY DEF AdvanceTaken
<1>2. /\ pc \in [Ids -> Pcs] /\ p \in Ids /\ applying \in [Texts -> Seq(Reports)]
      /\ status \in [Texts -> Statuses \cup {NoStatus}]
      /\ status[p] # NoStatus /\ applying[p] # <<>>
  BY <1>1, IdsOf DEF TypeOK, DeliveryTypeOK, TextInv
<1>3. /\ status' \in [Texts -> Statuses \cup {NoStatus}]
      /\ \A q \in Texts : (status'[q] = NoStatus) = (status[q] = NoStatus)
  BY <1>1, <1>2, NextReport, AdvancedTyped
<1>4. /\ applying' \in [Texts -> Seq(Reports)]
      /\ Len(applying'[p]) = Len(applying[p]) - 1
      /\ \A q \in Texts : q # p => applying'[q] = applying[q]
  BY <1>1, <1>2, NextReport
<1>5. TypeOK'
  BY <1>1, <1>2, <1>3, <1>4, RoomKept DEF TypeOK, DeliveryTypeOK, ExchangeTypeOK, Pcs
<1>6. EarlyOK' /\ AppsWaitNever'
  BY <1>1, EarlyKept
<1>7. TextInv'
  BY <1>1, <1>2, <1>3, <1>4, IdsOf DEF TextInv
<1>8. RequestInv'
  BY <1>1, <1>2, IdsOf, FirstAirsAre DEF RequestInv
<1>9. QueueInv'
  BY <1>1, <1>3 DEF QueueInv, IsStored, LookedThrough
<1>10. Once(p)'
  <2>1. TakenOut(p)' = TakenOut(p) + (-1) /\ InReader(p)' = InReader(p) + 0
    <3>1. TakenOut(p)' = 0 /\ TakenOut(p) = 1 /\ InReader(p)' = InReader(p)
      BY <1>1, <1>2 DEF TakenOut, InReader
    <3> QED BY <3>1, CountsTyped
  <2>2. /\ Len(evidence'[p]) = Len(evidence[p]) + 0
        /\ Len(WaitingReports(p)') = Len(WaitingReports(p)) + 0
        /\ Len(applying'[p]) = Len(applying[p]) + (-1)
        /\ lost'[p] = lost[p] + 0
        /\ heard'[p] = heard[p] + (0 + 0 + (-1) - (-1) + 0 + 0)
    BY <1>1, <1>4, EarlySame, CountsTyped
  <2>3. 0 \in Int /\ -1 \in Int
    OBVIOUS
  <2> QED BY <1>1, <2>1, <2>2, <2>3, OnceBalanced
<1>11. ASSUME NEW q \in Texts, q # p
       PROVE  Once(q)'
  <2>1. TakenOut(q)' = TakenOut(q) /\ InReader(q)' = InReader(q)
    BY <1>1, <1>2, <1>11, IdsOf DEF TakenOut, InReader
  <2> QED BY <1>1, <1>4, <1>11, <2>1, OnceKept
<1> QED BY <1>5, <1>6, <1>7, <1>8, <1>9, <1>10, <1>11, AllOnce

LEMMA AllTakenKeeps ==
    ASSUME ReportsInv, NEW p \in Texts, AllTaken(p)
    PROVE  ReportsInv'
<1> USE DEF ReportsInv
<1>1. UNCHANGED <<status, evidence, early, lost, exchange, applying, onAir, heard, strayed, restarts>>
      /\ pc[p] = "applying" /\ applying[p] = <<>> /\ pc' = [pc EXCEPT ![p] = After(p)]
  BY DEF AllTaken, deliveryVars
<1>2. pc \in [Ids -> Pcs] /\ p \in Ids /\ After(p) \in {"done", "leaving"} /\ status[p] # NoStatus
  BY <1>1, IdsOf DEF TypeOK, After, TextInv
<1>9. \/ UNCHANGED queueReport /\ (queueReport.id # p \/ queueReport.at # "shared")
      \/ /\ queueReport.id = p /\ queueReport.at = "shared"
         /\ queueReport' = [queueReport EXCEPT !.at = "astray"]
  BY DEF AllTaken, ListMoves
<1>10. /\ queueReport' \in {NoReport} \cup [id: Ids, report: Reports, at: QueueSteps]
       /\ queueReport'.id = queueReport.id /\ queueReport'.report = queueReport.report
       /\ \/ UNCHANGED queueReport /\ (queueReport.id # p \/ queueReport.at # "shared")
          \/ /\ queueReport.id = p /\ queueReport.at = "shared"
             /\ queueReport'.at = "astray" /\ queueReport # NoReport
  <2>1. CASE UNCHANGED queueReport /\ (queueReport.id # p \/ queueReport.at # "shared")
    BY <2>1 DEF TypeOK
  <2>2. CASE /\ queueReport.id = p /\ queueReport.at = "shared"
             /\ queueReport' = [queueReport EXCEPT !.at = "astray"]
    <3>1. queueReport # NoReport /\ queueReport \in [id: Ids, report: Reports, at: QueueSteps]
      BY <2>2, NobodyIs, QueueTyped
    <3>2. "astray" \in QueueSteps
      BY DEF QueueSteps
    <3> QED BY <2>2, <3>1, <3>2, MovesTyped
  <2> QED BY <1>9, <2>1, <2>2
<1>3. TypeOK'
  BY <1>1, <1>2, <1>10, RoomKept DEF TypeOK, DeliveryTypeOK, ExchangeTypeOK, Pcs
<1>4. EarlyOK' /\ AppsWaitNever'
  BY <1>1, EarlyKept
<1>5. TextInv'
  BY <1>1, <1>2, IdsOf DEF TextInv
<1>6. RequestInv'
  BY <1>1, <1>2, IdsOf, FirstAirsAre DEF RequestInv
<1>7. QueueInv'
  BY <1>1, <1>2, <1>10 DEF QueueInv, IsStored, LookedThrough, TypeOK
<1>8. ASSUME NEW q \in Texts
      PROVE  Once(q)'
  <2>1. TakenOut(q)' = TakenOut(q) /\ InReader(q)' = InReader(q)
    BY <1>1, <1>2, <1>10, IdsOf DEF TakenOut, InReader, InHand
  <2> QED BY <1>1, <2>1, OnceKept
<1> QED BY <1>3, <1>4, <1>5, <1>6, <1>7, <1>8, AllOnce

LEMMA LogRequestKeeps ==
    ASSUME ReportsInv, NEW r \in Requests, LogRequest(r)
    PROVE  ReportsInv'
<1> USE DEF ReportsInv
<1>1. UNCHANGED <<status, evidence, early, lost, applying, onAir, queueReport, heard, strayed, restarts>>
      /\ exchange' = [exchange EXCEPT ![r] = "sent"] /\ pc' = [pc EXCEPT ![r] = After(r)]
  BY DEF LogRequest, LogExchange, deliveryVars
<1>2. /\ pc \in [Ids -> Pcs] /\ r \in Ids /\ After(r) \in {"done", "leaving"} /\ r \notin Texts
      /\ exchange \in [Requests -> {NoExchange, "sent", "failed", "answered", "expired"}]
  BY IdsOf, FirstAirsAre DEF TypeOK, After, ExchangeTypeOK
<1>3. TypeOK'
  BY <1>1, <1>2, RoomKept DEF TypeOK, DeliveryTypeOK, ExchangeTypeOK, Pcs
<1>4. EarlyOK' /\ AppsWaitNever'
  BY <1>1, EarlyKept
<1>5. TextInv'
  BY <1>1, <1>2, IdsOf DEF TextInv
<1>6. RequestInv'
  BY <1>1, <1>2, IdsOf DEF RequestInv, NoExchange
<1>7. QueueInv'
  <2>1. \A q \in Texts : pc'[q] = pc[q] /\ LookedThrough(q)' = LookedThrough(q)
    BY <1>1, <1>2, IdsOf DEF LookedThrough, IsStored
  <2>2. \A q : IsStored(q)' = IsStored(q)
    BY <1>1 DEF IsStored
  <2> QED BY <1>1, <2>1, <2>2 DEF QueueInv
<1>8. ASSUME NEW q \in Texts
      PROVE  Once(q)'
  <2>1. TakenOut(q)' = TakenOut(q) /\ InReader(q)' = InReader(q)
    BY <1>1, <1>2, IdsOf DEF TakenOut, InReader
  <2> QED BY <1>1, <2>1, OnceKept
<1> QED BY <1>3, <1>4, <1>5, <1>6, <1>7, <1>8, AllOnce

-----------------------------------------------------------------------------
(* The reader's steps.                                                     *)

LEMMA HeardTyped ==
    ASSUME TypeOK, NEW p \in Ids, Hears(p)
    PROVE  /\ heard' \in [Ids -> Nat] /\ heard'[p] = heard[p] + 1
           /\ \A q \in Ids : q # p => heard'[q] = heard[q]
           /\ queueReport = NoReport /\ p \in onAir
BY DEF TypeOK, Hears

LEMMA HearQueueStatusKeeps ==
    ASSUME ReportsInv, NEW p \in Ids, NEW report \in QueueEvents, HearQueueStatus(p, report)
    PROVE  ReportsInv'
<1> USE DEF ReportsInv
<1>1. UNCHANGED <<status, evidence, early, lost, exchange, pc, applying, onAir, strayed, restarts>>
      /\ queueReport' = [id |-> p, report |-> report, at |-> "find"]
  BY DEF HearQueueStatus, deliveryVars, senderVars
<1>2. /\ heard' \in [Ids -> Nat] /\ heard'[p] = heard[p] + 1
      /\ \A q \in Ids : q # p => heard'[q] = heard[q]
      /\ queueReport = NoReport /\ p \in onAir
  BY HeardTyped DEF HearQueueStatus
<1>3. TypeOK'
  <2>1. Len(early') <= MaxEarly + Surplus'
    BY <1>1, <1>2, NobodyIs, RoomKept
  <2>2. queueReport' \in [id: Ids, report: Reports, at: QueueSteps]
    BY <1>1 DEF Reports, QueueSteps
  <2> QED BY <1>1, <1>2, <2>1, <2>2 DEF TypeOK, DeliveryTypeOK, ExchangeTypeOK
<1>4. EarlyOK' /\ AppsWaitNever'
  BY <1>1, EarlyKept
<1>5. TextInv'
  BY <1>1 DEF TextInv
<1>6. RequestInv'
  BY <1>1 DEF RequestInv
<1>7. QueueInv'
  BY <1>1, <1>2 DEF QueueInv
<1>8. ASSUME NEW q \in Texts
      PROVE  Once(q)'
  <2>1. TakenOut(q)' = TakenOut(q) /\ InReader(q) = 0
    BY <1>1, <1>2, NobodyIs DEF TakenOut, InReader
  <2>2. CASE q = p
    <3>1. InReader(p)' = 1
      BY <1>1 DEF InReader, InHand
    <3>2. /\ Len(evidence'[p]) = Len(evidence[p]) + 0
          /\ Len(WaitingReports(p)') = Len(WaitingReports(p)) + 0
          /\ Len(applying'[p]) = Len(applying[p]) + 0
          /\ TakenOut(p)' = TakenOut(p) + 0
          /\ InReader(p)' = InReader(p) + 1
          /\ lost'[p] = lost[p] + 0
          /\ heard'[p] = heard[p] + (0 + 0 + 0 - 0 + 1 + 0)
      BY <1>1, <1>2, <2>1, <2>2, <3>1, EarlySame, CountsTyped
    <3>3. 0 \in Int /\ 1 \in Int
      OBVIOUS
    <3> QED BY <1>1, <2>2, <3>2, <3>3, OnceBalanced
  <2>3. CASE q # p
    <3>1. InReader(q)' = InReader(q) /\ heard'[q] = heard[q]
      BY <1>1, <1>2, <2>1, <2>3, IdsOf DEF InReader
    <3> QED BY <1>1, <2>1, <3>1, OnceKept
  <2> QED BY <2>2, <2>3
<1> QED BY <1>3, <1>4, <1>5, <1>6, <1>7, <1>8, AllOnce

LEMMA FindOwnKeeps ==
    ASSUME ReportsInv, FindOwn
    PROVE  ReportsInv'
<1> USE DEF ReportsInv
<1>0. PICK p : p = queueReport.id
  OBVIOUS
<1>1. UNCHANGED <<status, early, lost, exchange, pc, applying, onAir, heard, strayed, restarts>>
      /\ queueReport.at = "find"
  BY DEF FindOwn, senderVars
<1>2. /\ queueReport \in [id: Ids, report: Reports, at: QueueSteps]
      /\ p \in Ids /\ queueReport.report \in QueueEvents /\ p \in onAir
  BY <1>0, <1>1, QueueTyped
<1>3. EarlyOK' /\ AppsWaitNever'
  BY <1>1, EarlyKept
<1>4. RequestInv'
  BY <1>1 DEF RequestInv
<1>5. CASE IsStored(p) /\ evidence' = Logged(p, queueReport.report)
           /\ queueReport' = [queueReport EXCEPT !.at = "advance"]
  <2>1. p \in Texts /\ status[p] # NoStatus /\ queueReport.report \in Reports
    BY <1>2, <1>5 DEF IsStored, Reports
  <2>2. /\ evidence' \in [Texts -> Seq(Reports)]
        /\ \A q \in Texts : q # p => evidence'[q] = evidence[q]
        /\ Len(evidence'[p]) = Len(evidence[p]) + 1
    BY <1>5, <2>1, LoggedTyped DEF TypeOK, DeliveryTypeOK
  <2>3. /\ queueReport' \in [id: Ids, report: Reports, at: QueueSteps]
        /\ queueReport'.id = p /\ queueReport'.report = queueReport.report
        /\ queueReport'.at = "advance"
    BY <1>0, <1>2, <1>5, MovesTyped DEF QueueSteps
  <2>4. TypeOK'
    BY <1>1, <2>2, <2>3, RoomKept DEF TypeOK, DeliveryTypeOK, ExchangeTypeOK
  <2>5. TextInv'
    BY <1>1, <2>1, <2>2 DEF TextInv
  <2>6. QueueInv'
    BY <1>1, <1>2, <1>5, <2>3 DEF QueueInv, IsStored, LookedThrough
  <2>7. Once(p)'
    <3>1. TakenOut(p)' = TakenOut(p) + 0 /\ InReader(p)' = InReader(p) + (-1)
      <4>1. TakenOut(p)' = TakenOut(p) /\ InReader(p) = 1 /\ InReader(p)' = 0
        BY <1>0, <1>1, <2>3 DEF TakenOut, InReader, InHand
      <4> QED BY <2>1, <4>1, CountsTyped
    <3>2. /\ Len(evidence'[p]) = Len(evidence[p]) + 1
          /\ Len(WaitingReports(p)') = Len(WaitingReports(p)) + 0
          /\ Len(applying'[p]) = Len(applying[p]) + 0
          /\ lost'[p] = lost[p] + 0
          /\ heard'[p] = heard[p] + (1 + 0 + 0 - 0 + (-1) + 0)
      BY <1>1, <2>1, <2>2, EarlySame, CountsTyped
    <3>3. 0 \in Int /\ 1 \in Int /\ -1 \in Int
      OBVIOUS
    <3> QED BY <1>1, <2>1, <3>1, <3>2, <3>3, OnceBalanced
  <2>8. ASSUME NEW q \in Texts, q # p
        PROVE  Once(q)'
    <3>1. TakenOut(q)' = TakenOut(q) /\ InReader(q)' = InReader(q)
      BY <1>0, <1>1, <2>3, <2>8 DEF TakenOut, InReader
    <3> QED BY <1>1, <2>2, <2>8, <3>1, OnceKept
  <2> QED BY <1>3, <1>4, <2>4, <2>5, <2>6, <2>7, <2>8, AllOnce
<1>6. CASE ~IsStored(p) /\ UNCHANGED evidence
           /\ queueReport' = [queueReport EXCEPT !.at = "keep"]
  <2>1. /\ queueReport' \in [id: Ids, report: Reports, at: QueueSteps]
        /\ queueReport'.id = p /\ queueReport'.report = queueReport.report
        /\ queueReport'.at = "keep"
    BY <1>0, <1>2, <1>6, MovesTyped DEF QueueSteps
  <2>2. TypeOK'
    BY <1>1, <1>6, <2>1, RoomKept DEF TypeOK, DeliveryTypeOK, ExchangeTypeOK
  <2>3. TextInv'
    BY <1>1, <1>6 DEF TextInv
  <2>4. p \notin AppTexts
    BY <1>2, <1>6, FirstAirsAre DEF TextInv, IsStored
  <2>5. QueueInv'
    BY <1>1, <1>2, <2>1, <2>4 DEF QueueInv
  <2>6. ASSUME NEW q \in Texts
        PROVE  Once(q)'
    <3>1. TakenOut(q)' = TakenOut(q) /\ InReader(q)' = InReader(q)
      BY <1>0, <1>1, <2>1 DEF TakenOut, InReader, InHand
    <3> QED BY <1>1, <1>6, <3>1, OnceKept
  <2> QED BY <1>3, <1>4, <2>2, <2>3, <2>5, <2>6, AllOnce
<1> QED BY <1>0, <1>5, <1>6 DEF FindOwn

LEMMA AdvanceQueuedKeeps ==
    ASSUME ReportsInv, AdvanceQueued
    PROVE  ReportsInv'
<1> USE DEF ReportsInv
<1> DEFINE p == queueReport.id
<1>1. UNCHANGED <<evidence, early, lost, exchange, pc, applying, onAir, heard, strayed, restarts>>
      /\ queueReport.at = "advance" /\ queueReport' = NoReport
      /\ status' = Advanced(p, queueReport.report)
  BY DEF AdvanceQueued, senderVars
<1>2. /\ p \in Texts /\ status[p] # NoStatus /\ queueReport.report \in Reports
      /\ status \in [Texts -> Statuses \cup {NoStatus}]
  BY <1>1, QueueTyped DEF IsStored, TypeOK, DeliveryTypeOK
<1>3. /\ status' \in [Texts -> Statuses \cup {NoStatus}]
      /\ \A q \in Texts : (status'[q] = NoStatus) = (status[q] = NoStatus)
  BY <1>1, <1>2, AdvancedTyped
<1>4. TypeOK'
  BY <1>1, <1>3, RoomKept DEF TypeOK, DeliveryTypeOK, ExchangeTypeOK
<1>5. EarlyOK' /\ AppsWaitNever'
  BY <1>1, EarlyKept
<1>6. TextInv' /\ RequestInv'
  BY <1>1, <1>3 DEF TextInv, RequestInv
<1>7. QueueInv'
  BY <1>1 DEF QueueInv
<1>8. ASSUME NEW q \in Texts
      PROVE  Once(q)'
  <2>1. TakenOut(q)' = TakenOut(q) /\ InReader(q)' = InReader(q)
    BY <1>1, NobodyIs DEF TakenOut, InReader, InHand
  <2> QED BY <1>1, <2>1, OnceKept
<1> QED BY <1>4, <1>5, <1>6, <1>7, <1>8, AllOnce

(* What is kept for later is counted: it waits, or it pushed others out.   *)
LEMMA KeptOnce ==
    ASSUME ReportsInv, queueReport = NoReport, NEW p \in Ids, NEW report \in Reports,
           KeepEarly(p, report), UNCHANGED <<evidence, applying, pc, strayed>>,
           NEW q \in Texts, NEW n \in Int, InReader(q)' = InReader(q) + n,
           heard'[q] = heard[q] + (n + (IF q = p THEN 1 ELSE 0))
    PROVE  Once(q)'
<1>1. EarlyOK /\ Len(early) <= MaxEarly /\ lost \in [Texts -> Nat] /\ q \in Ids
  BY IdsOf, RoomThere, NobodyIs DEF ReportsInv, TypeOK, DeliveryTypeOK
<1>2. \/ /\ Waiting(q)' = {} /\ q # p
         /\ lost'[q] = lost[q] + Len(WaitingReports(q))
      \/ /\ WaitingReports(q)' = IF q = p THEN Append(WaitingReports(p), report)
                                          ELSE WaitingReports(q)
         /\ lost'[q] = lost[q]
  BY <1>1, KeepEffect
<1> DEFINE w == Len(WaitingReports(q))
           k == IF q = p THEN 1 ELSE 0
<1>3. w \in Nat /\ k \in {0, 1}
  BY CountsTyped
<1>4. /\ Len(evidence'[q]) = Len(evidence[q]) + 0
      /\ Len(applying'[q]) = Len(applying[q]) + 0
      /\ TakenOut(q)' = TakenOut(q) + 0
  <2>1. TakenOut(q)' = TakenOut(q)
    BY DEF TakenOut
  <2> QED BY <2>1, CountsTyped
<1>5. 0 \in Int /\ -w \in Int /\ w \in Int /\ k \in Int
  <2> HIDE DEF w, k
  <2> QED BY <1>3
<1>6. CASE Waiting(q)' = {} /\ q # p /\ lost'[q] = lost[q] + Len(WaitingReports(q))
  <2>1. Len(WaitingReports(q)') = 0
    BY <1>6, EmptySeq DEF WaitingReports
  <2>2. k = 0
    BY <1>6
  <2> HIDE DEF k
  <2>3. Len(WaitingReports(q)') = Len(WaitingReports(q)) + (-w)
    BY <1>3, <2>1
  <2>4. lost'[q] = lost[q] + w
    BY <1>6
  <2> HIDE DEF w
  <2>5. heard'[q] = heard[q] + (0 + (-w) + 0 - 0 + n + w)
    <3>1. heard'[q] = heard[q] + (n + 0)
      BY <2>2 DEF k
    <3>2. n + 0 = 0 + (-w) + 0 - 0 + n + w
      BY <1>3
    <3> QED BY <3>1, <3>2
  <2> QED BY <1>4, <1>5, <2>3, <2>4, <2>5, OnceBalanced
<1>7. CASE /\ WaitingReports(q)' = IF q = p THEN Append(WaitingReports(p), report)
                                            ELSE WaitingReports(q)
           /\ lost'[q] = lost[q]
  <2>1. Len(WaitingReports(q)') = Len(WaitingReports(q)) + k
    <3>1. CASE q = p
      <4>1. WaitingReports(q) \in Seq(Reports) /\ WaitingReports(q)' = Append(WaitingReports(q), report)
        BY <1>7, <3>1, CountsTyped
      <4> QED BY <3>1, <4>1, AppendProperties
    <3>2. CASE q # p
      BY <1>3, <1>7, <3>2
    <3> QED BY <3>1, <3>2
  <2>2. lost'[q] = lost[q] + 0
    BY <1>7, CountsTyped
  <2>3. heard'[q] = heard[q] + (n + k)
    OBVIOUS
  <2> HIDE DEF k, w
  <2>4. heard'[q] = heard[q] + (0 + k + 0 - 0 + n + 0)
    <3>1. n + k = 0 + k + 0 - 0 + n + 0
      BY <1>5
    <3> QED BY <2>3, <3>1
  <2> QED BY <1>4, <1>5, <2>1, <2>2, <2>4, OnceBalanced
<1> QED BY <1>2, <1>6, <1>7

(* An entry no app's text has does not come to be one by keeping a report  *)
(* of another packet.                                                      *)
LEMMA KeptForOthers ==
    ASSUME EarlyOK, Len(early) <= MaxEarly, AppsWaitNever, lost \in [Texts -> Nat],
           NEW p \in Ids \ AppTexts, NEW report \in Reports, KeepEarly(p, report)
    PROVE  EarlyOK' /\ Len(early') <= MaxEarly /\ AppsWaitNever' /\ lost' \in [Texts -> Nat]
<1>1. /\ EarlyOK' /\ Len(early') <= MaxEarly /\ lost' \in [Texts -> Nat]
      /\ \A q \in Ids : q # p /\ Waiting(q) = {} => Waiting(q)' = {}
  BY KeepEffect
<1>2. \A q \in AppTexts : q \in Ids /\ q # p
  BY FirstAirsAre, IdsOf
<1> QED BY <1>1, <1>2 DEF AppsWaitNever

(* setdefault gives a new id an empty list, which is nothing that waits.   *)
LEMMA SetDefaultEffect ==
    ASSUME EarlyOK, NEW p \in Ids,
           early' = IF Waiting(p) # {} THEN early ELSE Append(early, [id |-> p, reports |-> <<>>])
    PROVE  /\ EarlyOK' /\ Len(early') <= Len(early) + 1
           /\ \A q : WaitingReports(q)' = WaitingReports(q)
           /\ \A q : q # p /\ Waiting(q) = {} => Waiting(q)' = {}
<1>1. /\ Len(early) \in Nat /\ DOMAIN early = 1 .. Len(early)
      /\ \A i \in 1 .. Len(early) : early[i] \in Entry
  BY EarlyLen DEF EarlyOK
<1>2. CASE Waiting(p) # {}
  <2>1. UNCHANGED early
    BY <1>2
  <2>2. EarlyOK' /\ Len(early') = Len(early)
    BY <2>1 DEF EarlyOK
  <2>3. Len(early') <= Len(early) + 1
    <3> DEFINE n == Len(early)
    <3>1. n \in Nat /\ Len(early') = n
      BY <1>1, <2>2
    <3> HIDE DEF n
    <3>2. n <= n + 1
      BY <3>1
    <3> QED BY <3>1, <3>2 DEF n
  <2> QED BY <2>1, <2>2, <2>3, EarlySame
<1>3. CASE Waiting(p) = {}
  <2> DEFINE e == [id |-> p, reports |-> <<>>]
  <2>1. e \in Entry /\ e.id = p /\ e.reports = <<>>
    BY EmptySeq DEF Entry
  <2>2. early' = Append(early, e)
    BY <1>3
  <2> HIDE DEF e
  <2>3. /\ early' \in Seq(Entry) /\ Len(early') = Len(early) + 1
        /\ \A i \in 1 .. Len(early) : early'[i] = early[i]
        /\ early'[Len(early) + 1] = e
    BY <2>1, <2>2, AppendProperties DEF EarlyOK
  <2>4. DOMAIN early' = 1 .. Len(early) + 1
    BY <2>3, LenProperties
  <2>5. \A i \in DOMAIN early' : i \in DOMAIN early \/ i = Len(early) + 1
    BY <1>1, <2>4
  <2>6. \A i \in DOMAIN early : early[i].id # p
    BY <1>3 DEF Waiting
  <2>7. \A i, j \in DOMAIN early' : early'[i].id = early'[j].id => i = j
    BY <1>1, <2>1, <2>3, <2>5, <2>6 DEF EarlyOK
  <2>8. \A i \in DOMAIN early : i \in DOMAIN early' /\ early'[i] = early[i]
    BY <1>1, <2>3, <2>4
  <2>9. Len(early) + 1 \in DOMAIN early'
    BY <1>1, <2>4
  <2>10. EarlyOK' /\ Len(early') <= Len(early) + 1
    BY <1>1, <2>3, <2>7 DEF EarlyOK
  <2>11. \A q, x : q # p => (Has(early', q, x) <=> Has(early, q, x))
    BY <2>1, <2>3, <2>5, <2>8 DEF Has
  <2>12. Has(early', p, <<>>)
    BY <2>1, <2>3, <2>9 DEF Has
  <2>13. /\ \A q, x : Has(early, q, x) => Waiting(q) # {} /\ WaitingReports(q) = x
         /\ \A q : Waiting(q) # {} => Has(early, q, WaitingReports(q))
         /\ \A q : Waiting(q) = {} => WaitingReports(q) = <<>>
         /\ \A q, x : Has(early', q, x) => Waiting(q)' # {} /\ WaitingReports(q)' = x
         /\ \A q : Waiting(q)' # {} => Has(early', q, WaitingReports(q)')
         /\ \A q : Waiting(q)' = {} => WaitingReports(q)' = <<>>
    BY <2>10, EntriesSay
  <2>14. WaitingReports(p)' = WaitingReports(p)
    BY <1>3, <2>12, <2>13
  <2>15. ASSUME NEW q, q # p
         PROVE  /\ WaitingReports(q)' = WaitingReports(q)
                /\ Waiting(q) = {} => Waiting(q)' = {}
    BY <2>11, <2>13, <2>15
  <2> QED BY <2>10, <2>14, <2>15
<1> QED BY <1>2, <1>3

(* append puts one more report into a list that waits.                     *)
LEMMA AppendEffect ==
    ASSUME EarlyOK, NEW p \in Ids, NEW r \in Reports, Waiting(p) # {}, early' = With(p, r)
    PROVE  /\ EarlyOK' /\ Len(early') = Len(early)
           /\ WaitingReports(p)' = Append(WaitingReports(p), r)
           /\ \A q : q # p => /\ WaitingReports(q)' = WaitingReports(q)
                              /\ Waiting(q) = {} => Waiting(q)' = {}
<1>1. /\ early' \in Seq(Entry)
      /\ Len(early') = Len(early) + (IF Waiting(p) = {} THEN 1 ELSE 0)
      /\ \A i, j \in DOMAIN early' : early'[i].id = early'[j].id => i = j
      /\ \A q, x : q # p => (Has(early', q, x) <=> Has(early, q, x))
      /\ \A x : Has(early', p, x) <=> x = Append(WaitingReports(p), r)
  BY WithEffect
<1>2. EarlyOK'
  BY <1>1 DEF EarlyOK
<1>3. Len(early') = Len(early)
  <2>1. Len(early') = Len(early) + 0
    BY <1>1, Zenon
  <2> QED BY <2>1, EarlyLen DEF EarlyOK
<1>4. /\ \A q, x : Has(early, q, x) => Waiting(q) # {} /\ WaitingReports(q) = x
      /\ \A q : Waiting(q) # {} => Has(early, q, WaitingReports(q))
      /\ \A q : Waiting(q) = {} => WaitingReports(q) = <<>>
      /\ \A q, x : Has(early', q, x) => Waiting(q)' # {} /\ WaitingReports(q)' = x
      /\ \A q : Waiting(q)' # {} => Has(early', q, WaitingReports(q)')
      /\ \A q : Waiting(q)' = {} => WaitingReports(q)' = <<>>
  BY <1>2, EntriesSay
<1>5. WaitingReports(p)' = Append(WaitingReports(p), r)
  BY <1>1, <1>4
<1>6. ASSUME NEW q, q # p
      PROVE  /\ WaitingReports(q)' = WaitingReports(q)
             /\ Waiting(q) = {} => Waiting(q)' = {}
  BY <1>1, <1>4, <1>6
<1> QED BY <1>2, <1>3, <1>5, <1>6

LEMMA KeepQueuedKeeps ==
    ASSUME ReportsInv, KeepQueued
    PROVE  ReportsInv'
<1> USE DEF ReportsInv
<1>0. PICK p : p = queueReport.id
  OBVIOUS
<1>1. UNCHANGED <<status, evidence, lost, exchange, pc, applying, onAir, heard, strayed, restarts>>
      /\ queueReport.at = "keep" /\ queueReport' = [queueReport EXCEPT !.at = "append"]
      /\ early' = IF Waiting(p) # {} THEN early ELSE Append(early, [id |-> p, reports |-> <<>>])
  BY <1>0 DEF KeepQueued, senderVars
<1>2. p \in Ids \ AppTexts /\ queueReport \in [id: Ids, report: Reports, at: QueueSteps]
      /\ p \in onAir /\ queueReport.report \in QueueEvents
  BY <1>0, <1>1, QueueTyped
<1>3. /\ queueReport' \in [id: Ids, report: Reports, at: QueueSteps]
      /\ queueReport'.id = p /\ queueReport'.report = queueReport.report
      /\ queueReport'.at = "append"
  BY <1>0, <1>1, <1>2, MovesTyped DEF QueueSteps
<1>4. /\ EarlyOK' /\ Len(early') <= Len(early) + 1
      /\ \A q : WaitingReports(q)' = WaitingReports(q)
      /\ \A q : q # p /\ Waiting(q) = {} => Waiting(q)' = {}
  BY <1>1, <1>2, SetDefaultEffect
<1>5. Len(early') <= MaxEarly + Surplus'
  <2>1. /\ Len(early') \in Nat /\ Len(early) \in Nat /\ MaxEarly \in Nat
        /\ Len(early) <= MaxEarly
    BY <1>1, <1>4, EarlyLen, LenProperties, RoomThere, DeliveryAssumption DEF EarlyOK
  <2>2. Surplus' = 1
    BY <1>3 DEF Surplus, MakingRoom
  <2> QED BY <1>4, <2>1, <2>2
<1>6. AppsWaitNever'
  BY <1>2, <1>4 DEF AppsWaitNever
<1>7. TypeOK'
  <2>1. early' \in Seq([id: Ids, reports: Seq(Reports)])
    BY <1>4 DEF EarlyOK, Entry
  <2> QED BY <1>1, <1>3, <1>5, <2>1 DEF TypeOK, DeliveryTypeOK, ExchangeTypeOK
<1>8. TextInv' /\ RequestInv'
  BY <1>1 DEF TextInv, RequestInv
<1>9. QueueInv'
  BY <1>1, <1>2, <1>3 DEF QueueInv
<1>10. ASSUME NEW q \in Texts
       PROVE  Once(q)'
  <2>1. TakenOut(q)' = TakenOut(q) /\ InReader(q)' = InReader(q)
    BY <1>0, <1>1, <1>3 DEF TakenOut, InReader, InHand
  <2>2. WaitingReports(q)' = WaitingReports(q)
    BY <1>4
  <2>3. /\ Len(evidence'[q]) = Len(evidence[q]) + 0
        /\ Len(WaitingReports(q)') = Len(WaitingReports(q)) + 0
        /\ Len(applying'[q]) = Len(applying[q]) + 0
        /\ TakenOut(q)' = TakenOut(q) + 0
        /\ InReader(q)' = InReader(q) + 0
        /\ lost'[q] = lost[q] + 0
        /\ heard'[q] = heard[q] + (0 + 0 + 0 - 0 + 0 + 0)
    BY <1>1, <2>1, <2>2, CountsTyped
  <2>4. 0 \in Int
    OBVIOUS
  <2> QED BY <1>1, <2>3, <2>4, OnceBalanced
<1> QED BY <1>4, <1>6, <1>7, <1>8, <1>9, <1>10, AllOnce

(* Wherever the list has gone, the report is counted there.                *)
Appended(p, report) ==
    \/ /\ Waiting(p) # {} /\ early' = With(p, report)
       /\ UNCHANGED <<applying, lost, strayed>>
    \/ /\ UNCHANGED <<applying, early, strayed>>
       /\ lost' = [q \in Texts |-> IF q = p THEN lost[q] + 1 ELSE lost[q]]
    \/ /\ p \in Texts /\ pc[p] \in {"applying", "applied"}
       /\ applying' = [applying EXCEPT ![p] = Append(@, report)]
       /\ UNCHANGED <<early, lost, strayed>>
    \/ /\ p \in Texts /\ LookedThrough(p)
       /\ strayed' = [strayed EXCEPT ![p] = @ + 1]
       /\ UNCHANGED <<applying, early, lost>>

LEMMA AppendedOnce ==
    ASSUME ReportsInv, NEW p \in Ids, NEW report \in Reports, Appended(p, report),
           UNCHANGED <<evidence, pc, heard>>, NEW q \in Texts,
           InReader(q) = IF q = p THEN 1 ELSE 0, InReader(q)' = 0
    PROVE  Once(q)'
<1> USE DEF ReportsInv
<1> DEFINE k == IF q = p THEN 1 ELSE 0
<1>1. k \in {0, 1}
  OBVIOUS
<1>2. k \in Int /\ 0 \in Int /\ -k \in Int
  <2> HIDE DEF k
  <2> QED BY <1>1
<1>3. /\ Len(evidence'[q]) = Len(evidence[q]) + 0
      /\ TakenOut(q)' = TakenOut(q) + 0
      /\ InReader(q)' = InReader(q) + (-k)
      /\ heard'[q] = heard[q]
  <2>1. TakenOut(q)' = TakenOut(q)
    BY DEF TakenOut
  <2>2. InReader(q) = k
    OBVIOUS
  <2> HIDE DEF k
  <2> QED BY <1>1, <2>1, <2>2, CountsTyped
<1>4. CASE /\ Waiting(p) # {} /\ early' = With(p, report)
           /\ UNCHANGED <<applying, lost, strayed>>
  <2>1. Len(WaitingReports(q)') = Len(WaitingReports(q)) + k
    <3>1. CASE q = p
      <4>1. WaitingReports(q) \in Seq(Reports) /\ WaitingReports(q)' = Append(WaitingReports(q), report)
        BY <1>4, <3>1, AppendEffect, CountsTyped
      <4> QED BY <3>1, <4>1, AppendProperties
    <3>2. CASE q # p
      <4>1. WaitingReports(q)' = WaitingReports(q)
        BY <1>4, <3>2, AppendEffect
      <4> QED BY <3>2, <4>1, CountsTyped
    <3> QED BY <3>1, <3>2
  <2> HIDE DEF k
  <2>2. /\ Len(applying'[q]) = Len(applying[q]) + 0 /\ lost'[q] = lost[q] + 0
        /\ heard'[q] = heard[q] + (0 + k + 0 - 0 + (-k) + 0)
    BY <1>1, <1>3, <1>4, CountsTyped
  <2> QED BY <1>2, <1>3, <1>4, <2>1, <2>2, OnceBalanced
<1>5. ASSUME UNCHANGED early
      PROVE  Len(WaitingReports(q)') = Len(WaitingReports(q)) + 0
  BY <1>5, EarlySame, CountsTyped
<1>6. CASE /\ UNCHANGED <<applying, early, strayed>>
           /\ lost' = [x \in Texts |-> IF x = p THEN lost[x] + 1 ELSE lost[x]]
  <2>1. lost'[q] = lost[q] + k
    BY <1>6, CountsTyped
  <2> HIDE DEF k
  <2>2. /\ Len(applying'[q]) = Len(applying[q]) + 0
        /\ heard'[q] = heard[q] + (0 + 0 + 0 - 0 + (-k) + k)
    BY <1>1, <1>3, <1>6, CountsTyped
  <2>3. Len(WaitingReports(q)') = Len(WaitingReports(q)) + 0 /\ UNCHANGED strayed
    BY <1>5, <1>6
  <2> QED BY <1>2, <1>3, <2>1, <2>2, <2>3, OnceBalanced
<1>7. CASE /\ p \in Texts /\ applying' = [applying EXCEPT ![p] = Append(@, report)]
           /\ UNCHANGED <<early, lost, strayed>>
  <2>1. Len(applying'[q]) = Len(applying[q]) + k
    <3>1. CASE q = p
      <4>1. applying'[q] = Append(applying[q], report) /\ applying[q] \in Seq(Reports)
        BY <1>7, <3>1, CountsTyped DEF TypeOK
      <4> QED BY <3>1, <4>1, AppendProperties
    <3>2. CASE q # p
      <4>1. applying'[q] = applying[q]
        BY <1>7, <3>2 DEF TypeOK
      <4> QED BY <3>2, <4>1, CountsTyped
    <3> QED BY <3>1, <3>2
  <2> HIDE DEF k
  <2>2. /\ lost'[q] = lost[q] + 0
        /\ heard'[q] = heard[q] + (0 + 0 + k - 0 + (-k) + 0)
    BY <1>1, <1>3, <1>7, CountsTyped
  <2>3. Len(WaitingReports(q)') = Len(WaitingReports(q)) + 0 /\ UNCHANGED strayed
    BY <1>5, <1>7
  <2> QED BY <1>2, <1>3, <2>1, <2>2, <2>3, OnceBalanced
<1>8. CASE /\ p \in Texts /\ strayed' = [strayed EXCEPT ![p] = @ + 1]
           /\ UNCHANGED <<applying, early, lost>>
  <2>1. strayed'[q] = strayed[q] + k
    BY <1>8, CountsTyped DEF TypeOK
  <2>2. TakenOut(q)' = TakenOut(q)
    BY DEF TakenOut
  <2>3. InReader(q)' = InReader(q) - k
    OBVIOUS
  <2> HIDE DEF k
  <2> QED BY <1>2, <1>8, <2>1, <2>2, <2>3, OnceStrayed
<1> QED BY <1>4, <1>6, <1>7, <1>8 DEF Appended

LEMMA AppendQueuedIs ==
    ASSUME ReportsInv, AppendQueued, NEW p, p = queueReport.id
    PROVE  /\ UNCHANGED <<status, evidence, exchange, pc, onAir, heard, restarts>>
           /\ queueReport.at \in {"append", "shared", "astray"}
           /\ queueReport' = [queueReport EXCEPT !.at = "count"]
           /\ p \in Ids /\ queueReport \in [id: Ids, report: Reports, at: QueueSteps]
           /\ p \in onAir /\ queueReport.report \in QueueEvents /\ queueReport.report \in Reports
           /\ Appended(p, queueReport.report)
           /\ early' # early => p \notin AppTexts /\ queueReport.at = "append"
<1>1. /\ UNCHANGED <<status, evidence, exchange, pc, onAir, heard, restarts>>
      /\ queueReport.at \in {"append", "shared", "astray"}
      /\ queueReport' = [queueReport EXCEPT !.at = "count"]
  BY DEF AppendQueued
<1>2. /\ p \in Ids /\ queueReport \in [id: Ids, report: Reports, at: QueueSteps]
      /\ p \in onAir /\ queueReport.report \in QueueEvents /\ queueReport.report \in Reports
      /\ queueReport.at = "append" => p \notin AppTexts
  BY <1>1, QueueTyped DEF ReportsInv
<1>3. /\ queueReport.at = "shared" => p \in Texts /\ pc[p] \in {"applying", "applied"}
      /\ queueReport.at = "astray" => p \in Texts /\ LookedThrough(p)
  BY <1>1, NobodyIs DEF ReportsInv, QueueInv
<1>4. Appended(p, queueReport.report)
  BY <1>3 DEF AppendQueued, Appended
<1>5. early' # early => queueReport.at = "append"
  BY DEF AppendQueued
<1> QED BY <1>1, <1>2, <1>4, <1>5

LEMMA AppendQueuedKeeps ==
    ASSUME ReportsInv, AppendQueued
    PROVE  ReportsInv'
<1> USE DEF ReportsInv
<1>0. PICK p : p = queueReport.id
  OBVIOUS
<1>1. /\ UNCHANGED <<status, evidence, exchange, pc, onAir, heard, restarts>>
      /\ queueReport.at \in {"append", "shared", "astray"}
      /\ queueReport' = [queueReport EXCEPT !.at = "count"]
      /\ p \in Ids /\ queueReport \in [id: Ids, report: Reports, at: QueueSteps]
      /\ p \in onAir /\ queueReport.report \in QueueEvents /\ queueReport.report \in Reports
      /\ Appended(p, queueReport.report)
      /\ early' # early => p \notin AppTexts /\ queueReport.at = "append"
  BY <1>0, AppendQueuedIs
<1>2. /\ queueReport' \in [id: Ids, report: Reports, at: QueueSteps]
      /\ queueReport'.id = p /\ queueReport'.report = queueReport.report
      /\ queueReport'.at = "count"
  BY <1>0, <1>1, MovesTyped DEF QueueSteps
<1>3. /\ status \in [Texts -> Statuses \cup {NoStatus}] /\ lost \in [Texts -> Nat]
      /\ applying \in [Texts -> Seq(Reports)] /\ strayed \in [Texts -> Nat]
  BY DEF TypeOK, DeliveryTypeOK
<1>4. EarlyOK' /\ AppsWaitNever' /\ Len(early') <= MaxEarly + Surplus'
  <2>1. CASE UNCHANGED early
    BY <1>2, <2>1, EarlyKept, RoomKept
  <2>2. CASE early' # early
    <3>1. Waiting(p) # {} /\ early' = With(p, queueReport.report) /\ p \notin AppTexts
      BY <1>1, <2>2 DEF Appended
    <3>2. /\ EarlyOK' /\ Len(early') = Len(early)
          /\ \A q : q # p => (Waiting(q) = {} => Waiting(q)' = {})
      BY <1>1, <3>1, AppendEffect
    <3>3. AppsWaitNever'
      BY <3>1, <3>2 DEF AppsWaitNever
    <3>4. Surplus = 1 /\ Surplus' = 1
      BY <1>1, <1>2, <2>2 DEF Surplus, MakingRoom
    <3>5. Len(early) <= MaxEarly + Surplus
      BY DEF TypeOK
    <3>6. Len(early') <= MaxEarly + Surplus'
      BY <3>2, <3>4, <3>5
    <3> QED BY <3>2, <3>3, <3>6
  <2> QED BY <2>1, <2>2
<1>5. lost' \in [Texts -> Nat] /\ strayed' \in [Texts -> Nat]
  <2>1. \/ UNCHANGED lost
        \/ lost' = [q \in Texts |-> IF q = p THEN lost[q] + 1 ELSE lost[q]]
    BY <1>1 DEF Appended
  <2>2. lost' \in [Texts -> Nat]
    BY <1>3, <2>1
  <2>3. \/ UNCHANGED strayed
        \/ p \in Texts /\ strayed' = [strayed EXCEPT ![p] = @ + 1]
    BY <1>1 DEF Appended
  <2>4. strayed' \in [Texts -> Nat]
    BY <1>3, <2>3
  <2> QED BY <2>2, <2>4
<1>6. /\ applying' \in [Texts -> Seq(Reports)]
      /\ \A q \in Texts : applying'[q] = applying[q] \/ (pc[q] \in {"applying", "applied"} /\ applying'[q] # <<>>)
  <2>1. CASE UNCHANGED applying
    BY <1>3, <2>1
  <2>2. CASE p \in Texts /\ pc[p] \in {"applying", "applied"}
             /\ applying' = [applying EXCEPT ![p] = Append(@, queueReport.report)]
    <3>1. applying[p] \in Seq(Reports)
      BY <1>3, <2>2
    <3>2. /\ Append(applying[p], queueReport.report) \in Seq(Reports)
          /\ Append(applying[p], queueReport.report) # <<>>
      BY <1>1, <3>1, AppendProperties
    <3> QED BY <1>3, <2>2, <3>2
  <2> QED BY <1>1, <2>1, <2>2 DEF Appended
<1>7. TypeOK'
  <2>1. early' \in Seq([id: Ids, reports: Seq(Reports)])
    BY <1>4 DEF EarlyOK, Entry
  <2> QED BY <1>1, <1>2, <1>4, <1>5, <1>6, <2>1 DEF TypeOK, DeliveryTypeOK, ExchangeTypeOK
<1>8. TextInv'
  BY <1>1, <1>6 DEF TextInv
<1>9. RequestInv'
  BY <1>1 DEF RequestInv
<1>10. QueueInv'
  BY <1>1, <1>2 DEF QueueInv
<1>11. ASSUME NEW q \in Texts
       PROVE  Once(q)'
  <2>1. InReader(q) = (IF q = p THEN 1 ELSE 0) /\ InReader(q)' = 0
    BY <1>0, <1>1, <1>2 DEF InReader, InHand
  <2> QED BY <1>1, <2>1, AppendedOnce
<1> QED BY <1>4, <1>7, <1>8, <1>9, <1>10, <1>11, AllOnce

LEMMA CountEarlyIs ==
    ASSUME ReportsInv, CountEarly
    PROVE  /\ UNCHANGED <<deliveryVars, exchange, senderVars, heard, strayed, restarts>>
           /\ queueReport.at = "count" /\ queueReport \in [id: Ids, report: Reports, at: QueueSteps]
           /\ \/ queueReport' = NoReport /\ Len(early) <= MaxEarly
              \/ /\ queueReport' = [queueReport EXCEPT !.at = "trim"]
                 /\ queueReport' \in [id: Ids, report: Reports, at: QueueSteps]
                 /\ queueReport'.id = queueReport.id /\ queueReport'.at = "trim"
<1> USE DEF ReportsInv
<1>1. /\ UNCHANGED <<deliveryVars, exchange, senderVars, heard, strayed, restarts>>
      /\ queueReport.at = "count" /\ queueReport \in [id: Ids, report: Reports, at: QueueSteps]
  BY QueueTyped DEF CountEarly
<1>2. Len(early) \in Nat /\ Len(early) <= MaxEarly + 1
  <2>1. Len(early) \in Nat /\ Len(early) <= MaxEarly + Surplus
    BY EarlyLen DEF TypeOK, EarlyOK
  <2>2. Surplus = 1
    BY <1>1 DEF Surplus, MakingRoom
  <2> QED BY <2>1, <2>2
<1>3. Over(early) \in {0, 1} /\ Len(early) - Over(early) <= MaxEarly
  BY <1>2, OverIs
<1>4. CASE Over(early) > 0
  <2>1. queueReport' = [queueReport EXCEPT !.at = "trim"]
    BY <1>4, Zenon DEF CountEarly
  <2> QED BY <1>1, <2>1, MovesTyped DEF QueueSteps
<1>5. CASE ~(Over(early) > 0)
  <2>1. queueReport' = NoReport
    BY <1>5, Zenon DEF CountEarly
  <2>2. Over(early) = 0
    BY <1>3, <1>5
  <2>3. Len(early) <= MaxEarly
    <3> DEFINE n == Len(early)
    <3>1. n \in Nat /\ n - 0 <= MaxEarly
      BY <1>2, <1>3, <2>2
    <3> HIDE DEF n
    <3>2. n <= MaxEarly
      BY <3>1
    <3> QED BY <3>2 DEF n
  <2> QED BY <1>1, <2>1, <2>3
<1> QED BY <1>4, <1>5

LEMMA CountEarlyKeeps ==
    ASSUME ReportsInv, CountEarly
    PROVE  ReportsInv'
<1> USE DEF ReportsInv
<1>0. /\ UNCHANGED <<deliveryVars, exchange, senderVars, heard, strayed, restarts>>
      /\ queueReport.at = "count" /\ queueReport \in [id: Ids, report: Reports, at: QueueSteps]
      /\ \/ queueReport' = NoReport /\ Len(early) <= MaxEarly
         \/ /\ queueReport' = [queueReport EXCEPT !.at = "trim"]
            /\ queueReport' \in [id: Ids, report: Reports, at: QueueSteps]
            /\ queueReport'.id = queueReport.id /\ queueReport'.at = "trim"
  BY CountEarlyIs
<1>1. UNCHANGED <<status, evidence, early, lost, exchange, pc, applying, onAir, heard, strayed, restarts>>
  BY <1>0 DEF deliveryVars, senderVars
<1>2. Len(early') <= MaxEarly + Surplus'
  <2>1. CASE queueReport' = NoReport /\ Len(early) <= MaxEarly
    <3>1. EarlyOK' /\ Len(early') <= MaxEarly
      BY <1>1, <2>1, EarlyKept
    <3> QED BY <3>1, RoomMade
  <2>2. CASE queueReport'.at = "trim"
    BY <1>1, <2>2, RoomKept DEF MakingRoom
  <2> QED BY <1>0, <2>1, <2>2
<1>3. TypeOK'
  BY <1>0, <1>1, <1>2 DEF TypeOK, DeliveryTypeOK, ExchangeTypeOK
<1>4. EarlyOK' /\ AppsWaitNever'
  BY <1>1, EarlyKept
<1>5. TextInv' /\ RequestInv'
  BY <1>1 DEF TextInv, RequestInv
<1>6. QueueInv'
  BY <1>0, <1>1, NobodyIs DEF QueueInv, IsStored, LookedThrough
<1>7. ASSUME NEW q \in Texts
      PROVE  Once(q)'
  <2>1. TakenOut(q)' = TakenOut(q) /\ InReader(q)' = InReader(q)
    BY <1>0, <1>1, NobodyIs DEF TakenOut, InReader, InHand
  <2> QED BY <1>1, <2>1, OnceKept
<1> QED BY <1>3, <1>4, <1>5, <1>6, <1>7, AllOnce

LEMMA TrimQueuedKeeps ==
    ASSUME ReportsInv, TrimQueued
    PROVE  ReportsInv'
<1> USE DEF ReportsInv
<1>1. UNCHANGED <<status, evidence, exchange, pc, applying, onAir, heard, strayed, restarts>>
      /\ queueReport.at = "trim" /\ queueReport' = NoReport
      /\ GiveUp(early, IF early = <<>> THEN 0 ELSE 1)
  BY DEF TrimQueued, senderVars
<1>2. Len(early) <= MaxEarly + 1
  <2>1. Len(early) <= MaxEarly + Surplus
    BY DEF TypeOK
  <2>2. Surplus = 1
    BY <1>1 DEF Surplus, MakingRoom
  <2> QED BY <2>1, <2>2
<1>3. /\ EarlyOK' /\ Len(early') <= MaxEarly /\ lost' \in [Texts -> Nat]
      /\ \A q \in Ids : /\ Waiting(q) = {} => Waiting(q)' = {}
                        /\ \/ /\ WaitingReports(q)' = <<>>
                              /\ q \in Texts => lost'[q] = lost[q] + Len(WaitingReports(q))
                           \/ /\ WaitingReports(q)' = WaitingReports(q)
                              /\ q \in Texts => lost'[q] = lost[q]
  BY <1>1, <1>2, TrimEffect DEF TypeOK, DeliveryTypeOK
<1>4. AppsWaitNever'
  BY <1>3, FirstAirsAre, IdsOf DEF AppsWaitNever
<1>5. TypeOK'
  <2>1. early' \in Seq([id: Ids, reports: Seq(Reports)])
    BY <1>3 DEF EarlyOK, Entry
  <2> QED BY <1>1, <1>3, <2>1, RoomMade DEF TypeOK, DeliveryTypeOK, ExchangeTypeOK
<1>6. TextInv' /\ RequestInv' /\ QueueInv'
  BY <1>1 DEF TextInv, RequestInv, QueueInv
<1>7. ASSUME NEW q \in Texts
      PROVE  Once(q)'
  <2>1. TakenOut(q)' = TakenOut(q) /\ InReader(q)' = InReader(q)
    BY <1>1, NobodyIs DEF TakenOut, InReader, InHand
  <2> DEFINE w == Len(WaitingReports(q))
  <2>2. w \in Nat /\ 0 \in Int
    BY CountsTyped
  <2>3. CASE WaitingReports(q)' = <<>> /\ lost'[q] = lost[q] + Len(WaitingReports(q))
    <3>1. Len(WaitingReports(q)') = 0
      BY <2>3, EmptySeq
    <3>2. lost'[q] = lost[q] + w
      BY <2>3
    <3> HIDE DEF w
    <3>3. w \in Int /\ -w \in Int
      BY <2>2
    <3>4. Len(WaitingReports(q)') = Len(WaitingReports(q)) + (-w)
      BY <2>2, <3>1 DEF w
    <3>5. /\ Len(evidence'[q]) = Len(evidence[q]) + 0
          /\ Len(applying'[q]) = Len(applying[q]) + 0
          /\ TakenOut(q)' = TakenOut(q) + 0
          /\ InReader(q)' = InReader(q) + 0
          /\ heard'[q] = heard[q] + (0 + (-w) + 0 - 0 + 0 + w)
      BY <1>1, <2>1, <2>2, CountsTyped
    <3> QED BY <1>1, <2>2, <3>2, <3>3, <3>4, <3>5, OnceBalanced
  <2>4. CASE WaitingReports(q)' = WaitingReports(q) /\ lost'[q] = lost[q]
    <3>1. /\ Len(evidence'[q]) = Len(evidence[q]) + 0
          /\ Len(WaitingReports(q)') = Len(WaitingReports(q)) + 0
          /\ Len(applying'[q]) = Len(applying[q]) + 0
          /\ TakenOut(q)' = TakenOut(q) + 0
          /\ InReader(q)' = InReader(q) + 0
          /\ lost'[q] = lost[q] + 0
          /\ heard'[q] = heard[q] + (0 + 0 + 0 - 0 + 0 + 0)
      BY <1>1, <2>1, <2>4, CountsTyped
    <3> QED BY <1>1, <2>2, <3>1, OnceBalanced
  <2> QED BY <1>3, <2>3, <2>4, IdsOf
<1> QED BY <1>3, <1>4, <1>5, <1>6, <1>7, AllOnce

LEMMA SetStatusKeeps ==
    ASSUME ReportsInv, NEW p \in Ids, NEW report \in Reports, Hears(p), SetStatus(p, report),
           UNCHANGED <<exchange, senderVars, queueReport, strayed, restarts>>
    PROVE  ReportsInv'
<1> USE DEF ReportsInv
<1>1. UNCHANGED <<exchange, pc, applying, onAir, queueReport, strayed, restarts>>
  BY DEF senderVars
<1>2. /\ heard' \in [Ids -> Nat] /\ heard'[p] = heard[p] + 1
      /\ \A q \in Ids : q # p => heard'[q] = heard[q]
      /\ queueReport = NoReport /\ p \in onAir
  BY HeardTyped
<1>3. RequestInv' /\ QueueInv'
  BY <1>1, <1>2 DEF RequestInv, QueueInv
<1>4. \A q \in Texts : TakenOut(q)' = TakenOut(q) /\ InReader(q)' = InReader(q)
  BY <1>1 DEF TakenOut, InReader
<1>5. CASE IsStored(p) /\ evidence' = Logged(p, report) /\ status' = Advanced(p, report)
           /\ UNCHANGED <<early, lost>>
  <2>1. p \in Texts /\ status[p] # NoStatus
    BY <1>5 DEF IsStored
  <2>2. /\ evidence' \in [Texts -> Seq(Reports)]
        /\ \A q \in Texts : q # p => evidence'[q] = evidence[q]
        /\ Len(evidence'[p]) = Len(evidence[p]) + 1
    BY <1>5, <2>1, LoggedTyped DEF TypeOK, DeliveryTypeOK
  <2>3. /\ status' \in [Texts -> Statuses \cup {NoStatus}]
        /\ \A q \in Texts : (status'[q] = NoStatus) = (status[q] = NoStatus)
    BY <1>5, <2>1, AdvancedTyped DEF TypeOK, DeliveryTypeOK
  <2>4. TypeOK'
    BY <1>1, <1>2, <1>5, <2>2, <2>3, RoomKept DEF TypeOK, DeliveryTypeOK, ExchangeTypeOK
  <2>5. EarlyOK' /\ AppsWaitNever'
    BY <1>5, EarlyKept
  <2>6. TextInv'
    BY <1>1, <2>1, <2>2, <2>3 DEF TextInv
  <2>7. Once(p)'
    <3>1. /\ Len(evidence'[p]) = Len(evidence[p]) + 1
          /\ Len(WaitingReports(p)') = Len(WaitingReports(p)) + 0
          /\ Len(applying'[p]) = Len(applying[p]) + 0
          /\ TakenOut(p)' = TakenOut(p) + 0
          /\ InReader(p)' = InReader(p) + 0
          /\ lost'[p] = lost[p] + 0
          /\ heard'[p] = heard[p] + (1 + 0 + 0 - 0 + 0 + 0)
      <4>1. WaitingReports(p)' = WaitingReports(p)
        BY <1>5, EarlySame
      <4>2. UNCHANGED <<applying, lost>>
        BY <1>1, <1>5
      <4>3. /\ Len(evidence'[p]) = Len(evidence[p]) + 1
            /\ Len(WaitingReports(p)') = Len(WaitingReports(p)) + 0
            /\ Len(applying'[p]) = Len(applying[p]) + 0
            /\ lost'[p] = lost[p] + 0
        BY <2>1, <2>2, <4>1, <4>2, CountsTyped
      <4>4. /\ TakenOut(p)' = TakenOut(p) + 0
            /\ InReader(p)' = InReader(p) + 0
        BY <1>4, <2>1, CountsTyped
      <4>5. heard'[p] = heard[p] + (1 + 0 + 0 - 0 + 0 + 0)
        <5>1. 1 + 0 + 0 - 0 + 0 + 0 = 1
          OBVIOUS
        <5> QED BY <1>2, <5>1
      <4> QED BY <4>3, <4>4, <4>5
    <3>2. 0 \in Int /\ 1 \in Int
      OBVIOUS
    <3> QED BY <1>1, <2>1, <3>1, <3>2, OnceBalanced
  <2>8. ASSUME NEW q \in Texts, q # p
        PROVE  Once(q)'
    BY <1>1, <1>2, <1>4, <1>5, <2>2, <2>8, IdsOf, OnceKept
  <2> QED BY <1>3, <2>4, <2>5, <2>6, <2>7, <2>8, AllOnce
<1>6. CASE ~IsStored(p) /\ KeepEarly(p, report) /\ UNCHANGED <<status, evidence>>
  <2>1. p \in Ids \ AppTexts
    BY <1>2, <1>6, FirstAirsAre DEF TextInv, IsStored
  <2>6. Len(early) <= MaxEarly /\ lost \in [Texts -> Nat]
    BY <1>2, NobodyIs, RoomThere DEF TypeOK, DeliveryTypeOK
  <2>2. EarlyOK' /\ Len(early') <= MaxEarly /\ AppsWaitNever' /\ lost' \in [Texts -> Nat]
    BY <1>6, <2>1, <2>6, KeptForOthers
  <2>3. TypeOK'
    <3>1. early' \in Seq([id: Ids, reports: Seq(Reports)])
      BY <2>2 DEF EarlyOK, Entry
    <3> QED BY <1>1, <1>2, <1>6, <2>2, <3>1, RoomMade DEF TypeOK, DeliveryTypeOK, ExchangeTypeOK
  <2>4. TextInv'
    BY <1>1, <1>6 DEF TextInv
  <2>5. ASSUME NEW q \in Texts
        PROVE  Once(q)'
    <3>1. heard'[q] = heard[q] + (0 + (IF q = p THEN 1 ELSE 0))
      BY <1>2, IdsOf, CountsTyped
    <3>2. 0 \in Int /\ InReader(q)' = InReader(q) + 0
      BY <1>4, CountsTyped
    <3> QED BY <1>1, <1>2, <1>6, <3>1, <3>2, KeptOnce
  <2> QED BY <1>3, <2>2, <2>3, <2>4, <2>5, AllOnce
<1> QED BY <1>5, <1>6 DEF SetStatus

(* A report about a request is none of a text's, and closes nothing that   *)
(* was never opened.                                                       *)
LEMMA OutcomeKeeps ==
    ASSUME ReportsInv, NEW r \in Requests, Hears(r),
           \/ exchange' = exchange
           \/ Open(r) /\ \E x \in {"failed", "answered"} : Resolve(r, x),
           UNCHANGED <<deliveryVars, senderVars, queueReport, strayed, restarts>>
    PROVE  ReportsInv'
<1> USE DEF ReportsInv
<1>1. UNCHANGED <<status, evidence, early, lost, pc, applying, onAir, queueReport, strayed, restarts>>
  BY DEF senderVars, deliveryVars
<1>2. /\ r \in Ids /\ heard' \in [Ids -> Nat]
      /\ \A q \in Texts : heard'[q] = heard[q]
  BY HeardTyped, IdsOf, FirstAirsAre
<1>3. /\ exchange' \in [Requests -> {NoExchange, "sent", "failed", "answered", "expired"}]
      /\ \A x \in Requests : (exchange'[x] = NoExchange) = (exchange[x] = NoExchange)
  BY DEF TypeOK, ExchangeTypeOK, Resolve, Open, NoExchange
<1>4. TypeOK'
  BY <1>1, <1>2, <1>3, RoomKept DEF TypeOK, DeliveryTypeOK, ExchangeTypeOK
<1>5. EarlyOK' /\ AppsWaitNever'
  BY <1>1, EarlyKept
<1>6. TextInv' /\ RequestInv'
  BY <1>1, <1>3 DEF TextInv, RequestInv
<1>7. QueueInv'
  BY <1>1 DEF QueueInv, IsStored, LookedThrough
<1>8. ASSUME NEW q \in Texts
      PROVE  Once(q)'
  <2>1. TakenOut(q)' = TakenOut(q) /\ InReader(q)' = InReader(q)
    BY <1>1 DEF TakenOut, InReader
  <2> QED BY <1>1, <1>2, <2>1, OnceKept
<1> QED BY <1>4, <1>5, <1>6, <1>7, <1>8, AllOnce

LEMMA HearRoutingKeeps ==
    ASSUME ReportsInv, NEW p \in Ids, NEW from \in {"own", "other"}, NEW error \in BOOLEAN,
           HearRouting(p, from, error)
    PROVE  ReportsInv'
<1>1. AckEvent(from, error) \in Reports
  BY DEF AckEvent, Reports, RoutingEvents
<1>2. Hears(p) /\ UNCHANGED <<senderVars, queueReport, strayed, restarts>>
  BY DEF HearRouting
<1>3. CASE RoutingForExchange(p, error) /\ UNCHANGED deliveryVars
  <2>1. p \in Requests /\ Open(p)
    BY <1>3 DEF RoutingForExchange, Open
  <2>2. exchange' = exchange \/ (Open(p) /\ Resolve(p, "failed"))
    BY <1>3 DEF RoutingForExchange
  <2> QED BY <1>2, <1>3, <2>1, <2>2, OutcomeKeeps
<1>4. CASE SetStatus(p, AckEvent(from, error)) /\ UNCHANGED exchange
  BY <1>1, <1>2, <1>4, SetStatusKeeps
<1> QED BY <1>3, <1>4 DEF HearRouting

LEMMA HearAnswerKeeps ==
    ASSUME ReportsInv, NEW r \in Requests, HearAnswer(r)
    PROVE  ReportsInv'
<1>1. Hears(r) /\ UNCHANGED <<deliveryVars, senderVars, queueReport, strayed, restarts>>
  BY DEF HearAnswer
<1>2. exchange' = exchange \/ (Open(r) /\ Resolve(r, "answered"))
  BY DEF HearAnswer
<1> QED BY <1>1, <1>2, OutcomeKeeps

-----------------------------------------------------------------------------
(* The web UI's steps and the end of the process.                          *)

LEMMA ListRequestsKeeps ==
    ASSUME ReportsInv, ListRequests
    PROVE  ReportsInv'
<1> USE DEF ReportsInv
<1>1. UNCHANGED <<status, evidence, early, lost, pc, applying, onAir, queueReport, heard, strayed, restarts>>
  BY DEF ListRequests, senderVars, deliveryVars
<1>2. /\ exchange' \in [Requests -> {NoExchange, "sent", "failed", "answered", "expired"}]
      /\ \A x \in Requests : (exchange'[x] = NoExchange) = (exchange[x] = NoExchange)
  BY DEF TypeOK, ExchangeTypeOK, ListRequests, Expire, NoExchange
<1>3. TypeOK'
  BY <1>1, <1>2, RoomKept DEF TypeOK, DeliveryTypeOK, ExchangeTypeOK
<1>4. EarlyOK' /\ AppsWaitNever'
  BY <1>1, EarlyKept
<1>5. TextInv' /\ RequestInv'
  BY <1>1, <1>2 DEF TextInv, RequestInv
<1>6. QueueInv'
  BY <1>1 DEF QueueInv, IsStored, LookedThrough
<1>7. ASSUME NEW q \in Texts
      PROVE  Once(q)'
  <2>1. TakenOut(q)' = TakenOut(q) /\ InReader(q)' = InReader(q)
    BY <1>1 DEF TakenOut, InReader
  <2> QED BY <1>1, <2>1, OnceKept
<1> QED BY <1>3, <1>4, <1>5, <1>6, <1>7, AllOnce

LEMMA Emptied ==
    ASSUME early' = <<>>
    PROVE  /\ EarlyOK' /\ Len(early') <= MaxEarly /\ AppsWaitNever'
           /\ \A q : WaitingReports(q)' = <<>>
<1>1. \A q : Waiting(q)' = {}
  BY DEF Waiting
<1>2. <<>> \in Seq(Entry) /\ Len(<<>>) = 0 /\ DOMAIN <<>> = {}
  BY EmptySeq
<1>3. EarlyOK' /\ Len(early') <= MaxEarly
  BY <1>2, DeliveryAssumption DEF EarlyOK
<1> QED BY <1>1, <1>3 DEF AppsWaitNever, WaitingReports

LEMMA RecaptureKeeps ==
    ASSUME ReportsInv, Recapture
    PROVE  ReportsInv'
<1> USE DEF ReportsInv
<1>1. UNCHANGED <<status, evidence, exchange, pc, applying, onAir, queueReport, heard, strayed, restarts>>
      /\ early' = <<>> /\ lost' = [q \in Texts |-> lost[q] + Len(WaitingReports(q))]
  BY DEF Recapture, DropEarly, senderVars
<1>2. lost' \in [Texts -> Nat]
  BY <1>1, CountsTyped
<1>3. EarlyOK' /\ Len(early') <= MaxEarly /\ AppsWaitNever' /\ \A q : WaitingReports(q)' = <<>>
  BY <1>1, Emptied
<1>4. TypeOK'
  <2>1. early' \in Seq([id: Ids, reports: Seq(Reports)])
    BY <1>3 DEF EarlyOK, Entry
  <2> QED BY <1>1, <1>2, <1>3, <2>1, RoomMade DEF TypeOK, DeliveryTypeOK, ExchangeTypeOK
<1>5. TextInv' /\ RequestInv'
  BY <1>1 DEF TextInv, RequestInv
<1>6. QueueInv'
  BY <1>1 DEF QueueInv, IsStored, LookedThrough
<1>7. ASSUME NEW q \in Texts
      PROVE  Once(q)'
  <2> DEFINE w == Len(WaitingReports(q))
  <2>1. w \in Int /\ -w \in Int /\ 0 \in Int
    BY CountsTyped
  <2>2. /\ Len(evidence'[q]) = Len(evidence[q]) + 0
        /\ Len(WaitingReports(q)') = Len(WaitingReports(q)) + (-w)
        /\ Len(applying'[q]) = Len(applying[q]) + 0
        /\ lost'[q] = lost[q] + w
        /\ heard'[q] = heard[q] + (0 + (-w) + 0 - 0 + 0 + w)
    BY <1>1, <1>3, EmptySeq, CountsTyped
  <2>3. TakenOut(q)' = TakenOut(q) + 0 /\ InReader(q)' = InReader(q) + 0
    <3>1. TakenOut(q)' = TakenOut(q) /\ InReader(q)' = InReader(q)
      BY <1>1 DEF TakenOut, InReader
    <3> QED BY <3>1, CountsTyped
  <2> HIDE DEF w
  <2> QED BY <1>1, <2>1, <2>2, <2>3, OnceBalanced
<1> QED BY <1>3, <1>4, <1>5, <1>6, <1>7, AllOnce

(* After a restart a report is in the log or lost.                         *)
LEMMA RestartKeeps ==
    ASSUME ReportsInv, Restart
    PROVE  ReportsInv'
<1> USE DEF ReportsInv
<1>1. /\ UNCHANGED <<status, evidence, exchange, onAir, heard, strayed>>
      /\ pc' = [p \in Ids |-> IF pc[p] = "idle" THEN "idle" ELSE "done"]
      /\ applying' = [p \in Texts |-> <<>>]
      /\ queueReport' = NoReport /\ early' = <<>>
      /\ lost' = [p \in Texts |-> heard[p] - Len(evidence[p]) - strayed[p]]
      /\ restarts < MaxRestarts /\ restarts' = restarts + 1
  BY DEF Restart
<1>2. ASSUME NEW q \in Texts
      PROVE  heard[q] - Len(evidence[q]) - strayed[q] \in Nat
  <2>1. Len(evidence[q]) + Len(WaitingReports(q)) + (Len(applying[q]) - TakenOut(q) + InReader(q))
          + lost[q] + strayed[q] = heard[q]
    <3>1. Once(q)
      BY DEF OnceInv
    <3> QED BY <3>1, HeldIs, Zenon DEF Once
  <2>2. Len(applying[q]) - TakenOut(q) >= 0
    <3>1. CASE pc[q] = "applied"
      <4>1. Len(applying[q]) # 0 /\ TakenOut(q) = 1
        BY <3>1, EmptySeq, CountsTyped DEF TextInv, TakenOut
      <4> QED BY <4>1, CountsTyped
    <3>2. CASE pc[q] # "applied"
      <4>1. TakenOut(q) = 0
        BY <3>2 DEF TakenOut
      <4> QED BY <4>1, CountsTyped
    <3> QED BY <3>1, <3>2
  <2> DEFINE E == Len(evidence[q])
             W == Len(WaitingReports(q))
             A == Len(applying[q])
             T == TakenOut(q)
             N == InReader(q)
             L == lost[q]
             S == strayed[q]
             H == heard[q]
  <2>3. /\ E \in Nat /\ W \in Nat /\ A \in Nat /\ T \in {0, 1} /\ N \in {0, 1}
        /\ L \in Nat /\ S \in Nat /\ H \in Nat
    BY CountsTyped
  <2>4. E + W + (A - T + N) + L + S = H /\ A - T >= 0
    BY <2>1, <2>2
  <2> HIDE DEF E, W, A, T, N, L, S, H
  <2>5. H - E - S \in Nat
    BY <2>3, <2>4
  <2> QED BY <2>5 DEF E, S, H
<1>3. lost' \in [Texts -> Nat]
  BY <1>1, <1>2
<1>4. EarlyOK' /\ Len(early') <= MaxEarly /\ AppsWaitNever' /\ \A q : WaitingReports(q)' = <<>>
  BY <1>1, Emptied
<1>5. <<>> \in Seq(Reports) /\ Len(<<>>) = 0
  BY EmptySeq
<1>6. TypeOK'
  <2>1. restarts' \in 0 .. MaxRestarts
    BY <1>1, ReportsAssumption DEF TypeOK
  <2>2. pc' \in [Ids -> Pcs] /\ applying' \in [Texts -> Seq(Reports)]
    BY <1>1, <1>5 DEF Pcs
  <2>3. early' \in Seq([id: Ids, reports: Seq(Reports)])
    BY <1>4 DEF EarlyOK, Entry
  <2> QED BY <1>1, <1>3, <1>4, <2>1, <2>2, <2>3, RoomMade DEF TypeOK, DeliveryTypeOK, ExchangeTypeOK
<1>7. TextInv' /\ RequestInv' /\ QueueInv'
  BY <1>1, IdsOf DEF TextInv, RequestInv, QueueInv
<1>8. ASSUME NEW q \in Texts
      PROVE  Once(q)'
  <2>1. TakenOut(q)' = 0 /\ InReader(q)' = 0
    BY <1>1, NobodyIs, IdsOf DEF TakenOut, InReader, InHand
  <2>2. Held(q)' = 0
    <3>1. Len(applying'[q]) = 0
      BY <1>1, <1>5
    <3> QED BY <2>1, <3>1, HeldIs
  <2>3. Len(WaitingReports(q)') = 0 /\ lost'[q] = heard[q] - Len(evidence[q]) - strayed[q]
    BY <1>1, <1>4, <1>5
  <2> QED BY <1>1, <2>2, <2>3, CountsTyped DEF Once
<1> QED BY <1>3, <1>4, <1>6, <1>7, <1>8, AllOnce

-----------------------------------------------------------------------------
(* The invariant.                                                          *)

LEMMA ReportsStart == Init => ReportsInv
<1> SUFFICES ASSUME Init PROVE ReportsInv
  OBVIOUS
<1>1. /\ status = [p \in Texts |-> NoStatus] /\ evidence = [p \in Texts |-> <<>>]
      /\ early = <<>> /\ lost = [p \in Texts |-> 0]
      /\ exchange = [r \in Requests |-> NoExchange]
      /\ applying = [p \in Texts |-> <<>>] /\ onAir = {} /\ queueReport = NoReport
      /\ heard = [p \in Ids |-> 0] /\ strayed = [p \in Texts |-> 0] /\ restarts = 0
  BY DEF Init, DeliveryInit, ExchangeInit
<1>2. PICK sent \in Mixes : pc = [p \in Ids |-> IF p \in sent THEN "idle" ELSE "done"]
  BY DEF Init
<1>3. <<>> \in Seq(Reports) /\ Len(<<>>) = 0 /\ <<>> \in Seq(Entry) /\ DOMAIN <<>> = {}
  BY EmptySeq
<1>4. EarlyOK
  BY <1>1, <1>3, DeliveryAssumption DEF EarlyOK
<1>5. TypeOK
  <2>1. Len(early) <= MaxEarly + Surplus
    <3>1. Len(early) = 0 /\ MaxEarly \in Nat /\ Surplus \in {0, 1}
      BY <1>1, <1>3, DeliveryAssumption DEF Surplus, MakingRoom
    <3> QED BY <3>1
  <2> QED BY <1>1, <1>2, <1>3, <1>4, <2>1, ReportsAssumption
          DEF TypeOK, DeliveryTypeOK, ExchangeTypeOK, EarlyOK, Entry, Pcs
<1>6. TextInv /\ RequestInv /\ QueueInv
  BY <1>1, <1>2, IdsOf DEF TextInv, RequestInv, QueueInv
<1>7. AppsWaitNever
  BY <1>1, <1>3 DEF AppsWaitNever, Waiting
<1>8. ASSUME NEW q \in Texts
      PROVE  Once(q)
  <2>1. TakenOut(q) = 0 /\ InReader(q) = 0
    BY <1>1, <1>2, NobodyIs, IdsOf DEF TakenOut, InReader, InHand
  <2>2. Held(q) = 0
    <3>1. Len(applying[q]) = 0
      BY <1>1, <1>3
    <3> QED BY <2>1, <3>1, HeldIs
  <2>3. Len(WaitingReports(q)) = 0
    BY <1>1, <1>3 DEF Waiting, WaitingReports
  <2> QED BY <1>1, <1>3, <2>2, <2>3, IdsOf DEF Once
<1>9. OnceInv
  BY <1>8 DEF OnceInv
<1> QED BY <1>4, <1>5, <1>6, <1>7, <1>9 DEF ReportsInv

LEMMA StutterKeeps ==
    ASSUME ReportsInv, UNCHANGED vars
    PROVE  ReportsInv'
<1> USE DEF ReportsInv
<1>1. UNCHANGED <<status, evidence, early, lost, exchange, pc, applying, onAir, queueReport, heard, strayed, restarts>>
  BY DEF vars, deliveryVars, senderVars
<1>2. TypeOK'
  BY <1>1, RoomKept DEF TypeOK, DeliveryTypeOK, ExchangeTypeOK
<1>3. EarlyOK' /\ AppsWaitNever'
  BY <1>1, EarlyKept
<1>4. TextInv' /\ RequestInv'
  BY <1>1 DEF TextInv, RequestInv
<1>5. QueueInv'
  BY <1>1 DEF QueueInv, IsStored, LookedThrough
<1>6. ASSUME NEW q \in Texts
      PROVE  Once(q)'
  <2>1. TakenOut(q)' = TakenOut(q) /\ InReader(q)' = InReader(q)
    BY <1>1 DEF TakenOut, InReader
  <2> QED BY <1>1, <2>1, OnceKept
<1> QED BY <1>2, <1>3, <1>4, <1>5, <1>6, AllOnce

LEMMA ReportsStep ==
    ASSUME ReportsInv, [Next]_vars
    PROVE  ReportsInv'
<1>1. CASE Sender
  BY <1>1, IdsOf, AirKeeps, StoreTextKeeps, TakeEarlyKeeps, LogTakenKeeps, AdvanceTakenKeeps,
     AllTakenKeeps, LogRequestKeeps DEF Sender
<1>2. CASE Reader
  BY <1>2, HearQueueStatusKeeps, FindOwnKeeps, AdvanceQueuedKeeps, KeepQueuedKeeps,
     AppendQueuedKeeps, CountEarlyKeeps, TrimQueuedKeeps, HearRoutingKeeps, HearAnswerKeeps DEF Reader
<1>3. CASE ListRequests \/ Recapture \/ Restart
  BY <1>3, ListRequestsKeeps, RecaptureKeeps, RestartKeeps
<1>4. CASE UNCHANGED vars
  BY <1>4, StutterKeeps
<1> QED BY <1>1, <1>2, <1>3, <1>4 DEF Next

LEMMA ReportsAlways == Spec => []ReportsInv
<1>1. ReportsInv /\ [Next]_vars => ReportsInv'
  BY ReportsStep
<1> QED BY <1>1, ReportsStart, PTL DEF Spec

(* The types, among them the bound on _early_status (upstream.py:215-216). *)
THEOREM ReportsTypeAlways == Spec => []TypeOK
<1>1. ReportsInv => TypeOK
  BY DEF ReportsInv
<1> QED BY <1>1, ReportsAlways, PTL

-----------------------------------------------------------------------------
(* What the race of a queue status with the insert of its text can cost.   *)

(* The reader missed the text and still has the report it missed it for.   *)
AtReader(p) ==
    IF queueReport.id = p /\ queueReport.at \in {"keep", "append", "shared", "astray"} THEN 1 ELSE 0

Short(p) ==
    /\ ~LookedThrough(p) => strayed[p] = 0
    /\ LookedThrough(p) => strayed[p] + Len(WaitingReports(p)) + AtReader(p) <= 1

ShortInv == \A p \in Texts : Short(p)

LEMMA ShortMoved ==
    ASSUME ReportsInv, ShortInv, NEW p \in Texts, LookedThrough(p)' = LookedThrough(p),
           NEW s \in Int, NEW w \in Int, NEW r \in Int, s + w + r <= 0,
           strayed'[p] = strayed[p] + s,
           Len(WaitingReports(p)') = Len(WaitingReports(p)) + w,
           AtReader(p)' = AtReader(p) + r,
           ~LookedThrough(p) => s = 0
    PROVE  Short(p)'
<1>1. strayed[p] \in Nat /\ Len(WaitingReports(p)) \in Nat /\ AtReader(p) \in {0, 1}
  BY CountsTyped DEF AtReader
<1>2. /\ ~LookedThrough(p) => strayed[p] = 0
      /\ LookedThrough(p) => strayed[p] + Len(WaitingReports(p)) + AtReader(p) <= 1
  BY DEF ShortInv, Short
<1>3. CASE LookedThrough(p)
  <2>1. strayed'[p] + Len(WaitingReports(p)') + AtReader(p)' <= 1
    BY <1>1, <1>2, <1>3
  <2> QED BY <1>3, <2>1 DEF Short
<1>4. CASE ~LookedThrough(p)
  <2>1. strayed'[p] = 0
    BY <1>1, <1>2, <1>4
  <2> QED BY <1>4, <2>1 DEF Short
<1> QED BY <1>3, <1>4

LEMMA ShortLess ==
    ASSUME ReportsInv, ShortInv, UNCHANGED strayed, NEW p \in Texts,
           LookedThrough(p)' = LookedThrough(p),
           WaitingReports(p)' = WaitingReports(p) \/ WaitingReports(p)' = <<>>,
           AtReader(p)' = AtReader(p) \/ AtReader(p)' = 0
    PROVE  Short(p)'
<1>1. strayed[p] \in Nat /\ Len(WaitingReports(p)) \in Nat /\ AtReader(p) \in {0, 1}
  BY CountsTyped DEF AtReader
<1>2. PICK w \in Int : Len(WaitingReports(p)') = Len(WaitingReports(p)) + w /\ w <= 0
  <2>1. CASE WaitingReports(p)' = WaitingReports(p)
    <3>1. Len(WaitingReports(p)') = Len(WaitingReports(p)) + 0 /\ 0 \in Int /\ 0 <= 0
      BY <1>1, <2>1
    <3> QED BY <3>1
  <2>2. CASE WaitingReports(p)' = <<>>
    <3> DEFINE n == Len(WaitingReports(p))
    <3>1. Len(WaitingReports(p)') = 0
      BY <2>2, EmptySeq
    <3>2. n \in Nat
      BY <1>1
    <3> HIDE DEF n
    <3>3. Len(WaitingReports(p)') = n + (-n) /\ -n \in Int /\ -n <= 0
      BY <3>1, <3>2
    <3> QED BY <3>3 DEF n
  <2> QED BY <2>1, <2>2
<1>3. PICK r \in Int : AtReader(p)' = AtReader(p) + r /\ r <= 0
  <2>1. CASE AtReader(p)' = AtReader(p)
    <3>1. AtReader(p)' = AtReader(p) + 0 /\ 0 \in Int /\ 0 <= 0
      BY <1>1, <2>1
    <3> QED BY <3>1
  <2>2. CASE AtReader(p)' = 0
    <3> DEFINE n == AtReader(p)
    <3>2. n \in {0, 1}
      BY <1>1
    <3> HIDE DEF n
    <3>3. AtReader(p)' = n + (-n) /\ -n \in Int /\ -n <= 0
      BY <2>2, <3>2
    <3> QED BY <3>3 DEF n
  <2> QED BY <2>1, <2>2
<1>4. strayed'[p] = strayed[p] + 0 /\ 0 \in Int /\ 0 + w + r <= 0
  BY <1>1, <1>2, <1>3
<1> QED BY <1>2, <1>3, <1>4, ShortMoved

LEMMA SenderShort ==
    ASSUME ReportsInv, ShortInv, Sender, NEW p \in Texts
    PROVE  Short(p)'
<1> USE DEF ReportsInv
<1>1. pc \in [Ids -> Pcs] /\ p \in Ids /\ status \in [Texts -> Statuses \cup {NoStatus}]
  BY IdsOf DEF TypeOK, DeliveryTypeOK
<1>2. ASSUME UNCHANGED <<early, strayed>>, LookedThrough(p)' = LookedThrough(p),
             AtReader(p)' = AtReader(p)
      PROVE  Short(p)'
  BY <1>2, EarlySame, ShortLess
<1>3. ASSUME NEW q \in Ids, Air(q) \/ DropUnsent(q)
      PROVE  Short(p)'
  <2>1. UNCHANGED <<early, strayed, queueReport, status>>
    BY <1>3 DEF Air, DropUnsent, deliveryVars
  <2>2. LookedThrough(p)' = LookedThrough(p)
    BY <1>1, <1>3, <2>1 DEF Air, DropUnsent, LookedThrough, IsStored
  <2> QED BY <1>2, <2>1, <2>2 DEF AtReader
<1>4. ASSUME NEW q \in Texts, StoreText(q)
      PROVE  Short(p)'
  <2>1. /\ UNCHANGED <<early, strayed, queueReport>> /\ status' = [status EXCEPT ![q] = "pending"]
        /\ pc' = [pc EXCEPT ![q] = "stored"] /\ pc[q] \in {"idle", "aired"}
    BY <1>4 DEF StoreText, RowDue
  <2>2. LookedThrough(p)' = LookedThrough(p)
    BY <1>1, <2>1, IdsOf DEF LookedThrough, IsStored
  <2> QED BY <1>2, <2>1, <2>2 DEF AtReader
<1>5. ASSUME NEW q \in Texts, TakeEarly(q)
      PROVE  Short(p)'
  <2>1. /\ UNCHANGED <<status, strayed>> /\ pc[q] = "stored" /\ pc' = [pc EXCEPT ![q] = "applying"]
        /\ q \in Ids /\ PopEarly(q)
        /\ \/ UNCHANGED queueReport
           \/ queueReport.id = q /\ queueReport' = [queueReport EXCEPT !.at = "shared"]
    BY <1>5, IdsOf DEF TakeEarly, ListMoves
  <2>2. /\ Waiting(q)' = {}
        /\ \A x : x # q => WaitingReports(x)' = WaitingReports(x)
    BY <2>1, PopEffect
  <2>3. CASE p = q
    <3>1. ~LookedThrough(p) /\ strayed'[p] = 0
      BY <1>1, <2>1, <2>3 DEF LookedThrough, ShortInv, Short
    <3>2. Len(WaitingReports(p)') = 0
      BY <2>2, <2>3, EmptySeq DEF WaitingReports
    <3>3. AtReader(p)' \in {0, 1}
      BY DEF AtReader
    <3>4. strayed'[p] + Len(WaitingReports(p)') + AtReader(p)' <= 1
      BY <3>1, <3>2, <3>3
    <3> QED BY <3>1, <3>4 DEF Short
  <2>4. CASE p # q
    <3>1. LookedThrough(p)' = LookedThrough(p)
      BY <1>1, <2>1, <2>4 DEF LookedThrough, IsStored
    <3>2. AtReader(p)' = AtReader(p)
      <4>1. CASE UNCHANGED queueReport
        BY <4>1 DEF AtReader
      <4>2. CASE queueReport.id = q /\ queueReport' = [queueReport EXCEPT !.at = "shared"]
        <5>1. queueReport'.id = q
          BY <4>2, NobodyIs, QueueTyped, MovesTyped DEF TypeOK, QueueSteps
        <5> QED BY <2>4, <4>2, <5>1 DEF AtReader
      <4> QED BY <2>1, <4>1, <4>2
    <3> QED BY <2>1, <2>2, <2>4, <3>1, <3>2, ShortLess
  <2> QED BY <2>3, <2>4
<1>6. ASSUME NEW q \in Texts, LogTaken(q)
      PROVE  Short(p)'
  <2>1. /\ UNCHANGED <<early, strayed, queueReport, status>>
        /\ pc[q] = "applying" /\ pc' = [pc EXCEPT ![q] = "applied"]
    BY <1>6 DEF LogTaken
  <2>2. LookedThrough(p)' = LookedThrough(p)
    BY <1>1, <2>1, IdsOf DEF LookedThrough, IsStored
  <2> QED BY <1>2, <2>1, <2>2 DEF AtReader
<1>7. ASSUME NEW q \in Texts, AdvanceTaken(q)
      PROVE  Short(p)'
  <2>1. /\ UNCHANGED <<early, strayed, queueReport>> /\ status' = Advanced(q, Head(applying[q]))
        /\ pc[q] = "applied" /\ pc' = [pc EXCEPT ![q] = "applying"]
    BY <1>7 DEF AdvanceTaken
  <2>2. Head(applying[q]) \in Reports /\ status[q] # NoStatus
    BY <2>1, NextReport DEF TextInv
  <2>3. (status'[p] = NoStatus) = (status[p] = NoStatus)
    BY <1>1, <2>1, <2>2, AdvancedTyped
  <2>4. LookedThrough(p)' = LookedThrough(p)
    BY <1>1, <2>1, <2>3, IdsOf DEF LookedThrough, IsStored
  <2> QED BY <1>2, <2>1, <2>4 DEF AtReader
<1>8. ASSUME NEW q \in Texts, AllTaken(q)
      PROVE  Short(p)'
  <2>1. /\ UNCHANGED <<early, strayed, status>>
        /\ pc[q] = "applying" /\ pc' = [pc EXCEPT ![q] = After(q)] /\ After(q) \in {"done", "leaving"}
        /\ \/ UNCHANGED queueReport
           \/ /\ queueReport.id = q /\ queueReport.at = "shared"
              /\ queueReport' = [queueReport EXCEPT !.at = "astray"]
    BY <1>8 DEF AllTaken, ListMoves, deliveryVars, After
  <2>2. LookedThrough(p)' = LookedThrough(p)
    BY <1>1, <2>1, IdsOf DEF LookedThrough, IsStored
  <2>3. AtReader(p)' = AtReader(p)
    <3>1. CASE UNCHANGED queueReport
      BY <3>1 DEF AtReader
    <3>2. CASE queueReport.id = q /\ queueReport.at = "shared"
               /\ queueReport' = [queueReport EXCEPT !.at = "astray"]
      <4>1. queueReport'.id = q /\ queueReport'.at = "astray"
        BY <3>2, QueueTyped, MovesTyped DEF QueueSteps
      <4> QED BY <3>2, <4>1 DEF AtReader
    <3> QED BY <2>1, <3>1, <3>2
  <2> QED BY <1>2, <2>1, <2>2, <2>3
<1>9. ASSUME NEW r \in Requests, LogRequest(r)
      PROVE  Short(p)'
  <2>1. /\ UNCHANGED <<early, strayed, queueReport, status>> /\ pc' = [pc EXCEPT ![r] = After(r)]
        /\ p # r
    BY <1>9, FirstAirsAre DEF LogRequest, deliveryVars
  <2>2. LookedThrough(p)' = LookedThrough(p)
    BY <1>1, <2>1, IdsOf DEF LookedThrough, IsStored
  <2> QED BY <1>2, <2>1, <2>2 DEF AtReader
<1> QED BY <1>3, <1>4, <1>5, <1>6, <1>7, <1>8, <1>9 DEF Sender

LEMMA AppendQueuedShort ==
    ASSUME ReportsInv, ShortInv, AppendQueued, NEW p \in Texts
    PROVE  Short(p)'
<1> USE DEF ReportsInv
<1>0. PICK q : q = queueReport.id
  OBVIOUS
<1>1. /\ UNCHANGED <<status, evidence, exchange, pc, onAir, heard, restarts>>
      /\ queueReport.at \in {"append", "shared", "astray"}
      /\ queueReport' = [queueReport EXCEPT !.at = "count"]
      /\ q \in Ids /\ queueReport \in [id: Ids, report: Reports, at: QueueSteps]
      /\ q \in onAir /\ queueReport.report \in QueueEvents /\ queueReport.report \in Reports
      /\ Appended(q, queueReport.report)
      /\ early' # early => q \notin AppTexts /\ queueReport.at = "append"
  BY <1>0, AppendQueuedIs
<1>2. queueReport'.id = q /\ queueReport'.at = "count"
  BY <1>0, <1>1, MovesTyped DEF QueueSteps
<1>3. LookedThrough(p)' = LookedThrough(p)
  BY <1>1 DEF LookedThrough, IsStored
<1>4. AtReader(p) = (IF p = q THEN 1 ELSE 0) /\ AtReader(p)' = 0
  BY <1>0, <1>1, <1>2 DEF AtReader
<1>5. CASE UNCHANGED <<early, strayed>>
  BY <1>3, <1>4, <1>5, EarlySame, ShortLess
<1>6. CASE Waiting(q) # {} /\ early' = With(q, queueReport.report) /\ UNCHANGED strayed
  <2>1. /\ WaitingReports(q)' = Append(WaitingReports(q), queueReport.report)
        /\ \A x : x # q => WaitingReports(x)' = WaitingReports(x)
    BY <1>1, <1>6, AppendEffect
  <2>2. CASE p # q
    BY <1>3, <1>4, <1>6, <2>1, <2>2, ShortLess
  <2>3. CASE p = q
    <3>1. /\ WaitingReports(p) \in Seq(Reports)
          /\ WaitingReports(p)' = Append(WaitingReports(p), queueReport.report)
      BY <2>1, <2>3, CountsTyped
    <3>2. Len(WaitingReports(p)') = Len(WaitingReports(p)) + 1
      BY <1>1, <3>1, AppendProperties
    <3>3. strayed'[p] = strayed[p] + 0 /\ AtReader(p)' = AtReader(p) + (-1)
      BY <1>4, <1>6, <2>3, CountsTyped
    <3>4. 0 \in Int /\ 1 \in Int /\ -1 \in Int /\ 0 + 1 + (-1) <= 0
      OBVIOUS
    <3> QED BY <1>3, <3>2, <3>3, <3>4, ShortMoved
  <2> QED BY <2>2, <2>3
<1>7. CASE q \in Texts /\ LookedThrough(q) /\ strayed' = [strayed EXCEPT ![q] = @ + 1]
           /\ UNCHANGED early
  <2>1. WaitingReports(p)' = WaitingReports(p)
    BY <1>7, EarlySame
  <2>2. CASE p = q
    <3>1. strayed'[p] = strayed[p] + 1
      BY <1>7, <2>2 DEF TypeOK
    <3>2. Len(WaitingReports(p)') = Len(WaitingReports(p)) + 0 /\ AtReader(p)' = AtReader(p) + (-1)
      BY <1>4, <2>1, <2>2, CountsTyped
    <3>3. 0 \in Int /\ 1 \in Int /\ -1 \in Int /\ 1 + 0 + (-1) <= 0
      OBVIOUS
    <3>4. LookedThrough(p)
      BY <1>7, <2>2
    <3> QED BY <1>3, <3>1, <3>2, <3>3, <3>4, ShortMoved
  <2>3. CASE p # q
    <3>1. strayed'[p] = strayed[p] + 0 /\ Len(WaitingReports(p)') = Len(WaitingReports(p)) + 0
          /\ AtReader(p)' = AtReader(p) + 0
      BY <1>4, <1>7, <2>1, <2>3, CountsTyped DEF TypeOK
    <3>2. 0 \in Int /\ 0 + 0 + 0 <= 0
      OBVIOUS
    <3> QED BY <1>3, <3>1, <3>2, ShortMoved
  <2> QED BY <2>2, <2>3
<1> QED BY <1>1, <1>5, <1>6, <1>7 DEF Appended

LEMMA ReaderShort ==
    ASSUME ReportsInv, ShortInv, Reader, NEW p \in Texts
    PROVE  Short(p)'
<1> USE DEF ReportsInv
<1>1. /\ p \in Ids /\ status \in [Texts -> Statuses \cup {NoStatus}]
      /\ EarlyOK /\ lost \in [Texts -> Nat]
  BY IdsOf DEF TypeOK, DeliveryTypeOK
<1>2. ASSUME NEW q \in Ids, NEW report \in QueueEvents, HearQueueStatus(q, report)
      PROVE  Short(p)'
  <2>1. UNCHANGED <<early, strayed, pc, status>> /\ queueReport'.at = "find"
    BY <1>2 DEF HearQueueStatus, deliveryVars, senderVars
  <2>2. LookedThrough(p)' = LookedThrough(p) /\ AtReader(p)' = 0
    BY <2>1 DEF LookedThrough, IsStored, AtReader
  <2> QED BY <2>1, <2>2, EarlySame, ShortLess
<1>3. CASE FindOwn
  <2>0. PICK q : q = queueReport.id
    OBVIOUS
  <2>1. /\ UNCHANGED <<early, strayed, pc, status>> /\ queueReport.at = "find"
        /\ queueReport \in [id: Ids, report: Reports, at: QueueSteps]
    BY <1>3, QueueTyped DEF FindOwn, senderVars
  <2>2. LookedThrough(p)' = LookedThrough(p)
    BY <2>1 DEF LookedThrough, IsStored
  <2>3. CASE queueReport' = [queueReport EXCEPT !.at = "advance"]
    <3>1. queueReport'.at = "advance"
      BY <2>1, <2>3
    <3>2. AtReader(p)' = 0
      BY <3>1 DEF AtReader
    <3> QED BY <2>1, <2>2, <3>2, EarlySame, ShortLess
  <2>4. CASE ~IsStored(q) /\ queueReport' = [queueReport EXCEPT !.at = "keep"]
    <3>1. queueReport'.id = q
      BY <2>0, <2>1, <2>4
    <3>2. CASE p = q
      <4>1. ~LookedThrough(p)
        BY <2>4, <3>2 DEF LookedThrough
      <4> QED BY <2>1, <2>2, <4>1 DEF ShortInv, Short
    <3>3. CASE p # q
      <4>1. AtReader(p)' = 0
        BY <3>1, <3>3 DEF AtReader
      <4> QED BY <2>1, <2>2, <4>1, EarlySame, ShortLess
    <3> QED BY <3>2, <3>3
  <2> QED BY <1>3, <2>0, <2>3, <2>4 DEF FindOwn
<1>4. CASE AdvanceQueued
  <2>1. /\ UNCHANGED <<early, strayed, pc>> /\ queueReport' = NoReport
        /\ status' = Advanced(queueReport.id, queueReport.report)
        /\ queueReport.report \in Reports /\ queueReport.id \in Texts
        /\ status[queueReport.id] # NoStatus
    BY <1>4, QueueTyped DEF AdvanceQueued, IsStored, senderVars
  <2>2. (status'[p] = NoStatus) = (status[p] = NoStatus)
    BY <1>1, <2>1, AdvancedTyped
  <2>3. LookedThrough(p)' = LookedThrough(p) /\ AtReader(p)' = 0
    BY <2>1, <2>2, NobodyIs DEF LookedThrough, IsStored, AtReader
  <2> QED BY <2>1, <2>3, EarlySame, ShortLess
<1>5. CASE KeepQueued
  <2>0. PICK q : q = queueReport.id
    OBVIOUS
  <2>1. /\ UNCHANGED <<status, pc, strayed>> /\ queueReport.at = "keep"
        /\ queueReport' = [queueReport EXCEPT !.at = "append"]
        /\ early' = IF Waiting(q) # {} THEN early ELSE Append(early, [id |-> q, reports |-> <<>>])
    BY <1>5, <2>0 DEF KeepQueued, senderVars
  <2>2. q \in Ids /\ queueReport'.id = q /\ queueReport'.at = "append"
    BY <2>0, <2>1, QueueTyped, MovesTyped DEF QueueSteps
  <2>3. WaitingReports(p)' = WaitingReports(p)
    BY <2>1, <2>2, SetDefaultEffect
  <2>4. LookedThrough(p)' = LookedThrough(p) /\ AtReader(p)' = AtReader(p)
    BY <2>0, <2>1, <2>2 DEF LookedThrough, IsStored, AtReader
  <2> QED BY <2>1, <2>3, <2>4, ShortLess
<1>10. CASE CountEarly
  <2>1. UNCHANGED <<early, status, pc, strayed>> /\ queueReport.at = "count"
        /\ (queueReport' = NoReport \/ queueReport'.at = "trim")
    BY <1>10, CountEarlyIs DEF deliveryVars, senderVars
  <2>2. LookedThrough(p)' = LookedThrough(p) /\ AtReader(p)' = 0
    BY <2>1, NobodyIs DEF LookedThrough, IsStored, AtReader
  <2> QED BY <2>1, <2>2, EarlySame, ShortLess
<1>6. CASE TrimQueued
  <2>1. UNCHANGED <<status, pc, strayed>> /\ queueReport' = NoReport
        /\ GiveUp(early, IF early = <<>> THEN 0 ELSE 1)
        /\ queueReport.at = "trim"
    BY <1>6 DEF TrimQueued, senderVars
  <2>2. Len(early) <= MaxEarly + 1
    <3>1. Len(early) <= MaxEarly + Surplus /\ Surplus = 1
      BY <2>1 DEF TypeOK, Surplus, MakingRoom
    <3> QED BY <3>1
  <2>3. WaitingReports(p)' = <<>> \/ WaitingReports(p)' = WaitingReports(p)
    BY <1>1, <2>1, <2>2, TrimEffect
  <2>4. LookedThrough(p)' = LookedThrough(p) /\ AtReader(p)' = 0
    BY <2>1, NobodyIs DEF LookedThrough, IsStored, AtReader
  <2> QED BY <2>1, <2>3, <2>4, ShortLess
<1>7. ASSUME NEW q \in Ids, NEW from \in {"own", "other"}, NEW error \in BOOLEAN,
             HearRouting(q, from, error)
      PROVE  Short(p)'
  <2>0. PICK r \in Reports : r = AckEvent(from, error)
    BY DEF AckEvent, Reports, RoutingEvents
  <2>1. UNCHANGED <<queueReport, strayed, pc>> /\ queueReport = NoReport
    BY <1>7 DEF HearRouting, Hears, senderVars
  <2>2. AtReader(p)' = 0
    BY <2>1, NobodyIs DEF AtReader
  <2>3. CASE UNCHANGED deliveryVars
    BY <2>1, <2>2, <2>3, EarlySame, ShortLess DEF deliveryVars, LookedThrough, IsStored
  <2>4. CASE IsStored(q) /\ status' = Advanced(q, r) /\ UNCHANGED <<early, lost>>
    <3>1. (status'[p] = NoStatus) = (status[p] = NoStatus)
      BY <1>1, <2>4, AdvancedTyped DEF IsStored
    <3>2. LookedThrough(p)' = LookedThrough(p)
      BY <2>1, <3>1 DEF LookedThrough, IsStored
    <3> QED BY <2>1, <2>2, <2>4, <3>2, EarlySame, ShortLess
  <2>5. CASE ~IsStored(q) /\ KeepEarly(q, r) /\ UNCHANGED status
    <3>1. LookedThrough(p)' = LookedThrough(p)
      BY <2>1, <2>5 DEF LookedThrough, IsStored
    <3>2. CASE p = q
      <4>1. ~LookedThrough(p)
        BY <2>5, <3>2 DEF LookedThrough
      <4> QED BY <2>1, <3>1, <4>1 DEF ShortInv, Short
    <3>3. CASE p # q
      <4>1. Len(early) <= MaxEarly
        BY <2>1, NobodyIs, RoomThere
      <4>2. Waiting(p)' = {} \/ WaitingReports(p)' = WaitingReports(p)
        BY <1>1, <2>5, <3>3, <4>1, KeepEffect
      <4>3. WaitingReports(p)' = <<>> \/ WaitingReports(p)' = WaitingReports(p)
        BY <4>2 DEF WaitingReports
      <4> QED BY <2>1, <2>2, <3>1, <4>3, ShortLess
    <3> QED BY <3>2, <3>3
  <2> QED BY <1>7, <2>0, <2>3, <2>4, <2>5 DEF HearRouting, SetStatus
<1>8. ASSUME NEW r \in Requests, HearAnswer(r)
      PROVE  Short(p)'
  <2>1. UNCHANGED <<queueReport, strayed, pc, early, status>>
    BY <1>8 DEF HearAnswer, senderVars, deliveryVars
  <2>2. LookedThrough(p)' = LookedThrough(p) /\ AtReader(p)' = AtReader(p)
    BY <2>1 DEF LookedThrough, IsStored, AtReader
  <2> QED BY <2>1, <2>2, EarlySame, ShortLess
<1> QED BY <1>2, <1>3, <1>4, <1>5, <1>6, <1>7, <1>8, <1>10, AppendQueuedShort DEF Reader

LEMMA ShortStep ==
    ASSUME ReportsInv, ShortInv, [Next]_vars
    PROVE  ShortInv'
<1> SUFFICES ASSUME NEW p \in Texts PROVE Short(p)'
  BY DEF ShortInv
<1>1. CASE ListRequests \/ UNCHANGED vars
  <2>1. UNCHANGED <<status, early, pc, queueReport, strayed>>
    BY <1>1 DEF ListRequests, deliveryVars, senderVars, vars
  <2>2. LookedThrough(p)' = LookedThrough(p) /\ AtReader(p)' = AtReader(p)
    BY <2>1 DEF LookedThrough, IsStored, AtReader
  <2> QED BY <2>1, <2>2, EarlySame, ShortLess
<1>2. CASE Recapture
  <2>1. UNCHANGED <<status, pc, queueReport, strayed>> /\ early' = <<>>
    BY <1>2 DEF Recapture, DropEarly, senderVars
  <2>2. LookedThrough(p)' = LookedThrough(p) /\ AtReader(p)' = AtReader(p)
    BY <2>1 DEF LookedThrough, IsStored, AtReader
  <2> QED BY <2>1, <2>2, Emptied, ShortLess
<1>3. CASE Restart
  <2>1. /\ UNCHANGED <<status, strayed>> /\ early' = <<>> /\ queueReport' = NoReport
        /\ pc' = [x \in Ids |-> IF pc[x] = "idle" THEN "idle" ELSE "done"]
    BY <1>3 DEF Restart
  <2>2. Len(WaitingReports(p)') = 0
    BY <2>1, Emptied, EmptySeq
  <2>3. AtReader(p)' = 0
    BY <2>1, NobodyIs DEF AtReader
  <2>4. /\ strayed[p] \in Nat /\ Len(WaitingReports(p)) \in Nat /\ AtReader(p) \in {0, 1}
        /\ ~LookedThrough(p) => strayed[p] = 0
        /\ LookedThrough(p) => strayed[p] + Len(WaitingReports(p)) + AtReader(p) <= 1
    BY CountsTyped DEF AtReader, ShortInv, Short
  <2>5. LookedThrough(p) => LookedThrough(p)'
    BY <2>1, IdsOf DEF LookedThrough, IsStored
  <2>6. strayed'[p] <= 1 /\ (~LookedThrough(p) => strayed'[p] = 0) /\ strayed'[p] \in Nat
    BY <2>1, <2>4
  <2>7. strayed'[p] + Len(WaitingReports(p)') + AtReader(p)' <= 1
    BY <2>2, <2>3, <2>6
  <2> QED BY <2>5, <2>6, <2>7 DEF Short
<1> QED BY <1>1, <1>2, <1>3, SenderShort, ReaderShort DEF Next

(* No report on a text is logged twice, and none goes unaccounted for:     *)
(* however the sender's and the reader's thread interleave, and wherever   *)
(* the process dies, each is in the log, waits, is in a thread's hands, is *)
(* one that _early_status gave up, or went into a list nobody reads any    *)
(* more; and of these last ones, and those that wait for a text that was   *)
(* looked through, a text has one at most (upstream.py:195-232).           *)
THEOREM EveryReportAlwaysOnce == Spec => []EveryReportOnce
<1>1. Init => ShortInv
  <2> SUFFICES ASSUME Init PROVE ShortInv
    OBVIOUS
  <2>1. \A p \in Texts : ~LookedThrough(p) /\ strayed[p] = 0
    BY DEF Init, DeliveryInit, LookedThrough, IsStored
  <2> QED BY <2>1 DEF ShortInv, Short
<1>2. ReportsInv /\ ShortInv /\ [Next]_vars => ShortInv'
  BY ShortStep
<1>3. ReportsInv /\ ShortInv => EveryReportOnce
  <2> SUFFICES ASSUME ReportsInv, ShortInv, NEW p \in Texts
               PROVE  /\ Once(p)
                      /\ strayed[p] + (IF LookedThrough(p) THEN Len(WaitingReports(p)) ELSE 0) <= 1
    BY DEF EveryReportOnce, Once
  <2>1. Once(p)
    BY DEF ReportsInv, OnceInv
  <2>2. /\ strayed[p] \in Nat /\ Len(WaitingReports(p)) \in Nat /\ AtReader(p) \in {0, 1}
        /\ ~LookedThrough(p) => strayed[p] = 0
        /\ LookedThrough(p) => strayed[p] + Len(WaitingReports(p)) + AtReader(p) <= 1
    BY CountsTyped DEF AtReader, ShortInv, Short
  <2>3. CASE LookedThrough(p)
    <3>1. strayed[p] + Len(WaitingReports(p)) <= 1
      BY <2>2, <2>3
    <3> QED BY <2>1, <2>3, <3>1, Zenon
  <2>4. CASE ~LookedThrough(p)
    <3>1. strayed[p] + 0 <= 1
      BY <2>2, <2>4
    <3> QED BY <2>1, <2>4, <3>1, Zenon
  <2> QED BY <2>3, <2>4
<1> QED BY <1>1, <1>2, <1>3, ReportsAlways, PTL DEF Spec

(* An app's packet is in the database before the node can say anything of  *)
(* it (vnode_server.py:326-340).                                           *)
THEOREM AppsAreNeverEarly == Spec => []AppsNeverEarly
<1>1. ReportsInv => AppsNeverEarly
  BY FirstAirsAre DEF ReportsInv, AppsNeverEarly, AppsWaitNever, RequestInv
<1> QED BY <1>1, ReportsAlways, PTL

-----------------------------------------------------------------------------
(* What a step does to one text's status and evidence.                     *)

Stored(p) ==
    /\ status[p] = NoStatus /\ status'[p] = "pending"
    /\ Said(p)' = {} /\ Unapplied(p)' \subseteq Unapplied(p)

Moved(p, report) ==
    /\ status[p] \in Statuses /\ report \in Reports
    /\ status'[p] = IF Advances(status[p], StatusOf[report]) THEN StatusOf[report] ELSE status[p]
    /\ Said(p) \subseteq Said(p)' /\ Said(p)' \subseteq Said(p) \cup {report}
    /\ report \in Said(p)'
    /\ Unapplied(p) \subseteq Unapplied(p)' \cup {report}
    /\ Unapplied(p)' \subseteq Unapplied(p)

Kept(p) ==
    /\ status'[p] = status[p]
    /\ Said(p) \subseteq Said(p)' /\ Said(p)' \subseteq Said(p) \cup Unapplied(p)'
    /\ restarts' = 0 => Unapplied(p) \subseteq Unapplied(p)'
    /\ Unapplied(p)' \subseteq Unapplied(p) \cup Said(p)'

LEMMA SaidLogged ==
    ASSUME evidence \in [Texts -> Seq(Reports)], NEW p \in Texts, NEW report \in Reports,
           evidence' = Logged(p, report)
    PROVE  /\ Said(p)' = Said(p) \cup {report}
           /\ \A q \in Texts : q # p => Said(q)' = Said(q)
<1>1. /\ evidence'[p] = Append(evidence[p], report)
      /\ \A q \in Texts : q # p => evidence'[q] = evidence[q]
  BY LoggedTyped
<1>2. evidence[p] \in Seq(Reports)
  OBVIOUS
<1>3. /\ Append(evidence[p], report) \in Seq(Reports)
      /\ Len(Append(evidence[p], report)) = Len(evidence[p]) + 1
      /\ \A i \in 1 .. Len(evidence[p]) : Append(evidence[p], report)[i] = evidence[p][i]
      /\ Append(evidence[p], report)[Len(evidence[p]) + 1] = report
  BY <1>2, AppendProperties
<1>4. /\ Len(evidence[p]) \in Nat /\ DOMAIN evidence[p] = 1 .. Len(evidence[p])
      /\ DOMAIN evidence'[p] = 1 .. Len(evidence[p]) + 1
  BY <1>1, <1>2, <1>3, LenProperties
<1>5. /\ \A i \in DOMAIN evidence'[p] : i \in DOMAIN evidence[p] \/ i = Len(evidence[p]) + 1
      /\ \A i \in DOMAIN evidence[p] : i \in DOMAIN evidence'[p]
      /\ Len(evidence[p]) + 1 \in DOMAIN evidence'[p]
  BY <1>4
<1>6. \A x : x \in Said(p)' <=> x \in Said(p) \/ x = report
  BY <1>1, <1>3, <1>4, <1>5 DEF Said
<1> QED BY <1>1, <1>6 DEF Said

LEMMA AdvancedAt ==
    ASSUME status \in [Texts -> Statuses \cup {NoStatus}], NEW p \in Texts, NEW report
    PROVE  Advanced(p, report)[p]
             = IF Advances(status[p], StatusOf[report]) THEN StatusOf[report] ELSE status[p]
BY DEF Advanced

(* Nothing is said of p in this step, and no thread turns to it.           *)
LEMMA LeftAlone ==
    ASSUME NEW p \in Texts, status'[p] = status[p], evidence'[p] = evidence[p],
           restarts' # 0 \/ Unapplied(p) \subseteq Unapplied(p)',
           Unapplied(p)' \subseteq Unapplied(p)
    PROVE  Kept(p)
<1>1. Said(p)' = Said(p)
  BY DEF Said
<1> QED BY <1>1 DEF Kept

LEMMA SenderTextSteps ==
    ASSUME ReportsInv, BackedInv, Sender, NEW p \in Texts
    PROVE  Stored(p) \/ Kept(p) \/ \E report \in Reports : Moved(p, report)
<1> USE DEF ReportsInv
<1>1. /\ pc \in [Ids -> Pcs] /\ p \in Ids /\ status \in [Texts -> Statuses \cup {NoStatus}]
      /\ evidence \in [Texts -> Seq(Reports)] /\ applying \in [Texts -> Seq(Reports)]
  BY IdsOf DEF TypeOK, DeliveryTypeOK
<1>2. ASSUME NEW q \in Ids, Air(q) \/ DropUnsent(q)
      PROVE  Kept(p)
  <2>1. UNCHANGED <<status, evidence, applying, queueReport>>
    BY <1>2 DEF Air, DropUnsent, deliveryVars
  <2>2. (pc[p] = "applied") = (pc'[p] = "applied")
    BY <1>1, <1>2 DEF Air, DropUnsent
  <2>3. Unapplied(p)' = Unapplied(p)
    BY <2>1, <2>2 DEF Unapplied
  <2> QED BY <2>1, <2>3, LeftAlone
<1>3. ASSUME NEW q \in Texts, StoreText(q)
      PROVE  Stored(p) \/ Kept(p)
  <2>1. UNCHANGED <<evidence, applying, queueReport>> /\ status' = [status EXCEPT ![q] = "pending"]
        /\ pc' = [pc EXCEPT ![q] = "stored"] /\ pc[q] \in {"idle", "aired"}
    BY <1>3 DEF StoreText, RowDue
  <2>2. (pc[p] = "applied") = (pc'[p] = "applied")
    BY <1>1, <2>1
  <2>3. Unapplied(p)' = Unapplied(p)
    BY <2>1, <2>2 DEF Unapplied
  <2>4. CASE p = q
    <3>1. status[p] = NoStatus /\ evidence'[p] = <<>>
      BY <1>1, <2>1, <2>4 DEF TextInv
    <3>2. Said(p)' = {}
      BY <3>1, EmptySeq DEF Said
    <3> QED BY <1>1, <2>1, <2>3, <2>4, <3>1, <3>2 DEF Stored
  <2>5. CASE p # q
    BY <1>1, <2>1, <2>3, <2>5, LeftAlone
  <2> QED BY <2>4, <2>5
<1>4. ASSUME NEW q \in Texts, TakeEarly(q) \/ AllTaken(q)
      PROVE  Kept(p)
  <2>1. UNCHANGED <<status, evidence>>
    BY <1>4 DEF TakeEarly, AllTaken, deliveryVars
  <2>4. \/ UNCHANGED queueReport
        \/ queueReport.at # "advance" /\ queueReport'.at # "advance"
    <3>1. \/ UNCHANGED queueReport
          \/ /\ queueReport.at \in {"append", "shared"}
             /\ \E to \in {"shared", "astray"} : queueReport' = [queueReport EXCEPT !.at = to]
      BY <1>4 DEF TakeEarly, AllTaken, ListMoves
    <3> QED BY <3>1, QueueTyped, MovesTyped DEF QueueSteps
  <2>2. /\ (pc[p] = "applied") = (pc'[p] = "applied")
        /\ pc[p] = "applied" => applying'[p] = applying[p]
    BY <1>1, <1>4, IdsOf DEF TakeEarly, AllTaken, After
  <2>3. Unapplied(p)' = Unapplied(p)
    BY <2>2, <2>4 DEF Unapplied
  <2> QED BY <2>1, <2>3, LeftAlone
<1>5. ASSUME NEW q \in Texts, LogTaken(q)
      PROVE  Kept(p)
  <2>1. UNCHANGED <<status, applying, queueReport, strayed, restarts>>
        /\ evidence' = Logged(q, Head(applying[q])) /\ pc[q] = "applying"
        /\ pc' = [pc EXCEPT ![q] = "applied"] /\ Head(applying[q]) \in Reports
    BY <1>5, NextReport DEF LogTaken
  <2>2. Said(q)' = Said(q) \cup {Head(applying[q])} /\ (p # q => Said(p)' = Said(p))
    BY <1>1, <2>1, SaidLogged
  <2>3. CASE p = q
    <3>1. Unapplied(p)' = Unapplied(p) \cup {Head(applying[p])}
      BY <1>1, <2>1, <2>3 DEF Unapplied
    <3> QED BY <2>1, <2>2, <2>3, <3>1 DEF Kept
  <2>4. CASE p # q
    <3>1. Unapplied(p)' = Unapplied(p)
      BY <1>1, <2>1, <2>4, IdsOf DEF Unapplied
    <3> QED BY <2>1, <2>2, <2>4, <3>1 DEF Kept
  <2> QED BY <2>3, <2>4
<1>6. ASSUME NEW q \in Texts, AdvanceTaken(q)
      PROVE  Kept(p) \/ \E report \in Reports : Moved(p, report)
  <2>1. UNCHANGED <<evidence, queueReport, strayed, restarts>>
        /\ status' = Advanced(q, Head(applying[q])) /\ pc[q] = "applied"
        /\ pc' = [pc EXCEPT ![q] = "applying"] /\ applying' = [applying EXCEPT ![q] = Tail(@)]
    BY <1>6 DEF AdvanceTaken
  <2>2. Head(applying[q]) \in Reports /\ status[q] # NoStatus
    BY <2>1, NextReport DEF TextInv
  <2>3. CASE p = q
    <3>1. Unapplied(p) = Unapplied(p)' \cup {Head(applying[p])}
      BY <1>1, <2>1, <2>3 DEF Unapplied
    <3>2. Said(p)' = Said(p) /\ Head(applying[p]) \in Said(p)
      BY <2>1, <3>1 DEF Said, BackedInv
    <3>3. status'[p] = IF Advances(status[p], StatusOf[Head(applying[p])])
                       THEN StatusOf[Head(applying[p])] ELSE status[p]
      BY <1>1, <2>1, <2>3, AdvancedAt
    <3>4. status[p] \in Statuses
      BY <1>1, <2>2, <2>3
    <3>5. Moved(p, Head(applying[p]))
      BY <2>2, <2>3, <3>1, <3>2, <3>3, <3>4 DEF Moved
    <3> QED BY <2>2, <2>3, <3>5
  <2>4. CASE p # q
    <3>1. Unapplied(p)' = Unapplied(p)
      BY <1>1, <2>1, <2>4, IdsOf DEF Unapplied
    <3>2. status'[p] = status[p]
      BY <1>1, <2>1, <2>2, <2>4, AdvancedTyped
    <3> QED BY <2>1, <3>1, <3>2, LeftAlone
  <2> QED BY <2>3, <2>4
<1>7. ASSUME NEW r \in Requests, LogRequest(r)
      PROVE  Kept(p)
  <2>1. UNCHANGED <<status, evidence, applying, queueReport>> /\ pc' = [pc EXCEPT ![r] = After(r)]
        /\ p # r
    BY <1>7, FirstAirsAre DEF LogRequest, deliveryVars
  <2>2. Unapplied(p)' = Unapplied(p)
    BY <1>1, <2>1, IdsOf DEF Unapplied
  <2> QED BY <2>1, <2>2, LeftAlone
<1> QED BY <1>2, <1>3, <1>4, <1>5, <1>6, <1>7 DEF Sender

LEMMA ReaderTextSteps ==
    ASSUME ReportsInv, BackedInv, Reader, NEW p \in Texts
    PROVE  Kept(p) \/ \E report \in Reports : Moved(p, report)
<1> USE DEF ReportsInv
<1>1. /\ p \in Ids /\ status \in [Texts -> Statuses \cup {NoStatus}]
      /\ evidence \in [Texts -> Seq(Reports)]
  BY IdsOf DEF TypeOK, DeliveryTypeOK
<1>2. UNCHANGED <<pc, restarts>>
  BY DEF Reader, HearQueueStatus, FindOwn, AdvanceQueued, KeepQueued, AppendQueued, CountEarly, TrimQueued,
         HearRouting, HearAnswer, senderVars
<1>3. ASSUME NEW q \in Ids, NEW report \in QueueEvents, HearQueueStatus(q, report)
      PROVE  Kept(p)
  <2>1. UNCHANGED <<status, evidence, applying>> /\ queueReport = NoReport
        /\ queueReport'.at = "find"
    BY <1>3 DEF HearQueueStatus, Hears, deliveryVars, senderVars
  <2>2. Unapplied(p)' = Unapplied(p)
    BY <1>2, <2>1 DEF Unapplied, NoReport
  <2> QED BY <2>1, <2>2, LeftAlone
<1>4. CASE FindOwn
  <2>0. PICK q, r : q = queueReport.id /\ r = queueReport.report
    OBVIOUS
  <2>1. UNCHANGED <<status, applying>> /\ queueReport.at = "find" /\ r \in Reports
        /\ queueReport \in [id: Ids, report: Reports, at: QueueSteps]
    BY <1>4, <2>0, QueueTyped DEF FindOwn, senderVars
  <2>2. CASE IsStored(q) /\ evidence' = Logged(q, r)
             /\ queueReport' = [queueReport EXCEPT !.at = "advance"]
    <3>1. q \in Texts
      BY <2>2 DEF IsStored
    <3>2. Said(q)' = Said(q) \cup {r} /\ (p # q => Said(p)' = Said(p))
      BY <1>1, <2>1, <2>2, <3>1, SaidLogged
    <3>3. queueReport'.id = q /\ queueReport'.report = r /\ queueReport'.at = "advance"
      BY <2>0, <2>1, <2>2
    <3>4. Unapplied(p)' = Unapplied(p) \cup (IF p = q THEN {r} ELSE {})
      BY <1>2, <2>1, <3>3 DEF Unapplied
    <3> QED BY <2>1, <3>2, <3>4 DEF Kept
  <2>3. CASE UNCHANGED evidence /\ queueReport' = [queueReport EXCEPT !.at = "keep"]
    <3>1. queueReport'.at = "keep"
      BY <2>1, <2>3
    <3>2. Unapplied(p)' = Unapplied(p)
      BY <1>2, <2>1, <3>1 DEF Unapplied
    <3> QED BY <2>1, <2>3, <3>2, LeftAlone
  <2> QED BY <1>4, <2>0, <2>2, <2>3 DEF FindOwn
<1>5. CASE AdvanceQueued
  <2>0. PICK q, r : q = queueReport.id /\ r = queueReport.report
    OBVIOUS
  <2>1. UNCHANGED <<evidence, applying>> /\ queueReport.at = "advance" /\ queueReport' = NoReport
        /\ status' = Advanced(q, r) /\ r \in Reports /\ q \in Texts /\ status[q] # NoStatus
    BY <1>5, <2>0, QueueTyped DEF AdvanceQueued, IsStored, senderVars
  <2>2. CASE p = q
    <3>1. Unapplied(p) = Unapplied(p)' \cup {r}
      BY <1>2, <2>0, <2>1, <2>2 DEF Unapplied, NoReport
    <3>2. Said(p)' = Said(p) /\ r \in Said(p)
      BY <2>1, <3>1 DEF Said, BackedInv
    <3>3. status'[p] = IF Advances(status[p], StatusOf[r]) THEN StatusOf[r] ELSE status[p]
      BY <1>1, <2>1, <2>2, AdvancedAt
    <3>4. Moved(p, r)
      BY <1>1, <2>1, <2>2, <3>1, <3>2, <3>3 DEF Moved
    <3> QED BY <2>1, <3>4
  <2>3. CASE p # q
    <3>1. Unapplied(p)' = Unapplied(p)
      BY <1>2, <2>0, <2>1, <2>3 DEF Unapplied, NoReport
    <3>2. status'[p] = status[p]
      BY <1>1, <2>1, <2>3, AdvancedTyped
    <3> QED BY <2>1, <3>1, <3>2, LeftAlone
  <2> QED BY <2>2, <2>3
<1>6. CASE KeepQueued \/ CountEarly \/ TrimQueued
  <2>1. UNCHANGED <<status, evidence, applying>> /\ queueReport.at # "advance"
        /\ queueReport'.at # "advance"
    <3>1. CASE KeepQueued
      <4>1. queueReport' = [queueReport EXCEPT !.at = "append"] /\ queueReport.at = "keep"
        BY <3>1 DEF KeepQueued
      <4> QED BY <3>1, <4>1, QueueTyped, MovesTyped DEF KeepQueued, QueueSteps, senderVars
    <3>2. CASE TrimQueued
      BY <3>2, NobodyIs DEF TrimQueued, senderVars
    <3>3. CASE CountEarly
      BY <3>3, CountEarlyIs, NobodyIs DEF deliveryVars, senderVars
    <3> QED BY <1>6, <3>1, <3>2, <3>3
  <2>2. Unapplied(p)' = Unapplied(p)
    BY <1>2, <2>1 DEF Unapplied
  <2> QED BY <2>1, <2>2, LeftAlone
<1>9. CASE AppendQueued
  <2>0. PICK q : q = queueReport.id
    OBVIOUS
  <2>1. /\ UNCHANGED <<status, evidence, exchange, pc, onAir, heard, restarts>>
        /\ queueReport.at \in {"append", "shared", "astray"}
        /\ queueReport' = [queueReport EXCEPT !.at = "count"]
        /\ q \in Ids /\ queueReport \in [id: Ids, report: Reports, at: QueueSteps]
        /\ q \in onAir /\ queueReport.report \in QueueEvents /\ queueReport.report \in Reports
        /\ Appended(q, queueReport.report)
        /\ early' # early => q \notin AppTexts /\ queueReport.at = "append"
    BY <1>9, <2>0, AppendQueuedIs
  <2>2. queueReport.at # "advance" /\ queueReport'.at # "advance"
    BY <2>1, MovesTyped DEF QueueSteps
  <2>3. pc[p] = "applied" => Head(applying'[p]) = Head(applying[p])
    <3>1. applying[p] \in Seq(Reports) /\ applying \in [Texts -> Seq(Reports)]
          /\ (pc[p] = "applied" => applying[p] # <<>>)
      BY CountsTyped DEF TypeOK, TextInv
    <3>2. \/ applying'[p] = applying[p]
          \/ applying'[p] = Append(applying[p], queueReport.report)
      BY <2>1, <3>1 DEF Appended
    <3> QED BY <2>1, <3>1, <3>2, HeadTailAppend
  <2>4. Unapplied(p)' = Unapplied(p)
    BY <2>1, <2>2, <2>3 DEF Unapplied
  <2> QED BY <2>1, <2>4, LeftAlone
<1>7. ASSUME NEW q \in Ids, NEW from \in {"own", "other"}, NEW error \in BOOLEAN,
             HearRouting(q, from, error)
      PROVE  Kept(p) \/ \E report \in Reports : Moved(p, report)
  <2>0. PICK r \in Reports : r = AckEvent(from, error)
    BY DEF AckEvent, Reports, RoutingEvents
  <2>1. UNCHANGED <<queueReport, applying>>
    BY <1>7 DEF HearRouting, senderVars
  <2>2. Unapplied(p)' = Unapplied(p)
    BY <1>2, <2>1 DEF Unapplied
  <2>3. CASE UNCHANGED <<status, evidence>>
    BY <2>2, <2>3, LeftAlone
  <2>4. CASE IsStored(q) /\ evidence' = Logged(q, r) /\ status' = Advanced(q, r)
    <3>1. q \in Texts /\ status[q] # NoStatus
      BY <2>4 DEF IsStored
    <3>2. Said(q)' = Said(q) \cup {r} /\ (p # q => Said(p)' = Said(p))
      BY <1>1, <2>4, <3>1, SaidLogged
    <3>3. CASE p = q
      <4>1. status'[p] = IF Advances(status[p], StatusOf[r]) THEN StatusOf[r] ELSE status[p]
        BY <1>1, <2>4, <3>3, AdvancedAt
      <4>2. Moved(p, r)
        BY <1>1, <2>2, <3>1, <3>2, <3>3, <4>1 DEF Moved
      <4> QED BY <4>2
    <3>4. CASE p # q
      <4>1. status'[p] = status[p]
        BY <1>1, <2>4, <3>1, <3>4, AdvancedTyped
      <4> QED BY <1>2, <2>2, <3>2, <3>4, <4>1 DEF Kept
    <3> QED BY <3>3, <3>4
  <2> QED BY <1>7, <2>0, <2>3, <2>4 DEF HearRouting, SetStatus, deliveryVars
<1>8. ASSUME NEW r \in Requests, HearAnswer(r)
      PROVE  Kept(p)
  <2>1. UNCHANGED <<status, evidence, queueReport, applying>>
    BY <1>8 DEF HearAnswer, deliveryVars, senderVars
  <2>2. Unapplied(p)' = Unapplied(p)
    BY <1>2, <2>1 DEF Unapplied
  <2> QED BY <2>1, <2>2, LeftAlone
<1> QED BY <1>3, <1>4, <1>5, <1>6, <1>7, <1>8, <1>9 DEF Reader

LEMMA TextSteps ==
    ASSUME ReportsInv, BackedInv, [Next]_vars, NEW p \in Texts
    PROVE  Stored(p) \/ Kept(p) \/ \E report \in Reports : Moved(p, report)
<1>1. CASE ListRequests \/ Recapture \/ UNCHANGED vars
  <2>1. UNCHANGED <<status, evidence, pc, applying, queueReport>>
    BY <1>1 DEF ListRequests, Recapture, deliveryVars, senderVars, vars
  <2>2. Unapplied(p)' = Unapplied(p)
    BY <2>1 DEF Unapplied
  <2> QED BY <2>1, <2>2, LeftAlone
<1>2. CASE Restart
  <2>1. /\ UNCHANGED <<status, evidence>> /\ restarts' = restarts + 1 /\ queueReport' = NoReport
        /\ pc' = [q \in Ids |-> IF pc[q] = "idle" THEN "idle" ELSE "done"]
    BY <1>2 DEF Restart
  <2>2. restarts' # 0
    BY <2>1, ReportsAssumption DEF ReportsInv, TypeOK
  <2>3. Unapplied(p)' = {}
    BY <2>1, IdsOf DEF Unapplied, NoReport
  <2> QED BY <2>1, <2>2, <2>3, LeftAlone
<1> QED BY <1>1, <1>2, SenderTextSteps, ReaderTextSteps DEF Next

-----------------------------------------------------------------------------
(* The status and its evidence.                                            *)

(* A report that moves the status shows in it; one that does not is        *)
(* overruled by it.                                                        *)
LEMMA AdvancesShow ==
    ASSUME NEW current \in Statuses, NEW report \in Reports
    PROVE  Shows(IF Advances(current, StatusOf[report]) THEN StatusOf[report] ELSE current, report)
<1>1. /\ Advances(current, StatusOf[report]) => Shows(StatusOf[report], report)
      /\ ~Advances(current, StatusOf[report]) => Shows(current, report)
  <2>1. CASE report = "ack"
    <3>1. StatusOf[report] = "delivered"  BY <2>1 DEF StatusOf
    <3>2. ~Advances(current, "delivered") => current = "delivered"
      BY DEF Advances, Rank, Statuses
    <3> QED  BY <2>1, <3>1, <3>2 DEF Shows
  <2>2. CASE report \in {"refused", "nak"}
    <3>1. StatusOf[report] = "failed"  BY <2>2 DEF StatusOf
    <3>2. ~Advances(current, "failed") => current = "delivered"
      BY DEF Advances
    <3> QED  BY <2>2, <3>1, <3>2 DEF Shows
  <2>3. CASE report = "implicit_ack"
    <3>1. StatusOf[report] = "relayed"  BY <2>3 DEF StatusOf
    <3>2. ~Advances(current, "relayed") => current \in {"relayed", "delivered"}
      BY DEF Advances, Rank, Statuses
    <3> QED  BY <2>3, <3>1, <3>2 DEF Shows
  <2>4. CASE report = "queued"
    <3>1. StatusOf[report] = "sent"  BY <2>4 DEF StatusOf
    <3>2. ~Advances(current, "sent") => current \in {"sent", "relayed", "delivered", "failed"}
      BY DEF Advances, Rank, Statuses
    <3> QED  BY <2>4, <3>1, <3>2 DEF Shows
  <2> QED  BY <2>1, <2>2, <2>3, <2>4 DEF Reports, QueueEvents, RoutingEvents
<1> QED  BY <1>1, Zenon

(* ... and what shows is not taken back by another. *)
LEMMA ShowsStay ==
    ASSUME NEW current \in Statuses, NEW report \in Reports, NEW other \in Reports,
           Shows(current, other)
    PROVE  Shows(IF Advances(current, StatusOf[report]) THEN StatusOf[report] ELSE current, other)
<1>1. ASSUME Advances(current, StatusOf[report])
      PROVE  Shows(StatusOf[report], other)
  <2>1. StatusOf[report] \in {"sent", "failed", "delivered", "relayed"}
    BY DEF StatusOf, Reports, QueueEvents, RoutingEvents
  <2>2. PICK new \in {"sent", "failed", "delivered", "relayed"} : new = StatusOf[report]
    BY <2>1
  <2>3. Advances(current, new)
    BY <1>1, <2>2
  <2>4. /\ current = "delivered" => new \in {"delivered"}
        /\ current = "failed" => new \in {"failed", "relayed", "delivered"}
        /\ current = "relayed" => new \in {"failed", "relayed", "delivered"}
    BY <2>3 DEF Advances, Rank
  <2>5. Shows(new, other)
    <3>1. CASE other = "ack"
      BY <3>1, <2>4 DEF Shows
    <3>2. CASE other \in {"refused", "nak"}
      BY <3>2, <2>4 DEF Shows
    <3>3. CASE other = "implicit_ack"
      BY <3>3, <2>4 DEF Shows
    <3>4. CASE other = "queued"
      BY <3>4 DEF Shows
    <3> QED  BY <3>1, <3>2, <3>3, <3>4 DEF Reports, QueueEvents, RoutingEvents
  <2> QED  BY <2>5, <2>2
<1> QED  BY <1>1, Zenon

LEMMA BackedStep ==
    ASSUME ReportsInv, BackedInv, [Next]_vars
    PROVE  BackedInv'
<1> SUFFICES ASSUME NEW p \in Texts
             PROVE  /\ status'[p] \notin {NoStatus, "pending"}
                         => \E report \in Said(p)' : StatusOf[report] = status'[p]
                    /\ Unapplied(p)' \subseteq Said(p)'
  BY DEF BackedInv
<1>1. /\ status[p] \notin {NoStatus, "pending"} => \E report \in Said(p) : StatusOf[report] = status[p]
      /\ Unapplied(p) \subseteq Said(p)
  BY DEF BackedInv
<1>2. CASE Stored(p)
  <2>1. status[p] = NoStatus
    BY <1>2 DEF Stored
  <2>2. Said(p) = {}
    BY <2>1, EmptySeq DEF ReportsInv, TextInv, Said
  <2> QED BY <1>1, <1>2, <2>2 DEF Stored
<1>3. CASE Kept(p)
  BY <1>1, <1>3 DEF Kept
<1>4. ASSUME NEW report \in Reports, Moved(p, report)
      PROVE  /\ status'[p] \notin {NoStatus, "pending"}
                  => \E r \in Said(p)' : StatusOf[r] = status'[p]
             /\ Unapplied(p)' \subseteq Said(p)'
  <2>1. Unapplied(p)' \subseteq Said(p)'
    BY <1>1, <1>4 DEF Moved
  <2>2. status'[p] = StatusOf[report] \/ status'[p] = status[p]
    BY <1>4 DEF Moved
  <2> QED BY <1>1, <1>4, <2>1, <2>2 DEF Moved
<1> QED BY <1>2, <1>3, <1>4, TextSteps

LEMMA ShownStep ==
    ASSUME ReportsInv, BackedInv, ShownInv, [Next]_vars
    PROVE  ShownInv'
<1> SUFFICES ASSUME restarts' = 0, NEW p \in Texts, NEW other \in Said(p)'
             PROVE  Shows(status'[p], other) \/ other \in Unapplied(p)'
  BY DEF ShownInv, Shows
<1>1. restarts = 0
  <2>1. restarts' = restarts \/ restarts' = restarts + 1
    BY DEF Next, Sender, Air, DropUnsent, StoreText, TakeEarly, LogTaken, AdvanceTaken, AllTaken,
           LogRequest, Reader, HearQueueStatus, FindOwn, AdvanceQueued, KeepQueued, AppendQueued,
           CountEarly, TrimQueued, HearRouting, HearAnswer, ListRequests, Recapture, Restart, vars
  <2>2. restarts \in Nat
    BY ReportsAssumption DEF ReportsInv, TypeOK
  <2> QED BY <2>1, <2>2
<1>2. \A report \in Said(p) : Shows(status[p], report) \/ report \in Unapplied(p)
  BY <1>1 DEF ShownInv
<1>3. Said(p) \subseteq Reports
  <2>1. evidence[p] \in Seq(Reports)
    BY DEF ReportsInv, TypeOK, DeliveryTypeOK
  <2> QED BY <2>1, LenProperties, ElementOfSeq DEF Said
<1>4. CASE Stored(p)
  BY <1>4 DEF Stored
<1>5. CASE Kept(p)
  <2>1. /\ status'[p] = status[p] /\ Unapplied(p) \subseteq Unapplied(p)'
        /\ other \in Said(p) \/ other \in Unapplied(p)'
    BY <1>5 DEF Kept
  <2> QED BY <1>2, <2>1
<1>6. ASSUME NEW report \in Reports, Moved(p, report)
      PROVE  Shows(status'[p], other) \/ other \in Unapplied(p)'
  <2>1. Shows(status'[p], report)
    BY <1>6, AdvancesShow DEF Moved
  <2>2. CASE other = report
    BY <2>1, <2>2
  <2>3. CASE other # report
    <3>1. other \in Said(p) /\ other \in Reports
      BY <1>3, <1>6, <2>3 DEF Moved
    <3>2. CASE Shows(status[p], other)
      BY <1>6, <3>1, <3>2, ShowsStay DEF Moved
    <3>3. CASE other \in Unapplied(p)
      BY <1>6, <2>3, <3>3 DEF Moved
    <3> QED BY <1>2, <3>1, <3>2, <3>3
  <2> QED BY <2>2, <2>3
<1> QED BY <1>4, <1>5, <1>6, TextSteps

LEMMA BackedAlways == Spec => [](ReportsInv /\ BackedInv /\ ShownInv)
<1>1. Init => BackedInv /\ ShownInv
  <2> SUFFICES ASSUME Init PROVE BackedInv /\ ShownInv
    OBVIOUS
  <2>1. \A p \in Texts : status[p] = NoStatus /\ evidence[p] = <<>> /\ pc[p] # "applied"
    BY IdsOf DEF Init, DeliveryInit
  <2>2. queueReport.at # "advance"
    BY DEF Init, NoReport
  <2>3. \A p \in Texts : Said(p) = {} /\ Unapplied(p) = {}
    BY <2>1, <2>2, EmptySeq DEF Said, Unapplied
  <2> QED BY <2>1, <2>3 DEF BackedInv, ShownInv
<1>2. ReportsInv /\ BackedInv /\ ShownInv /\ [Next]_vars => BackedInv' /\ ShownInv'
  BY BackedStep, ShownStep
<1> QED BY <1>1, <1>2, ReportsAlways, PTL DEF Spec

(* Every tick the web UI shows has a line in the log, even when the        *)
(* process dies between the two writes (upstream.py:218-219).              *)
THEOREM StatusAlwaysBacked == Spec => []StatusBacked
<1>1. BackedInv => StatusBacked
  BY DEF BackedInv, StatusBacked
<1> QED BY <1>1, BackedAlways, PTL

(* Whatever the order in which the sender's and the reader's thread log    *)
(* and apply what they have, the status ends up showing it: delivered once *)
(* there is an ack, failed after a refusal or a nak that no ack overrules, *)
(* pending only as long as nothing was said (db.py update_status).         *)
THEOREM EvidenceAlwaysReflected == Spec => []EvidenceReflected
<1>1. ReportsInv /\ BackedInv /\ ShownInv => EvidenceReflected
  <2> SUFFICES ASSUME ReportsInv, BackedInv, ShownInv, NEW p \in Texts, restarts = 0, ~BeingSaid(p)
               PROVE  /\ "ack" \in Said(p) => status[p] = "delivered"
                      /\ Said(p) \cap {"refused", "nak"} # {}
                           => status[p] \in {"failed", "relayed", "delivered"}
                      /\ "implicit_ack" \in Said(p) => status[p] \notin {"pending", "sent"}
                      /\ Said(p) # {} => status[p] # "pending"
    BY DEF EvidenceReflected
  <2>1. Unapplied(p) = {}
    BY DEF BeingSaid, Unapplied
  <2>2. \A report \in Said(p) : Shows(status[p], report)
    BY <2>1 DEF ShownInv
  <2>3. Said(p) \subseteq Reports
    <3>1. evidence[p] \in Seq(Reports)
      BY DEF ReportsInv, TypeOK, DeliveryTypeOK
    <3> QED BY <3>1, LenProperties, ElementOfSeq DEF Said
  <2>4. \A report \in Said(p) : status[p] # "pending"
    BY <2>2, <2>3 DEF Shows, Reports, QueueEvents, RoutingEvents
  <2>5. \A report \in {"refused", "nak"} : report \in Said(p)
          => status[p] \in {"failed", "relayed", "delivered"}
    BY <2>2 DEF Shows
  <2>6. "ack" \in Said(p) => status[p] = "delivered"
    BY <2>2 DEF Shows
  <2>7. "implicit_ack" \in Said(p) => status[p] \notin {"pending", "sent"}
    BY <2>2 DEF Shows
  <2> QED BY <2>4, <2>5, <2>6, <2>7
<1> QED BY <1>1, BackedAlways, PTL

(* No step takes back what was confirmed, and only an ack undoes a         *)
(* failure: "a late 'sent' must never overwrite 'delivered'" (db.py).      *)
THEOREM StatusNeverStepsBack == Spec => NoStepBack
<1> DEFINE Forward(p) ==
        /\ status[p] = "delivered" => status'[p] = "delivered"
        /\ status[p] = "failed" => status'[p] \in {"failed", "relayed", "delivered"}
        /\ status[p] = "relayed" => status'[p] \notin {"pending", "sent"}
<1>1. ReportsInv /\ BackedInv /\ [Next]_vars => [\A p \in Texts : Forward(p)]_vars
  <2> SUFFICES ASSUME ReportsInv, BackedInv, [Next]_vars, NEW p \in Texts
               PROVE  Forward(p)
    OBVIOUS
  <2>1. CASE Stored(p)
    BY <2>1 DEF Stored, NoStatus
  <2>2. CASE Kept(p)
    BY <2>2 DEF Kept
  <2>3. ASSUME NEW report \in Reports, Moved(p, report)
        PROVE  Forward(p)
    BY <2>3 DEF Moved, Advances, StatusOf, Rank, Reports, QueueEvents, RoutingEvents, Statuses
  <2> QED BY <2>1, <2>2, <2>3, TextSteps
<1> QED BY <1>1, BackedAlways, PTL DEF Spec, NoStepBack

-----------------------------------------------------------------------------
(* Acks that had to wait.                                                  *)

LEMMA StrandedStep ==
    ASSUME ReportsInv, AcksNotStranded, [Next]_vars
    PROVE  AcksNotStranded'
<1> SUFFICES ASSUME NEW p \in Texts, pc'[p] \in {"applying", "applied", "leaving", "done"},
                    status'[p] # NoStatus
             PROVE  \A i \in DOMAIN WaitingReports(p)' : WaitingReports(p)'[i] \in QueueEvents
  BY DEF AcksNotStranded, IsStored
<1> USE DEF ReportsInv
<1>1. /\ pc \in [Ids -> Pcs] /\ p \in Ids /\ status \in [Texts -> Statuses \cup {NoStatus}]
      /\ EarlyOK /\ lost \in [Texts -> Nat]
  BY IdsOf DEF TypeOK, DeliveryTypeOK
<1> DEFINE Fine == /\ pc[p] \in {"applying", "applied", "leaving", "done"} /\ status[p] # NoStatus
           Only(s) == \A i \in DOMAIN s : s[i] \in QueueEvents
<1>2. Fine => Only(WaitingReports(p))
  BY DEF AcksNotStranded, IsStored
<1>3. Only(<<>>)
  BY EmptySeq
<1>4. ASSUME NEW s \in Seq(Reports), Only(s), NEW report \in QueueEvents
      PROVE  Only(Append(s, report))
  <2>1. report \in Reports
    BY DEF Reports
  <2>2. /\ DOMAIN s = 1 .. Len(s) /\ Len(s) \in Nat
        /\ DOMAIN Append(s, report) = 1 .. Len(Append(s, report))
        /\ Len(Append(s, report)) = Len(s) + 1
        /\ \A i \in 1 .. Len(s) : Append(s, report)[i] = s[i]
        /\ Append(s, report)[Len(s) + 1] = report
    BY <2>1, AppendProperties, LenProperties
  <2>3. \A i \in DOMAIN Append(s, report) : i \in DOMAIN s \/ i = Len(s) + 1
    BY <2>2
  <2> QED BY <1>4, <2>2, <2>3
<1> HIDE DEF Only
<1>12. CASE WaitingReports(p)' = WaitingReports(p) /\ Fine
  BY <1>2, <1>12 DEF Only
<1>5. CASE UNCHANGED early /\ Fine
  <2>1. WaitingReports(p)' = WaitingReports(p)
    BY <1>5, EarlySame
  <2> QED BY <1>2, <1>5, <2>1 DEF Only
<1>6. CASE early' = <<>>
  BY <1>3, <1>6, Emptied DEF Only
<1>7. ASSUME NEW q \in Ids, NEW report \in Reports, KeepEarly(q, report), Fine,
             q = p => report \in QueueEvents, Len(early) <= MaxEarly
      PROVE  Only(WaitingReports(p)')
  <2>1. \/ Waiting(p)' = {}
        \/ WaitingReports(p)' = IF p = q THEN Append(WaitingReports(q), report) ELSE WaitingReports(p)
    BY <1>1, <1>7, KeepEffect
  <2>2. Waiting(p)' = {} => WaitingReports(p)' = <<>>
    BY DEF WaitingReports
  <2>3. WaitingReports(p) \in Seq(Reports)
    BY CountsTyped
  <2> QED BY <1>2, <1>3, <1>4, <1>7, <2>1, <2>2, <2>3
<1>8. CASE Sender
  <2>1. ASSUME NEW q \in Texts, StoreText(q)
        PROVE  UNCHANGED early /\ Fine
    BY <1>1, <2>1, IdsOf DEF StoreText
  <2>2. ASSUME NEW q \in Texts, TakeEarly(q)
        PROVE  Only(WaitingReports(p)')
    <3>1. /\ Waiting(q)' = {}
          /\ \A x : x # q => WaitingReports(x)' = WaitingReports(x)
      BY <1>1, <2>2, PopEffect DEF TakeEarly
    <3>2. Waiting(p)' = {} => WaitingReports(p)' = <<>>
      BY DEF WaitingReports
    <3>3. p # q => Fine
      BY <1>1, <2>2, IdsOf DEF TakeEarly
    <3> QED BY <1>2, <1>3, <3>1, <3>2, <3>3
  <2>3. ASSUME NEW q \in Texts, LogTaken(q)
        PROVE  UNCHANGED early /\ Fine
    BY <1>1, <2>3, IdsOf DEF LogTaken
  <2>4. ASSUME NEW q \in Texts, AdvanceTaken(q)
        PROVE  UNCHANGED early /\ Fine
    <3>1. status[q] # NoStatus /\ Head(applying[q]) \in Reports
      BY <2>4, NextReport DEF AdvanceTaken, TextInv
    <3>2. status[p] # NoStatus
      BY <1>1, <2>4, <3>1, AdvancedTyped DEF AdvanceTaken
    <3> QED BY <1>1, <2>4, <3>2, IdsOf DEF AdvanceTaken
  <2>5. ASSUME NEW q \in Texts, AllTaken(q)
        PROVE  UNCHANGED early /\ Fine
    BY <1>1, <2>5, IdsOf DEF AllTaken, deliveryVars
  <2>6. ASSUME NEW q \in Ids, Air(q) \/ DropUnsent(q)
        PROVE  UNCHANGED early /\ Fine
    BY <1>1, <2>6 DEF Air, DropUnsent, deliveryVars
  <2>7. ASSUME NEW r \in Requests, LogRequest(r)
        PROVE  UNCHANGED early /\ Fine
    BY <1>1, <2>7, IdsOf, FirstAirsAre DEF LogRequest, deliveryVars
  <2>8. Only(WaitingReports(p)') \/ (UNCHANGED early /\ Fine)
    BY <1>8, <2>1, <2>2, <2>3, <2>4, <2>5, <2>6, <2>7 DEF Sender
  <2> QED BY <1>5, <2>8 DEF Only
<1>9. CASE Reader
  <2>1. UNCHANGED pc
    BY <1>9 DEF Reader, HearQueueStatus, FindOwn, AdvanceQueued, KeepQueued, AppendQueued,
                CountEarly, TrimQueued, HearRouting, HearAnswer, senderVars
  <2>2. CASE AdvanceQueued
    <3>1. /\ queueReport.id \in Texts /\ status[queueReport.id] # NoStatus
          /\ queueReport.report \in Reports
      BY <2>2, QueueTyped DEF AdvanceQueued, IsStored
    <3>2. status[p] # NoStatus
      BY <1>1, <2>2, <3>1, AdvancedTyped DEF AdvanceQueued
    <3> QED BY <1>5, <2>1, <2>2, <3>2 DEF AdvanceQueued
  <2>3. CASE KeepQueued
    <3>0. PICK q : q = queueReport.id
      OBVIOUS
    <3>1. q \in Ids
      BY <2>3, <3>0, QueueTyped DEF KeepQueued
    <3>2. early' = IF Waiting(q) # {} THEN early ELSE Append(early, [id |-> q, reports |-> <<>>])
      BY <2>3, <3>0 DEF KeepQueued
    <3>3. WaitingReports(p)' = WaitingReports(p)
      BY <1>1, <3>1, <3>2, SetDefaultEffect
    <3>4. Fine
      BY <2>1, <2>3 DEF KeepQueued
    <3> QED BY <1>12, <3>3, <3>4 DEF Only
  <2>9. CASE AppendQueued
    <3>0. PICK q, r : q = queueReport.id /\ r = queueReport.report
      OBVIOUS
    <3>1. /\ UNCHANGED <<status, evidence, exchange, pc, onAir, heard, restarts>>
          /\ queueReport.at \in {"append", "shared", "astray"}
          /\ queueReport' = [queueReport EXCEPT !.at = "count"]
          /\ q \in Ids /\ queueReport \in [id: Ids, report: Reports, at: QueueSteps]
          /\ q \in onAir /\ queueReport.report \in QueueEvents /\ queueReport.report \in Reports
          /\ Appended(q, queueReport.report)
          /\ early' # early => q \notin AppTexts /\ queueReport.at = "append"
      BY <2>9, <3>0, AppendQueuedIs
    <3>2. Fine
      BY <2>1, <3>1
    <3>3. CASE UNCHANGED early
      BY <1>5, <3>2, <3>3 DEF Only
    <3>4. CASE Waiting(q) # {} /\ early' = With(q, r)
      <4>1. /\ WaitingReports(q)' = Append(WaitingReports(q), r)
            /\ \A x : x # q => WaitingReports(x)' = WaitingReports(x)
        BY <1>1, <3>0, <3>1, <3>4, AppendEffect
      <4>2. WaitingReports(p) \in Seq(Reports) /\ r \in QueueEvents
        BY <3>0, <3>1, CountsTyped
      <4>3. CASE p = q
        <5>1. Only(Append(WaitingReports(p), r))
          BY <1>2, <1>4, <3>2, <4>2
        <5> QED BY <4>1, <4>3, <5>1 DEF Only
      <4>4. CASE p # q
        BY <1>12, <3>2, <4>1, <4>4 DEF Only
      <4> QED BY <4>3, <4>4
    <3> QED BY <3>0, <3>1, <3>3, <3>4 DEF Appended
  <2>11. CASE CountEarly
    BY <1>5, <2>1, <2>11, CountEarlyIs DEF deliveryVars, Only
  <2>10. CASE TrimQueued
    <3>1. GiveUp(early, IF early = <<>> THEN 0 ELSE 1) /\ queueReport.at = "trim" /\ Fine
      BY <2>1, <2>10 DEF TrimQueued
    <3>2. Len(early) <= MaxEarly + 1
      <4>1. Len(early) <= MaxEarly + Surplus /\ Surplus = 1
        BY <3>1 DEF TypeOK, Surplus, MakingRoom
      <4> QED BY <4>1
    <3>3. WaitingReports(p)' = <<>> \/ WaitingReports(p)' = WaitingReports(p)
      BY <1>1, <3>1, <3>2, TrimEffect
    <3> QED BY <1>3, <1>12, <3>1, <3>3 DEF Only
  <2>4. ASSUME NEW q \in Ids, NEW from \in {"own", "other"}, NEW error \in BOOLEAN,
               HearRouting(q, from, error)
        PROVE  Only(WaitingReports(p)') \/ (UNCHANGED early /\ Fine)
    <3>0. PICK r \in Reports : r = AckEvent(from, error)
      BY DEF AckEvent, Reports, RoutingEvents
    <3>1. CASE UNCHANGED deliveryVars
      BY <2>1, <3>1 DEF deliveryVars
    <3>2. CASE IsStored(q) /\ status' = Advanced(q, r) /\ UNCHANGED <<early, lost>>
      <4>1. status[p] # NoStatus
        BY <1>1, <3>2, AdvancedTyped DEF IsStored
      <4> QED BY <2>1, <3>2, <4>1
    <3>3. CASE ~IsStored(q) /\ KeepEarly(q, r) /\ UNCHANGED status
      <4>1. Fine /\ q # p
        BY <2>1, <3>3 DEF IsStored
      <4>2. Len(early) <= MaxEarly
        BY <2>4, NobodyIs, RoomThere DEF HearRouting, Hears
      <4> QED BY <1>7, <3>3, <4>1, <4>2
    <3> QED BY <2>4, <3>0, <3>1, <3>2, <3>3 DEF HearRouting, SetStatus
  <2>5. CASE FindOwn
    BY <1>5, <2>1, <2>5 DEF FindOwn
  <2>6. CASE \E q \in Ids, report \in QueueEvents : HearQueueStatus(q, report)
    BY <1>5, <2>1, <2>6 DEF HearQueueStatus, deliveryVars
  <2>7. CASE \E r \in Requests : HearAnswer(r)
    BY <1>5, <2>1, <2>7 DEF HearAnswer, deliveryVars
  <2>8. CASE \E q \in Ids, from \in {"own", "other"}, error \in BOOLEAN : HearRouting(q, from, error)
    BY <1>5, <2>4, <2>8 DEF Only
  <2> QED BY <1>9, <2>2, <2>3, <2>5, <2>6, <2>7, <2>8, <2>9, <2>10, <2>11 DEF Reader
<1>10. CASE ListRequests \/ UNCHANGED vars
  <2>1. UNCHANGED <<pc, status, early>>
    BY <1>10 DEF ListRequests, deliveryVars, senderVars, vars
  <2> QED BY <1>5, <2>1
<1>11. CASE Recapture \/ Restart
  BY <1>6, <1>11 DEF Recapture, DropEarly, Restart
<1> QED BY <1>8, <1>9, <1>10, <1>11 DEF Next

(* An ack or a nak never waits on for a text whose sender has looked       *)
(* through what waited: the lock leaves no moment in which the two miss    *)
(* each other (upstream.py:207-217, 806-812).                              *)
THEOREM AcksNeverStranded == Spec => []AcksNotStranded
<1>1. Init => AcksNotStranded
  BY DEF Init, DeliveryInit, AcksNotStranded, IsStored
<1>2. ReportsInv /\ AcksNotStranded /\ [Next]_vars => AcksNotStranded'
  BY StrandedStep
<1> QED BY <1>1, <1>2, ReportsAlways, PTL DEF Spec

(* An answered request stays answered, and an answer is taken by a request *)
(* that was acknowledged or refused before (db.py open_exchange).          *)
THEOREM AnswerAlwaysSettles == Spec => AnswerSettles
<1> DEFINE Settles(r) ==
        /\ exchange[r] = "answered" => exchange'[r] = "answered"
        /\ HearAnswer(r) /\ exchange[r] \in {"sent", "failed"} => exchange'[r] = "answered"
<1>1. ReportsInv /\ [Next]_vars => [\A r \in Requests : Settles(r)]_vars
  <2> SUFFICES ASSUME ReportsInv, [Next]_vars, NEW r \in Requests
               PROVE  Settles(r)
    OBVIOUS
  <2>1. /\ exchange \in [Requests -> {NoExchange, "sent", "failed", "answered", "expired"}]
        /\ pc[r] \in {"idle", "aired"} => exchange[r] = NoExchange
    BY DEF ReportsInv, TypeOK, ExchangeTypeOK, RequestInv
  <2>2. HearAnswer(r) /\ exchange[r] \in {"sent", "failed"} => exchange'[r] = "answered"
    BY <2>1 DEF HearAnswer, Open, Resolve
  <2>3. ASSUME exchange[r] = "answered"
        PROVE  exchange'[r] = "answered"
    <3>1. ~RowDue(r)
      BY <2>1, <2>3 DEF RowDue, NoExchange
    <3>2. ASSUME NEW x \in Requests, LogRequest(x)
          PROVE  exchange'[r] = "answered"
      BY <2>1, <2>3, <3>1, <3>2 DEF LogRequest, LogExchange
    <3>3. ASSUME NEW x \in Ids, NEW from, NEW error, HearRouting(x, from, error)
          PROVE  exchange'[r] = "answered"
      BY <2>1, <2>3, <3>3 DEF HearRouting, RoutingForExchange, Open, Resolve
    <3>4. ASSUME NEW x \in Requests, HearAnswer(x)
          PROVE  exchange'[r] = "answered"
      BY <2>1, <2>3, <3>4 DEF HearAnswer, Open, Resolve
    <3>5. CASE ListRequests
      BY <2>1, <2>3, <3>5 DEF ListRequests, Expire
    <3>6. CASE UNCHANGED exchange
      BY <2>3, <3>6
    <3> QED BY <3>2, <3>3, <3>4, <3>5, <3>6
            DEF Next, Sender, Air, DropUnsent, StoreText, TakeEarly, LogTaken, AdvanceTaken,
                AllTaken, Reader, HearQueueStatus, FindOwn, AdvanceQueued, KeepQueued, AppendQueued,
                CountEarly, TrimQueued, Recapture,
                Restart, vars
  <2> QED BY <2>2, <2>3
<1> QED BY <1>1, ReportsAlways, PTL DEF Spec, AnswerSettles
=============================================================================
