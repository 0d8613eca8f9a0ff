--------------------------- MODULE DeliveryStatus ---------------------------
(***************************************************************************)
(* What the node says about a text we sent: the status and delivery_log    *)
(* columns of db.py, and the reports upstream.py keeps aside because they  *)
(* came before their message was stored.                                   *)
(*                                                                         *)
(* Definitions marked "fault" are slips the properties have to catch; no   *)
(* action uses them.                                                       *)
(***************************************************************************)
EXTENDS Integers, Sequences

CONSTANTS
    WebTexts,    \* packet ids of texts sent from the web UI: transmitted, then stored
    AppTexts,    \* packet ids of texts sent by apps: stored, then transmitted
    MaxEarly     \* how many ids _early_status holds

ASSUME DeliveryAssumption ==
    /\ WebTexts \cap AppTexts = {}
    /\ MaxEarly \in Nat \ {0}

VARIABLES
    status,    \* packets.status by text, NoStatus without a row
    evidence,  \* delivery_log by text, oldest first
    early,     \* _early_status, in the order of its keys
    lost       \* history: how many reports on a text _early_status gave up

deliveryVars == <<status, evidence, early, lost>>

Texts == WebTexts \cup AppTexts

NoStatus == "none"
Statuses == {"pending", "sent", "relayed", "delivered", "failed"}
Rank == [pending |-> 0, sent |-> 1, relayed |-> 2, delivered |-> 3]

(* What a report is called in the delivery log, and the status it asks for. *)
QueueEvents   == {"queued", "refused"}
RoutingEvents == {"ack", "implicit_ack", "nak"}
Reports       == QueueEvents \cup RoutingEvents

AckEventOfAny(from, error) == IF error THEN "nak" ELSE "ack"    \* fault: our own ack confirms

(* delivery_status: an ack from our own node only says the mesh has it. *)
AckEvent(from, error) ==
    IF error THEN "nak" ELSE IF from = "own" THEN "implicit_ack" ELSE "ack"

StatusOf == [queued |-> "sent", refused |-> "failed",
             ack |-> "delivered", implicit_ack |-> "relayed", nak |-> "failed"]

AdvancesAlways(current, new)  == TRUE                   \* fault: the latest report wins
AdvancesByRank(current, new)  ==                        \* fault: a failure is for ever
    /\ current \notin {"delivered", "failed"}
    /\ new = "failed" \/ Rank[new] > Rank[current]

(* update_status: a failure wins over anything short of delivered, and     *)
(* only a real ack undoes it.                                              *)
Advances(current, new) ==
    \/ new = "failed" /\ current # "delivered"
    \/ current = "failed" /\ new \in {"relayed", "delivered"}
    \/ current # "failed" /\ new # "failed" /\ Rank[new] > Rank[current]

IsStored(p) == p \in Texts /\ status[p] # NoStatus

Advanced(p, report) ==
    IF Advances(status[p], StatusOf[report])
    THEN [status EXCEPT ![p] = StatusOf[report]] ELSE status

Logged(p, report) == [evidence EXCEPT ![p] = Append(@, report)]

-----------------------------------------------------------------------------
(* The reports that wait for their message.                                *)

Waiting(p) == {i \in DOMAIN early : early[i].id = p}

WaitingReports(p) == IF Waiting(p) = {} THEN <<>> ELSE early[CHOOSE i \in Waiting(p) : TRUE].reports

With(p, report) ==
    IF Waiting(p) = {} THEN Append(early, [id |-> p, reports |-> <<report>>])
    ELSE [i \in DOMAIN early |-> IF i \in Waiting(p)
                                 THEN [early[i] EXCEPT !.reports = Append(@, report)] ELSE early[i]]

OverLate(all) ==                                        \* fault: off by one
    IF Len(all) > MaxEarly + 1 THEN Len(all) - MaxEarly ELSE 0

(* How many ids of them are too many. *)
Over(all) == IF Len(all) > MaxEarly THEN Len(all) - MaxEarly ELSE 0

(* The n ids that have waited longest are given up. *)
GiveUp(all, n) ==
    /\ early' = SubSeq(all, n + 1, Len(all))
    /\ lost' = [q \in Texts |->
                  IF \E i \in 1 .. n : all[i].id = q
                  THEN lost[q] + Len(all[CHOOSE i \in 1 .. n : all[i].id = q].reports)
                  ELSE lost[q]]

(* One report more, and room made for it. *)
KeepEarly(p, report) ==
    LET all == With(p, report)
    IN  GiveUp(all, Over(all))

PeekEarly(p) == UNCHANGED early                         \* fault: get for pop

(* _early_status.pop(p, []) *)
PopEarly(p) ==
    \/ Waiting(p) = {} /\ UNCHANGED early
    \/ \E i \in Waiting(p) : early' = SubSeq(early, 1, i - 1) \o SubSeq(early, i + 1, Len(early))

DropEarly ==
    /\ early' = <<>>
    /\ lost' = [q \in Texts |-> lost[q] + Len(WaitingReports(q))]

DeliveryInit ==
    /\ status = [p \in Texts |-> NoStatus]
    /\ evidence = [p \in Texts |-> <<>>]
    /\ early = <<>>
    /\ lost = [p \in Texts |-> 0]

DeliveryTypeOK ==
    /\ status \in [Texts -> Statuses \cup {NoStatus}]
    /\ evidence \in [Texts -> Seq(Reports)]
    /\ lost \in [Texts -> Nat]
=============================================================================
