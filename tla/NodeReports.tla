---------------------------- MODULE NodeReports -----------------------------
(***************************************************************************)
(* How what we transmit and what the node says about it find each other    *)
(* (upstream.py).  A sender thread transmits and stores a text, or         *)
(* transmits and logs a request, in an order that depends on who asked.    *)
(* The reader thread hears the node's queue status and the mesh's acks and *)
(* answers, and looks for the row they are about.  _store_packet holds the *)
(* database lock over everything it does with one packet, so a routing     *)
(* packet or an answer is one step; a queue status is handled outside that *)
(* lock, one statement at a time.                                          *)
(***************************************************************************)
EXTENDS DeliveryStatus, Exchanges, FiniteSetsExt

CONSTANTS
    Mixes,        \* bound: which packets are sent together, some choices
    MaxReports,   \* bound: reports the node makes, on all packets together
    MaxRestarts   \* bound: how often the process dies

Ids == Texts \cup Requests

ASSUME ReportsAssumption ==
    /\ Texts \cap Requests = {} /\ "nobody" \notin Ids
    /\ Mixes \subseteq SUBSET Ids
    /\ {MaxReports, MaxRestarts} \subseteq Nat

VARIABLES
    pc,         \* where the thread that sends a packet is
    applying,   \* _apply_early_status: reports popped and not applied yet
    onAir,      \* packets handed to the node
    queueReport,\* the queue status the reader thread is at, or NoReport
    heard,      \* history: how many reports on a packet the reader took up
    strayed,    \* history: how many of them went into a list nobody reads any more
    restarts    \* how often the process died

senderVars == <<pc, applying, onAir>>
vars == <<deliveryVars, exchange, senderVars, queueReport, heard, strayed, restarts>>

QueueSteps == {"find", "keep", "append", "shared", "astray", "count", "trim", "advance"}

NoReport == [id |-> "nobody", report |-> "none", at |-> "idle"]

Pcs == {"idle", "aired", "stored", "applying", "applied", "leaving", "done"}

Init ==
    /\ DeliveryInit
    /\ ExchangeInit
    /\ \E sent \in Mixes : pc = [p \in Ids |-> IF p \in sent THEN "idle" ELSE "done"]
    /\ applying = [p \in Texts |-> <<>>]
    /\ onAir = {}
    /\ queueReport = NoReport
    /\ heard = [p \in Ids |-> 0]
    /\ strayed = [p \in Texts |-> 0]
    /\ restarts = 0

-----------------------------------------------------------------------------
(* The sender's thread.                                                    *)

FirstAirsAll == Ids                                   \* fault: everyone transmits first

(* The web UI sends through the library, which draws the id and transmits. *)
FirstAirs == WebTexts \cup WebRequests

Air(p) ==
    /\ \/ pc[p] = "idle" /\ p \in FirstAirs /\ pc' = [pc EXCEPT ![p] = "aired"]
       \/ pc[p] = "leaving" /\ pc' = [pc EXCEPT ![p] = "done"]
    /\ onAir' = onAir \cup {p}
    /\ UNCHANGED <<deliveryVars, exchange, applying, queueReport, heard, strayed, restarts>>

(* _send_upstream without a connection: the packet is dropped. *)
DropUnsent(p) ==
    /\ pc[p] = "leaving"
    /\ pc' = [pc EXCEPT ![p] = "done"]
    /\ UNCHANGED <<deliveryVars, exchange, applying, onAir, queueReport, heard, strayed, restarts>>

RowDue(p) == pc[p] = IF p \in FirstAirs THEN "aired" ELSE "idle"
After(p)  == IF p \in FirstAirs THEN "done" ELSE "leaving"

(* store_client_packet, up to the insert. *)
StoreText(p) ==
    /\ RowDue(p)
    /\ status' = [status EXCEPT ![p] = "pending"]
    /\ pc' = [pc EXCEPT ![p] = "stored"]
    /\ UNCHANGED <<evidence, early, lost, exchange, applying, onAir, queueReport, heard, strayed, restarts>>

(* The reader's statement goes on with the list it got, wherever that is. *)
ListMoves(p, from, to) ==
    queueReport' = IF queueReport.id = p /\ queueReport.at = from
                   THEN [queueReport EXCEPT !.at = to] ELSE queueReport

TakeEarly(p) ==
    /\ pc[p] = "stored"
    /\ PopEarly(p)
    /\ applying' = [applying EXCEPT ![p] = WaitingReports(p)]
    /\ pc' = [pc EXCEPT ![p] = "applying"]
    /\ IF Waiting(p) = {} THEN UNCHANGED queueReport ELSE ListMoves(p, "append", "shared")
    /\ UNCHANGED <<status, evidence, lost, exchange, onAir, heard, strayed, restarts>>

(* _set_status for one of them: log_delivery, then update_status. *)
LogTaken(p) ==
    /\ pc[p] = "applying"
    /\ applying[p] # <<>>
    /\ evidence' = Logged(p, Head(applying[p]))
    /\ pc' = [pc EXCEPT ![p] = "applied"]
    /\ UNCHANGED <<status, early, lost, exchange, applying, onAir, queueReport, heard, strayed, restarts>>

AdvanceTaken(p) ==
    /\ pc[p] = "applied"
    /\ status' = Advanced(p, Head(applying[p]))
    /\ applying' = [applying EXCEPT ![p] = Tail(@)]
    /\ pc' = [pc EXCEPT ![p] = "applying"]
    /\ UNCHANGED <<evidence, early, lost, exchange, onAir, queueReport, heard, strayed, restarts>>

AllTaken(p) ==
    /\ pc[p] = "applying"
    /\ applying[p] = <<>>
    /\ pc' = [pc EXCEPT ![p] = After(p)]
    /\ ListMoves(p, "shared", "astray")
    /\ UNCHANGED <<deliveryVars, exchange, applying, onAir, heard, strayed, restarts>>

LogRequest(r) ==
    /\ RowDue(r)
    /\ LogExchange(r)
    /\ pc' = [pc EXCEPT ![r] = After(r)]
    /\ UNCHANGED <<deliveryVars, applying, onAir, queueReport, heard, strayed, restarts>>

Sender ==
    \/ \E p \in Ids : Air(p) \/ DropUnsent(p)
    \/ \E p \in Texts : StoreText(p) \/ TakeEarly(p) \/ LogTaken(p) \/ AdvanceTaken(p) \/ AllTaken(p)
    \/ \E r \in Requests : LogRequest(r)

-----------------------------------------------------------------------------
(* The reader thread.                                                      *)

Hears(p) ==
    /\ queueReport = NoReport
    /\ p \in onAir
    /\ MapThenSumSet(LAMBDA q : heard[q], Ids) < MaxReports
    /\ heard' = [heard EXCEPT ![p] = @ + 1]

FindOwnUnlogged ==                                    \* fault: a queue status is not logged
    LET q == queueReport
    IN  /\ q.at = "find"
        /\ queueReport' = [q EXCEPT !.at = IF IsStored(q.id) THEN "advance" ELSE "keep"]
        /\ UNCHANGED <<deliveryVars, exchange, senderVars, heard, strayed, restarts>>

(* queueStatus: find_own_packet first. *)
HearQueueStatus(p, report) ==
    /\ Hears(p)
    /\ queueReport' = [id |-> p, report |-> report, at |-> "find"]
    /\ UNCHANGED <<deliveryVars, exchange, senderVars, strayed, restarts>>

FindOwn ==
    LET q == queueReport
    IN  /\ q.at = "find"
        /\ \/ /\ IsStored(q.id)
              /\ evidence' = Logged(q.id, q.report)
              /\ queueReport' = [q EXCEPT !.at = "advance"]
           \/ /\ ~IsStored(q.id)
              /\ queueReport' = [q EXCEPT !.at = "keep"]
              /\ UNCHANGED evidence
        /\ UNCHANGED <<status, early, lost, exchange, senderVars, heard, strayed, restarts>>

AdvanceQueued ==
    /\ queueReport.at = "advance"
    /\ status' = Advanced(queueReport.id, queueReport.report)
    /\ queueReport' = NoReport
    /\ UNCHANGED <<evidence, early, lost, exchange, senderVars, heard, strayed, restarts>>

(* setdefault: the list of an id that waits already, or a new one.         *)
KeepQueued ==
    /\ queueReport.at = "keep"
    /\ early' = IF Waiting(queueReport.id) # {} THEN early
                ELSE Append(early, [id |-> queueReport.id, reports |-> <<>>])
    /\ queueReport' = [queueReport EXCEPT !.at = "append"]
    /\ UNCHANGED <<status, evidence, lost, exchange, senderVars, heard, strayed, restarts>>

(* append: to a list that still waits or that recapture has thrown away,   *)
(* to one its sender walks, or to one its sender is done with.             *)
AppendQueued ==
    LET p == queueReport.id
    IN  /\ \/ /\ queueReport.at = "append"
              /\ Waiting(p) # {}
              /\ early' = With(p, queueReport.report)
              /\ UNCHANGED <<applying, lost, strayed>>
           \/ /\ queueReport.at = "append"
              /\ Waiting(p) = {}
              /\ lost' = [q \in Texts |-> IF q = p THEN lost[q] + 1 ELSE lost[q]]
              /\ UNCHANGED <<applying, early, strayed>>
           \/ /\ queueReport.at = "shared"
              /\ applying' = [applying EXCEPT ![p] = Append(@, queueReport.report)]
              /\ UNCHANGED <<early, lost, strayed>>
           \/ /\ queueReport.at = "astray"
              /\ strayed' = [strayed EXCEPT ![p] = @ + 1]
              /\ UNCHANGED <<applying, early, lost>>
        /\ queueReport' = [queueReport EXCEPT !.at = "count"]
        /\ UNCHANGED <<status, evidence, exchange, pc, onAir, heard, restarts>>

(* The condition of the loop after it. *)
CountEarly ==
    /\ queueReport.at = "count"
    /\ queueReport' = IF Over(early) > 0 THEN [queueReport EXCEPT !.at = "trim"] ELSE NoReport
    /\ UNCHANGED <<deliveryVars, exchange, senderVars, heard, strayed, restarts>>

(* pop(next(iter())), also when a sender has made the room meanwhile.  If  *)
(* it takes that very id, or recapture takes all, the pop fails and ends   *)
(* the loop with an exception, but gives up no other.                      *)
TrimQueued ==
    /\ queueReport.at = "trim"
    /\ GiveUp(early, IF early = <<>> THEN 0 ELSE 1)
    /\ queueReport' = NoReport
    /\ UNCHANGED <<status, evidence, exchange, senderVars, heard, strayed, restarts>>

(* _set_status under the lock of _store_packet's batch. *)
SetStatus(p, report) ==
    \/ /\ IsStored(p)
       /\ evidence' = Logged(p, report)
       /\ status' = Advanced(p, report)
       /\ UNCHANGED <<early, lost>>
    \/ /\ ~IsStored(p)
       /\ KeepEarly(p, report)
       /\ UNCHANGED <<status, evidence>>

HearRoutingUnlocked(p, from, error) ==                \* fault: no batch around it
    /\ Hears(p)
    /\ queueReport' = [id |-> p, report |-> AckEvent(from, error), at |-> "find"]
    /\ UNCHANGED <<deliveryVars, exchange, senderVars, strayed, restarts>>

(* _routing_for_exchange: an ack leaves a request open, an error ends it.  *)
RoutingForExchange(p, error) ==
    /\ Open(p)
    /\ \/ error /\ Resolve(p, "failed")
       \/ ~error /\ UNCHANGED exchange

(* _on_routing: what is not about an open request is about a text.         *)
HearRouting(p, from, error) ==
    /\ Hears(p)
    /\ \/ RoutingForExchange(p, error) /\ UNCHANGED deliveryVars
       \/ ~Open(p) /\ SetStatus(p, AckEvent(from, error)) /\ UNCHANGED exchange
    /\ UNCHANGED <<senderVars, queueReport, strayed, restarts>>

(* _note_exchange: the answer itself. *)
HearAnswer(r) ==
    /\ Hears(r)
    /\ \/ Open(r) /\ Resolve(r, "answered")
       \/ ~Open(r) /\ UNCHANGED exchange
    /\ UNCHANGED <<deliveryVars, senderVars, queueReport, strayed, restarts>>

Reader ==
    \/ \E p \in Ids, report \in QueueEvents : HearQueueStatus(p, report)
    \/ FindOwn \/ AdvanceQueued \/ KeepQueued \/ AppendQueued \/ CountEarly \/ TrimQueued
    \/ \E p \in Ids, from \in {"own", "other"}, error \in BOOLEAN : HearRouting(p, from, error)
    \/ \E r \in Requests : HearAnswer(r)

-----------------------------------------------------------------------------
(* The web UI lists the requests, which writes off the old ones. *)
ListRequests ==
    /\ \E r \in Requests : Expire(r)
    /\ UNCHANGED <<deliveryVars, senderVars, queueReport, heard, strayed, restarts>>

(* recapture, part of Clear data. *)
Recapture ==
    /\ early # <<>>
    /\ DropEarly
    /\ UNCHANGED <<status, evidence, exchange, senderVars, queueReport, heard, strayed, restarts>>

(* The process dies: threads and _early_status are gone. *)
Restart ==
    /\ restarts < MaxRestarts
    /\ restarts' = restarts + 1
    /\ pc' = [p \in Ids |-> IF pc[p] = "idle" THEN "idle" ELSE "done"]
    /\ applying' = [p \in Texts |-> <<>>]
    /\ queueReport' = NoReport
    /\ early' = <<>>
    /\ lost' = [p \in Texts |-> heard[p] - Len(evidence[p]) - strayed[p]]
    /\ UNCHANGED <<status, evidence, exchange, onAir, heard, strayed>>

Next == Sender \/ Reader \/ ListRequests \/ Recapture \/ Restart

Spec == Init /\ [][Next]_vars

-----------------------------------------------------------------------------
(* From setdefault to the loop that makes room there may be one too many. *)
MakingRoom == {"append", "count", "trim"}

Surplus == IF queueReport.at \in MakingRoom THEN 1 ELSE 0

TypeOK ==
    /\ DeliveryTypeOK
    /\ early \in Seq([id: Ids, reports: Seq(Reports)])
    /\ Len(early) <= MaxEarly + Surplus
    /\ ExchangeTypeOK
    /\ pc \in [Ids -> Pcs]
    /\ applying \in [Texts -> Seq(Reports)]
    /\ onAir \subseteq Ids
    /\ queueReport \in {NoReport} \cup
         [id: Ids, report: Reports, at: QueueSteps]
    /\ heard \in [Ids -> Nat]
    /\ strayed \in [Texts -> Nat]
    /\ restarts \in 0 .. MaxRestarts

Said(p) == {evidence[p][i] : i \in DOMAIN evidence[p]}

(* A status is never ahead of its evidence, not even after a crash between *)
(* the two writes: every tick the web UI shows has a line in the log.      *)
StatusBacked ==
    \A p \in Texts : status[p] \notin {NoStatus, "pending"}
        => \E report \in Said(p) : StatusOf[report] = status[p]

BeingSaid(p) ==
    \/ pc[p] = "applied"
    \/ queueReport.id = p /\ queueReport.at = "advance"

(* Whatever the order in which two threads log and apply their reports, in *)
(* the end a confirmed text is delivered, a text that was refused by the   *)
(* node or the mesh is failed unless an ack followed, and a text anything  *)
(* was said of is pending no more.  It claims nothing of a process that    *)
(* died: a report logged just before (upstream.py:218) never reaches the   *)
(* status (restarts = 0).                                                  *)
EvidenceReflected ==
    \A p \in Texts : restarts = 0 /\ ~BeingSaid(p) =>
        /\ "ack" \in Said(p) => status[p] = "delivered"
        /\ Said(p) \cap {"refused", "nak"} # {} => status[p] \in {"failed", "relayed", "delivered"}
        /\ "implicit_ack" \in Said(p) => status[p] \notin {"pending", "sent"}
        /\ Said(p) # {} => status[p] # "pending"

(* "A late 'sent' must never overwrite 'delivered'": no step takes back    *)
(* what was confirmed, and a failure is only undone by an ack.             *)
NoStepBack ==
    [][\A p \in Texts :
        /\ status[p] = "delivered" => status'[p] = "delivered"
        /\ status[p] = "failed" => status'[p] \in {"failed", "relayed", "delivered"}
        /\ status[p] = "relayed" => status'[p] \notin {"pending", "sent"}]_vars

(* Where the reader has the report in hand. *)
InHand == {"find", "keep", "append", "shared", "astray"}

Held(p) ==
    Len(applying[p]) - (IF pc[p] = "applied" THEN 1 ELSE 0)
      + (IF queueReport.id = p /\ queueReport.at \in InHand THEN 1 ELSE 0)

(* The text is stored and the reports that waited for it were taken. *)
LookedThrough(p) == IsStored(p) /\ pc[p] \in {"applying", "applied", "leaving", "done"}

(* Each report on a text is logged once: it is in the log, waits, is in    *)
(* some thread's hands, was given up by _early_status, or the race of a    *)
(* queue status with its message's insert cost it.  That race leaves a     *)
(* text at most one report short, put aside after the text looked for it   *)
(* or added to the list after the text had walked it.                      *)
EveryReportOnce ==
    \A p \in Texts :
        /\ Len(evidence[p]) + Len(WaitingReports(p)) + Held(p) + lost[p] + strayed[p] = heard[p]
        /\ strayed[p] + (IF LookedThrough(p) THEN Len(WaitingReports(p)) ELSE 0) <= 1

(* What an app sends is in the database before the node gets it, so the    *)
(* reports on its text never have to wait and no answer to its request is  *)
(* too early for the log (vnode_server.py:326-340).                        *)
AppsNeverEarly ==
    /\ \A p \in AppTexts : Waiting(p) = {}
    /\ onAir \cap AppRequests \subseteq {r \in Requests : exchange[r] # NoExchange}

(* An ack or nak that had to wait is applied by the send it waited for:    *)
(* the lock leaves no moment in which both miss each other.                *)
AcksNotStranded ==
    \A p \in Texts : pc[p] \in {"applying", "applied", "leaving", "done"} /\ IsStored(p) =>
        \A i \in DOMAIN WaitingReports(p) : WaitingReports(p)[i] \in QueueEvents

(* No report waits for a message that has been stored and looked through. *)
NothingStranded ==
    \A p \in Texts : pc[p] = "done" /\ IsStored(p) => Waiting(p) = {}

(* An answered request stays answered, whatever comes in late or twice,    *)
(* and one that was acknowledged or refused first still takes its answer.  *)
AnswerSettles ==
    [][\A r \in Requests :
        /\ exchange[r] = "answered" => exchange'[r] = "answered"
        /\ HearAnswer(r) /\ exchange[r] \in {"sent", "failed"} => exchange'[r] = "answered"]_vars
=============================================================================
