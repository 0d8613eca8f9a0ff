----------------------------- MODULE Exchanges ------------------------------
(***************************************************************************)
(* The requests to other nodes that wait for an answer (a traceroute, a    *)
(* position, telemetry, node info): table exchanges of db.py, rows with    *)
(* direction "out".                                                        *)
(***************************************************************************)
EXTENDS Integers

CONSTANTS
    WebRequests,  \* packet ids of requests from the web UI: transmitted, then logged
    AppRequests   \* packet ids of requests apps make: logged, then transmitted

ASSUME ExchangeAssumption == WebRequests \cap AppRequests = {}

VARIABLES exchange   \* exchanges.status by request, NoExchange without a row

Requests == WebRequests \cup AppRequests
NoExchange == "none"

OpenOnlySent(r) == r \in Requests /\ exchange[r] = "sent"    \* fault: a failure closes it
OpenForever(r)  == r \in Requests /\ exchange[r] # NoExchange \* fault: no status filter

(* open_exchange: a failed request still takes its answer. *)
Open(r) == r \in Requests /\ exchange[r] \in {"sent", "failed"}

ExchangeInit == exchange = [r \in Requests |-> NoExchange]

ExchangeTypeOK ==
    exchange \in [Requests -> {NoExchange, "sent", "failed", "answered", "expired"}]

LogExchange(r) == exchange' = [exchange EXCEPT ![r] = "sent"]

Resolve(r, outcome) == exchange' = [exchange EXCEPT ![r] = outcome]

(* expire_exchanges, for one request that has waited too long. *)
Expire(r) == exchange[r] = "sent" /\ exchange' = [exchange EXCEPT ![r] = "expired"]
=============================================================================
