---------------------------- MODULE MessageStore ----------------------------
(***************************************************************************)
(* The part of db.py every delivery decision rests on: the table of stored *)
(* text packets, numbered by SQLite's AUTOINCREMENT, and the table of      *)
(* client cursors.  Both are guarded by one lock, so every statement is    *)
(* one atomic step; statements of one method that take the lock twice are  *)
(* two steps in the modules that use them.                                 *)
(*                                                                         *)
(* Definitions marked "fault" are slips the properties have to catch; no   *)
(* action uses them.                                                       *)
(***************************************************************************)
EXTENDS Integers, FiniteSetsExt

CONSTANTS
    Keys,         \* client keys: how a returning app is recognised
    MeshPackets,  \* identities (from_num, packet_id) of texts from other nodes
    AppPackets    \* identities of texts sent by apps or by the web UI

ASSUME StoreAssumption ==
    /\ IsFiniteSet(Keys)
    /\ {"mesh", "webui"} \cap Keys = {}
    /\ MeshPackets \cap AppPackets = {}

VARIABLES
    rows,         \* table packets
    lastSeq,      \* the highest number AUTOINCREMENT has handed out
    lastSeen      \* clients.last_seq by key, NoRow for a key without a row

storeVars == <<rows, lastSeq, lastSeen>>

Packets == MeshPackets \cup AppPackets
Origins == Keys \cup {"mesh", "webui"}   \* "mesh" stands for a NULL origin

NoRow == -1   \* the clients table has no row for the key
NoSeq == 0    \* seq None: the frame is not a newly stored message

Larger(a, b) == IF a >= b THEN a ELSE b

(* fresh: rx_time is inside the replay's age window. *)
Row == [seq: Nat \ {0}, pkt: Packets, origin: Origins, fresh: BOOLEAN]

StoreInit ==
    /\ rows = {}
    /\ lastSeq = 0
    /\ lastSeen = [k \in Keys |-> NoRow]

StoreTypeOK ==
    /\ rows \subseteq Row
    /\ lastSeq \in Nat
    /\ lastSeen \in [Keys -> Nat \cup {NoRow}]

-----------------------------------------------------------------------------
(* INSERT OR IGNORE on the unique (from_num, packet_id). *)
Stored(p) == \E r \in rows : r.pkt = p

SeqReused   == Max({0} \cup {r.seq : r \in rows}) + 1      \* fault: no AUTOINCREMENT

NextSeq == lastSeq + 1

Insert(p, o) ==
    /\ rows' = rows \cup {[seq |-> NextSeq, pkt |-> p, origin |-> o, fresh |-> TRUE]}
    /\ lastSeq' = NextSeq

FoundAnew(k) == 0                                          \* fault: INSERT OR REPLACE

(* The row as get_or_create_client leaves it. *)
FoundOrCreated(k) == IF lastSeen[k] = NoRow THEN 0 ELSE lastSeen[k]

MovedBlindly(K, n) ==                                      \* fault: no MAX
    [k \in Keys |-> IF k \in K /\ lastSeen[k] # NoRow THEN n ELSE lastSeen[k]]
MovedAll(K, n) ==                                          \* fault: no WHERE
    [k \in Keys |-> IF lastSeen[k] # NoRow THEN Larger(lastSeen[k], n) ELSE lastSeen[k]]
MovedUpserting(K, n) ==                                    \* fault: creates the row
    [k \in Keys |-> IF k \in K THEN Larger(lastSeen[k], n) ELSE lastSeen[k]]

(* UPDATE clients SET last_seq = MAX(last_seq, n): nothing without a row. *)
Moved(K, n) ==
    [k \in Keys |-> IF k \in K /\ lastSeen[k] # NoRow
                    THEN Larger(lastSeen[k], n) ELSE lastSeen[k]]

(* The rows count_after and packets_after agree on, as their numbers. *)
Backlog(after, excluded) ==
    {r.seq : r \in {q \in rows : q.seq > after /\ q.fresh /\ q.origin \notin excluded}}

SliceOldest(S, limit, offset) ==                           \* fault: no OFFSET
    {n \in S : Cardinality({m \in S : m < n}) < limit}

(* ORDER BY seq ASC LIMIT limit OFFSET offset. *)
Slice(S, limit, offset) ==
    {n \in S : Cardinality({m \in S : m < n}) \in offset .. offset + limit - 1}

(* The retention job deletes rows by their rx_time, a clock other nodes    *)
(* set: any row may be the one that is too old.                            *)
Prune ==
    /\ \E S \in SUBSET rows : S # {} /\ rows' = rows \ S
    /\ UNCHANGED <<lastSeq, lastSeen>>

(* Time passes: a message leaves the replay's age window. *)
Age ==
    /\ \E r \in rows : r.fresh /\ rows' = (rows \ {r}) \cup {[r EXCEPT !.fresh = FALSE]}
    /\ UNCHANGED <<lastSeq, lastSeen>>

(* DELETE FROM packets, clients, sqlite_sequence. *)
ClearData ==
    /\ rows' = {}
    /\ lastSeq' = 0
    /\ lastSeen' = [k \in Keys |-> NoRow]

(* UPDATE clients SET last_seq = 0. *)
ResetCursor(k) ==
    /\ lastSeen[k] # NoRow
    /\ lastSeen' = [lastSeen EXCEPT ![k] = 0]
    /\ UNCHANGED <<rows, lastSeq>>
=============================================================================
