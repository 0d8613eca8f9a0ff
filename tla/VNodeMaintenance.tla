-------------------------- MODULE VNodeMaintenance --------------------------
(***************************************************************************)
(* VNodeServer together with the two maintenance actions of the web UI     *)
(* that reach into its cursors (web/system.py): "Clear data", which runs   *)
(* clear_data in a worker thread and then drops every app on the event     *)
(* loop, and "Reset cursor".                                               *)
(***************************************************************************)
EXTENDS VNodeServer

CONSTANTS
    MaxClears,   \* bound: how often the stored data may be cleared
    MaxResets    \* bound: how often a cursor may be reset

ASSUME MaintenanceAssumption == {MaxClears, MaxResets} \subseteq Nat

VARIABLES
    wiper,    \* the clear request: "idle", or "cleared" until the loop resumes it
    clears,   \* clears so far
    resets,   \* resets so far
    rewound   \* history: keys reset while no handler of theirs ran, since their last connect

mvars == <<vars, wiper, clears, resets, rewound>>

MInit ==
    /\ Init
    /\ wiper = "idle"
    /\ clears = 0
    /\ resets = 0
    /\ rewound = {}

(* Worker: clear_data.  The history starts over with the numbering. *)
Clear ==
    /\ wiper = "idle"
    /\ clears < MaxClears
    /\ clears' = clears + 1
    /\ wiper' = "cleared"
    /\ ClearData
    /\ handed' = [k \in Keys |-> {}]
    /\ reached' = [k \in Keys |-> {}]
    /\ skipped' = [k \in Keys |-> {}]
    /\ UNCHANGED <<threadVars, captured, sessionVars, budget, wrote, resets, rewound>>

PostWiper ==
    /\ wiper = "cleared"
    /\ ~Queued("wiper")
    /\ PostTo("wiper", NoSeq)
    /\ UNCHANGED <<storeVars, reader, web, captured, sessionVars, budget, histVars,
                   wiper, clears, resets, rewound>>

(* Taken out of the client list at once; the handlers run on until they    *)
(* next read from the closed connection.                                   *)
DisconnectAll ==
    /\ wiper = "cleared"
    /\ Take("wiper")
    /\ wiper' = "idle"
    /\ clients' = {}
    /\ open' = [c \in Conns |-> c \notin clients /\ open[c]]
    /\ UNCHANGED <<storeVars, reader, web, captured, pc, live, cursor, pending, offset,
                   todo, last, own, budget, histVars, clears, resets, rewound>>

Reset(k) ==
    /\ resets < MaxResets
    /\ resets' = resets + 1
    /\ ResetCursor(k)
    /\ rewound' = IF \E c \in Conns : KeyOf[c] = k /\ pc[c] # "off" THEN rewound \ {k}
                  ELSE rewound \cup {k}
    /\ UNCHANGED <<threadVars, captured, sessionVars, budget, histVars, wiper, clears>>

(* A restart also ends a clear request that had not been resumed. *)
MRestart == Restart /\ wiper' = "idle" /\ UNCHANGED <<clears, resets, rewound>>

Served ==
    /\ Running
    /\ rewound' = rewound \ {k \in Keys : \E c \in Conns : KeyOf[c] = k /\ LookUp(c)}
    /\ UNCHANGED <<wiper, clears, resets>>

MNext ==
    \/ Served \/ MRestart
    \/ Clear \/ PostWiper \/ DisconnectAll
    \/ \E k \in Keys : Reset(k)

MSpec == MInit /\ [][MNext]_mvars

-----------------------------------------------------------------------------
(* While cleared data waits for the apps to be dropped, nothing a live     *)
(* session is still given revives its deleted cursor row.                  *)
ClearedRowsStayGone ==
    [][\A k \in Keys :
        lastSeen[k] = NoRow /\ lastSeen'[k] # NoRow => \E c \in Conns : LookUp(c)]_mvars

(* No connect, delivery, send or crash takes a cursor back, only a clear   *)
(* or a reset does.                                                        *)
OnlyMaintenanceRewinds ==
    [][\A k \in Keys : lastSeen'[k] < lastSeen[k] => clears' # clears \/ resets' # resets]_mvars

(* Resetting the cursor of an app that is not here rewinds it "so the next *)
(* connect replays everything": nothing that happens before that connect   *)
(* moves it on again (web/system.py:119).                                  *)
ResetHoldsWhileAway ==
    [][\A c \in Conns : LookUp(c) /\ KeyOf[c] \in rewound => cursor'[c] = 0]_mvars

(* A session disconnect_all took out of the client list moves no cursor.   *)
DroppedMoveNoCursor ==
    [][\A c \in Conns \ clients : GoLive(c) => lastSeen' = lastSeen]_mvars
=============================================================================
