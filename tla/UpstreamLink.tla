---------------------------- MODULE UpstreamLink -----------------------------
(***************************************************************************)
(* The one connection to the real node, and everything that cuts it short: *)
(* a supervisor thread dials and watches, the web UI's worker threads move *)
(* its target, an app's change of the node's settings arms a timer that    *)
(* asks for a fresh handshake, the process stops, the node goes away.      *)
(*                                                                         *)
(* The fields of Upstream are shared by all of these threads without a     *)
(* lock, so one action is one load or store of a shared field, or one      *)
(* call that is atomic by itself (an Event, a preference).                 *)
(***************************************************************************)
EXTENDS Integers, FiniteSets

CONSTANTS
    Hosts, Ports,  \* what may be asked for as the node's address
    Own,           \* the addresses that reach this service's own listener
    Home,          \* VNodeApp.upstream_fallback
    Patches,       \* the PUT /api/prefs bodies that move the node
    Requests,      \* worker threads serving them
    Apps,          \* connected apps that may change the node's settings
    Budgets        \* how many times the environment may do each thing, mix by mix

Address == [host: Hosts, port: Ports]

Left == "left out"    \* a field the body does not name
Null == "null"        \* a field reset to the default

Untouched == [host |-> Left, port |-> Left]

Events == {"put", "change", "refuse", "lose", "resume", "clear", "stop"}

ASSUME LinkAssumption ==
    /\ {Left, Null} \cap (Hosts \cup Ports) = {}
    /\ Own \subseteq Address
    /\ Home \in Address
    /\ Patches \subseteq [host: Hosts \cup {Left, Null}, port: Ports \cup {Left, Null}]
    /\ Budgets \subseteq [Events -> Nat]

VARIABLES
    sup,         \* where _supervise is
    aim,         \* _supervise: host, port
    iface,       \* Upstream.iface is not None
    alive,       \* its socket is there and its reader thread runs
    connected,   \* Upstream.connected
    at,          \* Upstream.host, Upstream.port
    kick, stop,  \* Upstream._kick, Upstream._stop
    stopper      \* where Upstream.stop is

VARIABLES
    prefs,       \* stored upstream_host and upstream_port
    put,         \* where each request's thread is
    patch,       \* its body
    want,        \* retarget: its host, port
    seen         \* retarget: the host it compared

VARIABLES
    settings,    \* version of the node's settings
    snap,        \* the version the handshake under way carries
    resuming,    \* the library is re-reading the handshake on the same interface
    stored,      \* the version config_frames holds
    app,         \* where each app's admin message is
    armed,       \* _refresh_timer is waiting
    firing       \* _refresh_now saw the link up and has yet to kick

VARIABLES
    overlapped,  \* history: two requests have moved the node at the same time
    budget       \* what is left of the mix

linkVars == <<sup, aim, iface, alive, connected>>
putVars  == <<prefs, put, patch, want, seen, overlapped>>
confVars == <<settings, snap, resuming, stored, app, armed, firing>>
vars == <<linkVars, at, kick, stop, stopper, putVars, confVars, budget>>

SupPcs == {"top", "port", "check", "refused", "dial", "capture", "parked", "failed",
           "closing", "closed", "kicked", "wait", "clear", "ended"}
PutPcs == {"idle", "host", "port", "target", "load", "compare", "moveHost", "movePort", "kick"}
AppPcs == {"idle", "checked", "changed"}

Spend(e) == budget[e] > 0 /\ budget' = [budget EXCEPT ![e] = @ - 1]

IsOwn(a) == a \in Own

(* What the settings call for: the stored preference, or the environment.  *)
Filled(v, default) == IF v = Null THEN default ELSE v
UpstreamTarget == [host |-> Filled(prefs.host, Home.host), port |-> Filled(prefs.port, Home.port)]

(* What the body asks for: a field left out keeps the link's current one.  *)
Asked(p) ==
    [host |-> IF p.host = Left THEN at.host ELSE Filled(p.host, Home.host),
     port |-> IF p.port = Left THEN at.port ELSE Filled(p.port, Home.port)]

Init ==
    /\ prefs = [host |-> Null, port |-> Null]
    /\ at = Home /\ aim = Home
    /\ sup = "top" /\ iface = FALSE /\ alive = FALSE /\ connected = FALSE
    /\ kick = FALSE /\ stop = FALSE /\ stopper = "idle"
    /\ put = [w \in Requests |-> "idle"]
    /\ patch = [w \in Requests |-> Untouched]
    /\ want = [w \in Requests |-> Home]
    /\ seen = [w \in Requests |-> Home.host]
    /\ settings = 0 /\ snap = 0 /\ stored = -1 /\ resuming = FALSE
    /\ app = [a \in Apps |-> "idle"]
    /\ armed = FALSE /\ firing = FALSE
    /\ overlapped = FALSE
    /\ budget \in Budgets

-----------------------------------------------------------------------------
(* The supervisor thread.                                                  *)

Goes(from, to) == sup = from /\ sup' = to

ReadHost ==
    /\ ~stop
    /\ Goes("top", "port")
    /\ aim' = [aim EXCEPT !.host = at.host]
    /\ UNCHANGED <<iface, alive, connected, at, kick, stop, stopper, putVars, confVars, budget>>

ReadPort ==
    /\ Goes("port", "check")
    /\ aim' = [aim EXCEPT !.port = at.port]
    /\ UNCHANGED <<iface, alive, connected, at, kick, stop, stopper, putVars, confVars, budget>>

CheckLatest ==                       \* fault: not the address it is going to dial
    /\ sup = "check"
    /\ sup' = IF IsOwn(at) THEN "refused" ELSE "dial"
    /\ UNCHANGED <<aim, iface, alive, connected, at, kick, stop, stopper, putVars, confVars, budget>>

(* It must not connect to itself, whatever the two stores left behind. *)
CheckTarget ==
    /\ sup = "check"
    /\ sup' = IF IsOwn(aim) THEN "refused" ELSE "dial"
    /\ UNCHANGED <<aim, iface, alive, connected, at, kick, stop, stopper, putVars, confVars, budget>>

(* The TCP connection is up and the node starts to send its handshake.     *)
Dial ==
    /\ Goes("dial", "capture")
    /\ snap' = settings
    /\ UNCHANGED <<aim, iface, alive, connected, at, kick, stop, stopper, putVars,
                   settings, resuming, stored, app, armed, firing, budget>>

(* The node refuses, or does not answer, or the handshake breaks off.      *)
DialFails ==
    /\ sup \in {"dial", "capture"}
    /\ Spend("refuse")
    /\ sup' = "failed"
    /\ UNCHANGED <<aim, iface, alive, connected, at, kick, stop, stopper, putVars, confVars>>

ConnectedAfresh ==                   \* fault: a kick from before is forgotten
    /\ Goes("capture", "parked")
    /\ stored' = snap
    /\ iface' = TRUE /\ alive' = TRUE /\ connected' = TRUE
    /\ kick' = FALSE
    /\ UNCHANGED <<aim, at, stop, stopper, putVars, settings, snap, resuming, app, armed,
                   firing, budget>>

(* The handshake is complete and replaces config_frames, the constructor   *)
(* returns and connected is set: the few statements after the handshake    *)
(* are taken to be faster than the refresh timer's eight seconds.          *)
Connected ==
    /\ Goes("capture", "parked")
    /\ stored' = snap
    /\ iface' = TRUE /\ alive' = TRUE /\ connected' = TRUE
    /\ UNCHANGED <<aim, at, kick, stop, stopper, putVars, settings, snap, resuming, app,
                   armed, firing, budget>>

UnparkOnLoss ==                      \* fault: only the socket is watched
    /\ Goes("parked", "failed")
    /\ ~alive
    /\ UNCHANGED <<aim, iface, alive, connected, at, kick, stop, stopper, putVars, confVars, budget>>

UnparkDeaf ==                        \* fault: the kick is not watched
    /\ Goes("parked", "failed")
    /\ stop \/ ~alive
    /\ UNCHANGED <<aim, iface, alive, connected, at, kick, stop, stopper, putVars, confVars, budget>>

(* Once a second it looks for a reason to leave. *)
Unpark ==
    /\ Goes("parked", "failed")
    /\ stop \/ kick \/ ~alive
    /\ UNCHANGED <<aim, iface, alive, connected, at, kick, stop, stopper, putVars, confVars, budget>>

CloseBeforeClear ==                  \* fault: the interface goes first
    /\ Goes("failed", "closing")
    /\ iface' = FALSE /\ alive' = FALSE
    /\ UNCHANGED <<aim, connected, at, kick, stop, stopper, putVars, confVars, budget>>

(* finally: connected goes first, so that an app's packet finds no gap. *)
ClearConnected ==
    /\ Goes("failed", "closing")
    /\ connected' = FALSE
    /\ UNCHANGED <<aim, iface, alive, at, kick, stop, stopper, putVars, confVars, budget>>

CloseIface ==
    /\ Goes("closing", "closed")
    /\ iface' = FALSE /\ alive' = FALSE /\ resuming' = FALSE
    /\ UNCHANGED <<aim, connected, at, kick, stop, stopper, putVars, settings, snap, stored,
                   app, armed, firing, budget>>

AfterClose ==
    /\ sup = "closed"
    /\ sup' = IF stop THEN "ended" ELSE IF kick THEN "kicked" ELSE "wait"
    /\ UNCHANGED <<aim, iface, alive, connected, at, kick, stop, stopper, putVars, confVars, budget>>

(* _kick.wait(t): the kick, or the time is up. *)
Waited ==
    /\ sup \in {"refused", "wait"}
    /\ sup' = "clear"
    /\ UNCHANGED <<aim, iface, alive, connected, at, kick, stop, stopper, putVars, confVars, budget>>

ClearKick ==
    /\ sup \in {"kicked", "clear"}
    /\ sup' = "top"
    /\ kick' = FALSE
    /\ UNCHANGED <<aim, iface, alive, connected, at, stop, stopper, putVars, confVars, budget>>

End ==
    /\ stop
    /\ Goes("top", "ended")
    /\ UNCHANGED <<aim, iface, alive, connected, at, kick, stop, stopper, putVars, confVars, budget>>

Supervisor ==
    \/ ReadHost \/ ReadPort \/ CheckTarget \/ Dial \/ Connected \/ Unpark
    \/ ClearConnected \/ CloseIface \/ AfterClose \/ Waited \/ ClearKick \/ End

-----------------------------------------------------------------------------
(* PUT /api/prefs: FastAPI runs each request in a worker thread.           *)

Step(w, from, to) == put[w] = from /\ put' = [put EXCEPT ![w] = to]

(* The request ends and its locals with it. *)
Return(w, from) ==
    /\ Step(w, from, "idle")
    /\ patch' = [patch EXCEPT ![w] = Untouched]
    /\ want' = [want EXCEPT ![w] = Home]
    /\ seen' = [seen EXCEPT ![w] = Home.host]

(* The body is turned down when what it asks for is the service itself.    *)
PutRefused(w, p) ==
    /\ put[w] = "idle"
    /\ Spend("put")
    /\ IsOwn(Asked(p))
    /\ UNCHANGED <<linkVars, at, kick, stop, stopper, putVars, confVars>>

PutAccepted(w, p) ==
    /\ Step(w, "idle", "host")
    /\ Spend("put")
    /\ ~IsOwn(Asked(p))
    /\ patch' = [patch EXCEPT ![w] = p]
    /\ overlapped' = (overlapped \/ \E x \in Requests \ {w} : put[x] # "idle")
    /\ UNCHANGED <<linkVars, at, kick, stop, stopper, prefs, want, seen, confVars>>

(* set_pref, once per field the body names. *)
StoreHost(w) ==
    /\ Step(w, "host", "port")
    /\ prefs' = IF patch[w].host = Left THEN prefs ELSE [prefs EXCEPT !.host = patch[w].host]
    /\ UNCHANGED <<linkVars, at, kick, stop, stopper, patch, want, seen, overlapped, confVars, budget>>

StorePort(w) ==
    /\ Step(w, "port", "target")
    /\ prefs' = IF patch[w].port = Left THEN prefs ELSE [prefs EXCEPT !.port = patch[w].port]
    /\ UNCHANGED <<linkVars, at, kick, stop, stopper, patch, want, seen, overlapped, confVars, budget>>

ReadTarget(w) ==
    /\ Step(w, "target", "load")
    /\ want' = [want EXCEPT ![w] = UpstreamTarget]
    /\ UNCHANGED <<linkVars, at, kick, stop, stopper, prefs, patch, seen, overlapped, confVars, budget>>

(* retarget: (host, port) == (self.host, self.port), a load at a time. *)
LoadHost(w) ==
    /\ Step(w, "load", "compare")
    /\ seen' = [seen EXCEPT ![w] = at.host]
    /\ UNCHANGED <<linkVars, at, kick, stop, stopper, prefs, patch, want, overlapped, confVars, budget>>

CompareHost(w) ==                    \* fault: a move to another port is no move
    /\ \/ want[w].host = seen[w] /\ Return(w, "compare")
       \/ /\ want[w].host # seen[w]
          /\ Step(w, "compare", "moveHost")
          /\ UNCHANGED <<patch, want, seen>>
    /\ UNCHANGED <<linkVars, at, kick, stop, stopper, prefs, overlapped, confVars, budget>>

Compare(w) ==
    /\ \/ want[w] = [host |-> seen[w], port |-> at.port] /\ Return(w, "compare")
       \/ /\ want[w] # [host |-> seen[w], port |-> at.port]
          /\ Step(w, "compare", "moveHost")
          /\ UNCHANGED <<patch, want, seen>>
    /\ UNCHANGED <<linkVars, at, kick, stop, stopper, prefs, overlapped, confVars, budget>>

MoveHost(w) ==
    /\ Step(w, "moveHost", "movePort")
    /\ at' = [at EXCEPT !.host = want[w].host]
    /\ UNCHANGED <<linkVars, kick, stop, stopper, prefs, patch, want, seen, overlapped, confVars, budget>>

MovePort(w) ==
    /\ Step(w, "movePort", "kick")
    /\ at' = [at EXCEPT !.port = want[w].port]
    /\ UNCHANGED <<linkVars, kick, stop, stopper, prefs, patch, want, seen, overlapped, confVars, budget>>

Kick(w) ==
    /\ Return(w, "kick")
    /\ kick' = TRUE
    /\ UNCHANGED <<linkVars, at, stop, stopper, prefs, overlapped, confVars, budget>>

Request(w) ==
    \/ StoreHost(w) \/ StorePort(w) \/ ReadTarget(w) \/ LoadHost(w) \/ Compare(w)
    \/ MoveHost(w) \/ MovePort(w) \/ Kick(w)

(* Clear data re-reads the node. *)
Recapture ==
    /\ Spend("clear")
    /\ kick' = TRUE
    /\ UNCHANGED <<linkVars, at, stop, stopper, putVars, confVars>>

-----------------------------------------------------------------------------
(* An app changes the node's settings, and the refresh that follows.       *)

AppStep(a, from, to) == app[a] = from /\ app' = [app EXCEPT ![a] = to]

(* _send_upstream, before the hop to a worker thread. *)
SendSetting(a) ==
    /\ AppStep(a, "idle", "checked")
    /\ Spend("change")
    /\ connected
    /\ UNCHANGED <<linkVars, at, kick, stop, stopper, putVars, settings, snap, resuming, stored,
                   armed, firing>>

(* Worker: the node takes the change ... *)
SettingTaken(a) ==
    /\ AppStep(a, "checked", "changed")
    /\ iface /\ alive
    /\ settings' = settings + 1
    /\ UNCHANGED <<linkVars, at, kick, stop, stopper, putVars, snap, resuming, stored,
                   armed, firing, budget>>

(* ... or the interface is gone by now, or its socket is. *)
SettingLost(a) ==
    /\ AppStep(a, "checked", "idle")
    /\ ~(iface /\ alive)
    /\ UNCHANGED <<linkVars, at, kick, stop, stopper, putVars, settings, snap, resuming, stored,
                   armed, firing, budget>>

RefreshOnce(a) ==                    \* fault: cancelled and not started again
    /\ AppStep(a, "changed", "idle")
    /\ armed' = ~armed
    /\ UNCHANGED <<linkVars, at, kick, stop, stopper, putVars, settings, snap, resuming, stored,
                   firing, budget>>

(* refresh_config_soon: a timer already waiting starts over. *)
RefreshSoon(a) ==
    /\ AppStep(a, "changed", "idle")
    /\ armed' = TRUE
    /\ UNCHANGED <<linkVars, at, kick, stop, stopper, putVars, settings, snap, resuming, stored,
                   firing, budget>>

(* _refresh_now, in the timer's thread. *)
TimerLooks ==
    /\ armed
    /\ armed' = FALSE
    /\ firing' = (firing \/ connected)
    /\ UNCHANGED <<linkVars, at, kick, stop, stopper, putVars, settings, snap, resuming, stored,
                   app, budget>>

TimerKicks ==
    /\ firing
    /\ firing' = FALSE
    /\ kick' = TRUE
    /\ UNCHANGED <<linkVars, at, stop, stopper, putVars, settings, snap, resuming, stored,
                   app, armed, budget>>

-----------------------------------------------------------------------------
(* The node, the library, and the end of the process.                      *)

(* The connection breaks and nothing picks it up by itself.                *)
Lose ==
    /\ alive
    /\ Spend("lose")
    /\ alive' = FALSE /\ resuming' = FALSE
    /\ UNCHANGED <<sup, aim, iface, connected, at, kick, stop, stopper, putVars,
                   settings, snap, stored, app, armed, firing>>

(* The library reconnects the same interface and asks for the handshake.   *)
Resume ==
    /\ alive /\ ~resuming
    /\ Spend("resume")
    /\ resuming' = TRUE
    /\ snap' = settings
    /\ UNCHANGED <<linkVars, at, kick, stop, stopper, putVars, settings, stored, app, armed, firing>>

Resumed ==
    /\ resuming
    /\ resuming' = FALSE
    /\ stored' = snap
    /\ UNCHANGED <<linkVars, at, kick, stop, stopper, putVars, settings, snap, app, armed,
                   firing, budget>>

StopStep(from, to) == stopper = from /\ stopper' = to

StopSet ==
    /\ StopStep("idle", "kick")
    /\ Spend("stop")
    /\ stop' = TRUE
    /\ UNCHANGED <<linkVars, at, kick, putVars, confVars>>

StopKick ==
    /\ StopStep("kick", "close")
    /\ kick' = TRUE
    /\ UNCHANGED <<linkVars, at, stop, putVars, confVars, budget>>

StopClose ==
    /\ StopStep("close", "done")
    /\ alive' = FALSE /\ resuming' = FALSE
    /\ UNCHANGED <<sup, aim, iface, connected, at, kick, stop, putVars, settings, snap,
                   stored, app, armed, firing, budget>>

-----------------------------------------------------------------------------
Threads ==
    \/ Supervisor
    \/ \E w \in Requests : Request(w)
    \/ \E a \in Apps : SettingTaken(a) \/ SettingLost(a) \/ RefreshSoon(a)
    \/ TimerLooks \/ TimerKicks \/ Resumed \/ StopKick \/ StopClose

Environment ==
    \/ DialFails \/ Recapture \/ Lose \/ Resume \/ StopSet
    \/ \E w \in Requests, p \in Patches : PutRefused(w, p) \/ PutAccepted(w, p)
    \/ \E a \in Apps : SendSetting(a)

Next == Threads \/ Environment

Spec == Init /\ [][Next]_vars

(* The operating system runs every thread that can run; a wait with a      *)
(* timeout ends, and a dial ends one way or the other.                     *)
FairSpec ==
    /\ Spec
    /\ WF_vars(Supervisor)
    /\ \A w \in Requests : WF_vars(Request(w))
    /\ \A a \in Apps : WF_vars(SettingTaken(a) \/ SettingLost(a) \/ RefreshSoon(a))
    /\ WF_vars(TimerLooks) /\ WF_vars(TimerKicks) /\ WF_vars(Resumed)
    /\ WF_vars(StopKick) /\ WF_vars(StopClose)

-----------------------------------------------------------------------------
(* It never connects to its own virtual node, although the address is      *)
(* moved a field at a time under it and two requests may each add one half *)
(* of it (upstream.py:253-257).                                            *)
NeverDialsItself == sup \in {"dial", "capture", "parked"} => ~IsOwn(aim)

(* Whoever sees the link up finds an interface to send through; the other  *)
(* order would lose an app's packet with an exception (upstream.py:290).   *)
ConnectedHasInterface == connected => iface

(* A handshake that misses a change of the settings is going to be         *)
(* replaced: the change is about to arm the timer, or has, or a kick is on *)
(* its way, or the link is on its way to a new handshake (vnode_server.py: *)
(* 416-420, upstream.py:311-331).                                          *)
RefreshDue ==
    (sup \in {"capture", "parked"} /\ (sup = "capture" \/ resuming) /\ snap # settings)
    \/ (sup = "parked" /\ alive /\ ~resuming /\ stored # settings)
    => armed \/ firing \/ kick \/ \E a \in Apps : app[a] = "changed"

(* As long as no two requests move the node at once, the link is where the *)
(* stored settings say when none is under way: where it will be after a    *)
(* restart (web/system.py:182-184).                                        *)
LinkFollowsPrefs == ~overlapped /\ (\A w \in Requests : put[w] = "idle") => at = UpstreamTarget

(* When the changes and the failures are over, the link settles on the     *)
(* address it was given last, unless it is stopped or that is itself.      *)
TargetReached == <>[](stop \/ IsOwn(at) \/ (sup = "parked" /\ alive /\ aim = at))

(* ... and the apps are given the node's present settings.                 *)
ConfigCatchesUp == <>[](stop \/ IsOwn(at) \/ stored = settings)

(* A stop ends the supervisor with the connection closed.                  *)
StopEnds == stop ~> (sup = "ended" /\ ~iface)
=============================================================================
