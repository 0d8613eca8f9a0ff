------------------------- MODULE UpstreamLinkProofs --------------------------
(***************************************************************************)
(* What holds of the link to the node for every set of hosts, ports,       *)
(* bodies, requests and apps, and every address of the service itself:     *)
(* it does not dial itself, connected means an interface, a handshake that *)
(* misses a change is going to be replaced, and without two moves at once  *)
(* the link is where the stored settings say.                              *)
(***************************************************************************)
EXTENDS UpstreamLink, TLAPS

SupTypeOK ==
    /\ sup \in SupPcs
    /\ aim \in Address /\ at \in Address
    /\ iface \in BOOLEAN /\ alive \in BOOLEAN /\ connected \in BOOLEAN
    /\ kick \in BOOLEAN /\ stop \in BOOLEAN
    /\ stopper \in {"idle", "kick", "close", "done"}

PutTypeOK ==
    /\ prefs \in [host: Hosts \cup {Null}, port: Ports \cup {Null}]
    /\ put \in [Requests -> PutPcs]
    /\ patch \in [Requests -> Patches \cup {Untouched}]
    /\ want \in [Requests -> Address]
    /\ seen \in [Requests -> Hosts]
    /\ overlapped \in BOOLEAN

ConfTypeOK ==
    /\ settings \in Nat /\ snap \in Nat /\ stored \in Nat \cup {-1}
    /\ resuming \in BOOLEAN /\ armed \in BOOLEAN /\ firing \in BOOLEAN
    /\ app \in [Apps -> AppPcs]

LinkTypeOK ==
    /\ SupTypeOK
    /\ PutTypeOK
    /\ ConfTypeOK
    /\ budget \in [Events -> Nat]

(* Where the supervisor is says whether there is an interface, and an      *)
(* interface is needed for its socket, and that for a handshake over it.   *)
SessionInv ==
    /\ connected => sup \in {"parked", "failed"}
    /\ iface => sup \in {"parked", "failed", "closing"}
    /\ sup = "parked" => connected
    /\ connected => iface
    /\ alive => iface
    /\ resuming => alive

(* Nobody can change the settings of a node that is sending its first      *)
(* handshake: there is no interface to send through.                       *)
HandshakeInv == sup = "capture" => snap = settings

(* The supervisor ends only when it was told to.                           *)
EndInv == sup = "ended" => stop

(* How far a request that is alone in moving the link has brought it.      *)
MovingInv ==
    ~overlapped =>
        /\ \A w, x \in Requests : put[w] # "idle" /\ put[x] # "idle" => w = x
        /\ \A w \in Requests :
               /\ put[w] \in {"load", "compare", "moveHost", "movePort", "kick"}
                      => want[w] = UpstreamTarget
               /\ put[w] = "compare" => seen[w] = at.host
               /\ put[w] = "movePort" => at.host = want[w].host
               /\ put[w] = "kick" => at = UpstreamTarget

-----------------------------------------------------------------------------
(* Types.                                                                  *)

LEMMA SupKept ==
    ASSUME SupTypeOK, UNCHANGED <<linkVars, at, kick, stop, stopper>>
    PROVE  SupTypeOK'
BY DEF SupTypeOK, linkVars

LEMMA PutKept ==
    ASSUME PutTypeOK, UNCHANGED putVars
    PROVE  PutTypeOK'
BY DEF PutTypeOK, putVars

LEMMA ConfKept ==
    ASSUME ConfTypeOK, UNCHANGED confVars
    PROVE  ConfTypeOK'
BY DEF ConfTypeOK, confVars

LEMMA Spent ==
    ASSUME budget \in [Events -> Nat],
           (\E e \in Events : Spend(e)) \/ UNCHANGED budget
    PROVE  budget' \in [Events -> Nat]
<1>1. ASSUME NEW e \in Events, Spend(e)
      PROVE  budget' \in [Events -> Nat]
  <2>1. budget[e] \in Nat /\ budget[e] > 0
    BY <1>1 DEF Spend
  <2>2. budget[e] - 1 \in Nat
    BY <2>1
  <2> QED BY <1>1, <2>2 DEF Spend
<1> QED BY <1>1

LEMMA Started ==
    Init => LinkTypeOK
<1> SUFFICES ASSUME Init PROVE LinkTypeOK
  OBVIOUS
<1>1. Home \in Address /\ Home.host \in Hosts
  BY LinkAssumption DEF Address
<1>2. SupTypeOK
  BY <1>1 DEF Init, SupTypeOK, SupPcs
<1>3. PutTypeOK
  BY <1>1 DEF Init, PutTypeOK, PutPcs
<1>4. ConfTypeOK
  BY DEF Init, ConfTypeOK, AppPcs
<1>5. budget \in [Events -> Nat]
  BY LinkAssumption DEF Init
<1> QED BY <1>2, <1>3, <1>4, <1>5 DEF LinkTypeOK

(* The address the settings call for is one, and so is what is asked for.  *)
LEMMA TargetTyped ==
    ASSUME LinkTypeOK
    PROVE  UpstreamTarget \in Address
BY LinkAssumption DEF LinkTypeOK, PutTypeOK, UpstreamTarget, Filled, Address

LEMMA SupervisorTyped ==
    ASSUME LinkTypeOK, Supervisor \/ DialFails
    PROVE  LinkTypeOK'
<1> USE DEF Goes
<1>1. UNCHANGED putVars
  BY DEF Supervisor, ReadHost, ReadPort, CheckTarget, Dial, DialFails, Connected, Unpark,
         ClearConnected, CloseIface, AfterClose, Waited, ClearKick, End
<1>2. (\E e \in Events : Spend(e)) \/ UNCHANGED budget
  BY DEF Supervisor, ReadHost, ReadPort, CheckTarget, Dial, DialFails, Connected, Unpark,
         ClearConnected, CloseIface, AfterClose, Waited, ClearKick, End, Events
<1>3. ConfTypeOK'
  <2>1. CASE Dial \/ Connected \/ CloseIface
    BY <2>1 DEF LinkTypeOK, ConfTypeOK, Dial, Connected, CloseIface
  <2>2. CASE ~(Dial \/ Connected \/ CloseIface)
    <3>1. UNCHANGED confVars
      BY <2>2 DEF Supervisor, ReadHost, ReadPort, CheckTarget, DialFails, Unpark,
                  ClearConnected, AfterClose, Waited, ClearKick, End
    <3> QED BY <3>1, ConfKept DEF LinkTypeOK
  <2> QED BY <2>1, <2>2
<1>4. SupTypeOK'
  <2> USE DEF LinkTypeOK, SupTypeOK, SupPcs
  <2>1. CASE ReadHost \/ ReadPort
    BY <2>1 DEF ReadHost, ReadPort, Address
  <2>2. CASE CheckTarget \/ Dial \/ DialFails
    BY <2>2 DEF CheckTarget, Dial, DialFails
  <2>3. CASE Connected
    BY <2>3 DEF Connected
  <2>4. CASE Unpark
    BY <2>4 DEF Unpark
  <2>5. CASE ClearConnected
    BY <2>5 DEF ClearConnected
  <2>6. CASE CloseIface
    BY <2>6 DEF CloseIface
  <2>7. CASE AfterClose \/ Waited \/ End
    BY <2>7 DEF AfterClose, Waited, End
  <2>8. CASE ClearKick
    BY <2>8 DEF ClearKick
  <2> QED BY <2>1, <2>2, <2>3, <2>4, <2>5, <2>6, <2>7, <2>8 DEF Supervisor
<1> QED BY <1>1, <1>2, <1>3, <1>4, PutKept, Spent DEF LinkTypeOK

LEMMA RequestTyped ==
    ASSUME LinkTypeOK, NEW w \in Requests,
           Request(w) \/ \E p \in Patches : PutRefused(w, p) \/ PutAccepted(w, p)
    PROVE  LinkTypeOK'
<1> USE DEF Step
<1>1. UNCHANGED <<linkVars, stop, stopper, confVars>>
  BY DEF Request, PutRefused, PutAccepted, StoreHost, StorePort, ReadTarget, LoadHost, Compare,
         MoveHost, MovePort, Kick
<1>2. (\E e \in Events : Spend(e)) \/ UNCHANGED budget
  BY DEF Request, PutRefused, PutAccepted, StoreHost, StorePort, ReadTarget, LoadHost, Compare,
         MoveHost, MovePort, Kick, Events
<1>3. SupTypeOK'
  <2> USE DEF LinkTypeOK, SupTypeOK, PutTypeOK, linkVars, Address
  <2>1. CASE MoveHost(w) \/ MovePort(w)
    BY <1>1, <2>1 DEF MoveHost, MovePort
  <2>2. CASE Kick(w)
    BY <1>1, <2>2 DEF Kick
  <2>3. CASE UNCHANGED <<at, kick>>
    BY <1>1, <2>3
  <2> QED BY <2>1, <2>2, <2>3
          DEF Request, PutRefused, PutAccepted, StoreHost, StorePort, ReadTarget, LoadHost, Compare
<1>4. PutTypeOK'
  <2> USE DEF LinkTypeOK, PutTypeOK, PutPcs
  <2>1. ASSUME NEW p \in Patches, PutRefused(w, p)
        PROVE  PutTypeOK'
    BY <2>1, PutKept DEF PutRefused
  <2>2. ASSUME NEW p \in Patches, PutAccepted(w, p)
        PROVE  PutTypeOK'
    BY <2>2 DEF PutAccepted
  <2>3. patch[w] \in [host: Hosts \cup {Left, Null}, port: Ports \cup {Left, Null}]
    BY LinkAssumption DEF Untouched
  <2>4. CASE StoreHost(w)
    <3>1. prefs' \in [host: Hosts \cup {Null}, port: Ports \cup {Null}]
      BY <2>3, <2>4 DEF StoreHost
    <3> QED BY <2>4, <3>1 DEF StoreHost
  <2>5. CASE StorePort(w)
    <3>1. prefs' \in [host: Hosts \cup {Null}, port: Ports \cup {Null}]
      BY <2>3, <2>5 DEF StorePort
    <3> QED BY <2>5, <3>1 DEF StorePort
  <2>6. CASE ReadTarget(w)
    BY <2>6, TargetTyped DEF ReadTarget
  <2>7. CASE LoadHost(w)
    BY <2>7 DEF LoadHost, SupTypeOK, Address
  <2>8. Home \in Address /\ Home.host \in Hosts
    BY LinkAssumption DEF Address
  <2>9. ASSUME NEW from, Return(w, from)
        PROVE  /\ put' \in [Requests -> PutPcs] /\ patch' \in [Requests -> Patches \cup {Untouched}]
               /\ want' \in [Requests -> Address] /\ seen' \in [Requests -> Hosts]
    BY <2>8, <2>9 DEF Return
  <2>10. CASE Compare(w)
    BY <2>9, <2>10 DEF Compare
  <2>11. CASE MoveHost(w) \/ MovePort(w)
    BY <2>11 DEF MoveHost, MovePort
  <2>12. CASE Kick(w)
    BY <2>9, <2>12 DEF Kick
  <2> QED BY <2>1, <2>2, <2>4, <2>5, <2>6, <2>7, <2>10, <2>11, <2>12 DEF Request
<1> QED BY <1>1, <1>2, <1>3, <1>4, ConfKept, Spent DEF LinkTypeOK

(* Everything that is neither the supervisor's nor a request's step.       *)
Elsewhere ==
    \/ \E a \in Apps : SendSetting(a) \/ SettingTaken(a) \/ SettingLost(a) \/ RefreshSoon(a)
    \/ TimerLooks \/ TimerKicks \/ Resumed \/ StopKick \/ StopClose
    \/ Recapture \/ Lose \/ Resume \/ StopSet

LEMMA ElsewhereTyped ==
    ASSUME LinkTypeOK, Elsewhere
    PROVE  LinkTypeOK'
<1>1. UNCHANGED <<sup, aim, iface, connected, at, putVars>>
  BY DEF Elsewhere, SendSetting, SettingTaken, SettingLost, RefreshSoon, TimerLooks, TimerKicks,
         Resumed, StopKick, StopClose, Recapture, Lose, Resume, StopSet, linkVars
<1>2. (\E e \in Events : Spend(e)) \/ UNCHANGED budget
  BY DEF Elsewhere, SendSetting, SettingTaken, SettingLost, RefreshSoon, TimerLooks, TimerKicks,
         Resumed, StopKick, StopClose, Recapture, Lose, Resume, StopSet, Events
<1>3. SupTypeOK'
  <2> USE DEF LinkTypeOK, SupTypeOK, linkVars, StopStep
  <2>1. CASE StopSet
    BY <1>1, <2>1 DEF StopSet
  <2>2. CASE StopKick
    BY <1>1, <2>2 DEF StopKick
  <2>3. CASE StopClose
    BY <1>1, <2>3 DEF StopClose
  <2>4. CASE Recapture \/ TimerKicks
    BY <1>1, <2>4 DEF Recapture, TimerKicks
  <2>5. CASE Lose
    BY <1>1, <2>5 DEF Lose
  <2>6. CASE UNCHANGED <<linkVars, at, kick, stop, stopper>>
    BY <2>6, SupKept
  <2> QED BY <2>1, <2>2, <2>3, <2>4, <2>5, <2>6
          DEF Elsewhere, SendSetting, SettingTaken, SettingLost, RefreshSoon, TimerLooks, Resumed,
              Resume
<1>4. ConfTypeOK'
  <2> USE DEF LinkTypeOK, ConfTypeOK, AppPcs, AppStep, confVars
  <2>1. ASSUME NEW a \in Apps, SendSetting(a) \/ SettingTaken(a) \/ SettingLost(a) \/ RefreshSoon(a)
        PROVE  ConfTypeOK'
    <3>1. CASE SendSetting(a)
      BY <3>1 DEF SendSetting
    <3>2. CASE SettingTaken(a)
      BY <3>2 DEF SettingTaken
    <3>3. CASE SettingLost(a)
      BY <3>3 DEF SettingLost
    <3>4. CASE RefreshSoon(a)
      BY <3>4 DEF RefreshSoon
    <3> QED BY <2>1, <3>1, <3>2, <3>3, <3>4
  <2>2. CASE TimerLooks
    BY <2>2 DEF TimerLooks, SupTypeOK
  <2>3. CASE TimerKicks
    BY <2>3 DEF TimerKicks
  <2>4. CASE Resume \/ Resumed
    BY <2>4 DEF Resume, Resumed
  <2>5. CASE Lose \/ StopClose
    BY <2>5 DEF Lose, StopClose
  <2>6. CASE StopSet \/ StopKick \/ Recapture
    BY <2>6, ConfKept DEF StopSet, StopKick, Recapture
  <2> QED BY <2>1, <2>2, <2>3, <2>4, <2>5, <2>6 DEF Elsewhere
<1> QED BY <1>1, <1>2, <1>3, <1>4, PutKept, Spent DEF LinkTypeOK

(* A step is the supervisor's, a request's or one elsewhere.               *)
LEMMA StepsOf ==
    ASSUME Next
    PROVE  \/ Supervisor \/ DialFails
           \/ \E w \in Requests : Request(w) \/ \E p \in Patches : PutRefused(w, p) \/ PutAccepted(w, p)
           \/ Elsewhere
BY DEF Next, Threads, Environment, Elsewhere

LEMMA LinkTyped ==
    ASSUME LinkTypeOK, [Next]_vars
    PROVE  LinkTypeOK'
<1>1. CASE UNCHANGED vars
  <2>1. UNCHANGED <<linkVars, at, kick, stop, stopper>> /\ UNCHANGED putVars
        /\ UNCHANGED confVars /\ UNCHANGED budget
    BY <1>1 DEF vars
  <2> QED BY <2>1, SupKept, PutKept, ConfKept DEF LinkTypeOK
<1>2. CASE Next
  BY <1>2, StepsOf, SupervisorTyped, RequestTyped, ElsewhereTyped
<1> QED BY <1>1, <1>2

(* The link's variables stay within their types.                           *)
THEOREM LinkTypeAlways == Spec => []LinkTypeOK
<1>1. Init => LinkTypeOK
  BY Started
<1>2. LinkTypeOK /\ [Next]_vars => LinkTypeOK'
  BY LinkTyped
<1> QED BY <1>1, <1>2, PTL DEF Spec
-----------------------------------------------------------------------------
(* The supervisor and its interface.                                       *)

SessionSafe == SessionInv /\ EndInv /\ NeverDialsItself

LEMMA SessionStep ==
    ASSUME SessionSafe, [Next]_vars
    PROVE  SessionSafe'
<1> USE DEF SessionSafe, SessionInv, EndInv, NeverDialsItself, Goes, linkVars, confVars
<1>1. CASE Supervisor
  <2>1. CASE ReadHost \/ ReadPort
    BY <2>1 DEF ReadHost, ReadPort
  <2>2. CASE CheckTarget
    BY <2>2 DEF CheckTarget
  <2>3. CASE Dial
    BY <2>3 DEF Dial
  <2>4. CASE Connected
    BY <2>4 DEF Connected
  <2>5. CASE Unpark
    BY <2>5 DEF Unpark
  <2>6. CASE ClearConnected
    BY <2>6 DEF ClearConnected
  <2>7. CASE CloseIface
    BY <2>7 DEF CloseIface
  <2>8. CASE AfterClose
    BY <2>8 DEF AfterClose
  <2>9. CASE Waited \/ ClearKick \/ End
    BY <2>9 DEF Waited, ClearKick, End
  <2> QED BY <1>1, <2>1, <2>2, <2>3, <2>4, <2>5, <2>6, <2>7, <2>8, <2>9 DEF Supervisor
<1>2. CASE DialFails
  BY <1>2 DEF DialFails
<1>3. ASSUME NEW w \in Requests, Request(w) \/ \E p \in Patches : PutRefused(w, p) \/ PutAccepted(w, p)
      PROVE  SessionSafe'
  <2>1. UNCHANGED <<linkVars, stop, confVars>>
    BY <1>3 DEF Request, PutRefused, PutAccepted, StoreHost, StorePort, ReadTarget, LoadHost,
                Compare, MoveHost, MovePort, Kick
  <2> QED BY <2>1
<1>4. CASE Elsewhere
  <2>1. CASE Lose \/ StopClose
    BY <2>1 DEF Lose, StopClose
  <2>2. CASE Resume
    BY <2>2 DEF Resume
  <2>3. CASE Resumed
    BY <2>3 DEF Resumed
  <2>4. CASE StopSet
    BY <2>4 DEF StopSet
  <2>5. CASE UNCHANGED <<linkVars, stop, resuming>>
    BY <2>5
  <2> QED BY <1>4, <2>1, <2>2, <2>3, <2>4, <2>5
          DEF Elsewhere, SendSetting, SettingTaken, SettingLost, RefreshSoon, TimerLooks,
              TimerKicks, StopKick, Recapture
<1>5. CASE UNCHANGED vars
  BY <1>5 DEF vars
<1> QED BY <1>1, <1>2, <1>3, <1>4, <1>5, StepsOf

LEMMA SessionAlways == Spec => []SessionSafe
<1>1. Init => SessionSafe
  BY DEF Init, SessionSafe, SessionInv, EndInv, NeverDialsItself
<1>2. SessionSafe /\ [Next]_vars => SessionSafe'
  BY SessionStep
<1> QED BY <1>1, <1>2, PTL DEF Spec

(* The supervisor never dials, nor stays connected to, an address that     *)
(* reaches the service's own listener, whichever halves of an address the  *)
(* requests left behind when it read them (upstream.py:253-262).           *)
THEOREM LinkNeverDialsItself == Spec => []NeverDialsItself
<1>1. SessionSafe => NeverDialsItself
  BY DEF SessionSafe
<1> QED BY <1>1, SessionAlways, PTL

(* Whoever sees connected finds an interface (upstream.py:282-297).        *)
THEOREM ConnectedAlwaysHasInterface == Spec => []ConnectedHasInterface
<1>1. SessionSafe => ConnectedHasInterface
  BY DEF SessionSafe, SessionInv, ConnectedHasInterface
<1> QED BY <1>1, SessionAlways, PTL

(* A supervisor that has ended was told to stop, and left neither an       *)
(* interface nor a socket nor the connected flag behind.                   *)
THEOREM EndedIsClosed ==
    Spec => [](sup = "ended" => stop /\ ~iface /\ ~alive /\ ~connected)
<1>1. SessionSafe => (sup = "ended" => stop /\ ~iface /\ ~alive /\ ~connected)
  BY DEF SessionSafe, SessionInv, EndInv
<1> QED BY <1>1, SessionAlways, PTL

-----------------------------------------------------------------------------
(* The settings and the handshake that carries them.                       *)

(* Somebody is about to arm the timer, or has, or to kick, or has.         *)
Coming == armed \/ firing \/ kick \/ \E a \in Apps : app[a] = "changed"

(* RefreshDue, with the supervisor's place told apart.                     *)
RefreshInv ==
    /\ HandshakeInv
    /\ sup = "parked" /\ resuming /\ snap # settings => Coming
    /\ sup = "parked" /\ alive /\ ~resuming /\ stored # settings => Coming

LEMMA RefreshStep ==
    ASSUME LinkTypeOK, SessionSafe, RefreshInv, [Next]_vars
    PROVE  RefreshInv'
<1> USE DEF RefreshInv, HandshakeInv, SessionSafe, SessionInv, Coming
<1>1. CASE Supervisor
  <2> USE DEF Goes, confVars
  <2>1. CASE Dial
    BY <2>1 DEF Dial
  <2>2. CASE Connected
    BY <2>2 DEF Connected
  <2>3. CASE CloseIface
    BY <2>3 DEF CloseIface
  <2>4. CASE ReadHost \/ ReadPort \/ CheckTarget
    BY <2>4 DEF ReadHost, ReadPort, CheckTarget
  <2>5. CASE Unpark \/ ClearConnected \/ AfterClose
    BY <2>5 DEF Unpark, ClearConnected, AfterClose
  <2>6. CASE Waited \/ ClearKick \/ End
    BY <2>6 DEF Waited, ClearKick, End
  <2> QED BY <1>1, <2>1, <2>2, <2>3, <2>4, <2>5, <2>6 DEF Supervisor
<1>2. CASE DialFails
  BY <1>2 DEF DialFails, Goes
<1>3. ASSUME NEW w \in Requests, Request(w) \/ \E p \in Patches : PutRefused(w, p) \/ PutAccepted(w, p)
      PROVE  RefreshInv'
  <2>1. UNCHANGED <<linkVars, confVars>> /\ (kick => kick')
    BY <1>3 DEF Request, PutRefused, PutAccepted, StoreHost, StorePort, ReadTarget, LoadHost,
                Compare, MoveHost, MovePort, Kick
  <2> QED BY <2>1 DEF linkVars, confVars
<1>4. CASE Elsewhere
  <2> USE DEF linkVars, AppStep, LinkTypeOK, ConfTypeOK
  <2>1. ASSUME NEW a \in Apps, SendSetting(a) \/ SettingLost(a)
        PROVE  RefreshInv'
    BY <2>1 DEF SendSetting, SettingLost
  <2>2. ASSUME NEW a \in Apps, SettingTaken(a)
        PROVE  RefreshInv'
    <3>1. app'[a] = "changed" /\ a \in Apps /\ sup' # "capture"
      BY <2>2 DEF SettingTaken
    <3> QED BY <3>1
  <2>3. ASSUME NEW a \in Apps, RefreshSoon(a)
        PROVE  RefreshInv'
    BY <2>3 DEF RefreshSoon
  <2>4. CASE TimerLooks
    BY <2>4 DEF TimerLooks
  <2>5. CASE TimerKicks
    BY <2>5 DEF TimerKicks
  <2>6. CASE Lose \/ StopClose
    BY <2>6 DEF Lose, StopClose
  <2>7. CASE Resume
    BY <2>7 DEF Resume
  <2>8. CASE Resumed
    BY <2>8 DEF Resumed
  <2>9. CASE StopSet \/ StopKick \/ Recapture
    BY <2>9 DEF StopSet, StopKick, Recapture, confVars
  <2> QED BY <1>4, <2>1, <2>2, <2>3, <2>4, <2>5, <2>6, <2>7, <2>8, <2>9 DEF Elsewhere
<1>5. CASE UNCHANGED vars
  BY <1>5 DEF vars, linkVars, confVars
<1> QED BY <1>1, <1>2, <1>3, <1>4, <1>5, StepsOf

(* A connection whose handshake misses a change of the settings does not   *)
(* stay as it is: until it gets a new one the change is about to start the *)
(* timer, the timer waits or is about to kick, or the kick is there        *)
(* (vnode_server.py:416-420, upstream.py:311-331).                         *)
THEOREM RefreshAlwaysDue == Spec => []RefreshDue
<1>1. Init => RefreshInv
  BY DEF Init, RefreshInv, HandshakeInv
<1>2. LinkTypeOK /\ SessionSafe /\ RefreshInv /\ [Next]_vars => RefreshInv'
  BY RefreshStep
<1>3. RefreshInv => RefreshDue
  BY DEF RefreshInv, HandshakeInv, RefreshDue, Coming
<1> QED BY <1>1, <1>2, <1>3, LinkTypeAlways, SessionAlways, PTL DEF Spec

-----------------------------------------------------------------------------
(* Requests that move the link.                                            *)

MoveInv == MovingInv /\ LinkFollowsPrefs

(* Only the requests' threads touch what they share.                       *)
LEMMA OthersDoNotMove ==
    ASSUME Supervisor \/ DialFails \/ Elsewhere
    PROVE  UNCHANGED <<prefs, put, patch, want, seen, overlapped, at>>
BY DEF Supervisor, ReadHost, ReadPort, CheckTarget, Dial, DialFails, Connected, Unpark,
       ClearConnected, CloseIface, AfterClose, Waited, ClearKick, End,
       Elsewhere, SendSetting, SettingTaken, SettingLost, RefreshSoon, TimerLooks, TimerKicks,
       Resumed, StopKick, StopClose, Recapture, Lose, Resume, StopSet, putVars

LEMMA RequestMoves ==
    ASSUME LinkTypeOK, MoveInv, NEW w \in Requests, Request(w)
    PROVE  MoveInv'
<1> SUFFICES ASSUME ~overlapped' PROVE MoveInv'
  BY DEF MoveInv, MovingInv, LinkFollowsPrefs
<1>1. UNCHANGED overlapped /\ put[w] # "idle"
  BY DEF Request, StoreHost, StorePort, ReadTarget, LoadHost, Compare, MoveHost, MovePort, Kick,
         Step, Return
<1>2. \A x \in Requests \ {w} : put[x] = "idle"
  BY <1>1 DEF MoveInv, MovingInv
<1>3. \A x \in Requests \ {w} : put'[x] = "idle"
  BY <1>2 DEF Request, StoreHost, StorePort, ReadTarget, LoadHost, Compare, MoveHost, MovePort, Kick,
         Step, Return, LinkTypeOK, PutTypeOK
<1>4. SUFFICES /\ put'[w] \in {"load", "compare", "moveHost", "movePort", "kick"}
                      => want'[w] = UpstreamTarget'
               /\ put'[w] = "compare" => seen'[w] = at'.host
               /\ put'[w] = "movePort" => at'.host = want'[w].host
               /\ put'[w] \in {"kick", "idle"} => at' = UpstreamTarget'
  BY <1>3, Zenon DEF MoveInv, MovingInv, LinkFollowsPrefs
<1>5. /\ put[w] \in {"load", "compare", "moveHost", "movePort", "kick"} => want[w] = UpstreamTarget
      /\ put[w] = "compare" => seen[w] = at.host
      /\ put[w] = "movePort" => at.host = want[w].host
      /\ put[w] = "kick" => at = UpstreamTarget
  BY <1>1 DEF MoveInv, MovingInv
<1>6. put \in [Requests -> PutPcs] /\ want \in [Requests -> Address] /\ seen \in [Requests -> Hosts]
      /\ at \in Address /\ UpstreamTarget \in Address
  BY TargetTyped DEF LinkTypeOK, PutTypeOK, SupTypeOK
<1> USE DEF Step
<1>7. CASE StoreHost(w)
  BY <1>6, <1>7 DEF StoreHost
<1>8. CASE StorePort(w)
  BY <1>6, <1>8 DEF StorePort
<1>9. CASE ReadTarget(w)
  BY <1>6, <1>9 DEF ReadTarget, UpstreamTarget
<1>10. CASE LoadHost(w)
  BY <1>5, <1>6, <1>10 DEF LoadHost, UpstreamTarget
<1>11. CASE Compare(w)
  <2>1. UNCHANGED <<prefs, at>> /\ UpstreamTarget' = UpstreamTarget /\ put[w] = "compare"
    BY <1>11 DEF Compare, Return, UpstreamTarget
  <2>2. CASE want[w] = [host |-> seen[w], port |-> at.port] /\ Return(w, "compare")
    <3>1. at = UpstreamTarget
      BY <1>5, <1>6, <2>1, <2>2 DEF Address
    <3>2. put'[w] = "idle"
      BY <1>6, <2>2 DEF Return
    <3> QED BY <2>1, <3>1, <3>2
  <2>3. CASE Step(w, "compare", "moveHost") /\ UNCHANGED <<patch, want, seen>>
    BY <1>5, <1>6, <2>1, <2>3
  <2> QED BY <1>11, <2>2, <2>3 DEF Compare
<1>12. CASE MoveHost(w)
  <2>1. UpstreamTarget' = UpstreamTarget /\ at'.host = want[w].host /\ put'[w] = "movePort"
        /\ want' = want /\ put[w] = "moveHost"
    BY <1>6, <1>12 DEF MoveHost, UpstreamTarget, Address
  <2> QED BY <1>5, <2>1
<1>13. CASE MovePort(w)
  <2>1. UpstreamTarget' = UpstreamTarget /\ want' = want /\ put'[w] = "kick" /\ put[w] = "movePort"
    BY <1>6, <1>13 DEF MovePort, UpstreamTarget
  <2>2. at' = [host |-> at.host, port |-> want[w].port]
    BY <1>6, <1>13 DEF MovePort, Address
  <2>3. at' = want[w]
    BY <1>5, <1>6, <2>1, <2>2 DEF Address
  <2> QED BY <1>5, <2>1, <2>3
<1>14. CASE Kick(w)
  <2>1. UpstreamTarget' = UpstreamTarget /\ at' = at /\ put'[w] = "idle" /\ put[w] = "kick"
    BY <1>6, <1>14 DEF Kick, Return, UpstreamTarget
  <2> QED BY <1>5, <2>1
<1> QED BY <1>7, <1>8, <1>9, <1>10, <1>11, <1>12, <1>13, <1>14 DEF Request

LEMMA MoveBegins ==
    ASSUME LinkTypeOK, MoveInv, NEW w \in Requests, NEW p \in Patches,
           PutRefused(w, p) \/ PutAccepted(w, p)
    PROVE  MoveInv'
<1>1. CASE PutRefused(w, p)
  BY <1>1 DEF PutRefused, putVars, MoveInv, MovingInv, LinkFollowsPrefs, UpstreamTarget
<1>2. CASE PutAccepted(w, p)
  <2> SUFFICES ASSUME ~overlapped' PROVE MoveInv'
    BY DEF MoveInv, MovingInv, LinkFollowsPrefs
  <2>1. \A x \in Requests \ {w} : put[x] = "idle" /\ put'[x] = "idle"
    BY <1>2 DEF PutAccepted, Step, LinkTypeOK, PutTypeOK
  <2>2. put'[w] = "host"
    BY <1>2 DEF PutAccepted, Step, LinkTypeOK, PutTypeOK
  <2> QED BY <2>1, <2>2 DEF MoveInv, MovingInv, LinkFollowsPrefs
<1> QED BY <1>1, <1>2

LEMMA MoveStep ==
    ASSUME LinkTypeOK, MoveInv, [Next]_vars
    PROVE  MoveInv'
<1>1. ASSUME UNCHANGED <<prefs, put, patch, want, seen, overlapped, at>>
      PROVE  MoveInv'
  BY <1>1 DEF MoveInv, MovingInv, LinkFollowsPrefs, UpstreamTarget
<1>2. CASE UNCHANGED vars
  BY <1>1, <1>2 DEF vars, putVars
<1> QED BY <1>1, <1>2, StepsOf, OthersDoNotMove, RequestMoves, MoveBegins

(* As long as no two requests moved the link at once, it is, whenever no   *)
(* request is under way, where the stored settings say: where it will be   *)
(* after a restart (web/system.py:182-184, upstream.py:338-344).           *)
THEOREM LinkAlwaysFollowsPrefs == Spec => []LinkFollowsPrefs
<1>1. Init => MoveInv
  <2> SUFFICES ASSUME Init PROVE MoveInv
    OBVIOUS
  <2>1. UpstreamTarget = Home
    BY LinkAssumption DEF Init, UpstreamTarget, Filled, Address
  <2> QED BY <2>1 DEF Init, MoveInv, MovingInv, LinkFollowsPrefs
<1>2. LinkTypeOK /\ MoveInv /\ [Next]_vars => MoveInv'
  BY MoveStep
<1>3. MoveInv => LinkFollowsPrefs
  BY DEF MoveInv
<1> QED BY <1>1, <1>2, <1>3, LinkTypeAlways, PTL DEF Spec
=============================================================================
