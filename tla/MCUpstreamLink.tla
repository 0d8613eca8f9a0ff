---------------------------- MODULE MCUpstreamLink ----------------------------
(* A small instance of UpstreamLink: the link starts on the environment's  *)
(* address, may be moved to another one, and one mix of the two is the     *)
(* service's own listener.                                                 *)
EXTENDS UpstreamLink

CONSTANTS h1, h2, p1, p2

EnvAddress == [host |-> h1, port |-> p1]
OwnMix     == {[host |-> h2, port |-> p1]}

(* Both fields; one field; back to the default. *)
Bodies == {[host |-> h2, port |-> p2], [host |-> Left, port |-> p2],
           [host |-> h2, port |-> Left], [host |-> Null, port |-> Null]}

(* Two moves that overlap; changes of the settings while the link moves,   *)
(* breaks and comes back; a burst of changes with a clear and a stop.      *)
Quiet   == [e \in Events |-> 0]
Moves   == [Quiet EXCEPT !.put = 2, !.refuse = 1]
Changes == [Quiet EXCEPT !.put = 1, !.change = 2, !.lose = 1, !.resume = 1]
Burst   == [Quiet EXCEPT !.change = 2, !.clear = 1, !.resume = 1, !.stop = 1]
Mixes   == {Moves, Changes, Burst}
==============================================================================
