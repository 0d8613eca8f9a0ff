--------------------------- MODULE MCVNodeServer ----------------------------
(***************************************************************************)
(* Instances of VNodeServer for TLC: which apps share a key, and how often *)
(* the environment may do each thing.                                      *)
(***************************************************************************)
EXTENDS VNodeServer, TLC

CONSTANTS c1, c2, k1, k2

OneKey  == c1 :> k1 @@ c2 :> k1
TwoKeys == c1 :> k1 @@ c2 :> k2
Single  == c1 :> k1

(* Packets are alike; so are two slots of one app, and two apps each with  *)
(* the slot it has.                                                        *)
Sym      == Permutations(MeshPackets) \cup Permutations(AppPackets)
SymSlots == Sym \cup Permutations({c1, c2})
SymPairs == Sym \cup {c1 :> c2 @@ c2 :> c1 @@ k1 :> k2 @@ k2 :> k1}

Nobody == [e \in Events |-> 0]

(* Mesh traffic only: two connections come and go, the process may die. *)
MeshOnly == [Nobody EXCEPT !["mesh"] = 2, !["connect"] = 3, !["drop"] = 1, !["restart"] = 1]

(* An app and the web UI send, perhaps the same packet, to two apps next   *)
(* to the housekeeping job; the process may die and one app come back.     *)
Writers == [Nobody EXCEPT !["connect"] = 3, !["send"] = 1, !["web"] = 1, !["prune"] = 1, !["restart"] = 1]

(* Nobody leaves: what must happen in the end. *)
Steady == [Nobody EXCEPT !["mesh"] = 2, !["connect"] = 2]

(* One app, one message or two, and the web UI's maintenance. *)
Rewound == [Nobody EXCEPT !["mesh"] = 1, !["web"] = 1, !["connect"] = 2, !["age"] = 1, !["restart"] = 1]
Wiped   == [Nobody EXCEPT !["mesh"] = 2, !["connect"] = 2]

(* The small worlds of the counterexamples. *)
LostLink   == [Nobody EXCEPT !["mesh"] = 1, !["connect"] = 1, !["drop"] = 1]
WebAndMesh == [Nobody EXCEPT !["mesh"] = 1, !["web"] = 1, !["connect"] = 1]
=============================================================================
