---------------------------- MODULE MCNodeTable ----------------------------
(* An instance of NodeTable for TLC: two other nodes, two setters. *)
EXTENDS NodeTable, TLC

CONSTANTS me, n1, n2, s1, s2

Nothing == [set |-> 0, hear |-> 0, lose |-> 0, elsewhere |-> 0, evict |-> 0, clear |-> 0]

(* What is played against each other. *)
Some == {
    [Nothing EXCEPT !.set = 2, !.hear = 1, !.lose = 1],        \* two sets and a capture
    [Nothing EXCEPT !.set = 1, !.hear = 2, !.lose = 1],        \* nodes heard meanwhile
    [Nothing EXCEPT !.hear = 3, !.evict = 1, !.lose = 2],      \* a node comes and goes
    [Nothing EXCEPT !.set = 1, !.hear = 1, !.evict = 1, !.lose = 1],
    [Nothing EXCEPT !.set = 1, !.hear = 1, !.elsewhere = 1, !.lose = 1],
    [Nothing EXCEPT !.set = 2, !.hear = 1, !.clear = 1, !.lose = 1]}

Sym == Permutations({n1, n2}) \cup Permutations({s1, s2})
=============================================================================
