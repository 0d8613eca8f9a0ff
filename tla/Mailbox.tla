------------------------------ MODULE Mailbox -------------------------------
(***************************************************************************)
(* What the service promises its apps, without sessions, threads and       *)
(* queues: messages arrive and are numbered, each app has a cursor, and    *)
(* the cursor passes a message only once the app was given it or was told  *)
(* to do without.  README.md:6 of the program says it as "An app that      *)
(* connects gets the node's config and then the messages it missed".       *)
(***************************************************************************)
EXTENDS Naturals

CONSTANT Apps

VARIABLES
    top,      \* the last number given to a message
    held,     \* the messages in store, by number
    read,     \* by app: its cursor
    given     \* by app: the messages given to it or left out for it

vars == <<top, held, read, given>>

Init ==
    /\ top = 0
    /\ held = {}
    /\ read = [k \in Apps |-> 0]
    /\ given = [k \in Apps |-> {}]

Arrive ==
    /\ top' = top + 1
    /\ held' = held \cup {top'}
    /\ UNCHANGED <<read, given>>

Throw ==
    /\ held' \subseteq held
    /\ UNCHANGED <<top, read, given>>

(* Several apps may be served at once. *)
Serve ==
    /\ \A k \in Apps :
        /\ read'[k] \in read[k] .. top
        /\ given[k] \subseteq given'[k]
        /\ {n \in held : n <= read'[k]} \subseteq given'[k]
    /\ UNCHANGED <<top, held>>

Next == Arrive \/ Throw \/ Serve

Spec == Init /\ [][Next]_vars
=============================================================================
