------------------------------- MODULE Calls -------------------------------
(***************************************************************************)
(* What redeo promises on both ends of a connection: the replies that a    *)
(* session receives are the replies to its own commands, one for each, in  *)
(* the order of the commands.  Server and ClientPool are shown to implement*)
(* this specification.                                                     *)
(***************************************************************************)
EXTENDS Naturals, Sequences

CONSTANT Sessions

VARIABLES
    asked,  \* how many commands a session has issued
    got     \* the replies it has received: the commands that they answer

vars == <<asked, got>>

Init ==
    /\ asked = [s \in Sessions |-> 0]
    /\ got = [s \in Sessions |-> <<>>]

Ask(s) ==
    /\ asked' = [asked EXCEPT ![s] = @ + 1]
    /\ UNCHANGED got

\* The next k commands are answered.
Answer(s, k) ==
    /\ k <= asked[s] - Len(got[s])
    /\ got' = [got EXCEPT ![s] = @ \o [i \in 1 .. k |-> <<s, Len(got[s]) + i>>]]
    /\ UNCHANGED asked

Next ==
    \E s \in Sessions :
        Ask(s) \/ \E k \in 1 .. asked[s] - Len(got[s]) : Answer(s, k)

Spec == Init /\ [][Next]_vars
=============================================================================
