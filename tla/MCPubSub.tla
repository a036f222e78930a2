------------------------------ MODULE MCPubSub ------------------------------
(* Goroutines for model checking PubSub. *)
EXTENDS PubSub, TLC
ProcSymmetry == Permutations(Procs)

\* One or two calls of every goroutine; two of one and one of the others.
OneEach == [p \in Procs |-> 1]
TwoEach == [p \in Procs |-> 2]
TwoOfOne ==
    LET first == CHOOSE p \in Procs : TRUE
    IN  [p \in Procs |-> IF p = first THEN 2 ELSE 1]
=============================================================================
