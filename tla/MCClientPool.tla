---------------------------- MODULE MCClientPool ----------------------------
(* Users and connections for model checking ClientPool. *)
EXTENDS ClientPool, TLC
Symmetry == Permutations(Users) \cup Permutations(Conns)
=============================================================================
