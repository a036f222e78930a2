---- MODULE MCRegistry ----
EXTENDS Registry

MCLower == ("server" :> "server") @@ ("Server" :> "server") @@ ("clients" :> "clients")
Symmetry == Permutations(Procs)
====
