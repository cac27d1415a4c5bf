---------------------------- MODULE MCLeaseLock -----------------------------
(* Three processes; a lease of three seconds inside a horizon of six, so   *)
(* that a holder can die, its lease run out and a second one take over.    *)
EXTENDS LeaseLock, TLC

Symmetry == Permutations(Proc)
=============================================================================
