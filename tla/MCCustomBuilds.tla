---------------------------- MODULE MCCustomBuilds ----------------------------
(* Three reports of one build: enough for a report that reads before one   *)
(* and writes after two others have committed.                             *)
EXTENDS CustomBuilds, TLC

Symmetry == Permutations(Request)
=============================================================================
