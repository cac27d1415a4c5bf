---------------------------- MODULE ExclusiveJob ----------------------------
(***************************************************************************)
(* What the timer lock promises (docs/ARCHITECTURE.md, "Distributed timer  *)
(* lock"): at most one run of a job at a time.  A run starts only when     *)
(* none is under way, and ends by itself.                                  *)
(***************************************************************************)
CONSTANT Proc       \* the processes that may run the job

VARIABLE running    \* those that are running it

Init == running = {}

Start(p) ==
    /\ running = {}
    /\ running' = {p}

Stop(p) ==
    /\ running = {p}
    /\ running' = {}

Next == \E p \in Proc : Start(p) \/ Stop(p)

Spec == Init /\ [][Next]_running
=============================================================================
