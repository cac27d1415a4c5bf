--------------------------- MODULE LeaseLockProofs ---------------------------
(***************************************************************************)
(* Theorems about the lease lock, for any set of processes, any lease      *)
(* length and any horizon.                                                 *)
(***************************************************************************)
EXTENDS LeaseLock, TLAPS

(* Type correctness, the primary key of the table included.                *)
LEMMA TypeInvariance == TypeOK /\ [Next]_vars => TypeOK'
<1> SUFFICES ASSUME TypeOK, [Next]_vars PROVE TypeOK'
  OBVIOUS
<1> USE LeaseAssumption DEF TypeOK, Phase
<1>1. CASE Tick
  BY <1>1 DEF Tick
<1>2. ASSUME NEW p \in Proc, Attempt(p) PROVE TypeOK'
  BY <1>2 DEF Attempt
<1>3. ASSUME NEW p \in Proc, Purge(p) PROVE TypeOK'
  BY <1>3 DEF Purge
<1>4. ASSUME NEW p \in Proc, Acquire(p) PROVE TypeOK'
  <2>1. token(p) \in Token /\ until(p) \in Nat
    BY DEF token, until, Token
  <2>2. [token |-> token(p), expires |-> until(p)] \in Row
    BY <2>1 DEF Row
  <2> QED
    BY <1>4, <2>2 DEF Acquire
<1>5. ASSUME NEW p \in Proc, Skip(p) \/ Finish(p) \/ Die(p) PROVE TypeOK'
  BY <1>5 DEF Skip, Finish, Die
<1>6. ASSUME NEW p \in Proc, Release(p) PROVE TypeOK'
  BY <1>6 DEF Release
<1>7. CASE UNCHANGED vars
  BY <1>7 DEF vars
<1> QED
  BY <1>1, <1>2, <1>3, <1>4, <1>5, <1>6, <1>7 DEF Next, Step

(* The lock table never holds two rows, and all else keeps its type, for   *)
(* any number of processes.                                                *)
THEOREM TypeCorrect == Spec => []TypeOK
<1>1. Init => TypeOK
  BY DEF Init, TypeOK, Phase
<1> QED
  BY <1>1, TypeInvariance, PTL DEF Spec

-----------------------------------------------------------------------------
(* The strengthening: no process works with a reading of the clock from    *)
(* the future, and a holder whose lease is in force has its row in the     *)
(* table.  OneLiveHolder alone is not inductive: it does not say why the   *)
(* INSERT of a second process fails.                                       *)
ClocksPast == \A p \in Proc : now[p] <= clock

LiveHolderHasRow ==
    \A p \in Critical :
        Live(p) => [token |-> token(p), expires |-> until(p)] \in table

LeaseInv == TypeOK /\ ClocksPast /\ LiveHolderHasRow

(* The clock only advances, and is read as it is.                          *)
LEMMA ClocksPastStep == TypeOK /\ ClocksPast /\ [Next]_vars => ClocksPast'
<1> SUFFICES ASSUME TypeOK, ClocksPast, [Next]_vars PROVE ClocksPast'
  OBVIOUS
<1> USE DEF TypeOK, ClocksPast
<1>1. CASE Tick
  BY <1>1 DEF Tick
<1>2. ASSUME NEW p \in Proc, Attempt(p) PROVE ClocksPast'
  BY <1>2 DEF Attempt
<1>3. ASSUME NEW p \in Proc, UNCHANGED <<clock, now>> PROVE ClocksPast'
  BY <1>3
<1>4. CASE UNCHANGED vars
  BY <1>4 DEF vars
<1> QED
  BY <1>1, <1>2, <1>3, <1>4
  DEF Next, Step, Purge, Acquire, Skip, Finish, Release, Die

(* A lease in force stays in the table: the DELETEs of others leave it, as *)
(* it has not expired by any clock they have read and has not their token. *)
LEMMA LiveHolderStep == LeaseInv /\ [Next]_vars => LiveHolderHasRow'
<1> SUFFICES ASSUME LeaseInv, [Next]_vars, 
                    NEW q \in Proc, pc'[q] = "critical", Live(q)'
             PROVE  [token |-> token(q)', expires |-> until(q)'] \in table'
  BY DEF LiveHolderHasRow, Critical
<1> DEFINE lease == [token |-> token(q), expires |-> until(q)]
<1> DEFINE Same  == now'[q] = now[q] /\ attempt'[q] = attempt[q]
<1> USE LeaseAssumption DEF LeaseInv, TypeOK, token, until
<1>1. CASE pc[q] = "critical" /\ Same /\ Live(q)
  <2>1. lease \in table
    BY <1>1 DEF LiveHolderHasRow, Critical
  <2>2. token(q)' = token(q) /\ until(q)' = until(q)
    BY <1>1
  <2>3. lease \in table'
    <3>1. ASSUME NEW p \in Proc, Purge(p) PROVE lease \in table'
      <4>1. until(q) > now[p]
        BY <1>1 DEF ClocksPast, Live
      <4> QED
        BY <3>1, <4>1, <2>1 DEF Purge
    <3>2. ASSUME NEW p \in Proc, Acquire(p) PROVE lease \in table'
      BY <3>2, <2>1 DEF Acquire
    <3>3. ASSUME NEW p \in Proc, Release(p) PROVE lease \in table'
      <4>1. p # q
        BY <3>3, <1>1 DEF Release
      <4>2. token(p) # token(q)
        BY <4>1
      <4> QED
        BY <3>3, <4>2, <2>1 DEF Release
    <3>4. CASE table' = table
      BY <3>4, <2>1
    <3> QED
      BY <3>1, <3>2, <3>3, <3>4
      DEF Next, Step, Tick, Attempt, Skip, Finish, Die, vars
  <2> QED
    BY <2>2, <2>3
<1>2. CASE Acquire(q)
  BY <1>2 DEF Acquire
<1>3. Acquire(q) \/ (pc[q] = "critical" /\ Same)
  <2>1. CASE Tick \/ UNCHANGED vars
    BY <2>1 DEF Tick, vars
  <2>2. ASSUME NEW p \in Proc, Step(p)
        PROVE  Acquire(q) \/ (pc[q] = "critical" /\ Same)
    <3>1. CASE Attempt(p)
      <4>1. p # q
        BY <3>1 DEF Attempt
      <4> QED
        BY <3>1, <4>1 DEF Attempt
    <3>2. CASE Acquire(p)
      BY <3>2 DEF Acquire
    <3>3. CASE Purge(p) \/ Skip(p) \/ Finish(p) \/ Release(p) \/ Die(p)
      BY <3>3 DEF Purge, Skip, Finish, Release, Die
    <3> QED
      BY <2>2, <3>1, <3>2, <3>3 DEF Step
  <2> QED
    BY <2>1, <2>2 DEF Next
<1>4. clock <= clock'
  BY DEF Next, Step, Tick, Attempt, Purge, Acquire, Skip, Finish, Release, Die,
         vars
<1>5. CASE pc[q] = "critical" /\ Same
  <2>1. clock' \in Nat /\ until(q) \in Nat
    BY TypeInvariance
  <2>2. clock' < until(q)
    BY <1>5 DEF Live
  <2>3. Live(q)
    BY <1>4, <2>1, <2>2 DEF Live
  <2> QED
    BY <1>1, <1>5, <2>3
<1> QED
  BY <1>2, <1>3, <1>5

(* The invariant is inductive ...                                          *)
LEMMA LeaseInvStep == LeaseInv /\ [Next]_vars => LeaseInv'
  BY TypeInvariance, ClocksPastStep, LiveHolderStep DEF LeaseInv

(* ... and holds at the start.                                             *)
LEMMA LeaseInvInit == Init => LeaseInv
  BY DEF Init, LeaseInv, TypeOK, Phase, ClocksPast, LiveHolderHasRow, Critical

(* A lease in force names its holder, and the table has one row at most.   *)
LEMMA OneRowOneHolder == LeaseInv => OneLiveHolder
<1> SUFFICES ASSUME LeaseInv, NEW p \in Critical, NEW q \in Critical,
                    Live(p), Live(q)
             PROVE  p = q
  BY DEF OneLiveHolder
<1>1. [token |-> token(p), expires |-> until(p)]
        = [token |-> token(q), expires |-> until(q)]
  BY DEF LeaseInv, LiveHolderHasRow, TypeOK
<1>2. token(p) = token(q)
  BY <1>1
<1> QED
  BY <1>2 DEF token

(* Whatever the jobs' length, two of them overlap only after the lease of  *)
(* one has run out.                                                        *)
THEOREM LeaseExclusion == Spec => []OneLiveHolder
<1>1. Spec => []LeaseInv
  BY LeaseInvInit, LeaseInvStep, PTL DEF Spec
<1> QED
  BY <1>1, OneRowOneHolder, PTL

(* No step takes a lease in force away from its holder.                    *)
THEOREM TokenScopedRelease == Spec => LeasesEndOnTimeOrByOwner
<1> DEFINE Fair(row) == \/ row.expires <= clock
                        \/ \E p \in Proc : pc[p] = "release"
                                           /\ token(p) = row.token
<1>1. ASSUME LeaseInv, [Next]_vars, NEW row \in table \ table'
      PROVE  Fair(row)
  <2> USE <1>1 DEF LeaseInv, TypeOK, Row
  <2>1. ASSUME NEW p \in Proc, Purge(p) PROVE Fair(row)
    BY <2>1 DEF Purge, ClocksPast
  <2>2. ASSUME NEW p \in Proc, Release(p) PROVE Fair(row)
    BY <2>2 DEF Release
  <2>3. ASSUME NEW p \in Proc, Acquire(p) PROVE Fair(row)
    BY <2>3 DEF Acquire
  <2>4. CASE table' = table
    BY <2>4
  <2> QED
    BY <2>1, <2>2, <2>3, <2>4
    DEF Next, Step, Tick, Attempt, Skip, Finish, Die, vars
<1>2. Spec => []LeaseInv
  BY LeaseInvInit, LeaseInvStep, PTL DEF Spec
<1>3. LeaseInv /\ [Next]_vars
        => [\A row \in table \ table' : Fair(row)]_vars
  BY <1>1
<1> QED
  BY <1>2, <1>3, PTL DEF Spec, LeasesEndOnTimeOrByOwner

-----------------------------------------------------------------------------
(* Under the punctual clock every process that acquires or works is inside *)
(* its lease, so exclusion of live holders is exclusion.                   *)
BusyIsLive == \A p \in Proc : Busy(p) => Live(p)

(* A punctual step is a step.                                              *)
LEMMA PunctualIsNext == [PunctualNext]_vars => [Next]_vars
  BY DEF PunctualNext, PunctualTick, Next

(* A process that acquires or works does so before its lease ends: the     *)
(* clock waits for it.                                                     *)
LEMMA BusyIsLiveStep == 
    TypeOK /\ BusyIsLive /\ [PunctualNext]_vars => BusyIsLive'
<1> SUFFICES ASSUME TypeOK, BusyIsLive, [PunctualNext]_vars PROVE BusyIsLive'
  OBVIOUS
<1> USE LeaseAssumption DEF TypeOK, BusyIsLive, Busy, Live, until
<1>1. CASE PunctualTick
  BY <1>1 DEF PunctualTick, Tick
<1>2. ASSUME NEW p \in Proc, Attempt(p) PROVE BusyIsLive'
  BY <1>2 DEF Attempt
<1>3. ASSUME NEW p \in Proc, Purge(p) \/ Acquire(p) PROVE BusyIsLive'
  BY <1>3 DEF Purge, Acquire
<1>4. ASSUME NEW p \in Proc, Skip(p) \/ Finish(p) \/ Release(p) \/ Die(p)
      PROVE  BusyIsLive'
  BY <1>4 DEF Skip, Finish, Release, Die
<1>5. CASE UNCHANGED vars
  BY <1>5 DEF vars
<1> QED
  BY <1>1, <1>2, <1>3, <1>4, <1>5 DEF PunctualNext, Step

PunctualInv == LeaseInv /\ BusyIsLive

(* Hence every working process has its row in the table.                   *)
LEMMA PunctualInvariance == PunctualSpec => []PunctualInv
<1>1. Init => PunctualInv
  BY LeaseInvInit DEF PunctualInv, Init, BusyIsLive, Busy
<1>2. PunctualInv /\ [PunctualNext]_vars => PunctualInv'
  BY LeaseInvStep, BusyIsLiveStep, PunctualIsNext DEF PunctualInv, LeaseInv
<1> QED
  BY <1>1, <1>2, PTL DEF PunctualSpec

(* Each step of the punctual lock starts a run when there is none, ends    *)
(* the only run, or leaves the runs alone.                                 *)
LEMMA ExclusiveStep ==
    PunctualInv /\ [PunctualNext]_vars => [Exclusive!Next]_Critical
<1> SUFFICES ASSUME PunctualInv, [PunctualNext]_vars
             PROVE  Exclusive!Next \/ Critical' = Critical
  OBVIOUS
<1> USE DEF PunctualInv, LeaseInv, TypeOK, Critical
<1>1. \A p, q \in Critical : p = q
  BY OneRowOneHolder DEF OneLiveHolder, BusyIsLive, Busy
<1>2. ASSUME NEW p \in Proc, Acquire(p) PROVE Exclusive!Start(p)
  <2>1. Critical = {}
    BY <1>2 DEF Acquire, LiveHolderHasRow, BusyIsLive, Busy
  <2> QED
    BY <1>2, <2>1 DEF Acquire, Exclusive!Start
<1>3. ASSUME NEW p \in Proc, Finish(p) \/ Die(p)
      PROVE  Exclusive!Stop(p) \/ Critical' = Critical
  <2>1. CASE pc[p] = "critical"
    <3>1. Critical = {p}
      BY <1>1, <2>1
    <3>2. Critical' = {}
      BY <1>3, <3>1 DEF Finish, Die
    <3> QED
      BY <3>1, <3>2 DEF Exclusive!Stop
  <2>2. CASE pc[p] # "critical"
    BY <1>3, <2>2 DEF Finish, Die
  <2> QED
    BY <2>1, <2>2
<1>4. ASSUME NEW p \in Proc, Attempt(p) \/ Purge(p) \/ Skip(p) \/ Release(p)
      PROVE  Critical' = Critical
  BY <1>4 DEF Attempt, Purge, Skip, Release
<1>5. CASE PunctualTick \/ UNCHANGED vars
  BY <1>5 DEF PunctualTick, Tick, vars
<1> QED
  BY <1>2, <1>3, <1>4, <1>5 DEF PunctualNext, Step, Exclusive!Next

(* The lease lock implements plain mutual exclusion as long as no process  *)
(* outlives the lease it asked for.                                        *)
THEOREM PunctualRefinement == PunctualSpec => RunsExclusively
<1>1. Init => Exclusive!Init
  BY DEF Init, Exclusive!Init, Critical
<1>2. PunctualInv /\ [PunctualNext]_vars => [Exclusive!Next]_Critical
  BY ExclusiveStep
<1> QED
  BY <1>1, <1>2, PunctualInvariance, PTL
  DEF PunctualSpec, RunsExclusively, Exclusive!Spec

-----------------------------------------------------------------------------
(* Why a punctual process skips for a lease in force only: between its     *)
(* DELETE and its INSERT no row can come that has expired by the reading   *)
(* of the clock it works with, as whoever inserts one is inside the lease. *)
PurgedAreGone ==
    \A p \in Proc : pc[p] = "insert" => \A row \in table : row.expires > now[p]

(* What one process finds after its DELETE stays what it has left or what  *)
(* punctual processes have put there since.                                *)
LEMMA PurgedAreGoneStep ==
    PunctualInv /\ PurgedAreGone /\ [PunctualNext]_vars => PurgedAreGone'
<1> SUFFICES ASSUME PunctualInv, PurgedAreGone, [PunctualNext]_vars,
                    NEW p \in Proc, pc'[p] = "insert",
                    NEW row \in table'
             PROVE  row.expires > now'[p]
  BY DEF PurgedAreGone
<1> USE DEF PunctualInv, LeaseInv, TypeOK, Row
<1>1. CASE Purge(p)
  BY <1>1 DEF Purge
<1>2. CASE pc[p] = "insert" /\ now'[p] = now[p]
  <2>1. CASE row \in table
    BY <1>2, <2>1 DEF PurgedAreGone
  <2>2. ASSUME NEW q \in Proc, Acquire(q), row \notin table
        PROVE  row.expires > now'[p]
    <3>1. row.expires = until(q)
      BY <2>2 DEF Acquire
    <3>2. until(q) \in Nat /\ clock < until(q)
      BY <2>2, LeaseAssumption DEF Acquire, BusyIsLive, Busy, Live, until
    <3>3. now[p] <= clock
      BY DEF ClocksPast
    <3> QED
      BY <1>2, <3>1, <3>2, <3>3
  <2>3. \/ table' \subseteq table
        \/ \E q \in Proc : Acquire(q)
    BY DEF PunctualNext, PunctualTick, Tick, Step, Attempt, Purge, Skip, Finish,
           Release, Die, vars
  <2> QED
    BY <2>1, <2>2, <2>3
<1>3. Purge(p) \/ (pc[p] = "insert" /\ now'[p] = now[p])
  <2>1. CASE PunctualTick \/ UNCHANGED vars
    BY <2>1 DEF PunctualTick, Tick, vars
  <2>2. ASSUME NEW q \in Proc, Step(q)
        PROVE  Purge(p) \/ (pc[p] = "insert" /\ now'[p] = now[p])
    <3>1. CASE Attempt(q)
      BY <3>1 DEF Attempt
    <3>2. CASE Purge(q)
      BY <3>2 DEF Purge
    <3>3. CASE Acquire(q) \/ Skip(q) \/ Finish(q) \/ Release(q) \/ Die(q)
      BY <3>3 DEF Acquire, Skip, Finish, Release, Die
    <3> QED
      BY <2>2, <3>1, <3>2, <3>3 DEF Step
  <2> QED
    BY <2>1, <2>2 DEF PunctualNext
<1> QED
  BY <1>1, <1>2, <1>3

(* A crashed holder never costs a run once its lease is over: the run is   *)
(* skipped only for a lease still in force by the clock it read.           *)
THEOREM CrashedHolderBlocksNoRun == PunctualSpec => SkipsOnlyForLiveLease
<1> DEFINE Justified == \A p \in Proc :
                           Skip(p) => \E row \in table : row.expires > now[p]
<1>1. Init => PurgedAreGone
  BY DEF Init, PurgedAreGone
<1>2. PunctualSpec => []PurgedAreGone
  BY <1>1, PurgedAreGoneStep, PunctualInvariance, PTL DEF PunctualSpec
<1>3. PurgedAreGone => [Justified]_vars
  BY DEF PurgedAreGone, Skip
<1> QED
  BY <1>2, <1>3, PTL DEF SkipsOnlyForLiveLease, PunctualSpec

=============================================================================
