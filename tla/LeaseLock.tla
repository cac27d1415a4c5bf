------------------------------ MODULE LeaseLock ------------------------------
(***************************************************************************)
(* The lease lock of src/Service/DistributedLock.php, as the timer CLIs    *)
(* (cli/cleanup-pipeline-tags.php, cli/backfill-pipeline-tags.php,         *)
(* cli/cleanup-api-access-logs.php) use it: one row of ci_cache per lock   *)
(* name, deleted when expired, inserted under its primary key, deleted     *)
(* again by token.  The module follows one lock name; every statement of   *)
(* the code carries the name, so locks of other names never interfere.     *)
(*                                                                         *)
(* Each SQL statement is an action of its own: the clock may advance and   *)
(* other processes may run between the reading of time(), the DELETE and   *)
(* the INSERT.  A process may die, or a statement may fail, anywhere.      *)
(***************************************************************************)
EXTENDS Naturals

CONSTANTS
    Proc,         \* the processes that may run the job (worker replicas, crons)
    TTL,          \* $ttlSeconds of tryAcquireLock (600 for the CLIs)
    MaxClock,     \* bound: the horizon of the clock
    MaxAttempts   \* bound: acquisitions one process attempts

ASSUME LeaseAssumption ==
    /\ TTL \in Nat \ {0}
    /\ MaxClock \in Nat
    /\ MaxAttempts \in Nat

VARIABLES
    clock,     \* time(), the same for every process
    table,     \* the rows of ci_cache with cache_key = 'lock:<name>'
    pc,        \* where each process stands
    now,       \* $now, the reading of time() each attempt works with
    attempt    \* how many tokens each process has drawn

vars == <<clock, table, pc, now, attempt>>

(* host:pid:random of line 97: unique to the process and to its attempt.   *)
Token == Proc \X Nat
Row   == [token : Token, expires : Nat]
Phase == {"idle", "purge", "insert", "critical", "release"}

token(p) == <<p, attempt[p]>>
until(p) == now[p] + TTL      \* when the lease p asks for, or holds, ends

(* The types, and the primary key of ci_cache: at most one row is there,   *)
(* whatever the INSERTs that race for it.                                  *)
TypeOK ==
    /\ clock \in Nat
    /\ table \in SUBSET Row
    /\ \A r1, r2 \in table : r1 = r2      \* the primary key
    /\ pc \in [Proc -> Phase]
    /\ now \in [Proc -> Nat]
    /\ attempt \in [Proc -> Nat]

Init ==
    /\ clock = 0
    /\ table = {}
    /\ pc = [p \in Proc |-> "idle"]
    /\ now = [p \in Proc |-> 0]
    /\ attempt = [p \in Proc |-> 0]

-----------------------------------------------------------------------------
(* Slips a change could introduce, for checking that the properties below  *)
(* notice them: an off-by-one in the expiry test either way, an insert     *)
(* that no primary key stops, a release that forgets the token.            *)
PurgeOneEarly(p) ==
    /\ pc[p] = "purge"
    /\ table' = {row \in table : ~(row.expires <= now[p] + 1)}
    /\ pc' = [pc EXCEPT ![p] = "insert"]
    /\ UNCHANGED <<clock, now, attempt>>

PurgeOneLate(p) ==
    /\ pc[p] = "purge"
    /\ table' = {row \in table : ~(row.expires < now[p])}
    /\ pc' = [pc EXCEPT ![p] = "insert"]
    /\ UNCHANGED <<clock, now, attempt>>

AcquireWithoutKey(p) ==
    /\ pc[p] = "insert"
    /\ table' = table \cup {[token |-> token(p), expires |-> until(p)]}
    /\ pc' = [pc EXCEPT ![p] = "critical"]
    /\ UNCHANGED <<clock, now, attempt>>

ReleaseByKey(p) ==
    /\ pc[p] = "release"
    /\ table' = {}
    /\ pc' = [pc EXCEPT ![p] = "idle"]
    /\ UNCHANGED <<clock, now, attempt>>

-----------------------------------------------------------------------------
(* tryAcquireLock: read the clock and draw a token.                        *)
Attempt(p) ==
    /\ pc[p] = "idle"
    /\ attempt[p] < MaxAttempts
    /\ now' = [now EXCEPT ![p] = clock]
    /\ attempt' = [attempt EXCEPT ![p] = @ + 1]
    /\ pc' = [pc EXCEPT ![p] = "purge"]
    /\ UNCHANGED <<clock, table>>

(* DELETE ... WHERE cache_key = ? AND expires_at <= $now                   *)
Purge(p) ==
    /\ pc[p] = "purge"
    /\ table' = {row \in table : ~(row.expires <= now[p])}
    /\ pc' = [pc EXCEPT ![p] = "insert"]
    /\ UNCHANGED <<clock, now, attempt>>

(* INSERT of the lease: the primary key admits it only if no row is left.  *)
Acquire(p) ==
    /\ pc[p] = "insert"
    /\ table = {}
    /\ table' = {[token |-> token(p), expires |-> until(p)]}
    /\ pc' = [pc EXCEPT ![p] = "critical"]
    /\ UNCHANGED <<clock, now, attempt>>

(* The INSERT hits the primary key: null, the CLI prints "skip", exits 0.  *)
Skip(p) ==
    /\ pc[p] = "insert"
    /\ table # {}
    /\ pc' = [pc EXCEPT ![p] = "idle"]
    /\ UNCHANGED <<clock, table, now, attempt>>

(* The job's work ends, normally or with an exception: the finally block.  *)
Finish(p) ==
    /\ pc[p] = "critical"
    /\ pc' = [pc EXCEPT ![p] = "release"]
    /\ UNCHANGED <<clock, table, now, attempt>>

(* releaseLock: DELETE ... WHERE cache_key = ? AND value = $token          *)
Release(p) ==
    /\ pc[p] = "release"
    /\ table' = {row \in table : row.token # token(p)}
    /\ pc' = [pc EXCEPT ![p] = "idle"]
    /\ UNCHANGED <<clock, now, attempt>>

(* A statement throws (caught: null, or a release given up), or the        *)
(* process is killed: it stops here and the row, if any, stays.            *)
Die(p) ==
    /\ pc[p] # "idle"
    /\ pc' = [pc EXCEPT ![p] = "idle"]
    /\ UNCHANGED <<clock, table, now, attempt>>

Step(p) ==
    \/ Attempt(p) \/ Purge(p) \/ Acquire(p) \/ Skip(p)
    \/ Finish(p) \/ Release(p) \/ Die(p)

Tick ==
    /\ clock < MaxClock
    /\ clock' = clock + 1
    /\ UNCHANGED <<table, pc, now, attempt>>

Next == Tick \/ \E p \in Proc : Step(p)

Spec == Init /\ [][Next]_vars

-----------------------------------------------------------------------------
(* The timing under which a lease is as good as a lock: no process is      *)
(* still acquiring or working when the lease it asked for runs out.  The   *)
(* code does not enforce it: nothing renews the lease or checks it during  *)
(* the work.                                                               *)
Busy(p) == pc[p] \in {"purge", "insert", "critical"}

PunctualTick ==
    /\ \A p \in Proc : Busy(p) => clock + 1 < until(p)
    /\ Tick

PunctualNext == PunctualTick \/ \E p \in Proc : Step(p)

PunctualSpec == Init /\ [][PunctualNext]_vars

-----------------------------------------------------------------------------
Critical == {p \in Proc : pc[p] = "critical"}
Live(p)  == clock < until(p)

(* Two processes work at the same time only when the lease of one of them  *)
(* has run out, however the clock, the purges and the inserts of any       *)
(* number of processes interleave, and whoever dies.                       *)
OneLiveHolder ==
    \A p, q \in Critical : Live(p) /\ Live(q) => p = q

(* A lease leaves the table only once it has expired or by the hand of the *)
(* process that took it: a job that finishes late never removes the lease  *)
(* of the one that took over ("release is token-scoped so a                *)
(* timeout-takeover can't delete the new holder's lock").                  *)
LeasesEndOnTimeOrByOwner ==
    [][\A row \in table \ table' :
          \/ row.expires <= clock
          \/ \E p \in Proc : pc[p] = "release" /\ token(p) = row.token]_vars

(* What the architecture document promises of a timer job: at most one     *)
(* instance runs at a time.                                                *)
AtMostOneRun == \A p, q \in Critical : p = q

(* A run is skipped only for a lease that was in force when the run        *)
(* started, never for the remains of a crashed holder: "a crashed holder   *)
(* can't deadlock the schedule".  Holds of punctual processes.             *)
SkipsOnlyForLiveLease ==
    [][\A p \in Proc :
          Skip(p) => \E row \in table : row.expires > now[p]]_vars

(* Refinement: the processes that hold the lease are those of a plain      *)
(* mutual exclusion, as long as they are punctual.                         *)
Exclusive == INSTANCE ExclusiveJob WITH running <- Critical

RunsExclusively == Exclusive!Spec
=============================================================================
