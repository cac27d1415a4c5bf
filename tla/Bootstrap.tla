------------------------------ MODULE Bootstrap ------------------------------
(***************************************************************************)
(* The bootstrap of src/Service/BootstrapOrchestrator.php under            *)
(* DistributedLock::runExclusively: every request of php-fpm and every CLI *)
(* compares the version recorded in ci_app_settings with that of its code  *)
(* and, when they differ, migrates and seeds the database under a lease.   *)
(* The version is read before the process waits for the lease, and the     *)
(* mode of the seed is drawn from that reading.                            *)
(*                                                                         *)
(* A statement is a step.  tryAcquireLock is one step here: LeaseLock has  *)
(* its statements.  Of the seed the model follows the permissions of one   *)
(* built-in role, which RbacSeeder deletes and inserts one by one outside  *)
(* of a transaction; the other tables are created or altered idempotently. *)
(***************************************************************************)
EXTENDS Naturals

CONSTANTS
    Starts,         \* the requests and CLIs that start, one after another each
    NoStart,
    Code,           \* Code[p]: APP_VERSION of the code p runs
    Defaults,       \* Defaults[v]: what version v grants the role by default
    FirstVersions,  \* the versions recorded at first, 0 for an empty database
    LeaseLife,      \* MIGRATION_LOCK_TTL
    WaitLife,       \* MIGRATION_WAIT_TIMEOUT_SECONDS
    MaxFaults       \* bound: crashes and failing statements

ASSUME BootAssumption ==
    /\ NoStart \notin Starts
    /\ FirstVersions \subseteq Nat /\ FirstVersions \subseteq DOMAIN Defaults
    /\ \A p \in Starts : Code[p] \in DOMAIN Defaults \ {0}
    /\ DOMAIN Defaults \subseteq Nat /\ Defaults[0] = {}
    /\ LeaseLife \in Nat \ {0} /\ WaitLife \in Nat \ {0} /\ MaxFaults \in Nat

VARIABLES
    tables,     \* those of ci_cache and ci_app_settings that exist
    recorded,   \* the version recorded, 0 for none
    grants,     \* the permissions the role has
    lease,      \* the row of the migration lock: whose, and its time left
    boot,       \* boot[p]: where p stands and what it holds
    bootFaults,
    unsure      \* history: a migration ran without the lease, for want of its
                \* table, or without knowing the recorded version

bootVars == <<tables, recorded, grants, lease, boot, bootFaults, unsure>>
db == <<tables, recorded, grants>>

Grants == UNION {Defaults[v] : v \in DOMAIN Defaults}
Working == {"check", "cache", "settings", "prune", "grant", "mark", "leave"}
Start_ == [at : {"idle", "try", "probe", "poll", "retry", "last"} \cup Working,
           mode : {"prune", "merge"}, wait : 0 .. WaitLife,
           todo : SUBSET Grants, bad : BOOLEAN]
Idle == [at |-> "idle", mode |-> "prune", wait |-> 0, todo |-> {}, bad |-> FALSE]

NoLease == [by |-> NoStart, left |-> 0]

BootInit ==
    /\ recorded \in FirstVersions
    /\ tables = (IF recorded = 0 THEN {} ELSE {"cache", "settings"})
    /\ grants = Defaults[recorded]
    /\ lease = NoLease
    /\ boot = [p \in Starts |-> Idle]
    /\ bootFaults = 0 /\ unsure = FALSE

At(p, place) == boot[p].at = place
Goes(p, place) == boot' = [boot EXCEPT ![p].at = place]
Ends(p) == boot' = [boot EXCEPT ![p] = Idle]
Breaks == bootFaults < MaxFaults /\ bootFaults' = bootFaults + 1
-----------------------------------------------------------------------------
(* Slips a change could introduce, for checking that the properties below  *)
(* notice them.                                                            *)
MigrateAnyhow(p) ==
    /\ At(p, "check")
    /\ Goes(p, "cache")
    /\ UNCHANGED <<db, lease, bootFaults, unsure>>

NeverExpires == lease.by = NoStart
-----------------------------------------------------------------------------
(* The migrator's recordedVersion: null where the read throws              *)
Reading == IF "settings" \in tables THEN recorded ELSE 0

(* bootstrap: compare the versions and draw the mode of the seed           *)
Mode(p, seen) == IF seen > Code[p] THEN "merge" ELSE "prune"
Compare(p, seen) ==
    /\ At(p, "idle") /\ seen # Code[p]
    /\ boot' = [boot EXCEPT ![p].at = "try", ![p].mode = Mode(p, seen)]
    /\ UNCHANGED <<db, lease, unsure>>

Start(p) == Compare(p, Reading) /\ UNCHANGED bootFaults
StartBlind(p) == Compare(p, 0) /\ Breaks

(* tryAcquireLock: an expired lease is deleted, then the key decides; null *)
(* also where there is no table                                            *)
Free == lease.left = 0
Acquires(p) ==
    /\ "cache" \in tables /\ Free
    /\ lease' = [by |-> p, left |-> LeaseLife]
    /\ Goes(p, "check")
Refused(p) == ~("cache" \in tables /\ Free)
Again(p) == Goes(p, IF boot[p].wait > 0 THEN "poll" ELSE "last")

Try(p) ==
    /\ At(p, "try")
    /\ Acquires(p) \/ (Refused(p) /\ Goes(p, "probe") /\ UNCHANGED lease)
    /\ UNCHANGED <<db, bootFaults, unsure>>

(* lockTableAvailable: without the table the migration runs unlocked       *)
Probe(p) ==
    /\ At(p, "probe")
    /\ IF "cache" \in tables
         THEN boot' = [boot EXCEPT ![p].at = "poll", ![p].wait = WaitLife]
         ELSE Goes(p, "check")
    /\ unsure' = (unsure \/ "cache" \notin tables)
    /\ UNCHANGED <<db, lease, bootFaults>>

(* A statement of the lock or the SELECT of its table throws: taken for a  *)
(* refusal, or for a table that is not there                               *)
LockFails(p) ==
    /\ Breaks
    /\ \/ At(p, "try") /\ Goes(p, "probe") /\ UNCHANGED unsure
       \/ At(p, "probe") /\ Goes(p, "check") /\ unsure' = TRUE
       \/ At(p, "retry") /\ Again(p) /\ UNCHANGED unsure
    /\ UNCHANGED <<db, lease>>

(* The loop: read the version, unguarded here (without ci_app_settings the *)
(* start fails with the exception), then try again, until the time is up   *)
Poll(p) ==
    /\ At(p, "poll")
    /\ IF "settings" \notin tables \/ recorded = Code[p]
         THEN Ends(p)
         ELSE Goes(p, "retry")
    /\ UNCHANGED <<db, lease, bootFaults, unsure>>

Retry(p) ==
    /\ At(p, "retry")
    /\ Acquires(p) \/ (Refused(p) /\ Again(p) /\ UNCHANGED lease)
    /\ UNCHANGED <<db, bootFaults, unsure>>

(* The last attempt, or the exception that fails the start                 *)
Last(p) ==
    /\ At(p, "last")
    /\ Acquires(p) \/ (Refused(p) /\ Ends(p) /\ UNCHANGED lease)
    /\ UNCHANGED <<db, bootFaults, unsure>>
-----------------------------------------------------------------------------
(* The critical section: nothing to do if another has migrated meanwhile   *)
Check(p) ==
    /\ At(p, "check")
    /\ Goes(p, IF Reading = Code[p] THEN "leave" ELSE "cache")
    /\ UNCHANGED <<db, lease, bootFaults, unsure>>

(* The read fails: the same null as for an empty database                  *)
CheckBlind(p) ==
    /\ At(p, "check") /\ Breaks
    /\ Goes(p, "cache")
    /\ unsure' = TRUE
    /\ UNCHANGED <<db, lease>>

(* ensureTables creates ci_cache before ci_app_settings                    *)
Create(p) ==
    /\ \/ At(p, "cache") /\ tables' = tables \cup {"cache"} /\ Goes(p, "settings")
       \/ /\ At(p, "settings") /\ tables' = tables \cup {"settings"}
          /\ boot' = [boot EXCEPT
                ![p].at = IF boot[p].mode = "prune" THEN "prune" ELSE "grant",
                ![p].todo = Defaults[Code[p]]]
    /\ UNCHANGED <<recorded, grants, lease, bootFaults, unsure>>

(* seedRbac: in prune mode the role loses everything, then gets what this  *)
(* code grants; a statement that fails is noted and the loop goes on       *)
Prune(p) ==
    /\ At(p, "prune")
    /\ grants' = {}
    /\ Goes(p, "grant")
    /\ UNCHANGED <<tables, recorded, lease, bootFaults, unsure>>

Grant(p) ==
    /\ At(p, "grant")
    /\ \E g \in boot[p].todo :
         /\ grants' = grants \cup {g}
         /\ boot' = [boot EXCEPT ![p].todo = @ \ {g}]
    /\ UNCHANGED <<tables, recorded, lease, bootFaults, unsure>>

GrantFails(p) ==
    /\ At(p, "grant") /\ Breaks
    /\ \E g \in boot[p].todo :
         boot' = [boot EXCEPT ![p].todo = @ \ {g}, ![p].bad = TRUE]
    /\ UNCHANGED <<db, lease, unsure>>

PruneFails(p) ==
    /\ At(p, "prune") /\ Breaks
    /\ boot' = [boot EXCEPT ![p].at = "grant", ![p].bad = TRUE]
    /\ UNCHANGED <<db, lease, unsure>>

(* The exception of a seed that is not complete, else the version          *)
Seeded(p) ==
    /\ At(p, "grant") /\ boot[p].todo = {}
    /\ Goes(p, IF boot[p].bad THEN "leave" ELSE "mark")
    /\ UNCHANGED <<db, lease, bootFaults, unsure>>

MarkCurrent(p) ==
    /\ At(p, "mark")
    /\ recorded' = Code[p]
    /\ Goes(p, "leave")
    /\ UNCHANGED <<tables, grants, lease, bootFaults, unsure>>

(* Any other statement that throws ends the critical section               *)
Throws(p) ==
    /\ boot[p].at \in {"cache", "settings", "mark"} /\ Breaks
    /\ Goes(p, "leave")
    /\ UNCHANGED <<db, lease, unsure>>

(* finally: releaseLock removes the row if it is still the process's own   *)
Leave(p) ==
    /\ At(p, "leave")
    /\ lease' = (IF lease.by = p THEN NoLease ELSE lease)
    /\ Ends(p)
    /\ UNCHANGED <<db, bootFaults, unsure>>

(* The process is killed: its lease stays and runs out                     *)
Crash(p) ==
    /\ ~At(p, "idle") /\ Breaks
    /\ Ends(p)
    /\ UNCHANGED <<db, lease, unsure>>

(* Time.  A migration is taken to end before its lease does (300 s): the   *)
(* code neither renews the lease nor looks at it.                          *)
Holds(p) == lease.by = p /\ boot[p].at \in Working
Less(n) == IF n = 0 THEN 0 ELSE n - 1
Wait ==
    /\ \A p \in Starts : Holds(p) => lease.left > 1
    /\ lease' = [lease EXCEPT !.left = Less(@)]
    /\ boot' = [p \in Starts |-> [boot[p] EXCEPT !.wait = Less(@)]]
    /\ UNCHANGED <<db, bootFaults, unsure>>

Waits(p) == Try(p) \/ Probe(p) \/ Poll(p) \/ Retry(p) \/ Last(p)
Migrates(p) == \/ Check(p) \/ Create(p) \/ Prune(p) \/ Grant(p) \/ Seeded(p)
               \/ MarkCurrent(p) \/ Leave(p)
Fails(p) == \/ StartBlind(p) \/ LockFails(p) \/ CheckBlind(p) \/ PruneFails(p)
            \/ GrantFails(p) \/ Throws(p) \/ Crash(p)

BootNext ==
    \/ \E p \in Starts : Start(p) \/ Waits(p) \/ Migrates(p) \/ Fails(p)
    \/ Wait

(* Requests keep coming, a started one goes on, and time passes.           *)
BootFairness ==
    /\ \A p \in Starts : WF_bootVars(Start(p) \/ Waits(p) \/ Migrates(p))
    /\ WF_bootVars(Wait)

BootSpec == BootInit /\ [][BootNext]_bootVars /\ BootFairness
-----------------------------------------------------------------------------
BootTypeOK ==
    /\ tables \subseteq {"cache", "settings"}
    /\ recorded \in DOMAIN Defaults
    /\ grants \subseteq Grants
    /\ lease \in [by : Starts \cup {NoStart}, left : 0 .. LeaseLife]
    /\ boot \in [Starts -> Start_]
    /\ bootFaults \in 0 .. MaxFaults /\ unsure \in BOOLEAN

(* With nobody at work on the database and its version recorded as the one *)
(* of the code, the role has what that version grants it, whoever crashed, *)
(* failed or retried on the way: from then on a start trusts the recorded  *)
(* version and never looks at the seed again.  It is said of instances of  *)
(* one version ("does not mark the version, the next bootstrap retries",   *)
(* RbacSeeder.php:120).  Where a migration ran without the lease or did    *)
(* not know the version, it is said only as long as nothing fails.         *)
Resting == \A p \in Starts : boot[p].at \notin Working
MarkedIsSeeded ==
    Resting /\ (unsure => bootFaults = 0) =>
        \A p \in Starts : recorded = Code[p] => Defaults[recorded] \subseteq grants

(* What one start found out of date is brought up to date in the end, by   *)
(* itself or by another: once crashes and failures cease, a lease left     *)
(* behind only delays, and what failed half-way is repeated.               *)
EventuallyCurrent ==
    \A p \in Starts : At(p, "try") ~> recorded = Code[p]

(* docs/FAQ.md:831: "a downgrade never revokes permissions the new version *)
(* granted (merge seeding)".                                               *)
DowngradeRevokesNothing ==
    [][\A p \in Starts : recorded > Code[p] /\ Prune(p) =>
                            Defaults[recorded] \cap grants \subseteq grants']_bootVars
=============================================================================
