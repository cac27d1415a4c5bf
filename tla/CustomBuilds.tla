----------------------------- MODULE CustomBuilds -----------------------------
(***************************************************************************)
(* The custom_push report: an external CI posts the final result of a      *)
(* build to POST /api/build/{path}/report.  A success is checked against   *)
(* the image registry and recorded, in one transaction, as the row of the  *)
(* build (ci_custom_builds) and the artifact the deployment layer reads    *)
(* (ci_pipeline_artifacts); a failure is one autocommitted statement.      *)
(* Either way an audit row (ci_security_checks) follows.                   *)
(*                                                                         *)
(* Every SQL statement is an action of its own, any number of requests     *)
(* interleave, any statement may fail (a lock wait, a deadlock, a lost     *)
(* connection) and any request may die.  What a transaction writes becomes *)
(* visible at its commit; until then its rows are locked.  The two drivers *)
(* differ:                                                                 *)
(*   mysql   reads inside a transaction see the snapshot of its first      *)
(*           read, INSERT and UPDATE act on the latest committed rows and  *)
(*           wait for the lock of the row;                                 *)
(*   sqlite  (WAL) one writer at a time, and a transaction that has read   *)
(*           cannot write once another connection has committed.           *)
(* A transaction's key locks that MySQL takes after a duplicate key error  *)
(* are left out: the model lets more requests run than the server would.   *)
(***************************************************************************)
EXTENDS Naturals

CONSTANTS
    Request,    \* the report requests, retries included
    Build,      \* the builds, identified by (job_name, pipeline_iid)
    Tag,        \* image tags
    NoTag,      \* no tag
    Sha,        \* commits, the key of the audit rows
    Failure,    \* the statuses that are not "success": "failed", "aborted"
    Driver,     \* "mysql" or "sqlite"
    MaxTime,    \* bound: times are 1..MaxTime, 0 is NULL
    MaxOthers   \* bound: artifact writes of the other endpoints

ASSUME BuildsAssumption ==
    /\ Driver \in {"mysql", "sqlite"}
    /\ NoTag \notin Tag
    /\ Failure \subseteq {"failed", "aborted"}
    /\ MaxTime \in Nat
    /\ MaxOthers \in Nat

VARIABLES
    builds,     \* ci_custom_builds, committed: the row of each build
    artifacts,  \* ci_pipeline_artifacts, committed: the row of each build
    audit,      \* ci_security_checks, committed: the row of each commit
    pc,         \* the statement each request has reached
    body,       \* what each request reports
    tx,         \* what the transaction of a success knows and has written
    reply,      \* the action or error each request is going to answer
    others      \* how many artifact writes the other endpoints made

vars == <<builds, artifacts, audit, pc, body, tx, reply, others>>

-----------------------------------------------------------------------------
Time   == 1..MaxTime
Known  == {"none", "known"}           \* digests: only whether there is one
Status == {"success"} \cup Failure

BuildRow == [status : Status, finished : Time]
Absent   == [status |-> "absent", finished |-> 0]

Artifact   == [tag : Tag, source : Time, digest : Known]
NoArtifact == [tag |-> NoTag, source |-> 0, digest |-> "none"]

AuditRow == [build : Build, state : {"success", "failed"},
             writeback : {"success", "failed"}]
NoAudit  == [state |-> "none", writeback |-> "none"]

Body == {m \in [build : Build, status : Status, finished : Time,
                tag : Tag \cup {NoTag}, sha : Sha] :
           m.status = "success" <=> m.tag # NoTag}
NoBody == [status |-> "none"]

Accepted == {"created", "updated"}
Written  == Accepted \cup {"ignored_terminal"}   \* INSERT or UPDATE executed
Reply    == Written \cup {"none", "ignored_stale", "conflict", "error",
                          "rejected"}

Phase == {"idle", "verify", "find", "insert", "update", "reread", "record",
          "commit", "audit", "done"}

buildOf(r) == body[r].build
rowOf(r)   == [status |-> body[r].status, finished |-> body[r].finished]
look(b)    == [build |-> builds[b], artifact |-> artifacts[b]]

(* Only a success opens a transaction.                                     *)
InTx(r) == body[r].status = "success"

-----------------------------------------------------------------------------
(* Slips a change could introduce, for checking that the properties below  *)
(* notice them: an UPDATE without one of its two conditions, a comparison  *)
(* of times the wrong way round, a transaction left open after an error.   *)
AdmitsAfterSuccess(row, new) == row.finished <= new.finished

AdmitsOlder(row, new) == row.status # "success"

KeepsOlder(old, new) ==
    /\ old # NoArtifact
    /\ new.source > old.source
    /\ new.digest = "none"

HoldsAfterError(q) ==
    /\ InTx(q)
    /\ pc[q] \notin {"idle", "verify", "find", "insert", "update"}
    /\ reply[q] \in Written \cup {"error"}

ReportedUndated(r) ==
    [tag |-> body[r].tag, source |-> 0, digest |-> "none"]

-----------------------------------------------------------------------------
(* May the row be replaced by the new one?  The WHERE of the UPDATE.        *)
Admits(row, new) ==
    /\ row.status # "success"
    /\ row.finished <= new.finished

(* PipelineArtifactService::record keeps an artifact of a newer source      *)
(* unless the digest has changed, as a known one may have.                 *)
KeepsNewer(old, new) ==
    /\ old # NoArtifact
    /\ new.source < old.source
    /\ new.digest = "none"

(* A transaction that has written its build keeps the row until it ends.   *)
Holds(q) ==
    /\ InTx(q)
    /\ pc[q] \in {"reread", "record", "commit"}
    /\ reply[q] \in Written

(* The locks of other transactions that a statement of r waits for.        *)
Blocked(r) ==
    \E q \in Request \ {r} :
        Holds(q) /\ (Driver = "sqlite" \/ buildOf(q) = buildOf(r))

(* SQLite refuses the first write of a transaction that read older rows.   *)
Stale(r) == Driver = "sqlite" /\ InTx(r) /\ tx[r].view # look(buildOf(r))

(* Of a success under way: whether a digest was found for its tag          *)
(* ($finalDigest), what the first read of the transaction saw of the build, *)
(* and the artifact row written but not committed.                         *)
Tx == [digest : Known,
       view   : [build : BuildRow \cup {Absent}, artifact : Artifact \cup {NoArtifact}],
       draft  : Artifact \cup {NoArtifact}]
NoTx == [digest |-> "none",
         view   |-> [build |-> Absent, artifact |-> NoArtifact],
         draft  |-> NoArtifact]

(* The types; a request under way has a body, and an artifact names a tag  *)
(* and the time of a report.                                               *)
TypeOK ==
    /\ builds \in [Build -> BuildRow \cup {Absent}]
    /\ artifacts \in [Build -> Artifact \cup {NoArtifact}]
    /\ audit \in [Sha -> AuditRow \cup {NoAudit}]
    /\ pc \in [Request -> Phase]
    /\ body \in [Request -> Body \cup {NoBody}]
    /\ \A r \in Request : pc[r] # "idle" => body[r] \in Body
    /\ tx \in [Request -> Tx]
    /\ reply \in [Request -> Reply]
    /\ others \in Nat

Init ==
    /\ builds = [b \in Build |-> Absent]
    /\ artifacts = [b \in Build |-> NoArtifact]
    /\ audit = [s \in Sha |-> NoAudit]
    /\ pc = [r \in Request |-> "idle"]
    /\ body = [r \in Request |-> NoBody]
    /\ tx = [r \in Request |-> NoTx]
    /\ reply = [r \in Request |-> "none"]
    /\ others = 0

-----------------------------------------------------------------------------
goto(r, phase) == pc' = [pc EXCEPT ![r] = phase]

answer(r, a, phase) ==
    /\ reply' = [reply EXCEPT ![r] = a]
    /\ goto(r, phase)

forget(r) == tx' = [tx EXCEPT ![r] = NoTx]      \* the transaction is over

tables == <<builds, artifacts, audit>>

(* The request arrives with a well-formed body.                            *)
Receive(r) ==
    /\ pc[r] = "idle"
    /\ \E m \in Body :
          /\ body' = [body EXCEPT ![r] = m]
          /\ goto(r, IF m.status = "success" THEN "verify" ELSE "find")
    /\ UNCHANGED <<tables, tx, reply, others>>

(* The mapping and the registry know the tag of a success; its digest is   *)
(* resolved if the registry, or the body, gives one.  BEGIN.               *)
Verify(r) ==
    /\ pc[r] = "verify"
    /\ \E d \in Known : tx' = [tx EXCEPT ![r].digest = d]
    /\ goto(r, "find")
    /\ UNCHANGED <<tables, body, reply, others>>

(* ... or they do not: 400, nothing is written, not even the audit row.    *)
Reject(r) ==
    /\ pc[r] = "verify"
    /\ answer(r, "rejected", "done")
    /\ UNCHANGED <<tables, body, tx, others>>

(* report: read the row of the build and decide.  The first read of a      *)
(* transaction fixes what its later reads see.                             *)
Find(r) ==
    LET b == buildOf(r)
        row == builds[b]
        conflict == row.status = "success" /\ ~InTx(r)
        stale == rowOf(r).finished < row.finished
    IN  /\ pc[r] = "find"
        /\ tx' = IF InTx(r) THEN [tx EXCEPT ![r].view = look(b)] ELSE tx
        /\ \/ conflict /\ answer(r, "conflict", "audit")
           \/ ~conflict /\ stale
              /\ answer(r, "ignored_stale", IF InTx(r) THEN "commit" ELSE "audit")
           \/ ~conflict /\ ~stale
              /\ goto(r, IF row = Absent THEN "insert" ELSE "update")
              /\ UNCHANGED reply
        /\ UNCHANGED <<tables, body, others>>

(* INSERT of the build: a duplicate key falls back to the guarded UPDATE.  *)
Insert(r) ==
    /\ pc[r] = "insert"
    /\ ~Blocked(r) /\ ~Stale(r)
    /\ IF builds[buildOf(r)] = Absent
       THEN /\ answer(r, "created", IF InTx(r) THEN "record" ELSE "audit")
            /\ builds' = IF InTx(r) THEN builds
                         ELSE [builds EXCEPT ![buildOf(r)] = rowOf(r)]
       ELSE goto(r, "update") /\ UNCHANGED <<builds, reply>>
    /\ UNCHANGED <<artifacts, audit, body, tx, others>>

(* reconcileExisting: UPDATE ... WHERE the row is not a success and not    *)
(* newer.  MySQL counts no row when nothing changes.                       *)
Update(r) ==
    LET b == buildOf(r)
        hit == Admits(builds[b], rowOf(r))
        unchanged == Driver = "mysql" /\ builds[b] = rowOf(r)
    IN  /\ pc[r] = "update"
        /\ ~Blocked(r) /\ ~Stale(r)
        /\ builds' = IF hit /\ ~InTx(r) THEN [builds EXCEPT ![b] = rowOf(r)]
                     ELSE builds
        /\ \/ hit /\ answer(r, "updated", "reread")
           \/ (~hit \/ unchanged) /\ answer(r, "ignored_terminal", "reread")
        /\ UNCHANGED <<artifacts, audit, body, tx, others>>

(* The SELECT that follows the UPDATE.                                     *)
Reread(r) ==
    /\ pc[r] = "reread"
    /\ goto(r, IF ~InTx(r) THEN "audit"
               ELSE IF reply[r] \in Accepted THEN "record" ELSE "commit")
    /\ UNCHANGED <<tables, body, tx, reply, others>>

(* recordPipelineTag: $finalDigest is passed in the place of $createdAt,   *)
(* so the digest recorded is none.                                         *)
reported(r) ==
    [tag |-> body[r].tag, source |-> body[r].finished, digest |-> "none"]

(* find() reads the snapshot of the transaction ...                        *)
seen(r) == tx[r].view.artifact

(* ... but an UPDATE meets the row there is now, if any, and so does an    *)
(* INSERT IGNORE.  Each reports success whether it wrote or not.           *)
writes(r) == seen(r) = NoArtifact <=> artifacts[buildOf(r)] = NoArtifact

(* A digest in the place of a DATETIME: MySQL refuses the UPDATE and lets  *)
(* the INSERT IGNORE pass with a warning.                                  *)
refused(r) ==
    /\ Driver = "mysql"
    /\ tx[r].digest = "known"
    /\ seen(r) # NoArtifact /\ artifacts[buildOf(r)] # NoArtifact

RecordArtifact(r) ==
    /\ pc[r] = "record"
    /\ \/ /\ KeepsNewer(seen(r), reported(r))
          /\ UNCHANGED tx
       \/ /\ ~KeepsNewer(seen(r), reported(r))
          /\ ~refused(r)
          /\ tx' = IF writes(r)
                   THEN [tx EXCEPT ![r].draft =
                           [reported(r) EXCEPT !.digest = seen(r).digest]]
                   ELSE tx
    /\ goto(r, "commit")
    /\ UNCHANGED <<tables, body, reply, others>>

(* The write fails: ROLLBACK, a failed audit row, 500.                     *)
RecordRefused(r) ==
    /\ pc[r] = "record"
    /\ ~KeepsNewer(seen(r), reported(r)) /\ refused(r)
    /\ answer(r, "error", "audit")
    /\ forget(r)
    /\ UNCHANGED <<tables, body, others>>

(* COMMIT: the build and its artifact appear together.                     *)
Commit(r) ==
    LET b == buildOf(r)
    IN  /\ pc[r] = "commit"
        /\ builds' = IF reply[r] \in Accepted
                     THEN [builds EXCEPT ![b] = rowOf(r)] ELSE builds
        /\ artifacts' = IF tx[r].draft # NoArtifact
                        THEN [artifacts EXCEPT ![b] = tx[r].draft] ELSE artifacts
        /\ goto(r, "audit")
        /\ forget(r)
        /\ UNCHANGED <<audit, body, reply, others>>

(* A statement throws: ROLLBACK if in a transaction, 500.  What an         *)
(* autocommitted UPDATE has written stays.                                 *)
Fail(r) ==
    /\ pc[r] \in {"find", "insert", "update", "reread", "record", "commit"}
    /\ answer(r, "error", "audit")
    /\ forget(r)
    /\ UNCHANGED <<tables, body, others>>

(* recordReportAudit: REPLACE by commit, without a look at the row that is *)
(* there.  A failure is only logged.                                       *)
auditOf(r) ==
    [build     |-> buildOf(r),
     state     |-> IF InTx(r) THEN "success" ELSE "failed",
     writeback |-> IF reply[r] \in {"conflict", "error"} THEN "failed"
                   ELSE "success"]

Audit(r) ==
    /\ pc[r] = "audit"
    /\ \/ audit' = [audit EXCEPT ![body[r].sha] = auditOf(r)]
       \/ UNCHANGED audit
    /\ goto(r, "done")
    /\ UNCHANGED <<builds, artifacts, body, tx, reply, others>>

(* The request dies, or its client never sees the answer: a transaction    *)
(* still open is rolled back.                                              *)
Crash(r) ==
    /\ pc[r] \notin {"idle", "done"}
    /\ answer(r, "none", "done")
    /\ forget(r)
    /\ UNCHANGED <<tables, body, others>>

-----------------------------------------------------------------------------
(* The other endpoints that write the same artifact: registry-sync records *)
(* a tag it has verified, the cleanup deletes one it finds gone.  Each is  *)
(* one step here, and waits for the row locks of a commit under way.       *)
Free(b) ==
    \A q \in Request :
        Holds(q) => /\ Driver = "mysql"
                    /\ buildOf(q) = b => tx[q].draft = NoArtifact

SyncArtifact(b) ==
    /\ others < MaxOthers /\ others' = others + 1
    /\ Free(b)
    /\ \E new \in Artifact :
          /\ ~KeepsNewer(artifacts[b], new)
          /\ artifacts' = [artifacts EXCEPT ![b] =
                [new EXCEPT !.digest = IF @ = "none" THEN artifacts[b].digest
                                       ELSE @]]
    /\ UNCHANGED <<builds, audit, pc, body, tx, reply>>

CleanArtifact(b) ==
    /\ others < MaxOthers /\ others' = others + 1
    /\ Free(b)
    /\ artifacts' = [artifacts EXCEPT ![b] = NoArtifact]
    /\ UNCHANGED <<builds, audit, pc, body, tx, reply>>

-----------------------------------------------------------------------------
(* The statements of a request, in the order the code runs them.           *)
Serve(r) ==
    \/ Verify(r) \/ Reject(r) \/ Find(r) \/ Insert(r) \/ Update(r)
    \/ Reread(r) \/ RecordArtifact(r) \/ RecordRefused(r) \/ Commit(r)
    \/ Audit(r)

Next ==
    \/ \E r \in Request : Receive(r) \/ Serve(r) \/ Fail(r) \/ Crash(r)
    \/ \E b \in Build : SyncArtifact(b) \/ CleanArtifact(b)

Spec == Init /\ [][Next]_vars

(* SQLite denies a stale transaction its first write at once.              *)
Denied(r) ==
    /\ pc[r] \in {"insert", "update"}
    /\ Stale(r)
    /\ Fail(r)

(* A request that has been received is run by its php-fpm worker.          *)
FairSpec == Spec /\ \A r \in Request : WF_vars(Serve(r) \/ Denied(r))

-----------------------------------------------------------------------------
(* The build table follows the state machine: a success is final and the   *)
(* completion time never goes back, whatever requests race between their   *)
(* SELECT and their INSERT, UPDATE or COMMIT ("Custom-push terminal success *)
(* is now irreversible"; "the finished_at ordering is folded into the      *)
(* atomic UPDATE condition").                                              *)
StateMachine == INSTANCE BuildResult

FollowsStateMachine == StateMachine!Spec

(* Requests whose success has been accepted, and committed.                *)
Acknowledged ==
    {r \in Request : /\ pc[r] \in {"audit", "done"}
                     /\ reply[r] \in Accepted
                     /\ body[r].status = "success"}

(* A success answered "created" or "updated" is the row of its build from  *)
(* then on, and the only one so answered: retries and duplicates are told  *)
(* they were ignored.                                                      *)
AcknowledgedSuccessStands ==
    \A r \in Acknowledged :
        /\ builds[buildOf(r)] = rowOf(r)
        /\ \A q \in Acknowledged : buildOf(q) = buildOf(r) => q = r

(* A build turns into a success in the very step that has its artifact in  *)
(* place, of this report or of one that is not older ("a successful        *)
(* custom-push report commits atomically").                                *)
SuccessCommitsWithArtifact ==
    [][\A r \in Request :
          Commit(r) /\ reply[r] \in Accepted =>
              artifacts'[buildOf(r)].source >= body[r].finished]_vars

(* The digest resolved for a success is recorded with its artifact.        *)
DigestIsRecorded ==
    [][\A r \in Request :
          Commit(r) /\ tx[r].draft # NoArtifact /\ tx[r].digest = "known" =>
              artifacts'[buildOf(r)].digest = "known"]_vars

(* Every report received is answered: no request waits for ever for the    *)
(* rows of another.                                                        *)
EveryReportIsAnswered ==
    \A r \in Request : pc[r] # "idle" ~> pc[r] = "done"
=============================================================================
