-------------------------- MODULE CustomBuildsProofs --------------------------
(***************************************************************************)
(* Theorems about the custom_push report, for any number of requests and   *)
(* builds and for both drivers.                                            *)
(***************************************************************************)
EXTENDS CustomBuilds, TLAPS

USE BuildsAssumption

(* The types alone are not inductive: that an artifact carries a real tag  *)
(* rests on the reports that record one being successes.                   *)
OnlySuccessRecords ==
    \A r \in Request : pc[r] \in {"verify", "record", "commit"} => InTx(r)

TypeInv == TypeOK /\ OnlySuccessRecords

View == [build : BuildRow \cup {Absent}, artifact : Artifact \cup {NoArtifact}]

(* A request keeps the body it came with.                                  *)
LEMMA BodyFixed ==
    ASSUME [Next]_vars, NEW r \in Request, pc[r] # "idle", TypeOK
    PROVE  body'[r] = body[r]
<1>1. ASSUME NEW q \in Request, Receive(q) PROVE body'[r] = body[r]
  BY <1>1 DEF Receive, TypeOK
<1> QED
  BY <1>1 DEF Next, Serve, Verify, Reject, Find, Insert, Update, Reread,
     RecordArtifact, RecordRefused, Commit, Audit, Fail, Crash, SyncArtifact,
     CleanArtifact, vars

(* Only a success verifies, records and commits.                           *)
LEMMA SuccessRecordsStep ==
    TypeOK /\ OnlySuccessRecords /\ [Next]_vars => OnlySuccessRecords'
<1> SUFFICES ASSUME TypeOK, OnlySuccessRecords, [Next]_vars,
                    NEW r \in Request, pc'[r] \in {"verify", "record", "commit"}
             PROVE  InTx(r)'
  BY DEF OnlySuccessRecords
<1> USE DEF OnlySuccessRecords, InTx, TypeOK, goto, answer
<1>1. CASE Receive(r)
  BY <1>1 DEF Receive
<1>2. CASE pc[r] # "idle" /\ InTx(r)
  BY <1>2, BodyFixed
<1>3. Receive(r) \/ (pc[r] # "idle" /\ InTx(r))
  <2>1. ASSUME NEW q \in Request, q # r, pc'[q] # pc[q],
               Receive(q) \/ Serve(q) \/ Fail(q) \/ Crash(q)
        PROVE  pc'[r] = pc[r]
    BY <2>1 DEF Receive, Serve, Verify, Reject, Find, Insert, Update, Reread,
       RecordArtifact, RecordRefused, Commit, Audit, Fail, Crash
  <2>2. CASE Serve(r) \/ Fail(r) \/ Crash(r)
    BY <2>2 DEF Serve, Verify, Reject, Find, Insert, Update, Reread,
       RecordArtifact, RecordRefused, Commit, Audit, Fail, Crash
  <2>3. CASE pc' = pc
    BY <2>3
  <2>4. ASSUME NEW q \in Request, pc'[q] = pc[q],
               Receive(q) \/ Serve(q) \/ Fail(q) \/ Crash(q)
        PROVE  pc' = pc
    BY <2>4 DEF Receive, Serve, Verify, Reject, Find, Insert, Update, Reread,
       RecordArtifact, RecordRefused, Commit, Audit, Fail, Crash
  <2> QED
    BY <2>1, <2>2, <2>3, <2>4 DEF Next, SyncArtifact, CleanArtifact, vars
<1> QED
  BY <1>1, <1>2, <1>3

(* Rows, replies and phases keep their types.                              *)
LEMMA TypeOKStep == TypeInv /\ [Next]_vars => TypeOK'
<1> SUFFICES ASSUME TypeOK, OnlySuccessRecords, [Next]_vars PROVE TypeOK'
  BY DEF TypeInv
<1> USE DEF TypeOK, Phase, Reply, Written, Accepted, goto, answer, tables, forget
<1>0. NoTx \in Tx
  BY DEF NoTx, Tx, Known
<1>1. ASSUME NEW r \in Request, Receive(r) PROVE TypeOK'
  BY <1>1 DEF Receive
<1>2. ASSUME NEW r \in Request, Verify(r) PROVE TypeOK'
  <2>1. ASSUME NEW d \in Known PROVE [tx EXCEPT ![r].digest = d] \in [Request -> Tx]
    BY DEF Tx
  <2> QED
    BY <1>2, <2>1 DEF Verify
<1>3. ASSUME NEW r \in Request, Reject(r) PROVE TypeOK'
  BY <1>3 DEF Reject
<1>4. ASSUME NEW r \in Request, Find(r) PROVE TypeOK'
  <2>1. body[r] \in Body
    BY <1>4 DEF Find
  <2>2. look(buildOf(r)) \in View
    BY <2>1 DEF look, buildOf, Body, View
  <2>3. [tx EXCEPT ![r].view = look(buildOf(r))] \in [Request -> Tx]
    BY <2>2 DEF Tx, View
  <2> QED
    BY <1>4, <2>3 DEF Find
<1>5. ASSUME NEW r \in Request, Insert(r) \/ Update(r) PROVE TypeOK'
  <2>1. body[r] \in Body
    BY <1>5 DEF Insert, Update
  <2>2. rowOf(r) \in BuildRow /\ buildOf(r) \in Build
    BY <2>1 DEF rowOf, buildOf, Body, BuildRow
  <2> QED
    BY <1>5, <2>2 DEF Insert, Update
<1>6. ASSUME NEW r \in Request, Reread(r) PROVE TypeOK'
  BY <1>6 DEF Reread
<1>7. ASSUME NEW r \in Request, Fail(r) \/ Crash(r) \/ RecordRefused(r)
      PROVE  TypeOK'
  BY <1>0, <1>7 DEF Fail, Crash, RecordRefused
<1>8. ASSUME NEW r \in Request, RecordArtifact(r) PROVE TypeOK'
  <2> DEFINE row == [reported(r) EXCEPT !.digest = seen(r).digest]
  <2>1. body[r] \in Body /\ body[r].status = "success"
    BY <1>8 DEF RecordArtifact, OnlySuccessRecords, InTx
  <2>2. body[r].tag \in Tag /\ body[r].finished \in Time
    BY <2>1 DEF Body
  <2>3. seen(r).digest \in Known
    BY DEF seen, Tx, Artifact, NoArtifact, Known
  <2>4. row = [tag |-> body[r].tag, source |-> body[r].finished,
               digest |-> seen(r).digest]
    BY DEF reported
  <2>5. row \in Artifact
    BY <2>2, <2>3, <2>4 DEF Artifact
  <2>6. ASSUME NEW a \in Artifact
        PROVE  [tx EXCEPT ![r].draft = a] \in [Request -> Tx]
    BY DEF Tx
  <2> QED
    BY <1>8, <2>5, <2>6 DEF RecordArtifact
<1>9. ASSUME NEW r \in Request, Commit(r) PROVE TypeOK'
  <2>1. body[r] \in Body
    BY <1>9 DEF Commit
  <2>2. rowOf(r) \in BuildRow /\ buildOf(r) \in Build
    BY <2>1 DEF rowOf, buildOf, Body, BuildRow
  <2>3. tx[r].draft \in Artifact \cup {NoArtifact}
    BY DEF Tx
  <2> QED
    BY <1>0, <1>9, <2>2, <2>3 DEF Commit
<1>10. ASSUME NEW r \in Request, Audit(r) PROVE TypeOK'
  <2>1. body[r] \in Body
    BY <1>10 DEF Audit
  <2>2. auditOf(r) \in AuditRow /\ body[r].sha \in Sha
    BY <2>1 DEF auditOf, AuditRow, buildOf, Body
  <2> QED
    BY <1>10, <2>2 DEF Audit
<1>11. ASSUME NEW b \in Build, SyncArtifact(b) PROVE TypeOK'
  <2>1. ASSUME NEW new \in Artifact
        PROVE  [new EXCEPT !.digest = IF @ = "none" THEN artifacts[b].digest
                                      ELSE @] \in Artifact
    BY DEF Artifact, NoArtifact, Known
  <2> QED
    BY <1>11, <2>1 DEF SyncArtifact
<1>12. ASSUME NEW b \in Build, CleanArtifact(b) PROVE TypeOK'
  BY <1>12 DEF CleanArtifact
<1>13. CASE UNCHANGED vars
  BY <1>13 DEF vars
<1> QED
  BY <1>1, <1>2, <1>3, <1>4, <1>5, <1>6, <1>7, <1>8, <1>9, <1>10, <1>11,
     <1>12, <1>13 DEF Next, Serve

(* The types are inductive once it is known who records ...                *)
LEMMA TypeInvStep == TypeInv /\ [Next]_vars => TypeInv'
  BY TypeOKStep, SuccessRecordsStep DEF TypeInv

(* ... and hold at the start.                                              *)
LEMMA TypeInvInit == Init => TypeInv
  BY DEF Init, TypeInv, TypeOK, OnlySuccessRecords, Phase, Reply, Written,
     Accepted, Known, Tx, NoTx

(* The tables, and what the requests and their transactions know, keep     *)
(* their types, for any number of reports on either database.              *)
THEOREM TypeCorrect == Spec => []TypeOK
<1>1. Spec => []TypeInv
  BY TypeInvInit, TypeInvStep, PTL DEF Spec
<1> QED
  BY <1>1, PTL DEF TypeInv

-----------------------------------------------------------------------------
(* The strengthening for the build table: a row is locked by one           *)
(* transaction at most, and while it is locked it still admits what that   *)
(* transaction is going to commit.                                         *)
LocksExclude ==
    \A q, r \in Request :
        Holds(q) /\ Holds(r) /\ buildOf(q) = buildOf(r) => q = r

PendingAdmitted ==
    \A r \in Request :
        Holds(r) /\ reply[r] \in Accepted => Admits(builds[buildOf(r)], rowOf(r))

BuildInv == TypeInv /\ LocksExclude /\ PendingAdmitted

(* A transaction comes to hold a row only by the INSERT or the UPDATE it   *)
(* executes while nobody else holds it.                                    *)
LEMMA HoldsStep ==
    ASSUME TypeInv, [Next]_vars, NEW r \in Request, Holds(r)'
    PROVE  \/ Holds(r) /\ reply'[r] = reply[r]
           \/ Insert(r) /\ builds[buildOf(r)] = Absent
           \/ Update(r)
<1> USE DEF TypeInv, TypeOK, goto, answer, Holds, InTx, Written, Accepted
<1>1. ASSUME NEW q \in Request, q # r,
             Receive(q) \/ Serve(q) \/ Fail(q) \/ Crash(q)
      PROVE  Holds(r) /\ reply'[r] = reply[r]
  BY <1>1 DEF Receive, Serve, Verify, Reject, Find, Insert, Update, Reread,
     RecordArtifact, RecordRefused, Commit, Audit, Fail, Crash
<1>2. CASE Receive(r) \/ Fail(r) \/ Crash(r)
  BY <1>2 DEF Receive, Fail, Crash
<1>3. CASE Verify(r) \/ Reject(r) \/ Find(r) \/ RecordRefused(r) \/ Commit(r)
           \/ Audit(r)
  BY <1>3 DEF Verify, Reject, Find, RecordRefused, Commit, Audit
<1>4. CASE Insert(r)
  BY <1>4 DEF Insert
<1>5. CASE Reread(r) \/ RecordArtifact(r)
  BY <1>5 DEF Reread, RecordArtifact
<1>6. CASE UNCHANGED <<pc, reply, body>>
  BY <1>6
<1> QED
  BY <1>1, <1>2, <1>3, <1>4, <1>5, <1>6
  DEF Next, Serve, SyncArtifact, CleanArtifact, vars

(* No second transaction comes to hold a build: the statement that would   *)
(* waits for the first.                                                    *)
LEMMA LocksExcludeStep == BuildInv /\ [Next]_vars => LocksExclude'
<1> SUFFICES ASSUME BuildInv, [Next]_vars, NEW q \in Request, NEW r \in Request,
                    q # r, Holds(q)', Holds(r)', buildOf(q)' = buildOf(r)'
             PROVE  FALSE
  BY DEF LocksExclude
<1> USE DEF BuildInv, LocksExclude
<1>1. pc[q] # "idle" /\ pc[r] # "idle"
  BY HoldsStep DEF Holds, Insert, Update
<1>2. buildOf(q) = buildOf(r)
  BY <1>1, BodyFixed DEF TypeInv, buildOf
<1>3. CASE Holds(q) /\ Holds(r)
  BY <1>2, <1>3
<1>4. ASSUME NEW x \in {q, r}, NEW y \in {q, r}, x # y, Holds(x),
             Insert(y) \/ Update(y)
      PROVE  FALSE
  BY <1>2, <1>4 DEF Insert, Update, Blocked
<1>5. CASE (Insert(q) \/ Update(q)) /\ (Insert(r) \/ Update(r))
  BY <1>5 DEF Insert, Update, goto, answer, Holds, TypeInv, TypeOK
<1> QED
  BY <1>3, <1>4, <1>5, HoldsStep

(* While a transaction holds a row nobody else replaces it.                *)
LEMMA HeldRowFixed ==
    ASSUME BuildInv, [Next]_vars, NEW r \in Request, Holds(r), Holds(r)'
    PROVE  builds'[buildOf(r)] = builds[buildOf(r)]
<1> USE DEF BuildInv, TypeInv, TypeOK
<1>0. buildOf(r) \in Build
  BY DEF Holds, buildOf, Body
<1>1. ASSUME NEW q \in Request, Insert(q) \/ Update(q)
      PROVE  builds'[buildOf(r)] = builds[buildOf(r)]
  <2>1. q # r
    BY <1>1 DEF Insert, Update, Holds
  <2>2. buildOf(q) # buildOf(r)
    BY <1>1, <2>1 DEF Insert, Update, Blocked
  <2>3. \/ builds' = builds
        \/ builds' = [builds EXCEPT ![buildOf(q)] = rowOf(q)]
    BY <1>1 DEF Insert, Update
  <2> QED
    BY <1>0, <2>2, <2>3
<1>2. ASSUME NEW q \in Request, Commit(q)
      PROVE  builds'[buildOf(r)] = builds[buildOf(r)]
  <2>1. q # r
    BY <1>2 DEF Commit, Holds, goto
  <2>2. reply[q] \in Accepted => Holds(q)
    BY <1>2 DEF Commit, Holds, OnlySuccessRecords, Written
  <2>3. reply[q] \in Accepted => buildOf(q) # buildOf(r)
    BY <2>1, <2>2 DEF LocksExclude
  <2> QED
    BY <1>2, <2>3 DEF Commit
<1>3. CASE builds' = builds
  BY <1>3
<1> QED
  BY <1>1, <1>2, <1>3 DEF Next, Serve, Receive, Verify, Reject, Find, Reread,
     RecordArtifact, RecordRefused, Audit, Fail, Crash, SyncArtifact,
     CleanArtifact, tables, vars

(* What a transaction has written remains admissible until it commits: its *)
(* row does not change meanwhile.                                          *)
LEMMA PendingAdmittedStep == BuildInv /\ [Next]_vars => PendingAdmitted'
<1> SUFFICES ASSUME BuildInv, [Next]_vars, NEW r \in Request, Holds(r)',
                    reply'[r] \in Accepted
             PROVE  Admits(builds[buildOf(r)], rowOf(r))'
  BY DEF PendingAdmitted
<1> USE DEF BuildInv
<1>1. pc[r] # "idle"
  BY HoldsStep DEF Holds, Insert, Update
<1>2. buildOf(r)' = buildOf(r) /\ rowOf(r)' = rowOf(r) /\ InTx(r)
  BY <1>1, BodyFixed DEF TypeInv, buildOf, rowOf, Holds, InTx
<1>3. CASE Holds(r) /\ reply'[r] = reply[r]
  BY <1>2, <1>3, HeldRowFixed DEF PendingAdmitted, Admits
<1>4. CASE Insert(r) /\ builds[buildOf(r)] = Absent
  <2>1. builds' = builds
    BY <1>2, <1>4 DEF Insert
  <2>2. rowOf(r).finished \in Nat
    BY <1>4 DEF Insert, TypeInv, TypeOK, Body, rowOf, Time
  <2> QED
    BY <1>2, <1>4, <2>1, <2>2 DEF Admits, Absent
<1>5. CASE Update(r)
  <2>1. builds' = builds
    BY <1>2, <1>5 DEF Update
  <2>2. reply'[r] = "updated" => Admits(builds[buildOf(r)], rowOf(r))
    BY <1>5 DEF Update, answer, TypeInv, TypeOK
  <2>3. reply'[r] = "updated"
    BY <1>5 DEF Update, answer, TypeInv, TypeOK, Accepted
  <2> QED
    BY <1>2, <2>1, <2>2, <2>3
<1> QED
  BY <1>3, <1>4, <1>5, HoldsStep

(* The invariant holds of every behaviour.                                 *)
LEMMA BuildInvariance == Spec => []BuildInv
<1>1. Init => BuildInv
  BY TypeInvInit
  DEF Init, BuildInv, LocksExclude, PendingAdmitted, Holds
<1>2. BuildInv /\ [Next]_vars => BuildInv'
  BY TypeInvStep, LocksExcludeStep, PendingAdmittedStep DEF BuildInv
<1> QED
  BY <1>1, <1>2, PTL DEF Spec

(* Every write to the table is one the state machine allows.               *)
LEMMA BuildStep ==
    BuildInv /\ [Next]_vars => [StateMachine!Next]_builds
<1> SUFFICES ASSUME BuildInv, [Next]_vars, builds' # builds
             PROVE  StateMachine!Next
  OBVIOUS
<1> USE DEF BuildInv, TypeInv, TypeOK
<1>1. ASSUME NEW r \in Request, pc[r] # "idle",
             Admits(builds[buildOf(r)], rowOf(r)),
             builds' = [builds EXCEPT ![buildOf(r)] = rowOf(r)]
      PROVE  StateMachine!Next
  <2>1. body[r] \in Body
    BY <1>1
  <2>2. buildOf(r) \in Build /\ rowOf(r) \in StateMachine!Row
    BY <2>1 DEF buildOf, rowOf, Body, StateMachine!Row, StateMachine!Status,
       Status, Time
  <2>3. StateMachine!Replace(buildOf(r), rowOf(r))
    BY <1>1 DEF StateMachine!Replace, StateMachine!Admits, Admits
  <2> QED
    BY <2>2, <2>3 DEF StateMachine!Next
<1>2. ASSUME NEW r \in Request, Insert(r) PROVE StateMachine!Next
  <2>1. builds[buildOf(r)] = Absent
    BY <1>2 DEF Insert
  <2>2. rowOf(r).finished \in Nat
    BY <1>2 DEF Insert, Body, rowOf, Time
  <2>3. Admits(builds[buildOf(r)], rowOf(r))
    BY <2>1, <2>2 DEF Admits, Absent
  <2> QED
    BY <1>1, <1>2, <2>3 DEF Insert
<1>3. ASSUME NEW r \in Request, Update(r) PROVE StateMachine!Next
  BY <1>1, <1>3 DEF Update
<1>4. ASSUME NEW r \in Request, Commit(r) PROVE StateMachine!Next
  <2>1. reply[r] \in Accepted
    BY <1>4 DEF Commit
  <2>2. Holds(r)
    BY <1>4, <2>1 DEF Commit, Holds, OnlySuccessRecords, Written
  <2> QED
    BY <1>1, <1>4, <2>1, <2>2 DEF Commit, PendingAdmitted
<1> QED
  BY <1>2, <1>3, <1>4 DEF Next, Serve, Receive, Verify, Reject, Find, Reread,
     RecordArtifact, RecordRefused, Audit, Fail, Crash, SyncArtifact,
     CleanArtifact, tables, vars

(* The build table implements the state machine: a success is final and    *)
(* completion times never go back.                                         *)
THEOREM BuildRefinement == Spec => FollowsStateMachine
<1>1. Init => StateMachine!Init
  BY DEF Init, StateMachine!Init, StateMachine!Absent, Absent
<1> QED
  BY <1>1, BuildStep, BuildInvariance, PTL
  DEF Spec, FollowsStateMachine, StateMachine!Spec

-----------------------------------------------------------------------------
AckInv == BuildInv /\ AcknowledgedSuccessStands

(* A request becomes acknowledged by committing its row.                   *)
LEMMA AckStep ==
    ASSUME TypeInv, [Next]_vars, NEW r \in Request, r \in Acknowledged'
    PROVE  r \in Acknowledged \/ (Commit(r) /\ reply[r] \in Accepted)
<1> USE DEF TypeInv, TypeOK, goto, answer, Acknowledged, Accepted, InTx
<1>1. ASSUME NEW q \in Request, q # r,
             Receive(q) \/ Serve(q) \/ Fail(q) \/ Crash(q)
      PROVE  r \in Acknowledged
  BY <1>1 DEF Receive, Serve, Verify, Reject, Find, Insert, Update, Reread,
     RecordArtifact, RecordRefused, Commit, Audit, Fail, Crash
<1>2. CASE Receive(r) \/ Fail(r) \/ Crash(r)
  BY <1>2 DEF Receive, Fail, Crash
<1>3. CASE Verify(r) \/ Reject(r) \/ Find(r) \/ RecordRefused(r)
           \/ RecordArtifact(r) \/ Audit(r)
  BY <1>3 DEF Verify, Reject, Find, RecordRefused, RecordArtifact, Audit
<1>4. CASE Insert(r) \/ Update(r) \/ Reread(r)
  BY <1>4 DEF Insert, Update, Reread
<1>5. CASE Commit(r)
  BY <1>5 DEF Commit
<1>6. CASE UNCHANGED <<pc, reply, body>>
  BY <1>6
<1> QED
  BY <1>1, <1>2, <1>3, <1>4, <1>5, <1>6
  DEF Next, Serve, SyncArtifact, CleanArtifact, vars

(* What the state machine forbids keeps an acknowledged row in place.      *)
LEMMA AckRowStep ==
    ASSUME AckInv, [Next]_vars, NEW r \in Acknowledged
    PROVE  /\ builds'[buildOf(r)] = builds[buildOf(r)]
           /\ buildOf(r)' = buildOf(r) /\ rowOf(r)' = rowOf(r)
<1> USE DEF AckInv, BuildInv, TypeInv, TypeOK
<1>1. r \in Request /\ pc[r] # "idle" /\ body[r] \in Body
  BY DEF Acknowledged
<1>2. buildOf(r)' = buildOf(r) /\ rowOf(r)' = rowOf(r)
  BY <1>1, BodyFixed DEF buildOf, rowOf
<1>3. builds[buildOf(r)] = rowOf(r) /\ rowOf(r).status = "success"
  BY DEF AcknowledgedSuccessStands, Acknowledged, rowOf
<1>4. ASSUME NEW b \in Build, NEW new \in StateMachine!Row,
             StateMachine!Replace(b, new)
      PROVE  builds'[buildOf(r)] = builds[buildOf(r)]
  BY <1>1, <1>3, <1>4 DEF StateMachine!Replace, StateMachine!Admits
<1>5. builds'[buildOf(r)] = builds[buildOf(r)]
  BY <1>4, BuildStep DEF StateMachine!Next
<1> QED
  BY <1>2, <1>5

(* The row of an acknowledged success is never replaced, and a second one  *)
(* cannot be acknowledged: its commit would replace it.                    *)
LEMMA AcknowledgedStep ==
    AckInv /\ [Next]_vars => AcknowledgedSuccessStands'
<1> SUFFICES ASSUME AckInv, [Next]_vars, NEW r \in Acknowledged'
             PROVE  /\ builds'[buildOf(r)'] = rowOf(r)'
                    /\ \A q \in Acknowledged' :
                          buildOf(q)' = buildOf(r)' => q = r
  BY DEF AcknowledgedSuccessStands
<1> USE DEF AckInv, BuildInv
<1>0. r \in Request
  BY DEF Acknowledged
(* The committing transaction holds the row, which still admits its own.   *)
<1>1. ASSUME NEW x \in Request, Commit(x), reply[x] \in Accepted
      PROVE  /\ builds'[buildOf(x)'] = rowOf(x)'
             /\ builds[buildOf(x)].status # "success"
             /\ buildOf(x)' = buildOf(x)
  <2>1. Holds(x) /\ body[x] \in Body
    BY <1>1 DEF Commit, Holds, OnlySuccessRecords, Written, TypeInv, TypeOK
  <2>2. builds[buildOf(x)].status # "success"
    BY <1>1, <2>1 DEF PendingAdmitted, Admits
  <2>3. buildOf(x) \in Build /\ body' = body
    BY <1>1, <2>1 DEF buildOf, Body, Commit
  <2>4. builds' = [builds EXCEPT ![buildOf(x)] = rowOf(x)]
    BY <1>1 DEF Commit
  <2> QED
    BY <2>2, <2>3, <2>4 DEF buildOf, rowOf, TypeInv, TypeOK
<1>2. ASSUME NEW x \in Acknowledged, NEW y \in Request, Commit(y),
             reply[y] \in Accepted
      PROVE  buildOf(x) # buildOf(y)
  <2>1. builds[buildOf(x)] = rowOf(x) /\ body[x].status = "success"
    BY <1>2 DEF AcknowledgedSuccessStands, Acknowledged
  <2>2. rowOf(x).status = "success"
    BY <2>1 DEF rowOf
  <2> QED
    BY <1>1, <1>2, <2>1, <2>2
<1>3. builds'[buildOf(r)'] = rowOf(r)'
  BY <1>0, <1>1, AckStep, AckRowStep DEF AcknowledgedSuccessStands
<1>4. ASSUME NEW q \in Acknowledged', buildOf(q)' = buildOf(r)'
      PROVE  q = r
  <2>0. q \in Request
    BY DEF Acknowledged
  <2>1. CASE q \in Acknowledged /\ r \in Acknowledged
    BY <1>4, <2>1, AckRowStep DEF AcknowledgedSuccessStands
  <2>2. CASE q \in Acknowledged /\ Commit(r) /\ reply[r] \in Accepted
    BY <1>0, <1>1, <1>2, <1>4, <2>2, AckRowStep
  <2>3. CASE r \in Acknowledged /\ Commit(q) /\ reply[q] \in Accepted
    BY <2>0, <1>1, <1>2, <1>4, <2>3, AckRowStep
  <2>4. CASE Commit(q) /\ Commit(r)
    BY <1>0, <2>0, <2>4 DEF Commit, goto, TypeInv, TypeOK
  <2> QED
    BY <1>0, <2>0, <2>1, <2>2, <2>3, <2>4, AckStep
<1> QED
  BY <1>3, <1>4

(* A success answered "created" or "updated" is the row of its build for   *)
(* good, and no other report of the build is answered so.                  *)
THEOREM AcknowledgedForGood == Spec => []AcknowledgedSuccessStands
<1>1. Init => AcknowledgedSuccessStands
  BY DEF Init, AcknowledgedSuccessStands, Acknowledged
<1>2. AckInv /\ [Next]_vars => AcknowledgedSuccessStands'
  BY AcknowledgedStep
<1> QED
  BY <1>1, <1>2, BuildInvariance, PTL DEF Spec, AckInv

-----------------------------------------------------------------------------
(* Why build and artifact appear together on SQLite.  A transaction that   *)
(* has written holds the one write lock, so what it read is what there is  *)
(* until it commits; record() then finds what it will meet, and either     *)
(* writes the artifact reported or leaves one that is not older.  On MySQL *)
(* the snapshot breaks the first of the four.                              *)
ReadIsCurrent ==
    \A r \in Request : Holds(r) => tx[r].view = look(buildOf(r))

AcceptedRecord == \A r \in Request : pc[r] = "record" => reply[r] \in Accepted

DraftIsReported ==
    \A r \in Request :
        tx[r].draft # NoArtifact =>
            /\ pc[r] = "commit" /\ reply[r] \in Accepted
            /\ tx[r].draft.source = body[r].finished

ArtifactInPlace ==
    \A r \in Request :
        pc[r] = "commit" /\ reply[r] \in Accepted =>
            \/ tx[r].draft # NoArtifact
            \/ artifacts[buildOf(r)].source >= body[r].finished

TogetherInv ==
    BuildInv /\ ReadIsCurrent /\ AcceptedRecord /\ DraftIsReported /\ ArtifactInPlace

(* What a step of another leaves a request as it was.                      *)
LEMMA OthersStep ==
    ASSUME TypeOK, NEW r \in Request, NEW q \in Request, q # r,
           Receive(q) \/ Serve(q) \/ Fail(q) \/ Crash(q)
    PROVE  /\ pc'[r] = pc[r] /\ reply'[r] = reply[r]
           /\ tx'[r] = tx[r] /\ body'[r] = body[r]
<1> USE DEF TypeOK, goto, answer, forget
<1>1. CASE Receive(q) \/ Fail(q) \/ Crash(q)
  BY <1>1 DEF Receive, Fail, Crash
<1>2. CASE Verify(q) \/ Reject(q) \/ Find(q) \/ Insert(q)
  BY <1>2 DEF Verify, Reject, Find, Insert
<1>3. CASE Update(q) \/ Reread(q) \/ RecordArtifact(q)
  BY <1>3 DEF Update, Reread, RecordArtifact
<1>4. CASE RecordRefused(q) \/ Commit(q) \/ Audit(q)
  BY <1>4 DEF RecordRefused, Commit, Audit
<1> QED
  BY <1>1, <1>2, <1>3, <1>4 DEF Serve

(* A step is one of the request itself, or leaves its variables alone.     *)
LEMMA OwnOrOther ==
    ASSUME TypeOK, [Next]_vars, NEW r \in Request
    PROVE  \/ Receive(r) \/ Serve(r) \/ Fail(r) \/ Crash(r)
           \/ /\ pc'[r] = pc[r] /\ reply'[r] = reply[r]
              /\ tx'[r] = tx[r] /\ body'[r] = body[r]
<1>1. CASE UNCHANGED <<pc, reply, tx, body>>
  BY <1>1
<1> QED
  BY <1>1, OthersStep DEF Next, SyncArtifact, CleanArtifact, vars

(* A transaction with something to commit holds its row.                   *)
LEMMA CommittersHold ==
    ASSUME TogetherInv, NEW r \in Request, pc[r] \in {"record", "commit"},
           reply[r] \in Accepted
    PROVE  Holds(r)
  BY DEF TogetherInv, BuildInv, TypeInv, OnlySuccessRecords, Holds, Written

(* While a transaction holds its build, nobody else touches the artifact.  *)
LEMMA HeldArtifactFixed ==
    ASSUME TogetherInv, Driver = "sqlite", [Next]_vars,
           NEW r \in Request, Holds(r), ~Commit(r)
    PROVE  artifacts'[buildOf(r)] = artifacts[buildOf(r)]
<1> USE DEF TogetherInv, BuildInv, TypeInv, TypeOK
<1>0. buildOf(r) \in Build
  BY DEF Holds, buildOf, Body
<1>1. ASSUME NEW b \in Build, SyncArtifact(b) \/ CleanArtifact(b)
      PROVE  FALSE
  BY <1>1 DEF SyncArtifact, CleanArtifact, Free
<1>2. ASSUME NEW q \in Request, Commit(q)
      PROVE  artifacts'[buildOf(r)] = artifacts[buildOf(r)]
  <2>1. q # r
    BY <1>2
  <2>2. tx[q].draft # NoArtifact => Holds(q)
    BY CommittersHold DEF DraftIsReported
  <2>3. tx[q].draft # NoArtifact => buildOf(q) # buildOf(r)
    BY <2>1, <2>2 DEF LocksExclude
  <2> QED
    BY <1>0, <1>2, <2>3 DEF Commit
<1>3. CASE artifacts' = artifacts
  BY <1>3
<1> QED
  BY <1>1, <1>2, <1>3 DEF Next, Serve, Receive, Verify, Reject, Find, Insert,
     Update, Reread, RecordArtifact, RecordRefused, Audit, Fail, Crash, tables,
     vars

(* The read stays current: SQLite refuses the first write of a transaction *)
(* whose read is not, and nobody writes after it.                          *)
LEMMA ReadIsCurrentStep ==
    TogetherInv /\ Driver = "sqlite" /\ [Next]_vars => ReadIsCurrent'
<1> SUFFICES ASSUME TogetherInv, Driver = "sqlite", [Next]_vars,
                    NEW r \in Request, Holds(r)'
             PROVE  tx'[r].view = look(buildOf(r))'
  BY DEF ReadIsCurrent
<1> USE DEF TogetherInv, BuildInv, TypeInv
<1>1. pc[r] # "idle"
  BY HoldsStep DEF Holds, Insert, Update
<1>2. buildOf(r)' = buildOf(r) /\ InTx(r)
  BY <1>1, BodyFixed DEF buildOf, Holds, InTx
<1>3. CASE Holds(r)
  <2>1. ~Commit(r)
    BY DEF Commit, goto, Holds, TypeOK
  <2>2. look(buildOf(r))' = look(buildOf(r))
    BY <1>2, <1>3, <2>1, HeldRowFixed, HeldArtifactFixed DEF look
  <2>3. tx'[r].view = tx[r].view
    <3>1. CASE Reread(r)
      BY <3>1 DEF Reread
    <3>2. CASE RecordArtifact(r)
      BY <3>2 DEF RecordArtifact, TypeOK, Tx
    <3>3. CASE RecordRefused(r) \/ Fail(r) \/ Crash(r)
      BY <3>3 DEF RecordRefused, Fail, Crash, answer, goto, Holds, Written,
         Accepted, TypeOK
    <3>4. CASE Receive(r) \/ Verify(r) \/ Reject(r) \/ Find(r) \/ Insert(r)
               \/ Update(r) \/ Audit(r)
      BY <1>3, <3>4 DEF Receive, Verify, Reject, Find, Insert, Update, Audit,
         Holds
    <3> QED
      BY <2>1, <3>1, <3>2, <3>3, <3>4, OwnOrOther DEF Serve
  <2> QED
    BY <1>2, <1>3, <2>2, <2>3 DEF ReadIsCurrent
<1>4. CASE Insert(r) \/ Update(r)
  <2>1. tx[r].view = look(buildOf(r))
    BY <1>2, <1>4 DEF Insert, Update, Stale
  <2>2. tx' = tx /\ builds' = builds /\ artifacts' = artifacts
    BY <1>2, <1>4 DEF Insert, Update
  <2> QED
    BY <1>2, <2>1, <2>2 DEF look
<1> QED
  BY <1>3, <1>4, HoldsStep

(* Only an accepted report comes to record().                              *)
LEMMA AcceptedRecordStep ==
    TypeInv /\ AcceptedRecord /\ [Next]_vars => AcceptedRecord'
<1> SUFFICES ASSUME TypeInv, AcceptedRecord, [Next]_vars,
                    NEW r \in Request, pc'[r] = "record"
             PROVE  reply'[r] \in Accepted
  BY DEF AcceptedRecord
<1> USE DEF TypeInv, TypeOK, goto, answer, Accepted
<1>1. CASE Insert(r)
  BY <1>1 DEF Insert
<1>2. CASE Reread(r)
  BY <1>2 DEF Reread
<1>3. CASE Receive(r) \/ Verify(r) \/ Reject(r) \/ Find(r) \/ Update(r)
  BY <1>3 DEF Receive, Verify, Reject, Find, Update
<1>4. CASE RecordArtifact(r) \/ RecordRefused(r) \/ Commit(r) \/ Audit(r)
           \/ Fail(r) \/ Crash(r)
  BY <1>4 DEF RecordArtifact, RecordRefused, Commit, Audit, Fail, Crash
<1>5. CASE pc'[r] = pc[r] /\ reply'[r] = reply[r]
  BY <1>5 DEF AcceptedRecord
<1> QED
  BY <1>1, <1>2, <1>3, <1>4, <1>5, OwnOrOther DEF Serve

(* Only record() drafts an artifact, with the time of the report.          *)
LEMMA DraftIsReportedStep ==
    TogetherInv /\ [Next]_vars => DraftIsReported'
<1> SUFFICES ASSUME TogetherInv, [Next]_vars,
                    NEW r \in Request, tx'[r].draft # NoArtifact
             PROVE  /\ pc'[r] = "commit" /\ reply'[r] \in Accepted
                    /\ tx'[r].draft.source = body'[r].finished
  BY DEF DraftIsReported
<1> USE DEF TogetherInv, BuildInv, TypeInv, TypeOK, DraftIsReported
<1>1. CASE RecordArtifact(r)
  <2>1. tx[r].draft = NoArtifact
    BY <1>1 DEF RecordArtifact
  <2>2. tx'[r].draft.source = body[r].finished
    BY <1>1, <2>1 DEF RecordArtifact, reported, Tx
  <2> QED
    BY <1>1, <2>2 DEF RecordArtifact, goto, AcceptedRecord
<1>2. CASE Verify(r) \/ Find(r)
  BY <1>2 DEF Verify, Find, Tx
<1>3. CASE RecordRefused(r) \/ Commit(r) \/ Fail(r) \/ Crash(r)
  BY <1>3 DEF RecordRefused, Commit, Fail, Crash, forget, NoTx
<1>4. CASE Receive(r) \/ Reject(r) \/ Insert(r) \/ Update(r)
           \/ Reread(r) \/ Audit(r)
  BY <1>4 DEF Receive, Reject, Insert, Update, Reread, Audit
<1>5. CASE /\ pc'[r] = pc[r] /\ reply'[r] = reply[r]
           /\ tx'[r] = tx[r] /\ body'[r] = body[r]
  BY <1>5
<1> QED
  BY <1>1, <1>2, <1>3, <1>4, <1>5, OwnOrOther DEF Serve

(* An accepted report that comes to its COMMIT has an artifact of its own  *)
(* to commit, or one in place that is not older.                           *)
LEMMA ArtifactInPlaceStep ==
    TogetherInv /\ Driver = "sqlite" /\ [Next]_vars => ArtifactInPlace'
<1> SUFFICES ASSUME TogetherInv, Driver = "sqlite", [Next]_vars,
                    NEW r \in Request, pc'[r] = "commit", reply'[r] \in Accepted,
                    tx'[r].draft = NoArtifact
             PROVE  artifacts'[buildOf(r)'].source >= body'[r].finished
  BY DEF ArtifactInPlace
<1> USE DEF TogetherInv, BuildInv, TypeInv, TypeOK
<1>1. CASE RecordArtifact(r)
  <2>1. Holds(r) /\ InTx(r)
    BY <1>1, CommittersHold DEF RecordArtifact, AcceptedRecord, Holds
  <2>2. seen(r) = artifacts[buildOf(r)]
    <3>1. tx[r].view = look(buildOf(r))
      BY <2>1, Zenon DEF ReadIsCurrent
    <3>2. look(buildOf(r)).artifact = artifacts[buildOf(r)]
      BY DEF look
    <3> QED
      BY <3>1, <3>2, Zenon DEF seen
  <2>3. body[r] \in Body
    BY <1>1 DEF RecordArtifact
  <2>4. buildOf(r) \in Build /\ body[r].finished \in Nat
    BY <2>1, <2>3 DEF Body, buildOf, InTx, Time
  <2>5. KeepsNewer(seen(r), reported(r))
    <3>1. SUFFICES ASSUME ~KeepsNewer(seen(r), reported(r)) PROVE FALSE
      OBVIOUS
    <3>2. tx'[r].draft = [reported(r) EXCEPT !.digest = seen(r).digest]
      BY <1>1, <2>2, <3>1 DEF RecordArtifact, writes, Tx
    <3>3. tx'[r].draft.tag = body[r].tag
      BY <3>2 DEF reported
    <3>4. body[r].tag # NoTag
      BY <2>1, <2>3 DEF Body, InTx
    <3> QED
      BY <3>3, <3>4 DEF NoArtifact
  <2>6. artifacts[buildOf(r)] \in Artifact
    BY <2>2, <2>4, <2>5 DEF KeepsNewer
  <2>7. body[r].finished < artifacts[buildOf(r)].source
    BY <2>2, <2>5 DEF KeepsNewer, reported
  <2>8. artifacts[buildOf(r)].source \in Nat
    BY <2>6 DEF Artifact, Time
  <2>9. artifacts' = artifacts /\ body' = body
    BY <1>1 DEF RecordArtifact, tables
  <2> QED
    BY <2>4, <2>7, <2>8, <2>9 DEF buildOf
<1>2. CASE /\ pc'[r] = pc[r] /\ reply'[r] = reply[r]
           /\ tx'[r] = tx[r] /\ body'[r] = body[r]
  <2>1. Holds(r) /\ ~Commit(r)
    BY <1>2, CommittersHold DEF Commit, goto
  <2>2. artifacts'[buildOf(r)] = artifacts[buildOf(r)]
    BY <2>1, HeldArtifactFixed
  <2> QED
    BY <1>2, <2>2 DEF ArtifactInPlace, buildOf
<1>3. CASE Find(r)
  <2>1. InTx(r) /\ reply'[r] = "ignored_stale"
    BY <1>3 DEF Find, goto, answer
  <2> QED
    BY <2>1 DEF Accepted
<1>4. CASE Reread(r)
  BY <1>4 DEF Reread, goto, Accepted
<1>5. CASE Receive(r) \/ Verify(r) \/ Reject(r) \/ Insert(r) \/ Update(r)
  BY <1>5 DEF Receive, Verify, Reject, Insert, Update, goto, answer
<1>6. CASE RecordRefused(r) \/ Commit(r) \/ Audit(r) \/ Fail(r) \/ Crash(r)
  BY <1>6 DEF RecordRefused, Commit, Audit, Fail, Crash, goto, answer
<1> QED
  BY <1>1, <1>2, <1>3, <1>4, <1>5, <1>6, OwnOrOther DEF Serve

(* On SQLite a build turns into a success in the very step that has its    *)
(* artifact in place, whatever reports, retries and other endpoints race   *)
(* for the two rows.                                                       *)
THEOREM BuildAndArtifactCommitTogether ==
    ASSUME Driver = "sqlite"
    PROVE  Spec => SuccessCommitsWithArtifact
<1> DEFINE Together == \A r \in Request :
              Commit(r) /\ reply[r] \in Accepted =>
                  artifacts'[buildOf(r)].source >= body[r].finished
<1>1. Init => TogetherInv
  BY TypeInvInit
  DEF Init, TogetherInv, BuildInv, LocksExclude, PendingAdmitted, Holds,
      ReadIsCurrent, AcceptedRecord, DraftIsReported, ArtifactInPlace, NoTx
<1>2. TogetherInv /\ [Next]_vars => TogetherInv'
  BY TypeInvStep, LocksExcludeStep, PendingAdmittedStep, ReadIsCurrentStep,
     AcceptedRecordStep, DraftIsReportedStep, ArtifactInPlaceStep
  DEF TogetherInv, BuildInv
<1>3. TogetherInv /\ [Next]_vars => [Together]_vars
  <2> SUFFICES ASSUME TogetherInv, NEW r \in Request, Commit(r),
                      reply[r] \in Accepted
               PROVE  artifacts'[buildOf(r)].source >= body[r].finished
    OBVIOUS
  <2> USE DEF TogetherInv, BuildInv, TypeInv, TypeOK
  <2>1. pc[r] = "commit" /\ body[r] \in Body /\ InTx(r)
    BY DEF Commit, OnlySuccessRecords
  <2>2. buildOf(r) \in Build /\ body[r].finished \in Nat
    BY <2>1 DEF Body, buildOf, InTx, Time
  <2>3. CASE tx[r].draft # NoArtifact
    <3>1. artifacts'[buildOf(r)] = tx[r].draft
      BY <2>2, <2>3 DEF Commit
    <3>2. tx[r].draft.source = body[r].finished
      BY <2>3 DEF DraftIsReported
    <3> QED
      BY <2>2, <3>1, <3>2
  <2>4. CASE tx[r].draft = NoArtifact
    BY <2>1, <2>4 DEF Commit, ArtifactInPlace
  <2> QED
    BY <2>3, <2>4
<1> QED
  BY <1>1, <1>2, <1>3, PTL DEF Spec, SuccessCommitsWithArtifact
=============================================================================
