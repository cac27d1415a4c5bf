----------------------------- MODULE BuildResult -----------------------------
(***************************************************************************)
(* What the build table promises of each build (Service/Build/             *)
(* BuildStatusMachine.php): its row, once there, is replaced only by a     *)
(* report that is not older, and never once the build has succeeded.       *)
(***************************************************************************)
EXTENDS Naturals

CONSTANTS
    Build,      \* the builds, identified by (job_name, pipeline_iid)
    Failure,    \* the statuses that are not "success"
    MaxTime     \* bound: completion times are 1..MaxTime

VARIABLE builds     \* the row of each build

Status == {"success"} \cup Failure
Row    == [status : Status, finished : 1..MaxTime]

(* No row yet: any report is newer than nothing.                           *)
Absent == [status |-> "absent", finished |-> 0]

(* May the row be replaced by the new one?                                 *)
Admits(row, new) ==
    /\ row.status # "success"
    /\ row.finished <= new.finished

Init == builds = [b \in Build |-> Absent]

Replace(b, new) ==
    /\ Admits(builds[b], new)
    /\ builds' = [builds EXCEPT ![b] = new]

Next == \E b \in Build, new \in Row : Replace(b, new)

Spec == Init /\ [][Next]_builds
=============================================================================
