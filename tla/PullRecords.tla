----------------------------- MODULE PullRecords -----------------------------
(***************************************************************************)
(* The page of pull-build records (modules/records.js): the select of the  *)
(* projects, the table of builds with its pages, the timer that refreshes  *)
(* it every ten seconds and gives up after PULL_FAIL_LIMIT failures in a   *)
(* row, and the buttons that ask the server to find the tag of a build in  *)
(* its log.                                                                *)
(*                                                                         *)
(* The builds of a project are numbered from 1 and listed newest first, so *)
(* every new build moves the others one row down.  A run has two numbers:  *)
(* its iid, here its place, and the id of the CI system; the page names it *)
(* to the server by one of them.  Left out: the columns of a row, the tags *)
(* that already come with the list, and the 401 that ends the session      *)
(* (AdminSession).                                                         *)
(***************************************************************************)
EXTENDS Naturals, FiniteSets

CONSTANTS
    Projects, NoProject,
    Gitlab,         \* the projects whose option says gitlab_ci
    ReadsIid,       \* those whose CI system reads a number as an iid (external)
    IdOf,           \* IdOf[p][k], the id of run k of project p (external)
    FirstBuilds,    \* how many builds each project has at the start
    MaxRuns,        \* bound: builds of a project
    PageSize,       \* pullPageSize
    PullFailLimit,  \* PULL_FAIL_LIMIT
    MaxLoads,       \* bound: loads of the table under way at a time
    MaxClicks       \* bound: what the user does

ASSUME PullAssumption ==
    /\ NoProject \notin Projects
    /\ FirstBuilds \in [Projects -> 0 .. MaxRuns]
    /\ Gitlab \subseteq Projects /\ ReadsIid \subseteq Projects
    /\ IdOf \in [Projects -> [1 .. MaxRuns -> Nat]]
    /\ \A p \in Projects : \A j, k \in 1 .. MaxRuns : IdOf[p][j] = IdOf[p][k] => j = k
    /\ MaxRuns \in Nat \ {0} /\ PageSize \in Nat \ {0}
    /\ PullFailLimit \in Nat \ {0} /\ MaxLoads \in Nat \ {0} /\ MaxClicks \in Nat

VARIABLES
    chosen,    \* the value of the select
    path,      \* currentPullPath: the project last loaded
    table,     \* what the body of the table shows, see Tables
    cells,     \* cells[i]: the tag column of record i, see Cells
    page,      \* pullPage
    ticking,   \* pullTimer is set
    fails,     \* pullFailCount
    loadOk,    \* pullLoadOk
    loads,     \* requests of the table under way
    options,   \* requests of the projects under way
    tagAsks,   \* requests of a tag under way
    builds,    \* server: builds[p], how many builds p has
    clicks     \* what the user did so far

pullVars == <<chosen, path, table, cells, page, ticking, fails, loadOk, loads,
              options, tagAsks, builds, clicks>>

Choice == Projects \cup {NoProject}
Tables == [kind : {"blank", "note", "loading", "error"}]
     \cup [kind : {"rows"}, of : Projects, n : 0 .. MaxRuns, page : 1 .. MaxRuns + 1,
           iid : BOOLEAN]    \* _runId of the records is their iid
Build == [of : Projects, run : 1 .. MaxRuns]

(* A cell has a button, waits for its answer, or shows a tag or that there *)
(* is none; a tag is known by the build in whose log it was found.  Mixed  *)
(* (observed): what was asked for did not name the row, see Mixed.         *)
Cells == [is : {"button", "waiting", "none"}]
    \cup [is : {"tag"}, by : Build, mixed : BOOLEAN]
Button == [is |-> "button"]

Load == [id : 1 .. MaxLoads, path : Projects, silent : BOOLEAN, ans : {"none", "lost"}]
   \cup [id : 1 .. MaxLoads, path : Projects, silent : BOOLEAN, ans : {"ok"}, n : 0 .. MaxRuns]
TagAsk == [idx : 1 .. MaxRuns, of : Projects, number : Nat, mixed : BOOLEAN,
           attached : BOOLEAN, before : Cells \ {[is |-> "waiting"]},
           ans : {"none", "ok", "lost"}, found : 0 .. MaxRuns]

Rows == table.kind = "rows"
Shown == IF ~Rows THEN {}
         ELSE {i \in 1 .. table.n : (i - 1) \div PageSize + 1 = table.page}
RowOf(i) == [of |-> table.of, run |-> table.n - i + 1]
NumberOf(p, run, iid) == IF iid THEN run ELSE IdOf[p][run]

(* The number is one of the row, the project is currentPullPath: together  *)
(* they name the row unless the path, or the selection the kind of number  *)
(* was taken from, was of another project.                                 *)
Mixed == table.of # path \/ table.iid # (table.of \in ReadsIid)
AskedTag(i) == [idx |-> i, of |-> path,
                number |-> NumberOf(table.of, RowOf(i).run, table.iid),
                mixed |-> Mixed, attached |-> TRUE,
                before |-> cells[i], ans |-> "none", found |-> 0]
Pages(n) == IF n = 0 THEN 1 ELSE (n + PageSize - 1) \div PageSize
FreeId == CHOOSE k \in 1 .. MaxLoads : \A l \in loads : l.id # k
Click == clicks < MaxClicks /\ clicks' = clicks + 1

PullInit ==
    /\ chosen = NoProject /\ path = NoProject
    /\ table = [kind |-> "blank"] /\ cells = [i \in 1 .. MaxRuns |-> Button]
    /\ page = 1 /\ ticking = TRUE /\ fails = 0 /\ loadOk = FALSE
    /\ loads = {} /\ options = {NoProject} /\ tagAsks = {}
    /\ builds = FirstBuilds
    /\ clicks = 0
-----------------------------------------------------------------------------
(* Slips a change could introduce, for checking that the properties below  *)
(* notice them.                                                            *)
TargetByNumber(a) == {a.idx} \cap Shown

LoadFailsUncounted(l) ==
    /\ l \in loads /\ l.ans = "lost"
    /\ loads' = loads \ {l}
    /\ UNCHANGED <<chosen, path, table, cells, page, ticking, fails, loadOk,
                   options, tagAsks, builds, clicks>>
-----------------------------------------------------------------------------
(* Whatever replaces the body of the table takes the cells out of the      *)
(* document: an answer still to come writes into a cell nobody sees.       *)
Redraw(t) ==
    /\ table' = t
    /\ cells' = [i \in 1 .. MaxRuns |-> Button]
    /\ tagAsks' = {[a EXCEPT !.attached = FALSE] : a \in tagAsks}

(* loadPullRecords up to its await; p is the page to show                  *)
StartLoad(silent, p) ==
    /\ Cardinality(loads) < MaxLoads
    /\ IF chosen = NoProject
         THEN /\ Redraw([kind |-> "note"])
              /\ page' = p
              /\ UNCHANGED <<path, loads>>
         ELSE /\ path' = chosen
              /\ loads' = loads \cup
                    {[id |-> FreeId, path |-> chosen, silent |-> silent, ans |-> "none"]}
              /\ IF silent THEN page' = p /\ UNCHANGED <<table, cells, tagAsks>>
                 ELSE page' = 1 /\ Redraw([kind |-> "loading"])

Choose(p) ==
    /\ Click /\ p # chosen /\ options = {}
    /\ chosen' = p
    /\ UNCHANGED <<path, table, cells, page, ticking, fails, loadOk, loads,
                   options, tagAsks, builds>>

(* The two buttons of the page: "refresh" loads silently, "confirm" not.   *)
Load_(silent) ==
    /\ Click /\ StartLoad(silent, page)
    /\ UNCHANGED <<chosen, ticking, fails, loadOk, options, builds>>

(* setPullPage                                                             *)
TurnPage(p) ==
    /\ Click /\ Rows /\ table.n > PageSize /\ p # page /\ p <= Pages(table.n)
    /\ StartLoad(TRUE, p)
    /\ UNCHANGED <<chosen, ticking, fails, loadOk, options, builds>>

(* The timer: nothing happens while no project is selected.                *)
Tick ==
    /\ ticking /\ chosen # NoProject
    /\ StartLoad(TRUE, page)
    /\ UNCHANGED <<chosen, ticking, fails, loadOk, options, builds, clicks>>

(* loadPullRecords after its await: the rows are those of the path asked,  *)
(* whatever is selected or was loaded since, but the kind of their numbers *)
(* is that of the option selected now.                                     *)
LoadArrives(l) ==
    /\ l \in loads /\ l.ans = "ok"
    /\ loads' = loads \ {l}
    /\ loadOk' = TRUE /\ fails' = 0
    /\ page' = IF l.n > 0 /\ page > Pages(l.n) THEN Pages(l.n) ELSE page
    /\ Redraw([kind |-> "rows", of |-> l.path, n |-> l.n, page |-> page',
               iid |-> chosen \in Gitlab])
    /\ UNCHANGED <<chosen, path, ticking, options, builds, clicks>>

LoadFails(l) ==
    /\ l \in loads /\ l.ans = "lost"
    /\ loads' = loads \ {l}
    /\ IF l.silent
         THEN /\ fails' = IF fails < PullFailLimit THEN fails + 1 ELSE fails
              /\ ticking' = (ticking /\ fails + 1 < PullFailLimit)
         ELSE UNCHANGED <<fails, ticking>>
    /\ IF l.silent /\ loadOk THEN UNCHANGED <<table, cells, tagAsks>>
                             ELSE Redraw([kind |-> "error"])
    /\ UNCHANGED <<chosen, path, page, loadOk, options, builds, clicks>>

(* navigate: leaving the tab stops the timer, coming back lists the        *)
(* projects anew and starts it (loadPullProjects, startPullAutoRefresh).   *)
(* The project to select again is read before the list is asked for.       *)
Leave ==
    /\ Click /\ ticking' = FALSE
    /\ UNCHANGED <<chosen, path, table, cells, page, fails, loadOk, loads,
                   options, tagAsks, builds>>

Return ==
    /\ Click
    /\ options' = options \cup {IF path = NoProject THEN chosen ELSE path}
    /\ ticking' = TRUE /\ fails' = 0
    /\ UNCHANGED <<chosen, path, table, cells, page, loadOk, loads, tagAsks, builds>>

OptionsArrive(prev) ==
    /\ prev \in options
    /\ options' = options \ {prev}
    /\ chosen' \in {prev, NoProject}    \* the answer, or a failed request
    /\ UNCHANGED <<path, table, cells, page, ticking, fails, loadOk, loads,
                   tagAsks, builds, clicks>>

(* resolvePullTag up to its await, and reparsePullTag: the cell is looked  *)
(* up now.                                                                 *)
AskTag(i) ==
    /\ Click /\ i \in Shown /\ cells[i].is \in {"button", "tag"}
    /\ cells' = [cells EXCEPT ![i] = [is |-> "waiting"]]
    /\ tagAsks' = tagAsks \cup {AskedTag(i)}
    /\ UNCHANGED <<chosen, path, table, page, ticking, fails, loadOk, loads,
                   options, builds>>

(* The cell an answer is written to: the one that was looked up, if it is  *)
(* still in the document.                                                  *)
Target(a) == IF a.attached THEN {a.idx} ELSE {}

TagArrives(a) ==
    /\ a \in tagAsks /\ a.ans # "none"
    /\ tagAsks' = tagAsks \ {a}
    /\ cells' = [i \in 1 .. MaxRuns |->
          IF i \notin Target(a) THEN cells[i]
          ELSE IF a.ans = "lost" THEN a.before
          ELSE IF a.found = 0 THEN [is |-> "none"]
          ELSE [is |-> "tag", by |-> [of |-> a.of, run |-> a.found], mixed |-> a.mixed]]
    /\ UNCHANGED <<chosen, path, table, page, ticking, fails, loadOk, loads,
                   options, builds, clicks>>
-----------------------------------------------------------------------------
(* The server (external: the CI systems behind /api/build)                 *)
ServeLoad(l) ==
    /\ l \in loads /\ l.ans = "none"
    /\ loads' = (loads \ {l}) \cup
          { [id |-> l.id, path |-> l.path, silent |-> l.silent, ans |-> "ok",
             n |-> builds[l.path]] }
    /\ UNCHANGED <<chosen, path, table, cells, page, ticking, fails, loadOk,
                   options, tagAsks, builds, clicks>>

LoseLoad(l) ==
    /\ l \in loads /\ l.ans = "none"
    /\ loads' = (loads \ {l}) \cup {[l EXCEPT !.ans = "lost"]}
    /\ UNCHANGED <<chosen, path, table, cells, page, ticking, fails, loadOk,
                   options, tagAsks, builds, clicks>>

ServeTag(a) ==
    /\ a \in tagAsks /\ a.ans = "none"
    /\ \/ tagAsks' = (tagAsks \ {a}) \cup {[a EXCEPT !.ans = "lost"]}
       \/ \E k \in 0 .. builds[a.of] :
             /\ k > 0 => NumberOf(a.of, k, a.of \in ReadsIid) = a.number
             /\ tagAsks' = (tagAsks \ {a}) \cup {[a EXCEPT !.ans = "ok", !.found = k]}
    /\ UNCHANGED <<chosen, path, table, cells, page, ticking, fails, loadOk,
                   loads, options, builds, clicks>>

NewBuild(p) ==
    /\ builds[p] < MaxRuns
    /\ builds' = [builds EXCEPT ![p] = @ + 1]
    /\ UNCHANGED <<chosen, path, table, cells, page, ticking, fails, loadOk,
                   loads, options, tagAsks, clicks>>
-----------------------------------------------------------------------------
Answers_ == \E l \in loads : LoadArrives(l) \/ LoadFails(l) \/ ServeLoad(l) \/ LoseLoad(l)

PullNext ==
    \/ \E p \in Choice : Choose(p)
    \/ \E s \in BOOLEAN : Load_(s)
    \/ \E p \in 1 .. MaxRuns : TurnPage(p)
    \/ Tick \/ Answers_ \/ Leave \/ Return
    \/ \E p \in options : OptionsArrive(p)
    \/ \E i \in 1 .. MaxRuns : AskTag(i)
    \/ \E a \in tagAsks : TagArrives(a) \/ ServeTag(a)
    \/ \E p \in Projects : NewBuild(p)

(* The browser calls the timer while it is set; every request ends, by its *)
(* answer or by an error, and its continuation runs.                       *)
PullFairness == WF_pullVars(Tick) /\ WF_pullVars(Answers_)

PullSpec == PullInit /\ [][PullNext]_pullVars /\ PullFairness
-----------------------------------------------------------------------------
PullTypeOK ==
    /\ chosen \in Choice /\ path \in Choice /\ table \in Tables
    /\ cells \in [1 .. MaxRuns -> Cells] /\ page \in 1 .. MaxRuns
    /\ ticking \in BOOLEAN /\ fails \in 0 .. PullFailLimit /\ loadOk \in BOOLEAN
    /\ loads \subseteq Load /\ options \subseteq Choice /\ tagAsks \subseteq TagAsk
    /\ builds \in [Projects -> 0 .. MaxRuns] /\ clicks \in 0 .. MaxClicks

(* A tag shown in a row was found in the log of the run of that row, even  *)
(* when the table was refreshed, turned to another page or loaded with     *)
(* another project while the server was reading the log; unless the button *)
(* was pressed on rows that were not of currentPullPath, or whose numbers  *)
(* were taken for those of another kind of CI system (resolvePullTag,      *)
(* loadPullRecords): then the request named another build.                 *)
TagStaysInItsRow ==
    \A i \in Shown : cells[i].is = "tag" => cells[i].mixed \/ cells[i].by = RowOf(i)

(* The button of a row looks for the tag in the log of that build, without *)
(* exception.  The code does not keep this: a silent load moves the path   *)
(* before it moves the rows, and the rows of an answer get the kind of     *)
(* number of whichever option is selected when it arrives.                 *)
TagIsOfItsBuild ==
    \A i \in Shown : cells[i].is = "tag" => cells[i].by = RowOf(i)

(* The timer does not go on failing: it is off once the failures in a row  *)
(* have reached the limit, and a success starts the count anew ("avoid     *)
(* idling without end", the comment of loadPullRecords).                   *)
TimerGivesUp == fails >= PullFailLimit => ~ticking

(* A table that shows another project than the one last loaded does not    *)
(* stay: it is replaced, unless the timer has stopped or nothing is        *)
(* selected.                                                               *)
StaleRowsAreReplaced ==
    (Rows /\ table.of # path) ~>
        (~Rows \/ table.of = path \/ ~ticking \/ chosen = NoProject)
=============================================================================
