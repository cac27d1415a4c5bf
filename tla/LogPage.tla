------------------------------- MODULE LogPage -------------------------------
(***************************************************************************)
(* A page that lists a log: operations (modules/oplog.js), calls of the    *)
(* API (modules/apiaccesslog.js) and deployments (modules/deploylog.js).   *)
(* The three are one program: fields that filter, a page number, four      *)
(* areas that are shown or hidden (table, "nothing found", pager and, for  *)
(* the deployments, "not available") and a "loading" line.  Nothing stops  *)
(* the user from asking again before the answer has come.                  *)
(*                                                                         *)
(* A filter is a value.  Others add and purge entries all the time, so     *)
(* that there are some pages under a filter when it is counted, any number *)
(* of them each time.  Left out: what a row shows.                         *)
(***************************************************************************)
EXTENDS Naturals, FiniteSets

CONSTANTS
    Filters, NoFilter,   \* what the fields may hold; NoFilter: as reset
    HasNotice,           \* the page has a "not available" area
    MaxLogPages,         \* bound: pages of entries under a filter
    MaxLogLoads,         \* bound: requests under way
    MaxLogClicks         \* bound: what the user does

ASSUME LogAssumption ==
    /\ NoFilter \in Filters /\ HasNotice \in BOOLEAN
    /\ MaxLogPages \in Nat \ {0} /\ MaxLogLoads \in Nat \ {0} /\ MaxLogClicks \in Nat

VARIABLES
    fields,     \* what the fields of the filter held at the last load
    logPage,    \* oplogPage, apilogPage, deploylogPage
    loading,    \* the loading line is displayed
    areas,      \* the areas displayed
    inTable,    \* the filter whose entries the table was filled with, and the
                \* page and the number of pages its answer named
    pagerOf,    \* what the pager was drawn from, likewise
    queries,    \* requests under way
    logClicks,
    onlyOne     \* (observed) the last load was begun with no other under way
                \* and none has begun since

logVars == <<fields, logPage, loading, areas, inTable, pagerOf, queries, logClicks,
             onlyOne>>

PageNumbers == 1 .. MaxLogPages
Areas == {"table", "empty", "pager", "notice"}
Query == [filter : Filters, page : PageNumbers]
Listed == [filter : Filters, page : PageNumbers, pages : PageNumbers]
NothingListed == [filter |-> NoFilter, page |-> 0, pages |-> 0]
Request_ == [q : Query, id : 1 .. MaxLogLoads,
             ans : {"none", "rows", "nothing", "unavailable", "failed"}, list : Listed]

LogInit ==
    /\ fields = NoFilter /\ logPage = 1
    /\ loading = FALSE /\ areas = {}
    /\ inTable = NothingListed /\ pagerOf = NothingListed
    /\ queries = {} /\ logClicks = 0 /\ onlyOne = FALSE
-----------------------------------------------------------------------------
(* Slips a change could introduce, for checking that the properties below  *)
(* notice them.                                                            *)
AllButTheNotFound == Areas \ {"empty"}

PagerStays(r) ==
    IF r.ans = "rows" /\ r.list.pages > 1 THEN {"pager"} ELSE areas \cap {"pager"}
-----------------------------------------------------------------------------
(* loadOperationLogs, loadApiAccessLogs, loadDeployLogs up to the await    *)
HiddenAtFirst == Areas

LoadLog(filter, p) ==
    /\ logClicks < MaxLogClicks /\ logClicks' = logClicks + 1
    /\ \E id \in 1 .. MaxLogLoads :
          /\ \A r \in queries : r.id # id
          /\ queries' = queries \cup
                {[q |-> [filter |-> filter, page |-> p], id |-> id, ans |-> "none",
                  list |-> [filter |-> filter, page |-> p, pages |-> p]]}
    /\ fields' = filter /\ logPage' = p
    /\ loading' = TRUE /\ areas' = areas \ HiddenAtFirst
    /\ onlyOne' = (queries = {})
    /\ UNCHANGED <<inTable, pagerOf>>

(* "Search" and entering the tab load the first page, reset empties the    *)
(* fields first, a button of the pager loads another page of whatever the  *)
(* fields hold by now.                                                     *)
Search == \E f \in Filters : LoadLog(f, 1)
Reset == LoadLog(NoFilter, 1)

PagerButtons ==
    {p \in {1, pagerOf.page - 1} : pagerOf.page > 1}
    \cup {p \in {pagerOf.page + 1, pagerOf.pages} : pagerOf.page < pagerOf.pages}
Turn == /\ "pager" \in areas
        /\ \E p \in PagerButtons, f \in Filters : LoadLog(f, p)

(* After the await.  Everything was hidden when the load began, not now.   *)
ShownBy(r) ==
    CASE r.ans = "unavailable" -> {"notice"}
      [] r.ans = "nothing" -> {"empty"}
      [] r.ans = "rows" -> {"table"}
      [] OTHER -> {}

(* renderOplogPagination and its like, called for a list with entries      *)
PagerAfter(r) ==
    IF r.ans # "rows" THEN areas \cap {"pager"}
    ELSE {a \in {"pager"} : r.list.pages > 1}

(* finally: whichever way the load ended                                   *)
LoadingAfter(r) == FALSE

LogArrives(r) ==
    /\ r \in queries /\ r.ans # "none"
    /\ queries' = queries \ {r}
    /\ areas' = (areas \ {"pager"}) \cup ShownBy(r) \cup PagerAfter(r)
    /\ inTable' = IF r.ans = "rows" THEN r.list ELSE inTable
    /\ pagerOf' = IF r.ans = "rows" /\ r.list.pages > 1 THEN r.list ELSE pagerOf
    /\ loading' = LoadingAfter(r)
    /\ UNCHANGED <<fields, logPage, logClicks, onlyOne>>

(* The server counts the pages, brings the page asked for down to the last *)
(* one, and reads that one by a second SELECT.  It may have no entries     *)
(* when some were counted, or some when none were (then there is "one      *)
(* page"): others change the log between the two, the list of API calls    *)
(* answers a failed read as an empty list, and the CD module, which sends  *)
(* the list of deployments, may have nothing on a page past its last.      *)
ClampedTo(p, pages) == IF p <= pages THEN p ELSE pages
ListOf(q, pages) ==
    [filter |-> q.filter, page |-> ClampedTo(q.page, pages), pages |-> pages]

(* It answers in any order; "failed" is an error, a lost request, or the   *)
(* 401 that ends the session.                                              *)
ServeLog(r) ==
    /\ r \in queries /\ r.ans = "none"
    /\ \E n \in
          {[r EXCEPT !.ans = "rows", !.list = ListOf(r.q, pages)] : pages \in PageNumbers}
          \cup {[r EXCEPT !.ans = ans] : ans \in
                  {"nothing", "failed"} \cup {a \in {"unavailable"} : HasNotice}} :
          queries' = (queries \ {r}) \cup {n}
    /\ UNCHANGED <<fields, logPage, loading, areas, inTable, pagerOf, logClicks,
                   onlyOne>>

Finish == \E r \in queries : LogArrives(r) \/ ServeLog(r)
LogNext == Search \/ Reset \/ Turn \/ Finish

(* Every request ends and its continuation runs.                           *)
LogFairness == WF_logVars(Finish)
LogSpec == LogInit /\ [][LogNext]_logVars /\ LogFairness
-----------------------------------------------------------------------------
LogTypeOK ==
    /\ fields \in Filters /\ logPage \in PageNumbers
    /\ loading \in BOOLEAN /\ areas \subseteq Areas
    /\ inTable \in Listed \cup {NothingListed}
    /\ pagerOf \in Listed \cup {NothingListed}
    /\ queries \subseteq Request_
    /\ logClicks \in 0 .. MaxLogClicks /\ onlyOne \in BOOLEAN
    /\ ~HasNotice => "notice" \notin areas

(* Whatever way a load ends the loading line goes, "lest the notice that   *)
(* the module is not enabled stands beside Loading..." (the comment of     *)
(* loadDeployLogs): in no order of loads and answers do the two stand      *)
(* side by side.                                                           *)
NoticeExcludesLoading == loading => areas = {}

(* A load that had the page to itself ends with one area, and the table,   *)
(* when that is it, holds entries of the filter in the fields: those of    *)
(* the page asked for, or of the last one when there are fewer by then     *)
(* (the page number of the console then stays past the last).              *)
LoneLoadShowsItsPage ==
    onlyOne /\ queries = {} =>
        /\ Cardinality(areas \ {"pager"}) <= 1
        /\ "table" \in areas =>
              /\ inTable.filter = fields
              /\ inTable.page = ClampedTo(logPage, inTable.pages)

(* In whatever order the answers to overlapping loads come, the pager is   *)
(* that of the table it stands under: it is displayed exactly when the     *)
(* table is and has more than one page, and its buttons go from the page   *)
(* the table shows.  (Which of the loads the table shows, and whether      *)
(* "nothing found" stands beside it, is left to their order.)              *)
PagerIsOfItsTable ==
    /\ "pager" \in areas <=> "table" \in areas /\ inTable.pages > 1
    /\ "pager" \in areas => pagerOf = inTable

(* The loading line does not stay.                                         *)
LoadingEnds == loading ~> ~loading
=============================================================================
