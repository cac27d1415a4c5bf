------------------------------ MODULE SearchList ------------------------------
(***************************************************************************)
(* The two lists that are searched while one types: the project mappings   *)
(* (modules/mapping.js) and the security checks (modules/security.js).  A  *)
(* change of a filter starts a timer of 300 ms anew; when it fires, the    *)
(* first page is loaded with what the filters hold by then.  The server    *)
(* takes a page past the last one for the last one.  The two differ in     *)
(* where they have the number of pages from: the checks take the server's, *)
(* the mappings count the rows of the page they received.                  *)
(*                                                                         *)
(* Left out: the columns, and the pending mappings the list hides when an  *)
(* active one has the same remote.                                         *)
(***************************************************************************)
EXTENDS Naturals, FiniteSets

CONSTANTS
    Texts, NoText,     \* what the filters may hold; NoText: nothing
    FirstHits,         \* entries found under each at the start
    PerPage,           \* mapPerPage, per_page
    MaxHits,           \* bound: entries under a filter
    MaxSearchLoads,    \* bound: requests under way
    MaxSearchClicks    \* bound: what the user and other users do

ASSUME SearchAssumption ==
    /\ NoText \in Texts /\ PerPage \in Nat \ {0} /\ MaxHits \in Nat
    /\ FirstHits \in [Texts -> 0 .. MaxHits]
    /\ MaxSearchLoads \in Nat \ {0} /\ MaxSearchClicks \in Nat

VARIABLES
    which,      \* "mapping" or "security"
    text,       \* what the filters hold
    armed,      \* mapDebounceTimer, secDebounce
    listPage,   \* mapPage, secPage
    listPages,  \* mapTotalPages, secTotalPages
    list,       \* what is displayed
    searches,   \* requests under way
    hits,       \* server: entries under each filter
    failed,     \* (observed) a request failed or was answered by an error
    searchClicks,
    lone        \* (observed) the last load was begun alone, none has begun since

searchVars == <<which, text, armed, listPage, listPages, list, searches, hits,
                failed, searchClicks, lone>>

AtMost(a, b) == IF a < b THEN a ELSE b
PagesOf(n) == IF n = 0 THEN 1 ELSE (n + PerPage - 1) \div PerPage
OnPage(n, p) == IF p < PagesOf(n) THEN PerPage ELSE n - (p - 1) * PerPage
Lists == [kind : {"none"}]
    \cup [kind : {"empty", "rows"}, text : Texts, page : 1 .. MaxHits + 1, hits : 0 .. MaxHits]
SearchCall == [text : Texts, page : 1 .. MaxHits + 1, id : 1 .. MaxSearchLoads,
               ans : {"none", "ok", "error", "failed"}, hits : 0 .. MaxHits]
Act == searchClicks < MaxSearchClicks /\ searchClicks' = searchClicks + 1

SearchInit ==
    /\ which \in {"mapping", "security"}
    /\ text = NoText /\ armed = FALSE /\ listPage = 1 /\ listPages = 1
    /\ list = [kind |-> "none"] /\ hits = FirstHits /\ failed = FALSE
    /\ searches = {} /\ searchClicks = 0 /\ lone = FALSE
-----------------------------------------------------------------------------
(* Slips a change could introduce, for checking that the properties below  *)
(* notice them.                                                            *)
SearchArrivesUnclamped(c) ==
    /\ c \in searches /\ c.ans # "none"
    /\ searches' = searches \ {c}
    /\ listPages' = IF c.ans = "ok" THEN PagesOf(c.hits) ELSE listPages
    /\ list' = IF c.ans # "ok" THEN list
               ELSE [kind |-> IF c.hits = 0 THEN "empty" ELSE "rows",
                     text |-> c.text, page |-> c.page, hits |-> c.hits]
    /\ failed' = (failed \/ c.ans # "ok")
    /\ UNCHANGED <<which, text, armed, listPage, hits, searchClicks, lone>>
-----------------------------------------------------------------------------
(* loadMaps, loadSecurityChecks up to the await                            *)
LoadPage(p) ==
    /\ listPage' = p
    /\ \E id \in 1 .. MaxSearchLoads :
          /\ \A c \in searches : c.id # id
          /\ searches' = searches \cup
                {[text |-> text, page |-> p, id |-> id, ans |-> "none", hits |-> 0]}
    /\ lone' = (searches = {})

(* onFilterChange, secOnFilterChange                                       *)
Type(t) ==
    /\ Act /\ t # text
    /\ text' = t /\ armed' = TRUE
    /\ UNCHANGED <<which, listPage, listPages, list, searches, hits, failed, lone>>

(* A slip: no load beside one that is under way.                           *)
DebounceFiresIfIdle ==
    /\ armed /\ armed' = FALSE
    /\ IF searches = {} THEN LoadPage(1) ELSE UNCHANGED <<listPage, searches, lone>>
    /\ UNCHANGED <<which, text, listPages, list, hits, failed, searchClicks>>

DebounceFires ==
    /\ armed /\ armed' = FALSE
    /\ LoadPage(1)
    /\ UNCHANGED <<which, text, listPages, list, hits, failed, searchClicks>>

(* Entering the tab, a language switch, and a change that was saved        *)
Reload ==
    /\ Act /\ LoadPage(listPage)
    /\ UNCHANGED <<which, text, armed, listPages, list, hits, failed>>

(* The pager stands under the rows; its buttons go no further than the     *)
(* last page.                                                              *)
GoTo(p) ==
    /\ Act /\ list.kind = "rows" /\ p # listPage /\ p <= listPages
    /\ LoadPage(p)
    /\ UNCHANGED <<which, text, armed, listPages, list, hits, failed>>

(* After the await.  Mappings: Math.ceil(maps.length / mapPerPage)         *)
PagesTold(c) ==
    IF which = "security" THEN PagesOf(c.hits)
    ELSE PagesOf(OnPage(c.hits, c.page))

(* Nobody looks whether the answer is an error, which has no entries: the  *)
(* list is empty then.  A failed request leaves the list as it is.         *)
SearchArrives(c) ==
    /\ c \in searches /\ c.ans # "none"
    /\ searches' = searches \ {c}
    /\ failed' = (failed \/ c.ans # "ok")
    /\ IF c.ans # "failed"
         THEN /\ listPages' = PagesTold(c)
              /\ listPage' = AtMost(listPage, listPages')
              /\ list' = [kind |-> IF c.hits = 0 THEN "empty" ELSE "rows",
                          text |-> c.text, page |-> c.page, hits |-> c.hits]
         ELSE UNCHANGED <<listPage, listPages, list>>
    /\ UNCHANGED <<which, text, armed, hits, searchClicks, lone>>

ServeSearch(c) ==
    /\ c \in searches /\ c.ans = "none"
    /\ \E a \in { [c EXCEPT !.ans = "ok", !.hits = hits[c.text],
                             !.page = AtMost(@, PagesOf(hits[c.text]))],
                   [c EXCEPT !.ans = "error", !.page = 1],
                   [c EXCEPT !.ans = "failed"] } :
          searches' = (searches \ {c}) \cup {a}
    /\ UNCHANGED <<which, text, armed, listPage, listPages, list, hits, failed,
                   searchClicks, lone>>

(* Another user, a discovery or a scanner adds or removes an entry.        *)
EntriesChange(t) ==
    /\ Act
    /\ \E n \in {hits[t] + 1, hits[t] - 1} \cap 0 .. MaxHits : hits' = [hits EXCEPT ![t] = n]
    /\ UNCHANGED <<which, text, armed, listPage, listPages, list, searches, failed, lone>>

SearchGoesOn == \E c \in searches : SearchArrives(c) \/ ServeSearch(c)

SearchNext ==
    \/ \E t \in Texts : Type(t) \/ EntriesChange(t)
    \/ DebounceFires \/ Reload \/ SearchGoesOn
    \/ \E p \in 1 .. MaxHits + 1 : GoTo(p)

(* The timer fires, every request ends and its continuation runs.          *)
SearchFairness == WF_searchVars(DebounceFires) /\ WF_searchVars(SearchGoesOn)
SearchSpec == SearchInit /\ [][SearchNext]_searchVars /\ SearchFairness
-----------------------------------------------------------------------------
SearchTypeOK ==
    /\ which \in {"mapping", "security"} /\ text \in Texts /\ armed \in BOOLEAN
    /\ listPages \in 1 .. MaxHits + 1 /\ listPage \in 1 .. MaxHits + 1
    /\ list \in Lists /\ searches \subseteq SearchCall
    /\ hits \in [Texts -> 0 .. MaxHits] /\ failed \in BOOLEAN
    /\ searchClicks \in 0 .. MaxSearchClicks /\ lone \in BOOLEAN

(* A load that had the page to itself ends with the entries of the filters *)
(* it was asked with, on the page whose number stands in the pager, even   *)
(* if entries went away and the page asked for is no more.                 *)
LoneSearchIsShown ==
    lone /\ searches = {} /\ ~armed /\ ~failed =>
        /\ list.kind # "none" /\ list.text = text
        /\ list.page = listPage

(* What is typed is looked for: the list shows it, or shows that a request *)
(* failed, or something else has been typed.                               *)
TypedIsShown ==
    \A t \in Texts :
        (text = t /\ armed) ~> (text # t \/ failed \/ (list.kind # "none" /\ list.text = t))

(* The API lists "all mappings, with search, filters and pages" (the       *)
(* comment of jobGitMapList): the pager under the mappings leads to every  *)
(* page there was when they were listed.                                   *)
PagerReachesEveryMapping ==
    which = "mapping" /\ list.kind = "rows" => listPages = PagesOf(list.hits)
=============================================================================
