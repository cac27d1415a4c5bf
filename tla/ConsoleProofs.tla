---------------------------- MODULE ConsoleProofs ----------------------------
(***************************************************************************)
(* Theorems about six pages of the console that show what they have asked  *)
(* for: the form of the connections, the pages of logs, the switches of    *)
(* the settings, the searches with pages, the API tokens and the table of  *)
(* pull-build records.                                                     *)
(***************************************************************************)
EXTENDS MCConsole, DialogProofs, FiniteSetTheorems, TLAPS

(* --- ConnectionForm ----------------------------------------------------- *)

(* A row nobody typed in holds what the form was drawn with.               *)
UntouchedAsDrawn == \A p \in Platforms : p \notin typed => inputs[p] = snapshot[p]
ConnInv == ConnTypeOK /\ UntouchedAsDrawn /\ OnlyTouchedRowsAreSent

LEMMA PostHasType ==
    ASSUME ConnTypeOK, NEW is \in {"list", "health", "save"}, NEW listed \in Changes
    PROVE  /\ PostOf(is, listed) \in Post
           /\ PostOf(is, listed).rows = listed /\ PostOf(is, listed).hand = typed
           /\ PostOf(is, listed).is = is
BY ConnectionAssumption DEF ConnTypeOK, PostOf, Post, Rows_

LEMMA NothingIsAChange == Nothing \in Changes /\ DOMAIN Nothing = {}
<1>1. Nothing \in [{} -> Settings] /\ {} \in SUBSET Platforms
  BY DEF Nothing
<1> QED
  BY <1>1 DEF Changes, Nothing

LEMMA SendKeeps ==
    ASSUME ConnInv, NEW m \in Post, Send(m),
           m.is = "save" => DOMAIN m.rows \subseteq m.hand
    PROVE  posts' \subseteq Post /\ OnlyTouchedRowsAreSent' /\ crossed' \in BOOLEAN
BY DEF ConnInv, ConnTypeOK, Send, OnlyTouchedRowsAreSent

LEMMA ClicksKeepConn ==
    ASSUME ConnInv,
           \/ LoadConnections \/ SaveRows
           \/ \E p \in Platforms : TypeIn(p) \/ DeleteRow(p) \/ OtherAdminSaves(p)
    PROVE  ConnInv'
<1> USE DEF ConnInv
<1>0. Edit => edits' \in 0 .. MaxEdits
  BY ConnectionAssumption DEF ConnTypeOK, Edit
<1>1. CASE LoadConnections
  <2>1. posts' \subseteq Post /\ OnlyTouchedRowsAreSent' /\ crossed' \in BOOLEAN
    BY <1>1, PostHasType, NothingIsAChange, SendKeeps DEF LoadConnections
  <2> QED
    BY <1>0, <1>1, <2>1 DEF LoadConnections, ConnTypeOK, UntouchedAsDrawn
<1>2. CASE SaveRows
  <2>1. Payload \in Changes /\ DOMAIN Payload \subseteq typed
    <3>1. Payload \in [{q \in Platforms : inputs[q] # snapshot[q]} -> Settings]
      BY DEF Payload, ConnTypeOK, Rows_
    <3>2. {q \in Platforms : inputs[q] # snapshot[q]} \in SUBSET Platforms
      OBVIOUS
    <3> QED
      BY <3>1, <3>2 DEF Changes, UntouchedAsDrawn
  <2>2. posts' \subseteq Post /\ OnlyTouchedRowsAreSent' /\ crossed' \in BOOLEAN
    BY <1>2, <2>1, PostHasType, SendKeeps DEF SaveRows
  <2> QED
    BY <1>0, <1>2, <2>2 DEF SaveRows, ConnTypeOK, UntouchedAsDrawn
<1>3. ASSUME NEW p \in Platforms, TypeIn(p) PROVE ConnInv'
  BY <1>0, <1>3 DEF TypeIn, ConnTypeOK, UntouchedAsDrawn, OnlyTouchedRowsAreSent, Rows_
<1>4. ASSUME NEW p \in Platforms, DeleteRow(p) PROVE ConnInv'
  <2> DEFINE listed == [q \in {p} |-> Blank]
             m == [PostOf("save", listed) EXCEPT !.hand = {p}]
  <2>1. listed \in Changes /\ DOMAIN listed = {p}
    <3>1. listed \in [{p} -> Settings] /\ {p} \in SUBSET Platforms
      BY ConnectionAssumption
    <3> QED
      BY <3>1 DEF Changes
  <2>2. PostOf("save", listed) \in Post /\ PostOf("save", listed).rows = listed
    BY <2>1, PostHasType
  <2> HIDE DEF listed
  <2>3. m \in Post /\ m.rows = listed /\ m.hand = {p}
    BY <2>2 DEF Post
  <2>4. Send(m)
    BY <1>4 DEF DeleteRow, listed
  <2>5. posts' \subseteq Post /\ OnlyTouchedRowsAreSent' /\ crossed' \in BOOLEAN
    BY <2>1, <2>3, <2>4, SendKeeps
  <2> QED
    BY <1>0, <1>4, <2>5 DEF DeleteRow, ConnTypeOK, UntouchedAsDrawn
<1>5. ASSUME NEW p \in Platforms, OtherAdminSaves(p) PROVE ConnInv'
  BY <1>0, <1>5 DEF OtherAdminSaves, ConnTypeOK, UntouchedAsDrawn,
                    OnlyTouchedRowsAreSent, Rows_
<1> QED
  BY <1>1, <1>2, <1>3, <1>4, <1>5

LEMMA AnswersKeepConn ==
    ASSUME ConnInv, NEW m \in posts,
           ListComes(m) \/ HealthComes(m) \/ SaveComes(m) \/ ServePost(m)
    PROVE  ConnInv'
<1> USE DEF ConnInv
<1>1. m \in Post /\ m.told \in Rows_ /\ m.rows \in Changes
  BY DEF ConnTypeOK, Post
<1>2. CASE ListComes(m)
  <2>1. PostOf("health", Nothing) \in Post /\ PostOf("health", Nothing).is = "health"
    BY PostHasType, NothingIsAChange
  <2>2. posts' \subseteq Post /\ OnlyTouchedRowsAreSent'
    BY <1>2, <2>1 DEF ListComes, ConnTypeOK, OnlyTouchedRowsAreSent
  <2>3. crossed' \in BOOLEAN
    BY <1>2 DEF ListComes, ConnTypeOK
  <2> QED
    BY <1>1, <1>2, <2>2, <2>3 DEF ListComes, Draw, ConnTypeOK, UntouchedAsDrawn
<1>3. CASE HealthComes(m) \/ SaveComes(m)
  BY <1>1, <1>3 DEF HealthComes, SaveComes, Draw, ConnTypeOK, UntouchedAsDrawn,
                    OnlyTouchedRowsAreSent
<1>4. CASE ServePost(m)
  <2>1. Merged(m.rows) \in Rows_
    BY <1>1 DEF Merged, Rows_, Changes, ConnTypeOK
  <2>2. stored' \in Rows_ /\ crossed' \in BOOLEAN
    BY <1>4, <2>1 DEF ServePost, ConnTypeOK
  <2>3. \E n \in Post : /\ posts' = (posts \ {m}) \cup {n}
                        /\ n.is = m.is /\ n.rows = m.rows /\ n.hand = m.hand
    <3>1. [m EXCEPT !.ans = "ok", !.told = stored'] \in Post
      BY <1>1, <2>2 DEF Post
    <3>2. [m EXCEPT !.ans = "failed"] \in Post
      BY <1>1 DEF Post
    <3> QED
      BY <1>1, <1>4, <3>1, <3>2 DEF ServePost, Post
  <2>4. posts' \subseteq Post /\ OnlyTouchedRowsAreSent'
    BY <2>3 DEF ConnTypeOK, OnlyTouchedRowsAreSent
  <2> QED
    BY <1>4, <2>2, <2>4 DEF ServePost, ConnTypeOK, UntouchedAsDrawn
<1> QED
  BY <1>2, <1>3, <1>4

LEMMA ConnInvHolds == ConnSpec => []ConnInv
<1>1. ConnInit => ConnInv
  <2> SUFFICES ASSUME ConnInit PROVE ConnInv
    OBVIOUS
  <2>1. [p \in Platforms |-> Blank] \in Rows_ /\ 0 \in 0 .. MaxEdits
    BY ConnectionAssumption DEF Rows_
  <2>2. /\ stored \in Rows_ /\ snapshot \in Rows_ /\ inputs = snapshot
        /\ drawn = FALSE /\ typed = {} /\ edits = 0 /\ crossed = FALSE /\ posts = {}
    BY <2>1 DEF ConnInit
  <2> QED
    BY <2>1, <2>2 DEF ConnInv, ConnTypeOK, UntouchedAsDrawn, OnlyTouchedRowsAreSent
<1>2. ConnInv /\ [ConnNext]_connVars => ConnInv'
  <2> SUFFICES ASSUME ConnInv, [ConnNext]_connVars PROVE ConnInv'
    OBVIOUS
  <2>1. CASE UNCHANGED connVars
    BY <2>1 DEF connVars, ConnInv, ConnTypeOK, UntouchedAsDrawn, OnlyTouchedRowsAreSent
  <2> QED
    BY <2>1, ClicksKeepConn, AnswersKeepConn DEF ConnNext
<1> QED
  BY <1>1, <1>2, PTL DEF ConnSpec

(* However loads, saves and other admins interleave, a save carries no row *)
(* but those typed in since the form was last drawn.                       *)
THEOREM TouchedRowsOnly == ConnSpec => []OnlyTouchedRowsAreSent
<1>1. ConnInv => OnlyTouchedRowsAreSent
  BY DEF ConnInv
<1> QED
  BY <1>1, ConnInvHolds, PTL

(* While no two exchanges have overlapped there is one at a time; a load   *)
(* carries no rows, an answer tells what the server has, and so does the   *)
(* snapshot unless such an answer is on its way.                           *)
SnapshotIsTrue == drawn => (snapshot = stored \/ \E m \in posts : m.is = "save" /\ m.ans = "ok")
OneExchangeOfRows ==
    /\ \A m, n \in posts : m = n
    /\ \A m \in posts : /\ m.is # "save" => DOMAIN m.rows = {}
                        /\ m.is = "health" => drawn
                        /\ m.ans = "ok" => m.told = stored
    /\ SnapshotIsTrue
UncrossedInv == ~crossed => OneExchangeOfRows

LEMMA FirstSend ==
    ASSUME ConnInv, UncrossedInv, ~crossed', NEW m, Send(m), m.ans = "none",
           m.is # "health", m.is # "save" => DOMAIN m.rows = {}, UNCHANGED <<stored, drawn, snapshot>>
    PROVE  OneExchangeOfRows'
<1>1. ~crossed /\ posts = {} /\ posts' = {m}
  BY DEF Send, ConnInv, ConnTypeOK
<1> QED
  BY <1>1 DEF UncrossedInv, OneExchangeOfRows, SnapshotIsTrue

LEMMA UncrossedClicks ==
    ASSUME ConnInv, UncrossedInv,
           \/ LoadConnections \/ SaveRows
           \/ \E p \in Platforms : TypeIn(p) \/ DeleteRow(p) \/ OtherAdminSaves(p)
    PROVE  UncrossedInv'
<1> SUFFICES ASSUME ~crossed' PROVE OneExchangeOfRows'
  BY DEF UncrossedInv
<1>1. CASE LoadConnections
  <2>1. /\ PostOf("list", Nothing).ans = "none" /\ PostOf("list", Nothing).is = "list"
        /\ DOMAIN PostOf("list", Nothing).rows = {}
    BY NothingIsAChange DEF PostOf
  <2> QED
    BY <1>1, <2>1, FirstSend DEF LoadConnections
<1>2. CASE SaveRows
  <2>1. PostOf("save", Payload).ans = "none" /\ PostOf("save", Payload).is = "save"
    BY DEF PostOf
  <2> QED
    BY <1>2, <2>1, FirstSend DEF SaveRows
<1>3. ASSUME NEW p \in Platforms, TypeIn(p) PROVE OneExchangeOfRows'
  BY <1>3 DEF TypeIn, UncrossedInv, OneExchangeOfRows, SnapshotIsTrue
<1>4. ASSUME NEW p \in Platforms, DeleteRow(p) PROVE OneExchangeOfRows'
  <2>1. PICK m : m = [PostOf("save", [q \in {p} |-> Blank]) EXCEPT !.hand = {p}]
    OBVIOUS
  <2>2. m.is = "save" /\ m.ans = "none"
    BY <2>1 DEF PostOf
  <2>3. Send(m) /\ UNCHANGED <<stored, drawn, snapshot>>
    BY <1>4, <2>1 DEF DeleteRow
  <2> QED
    BY <2>2, <2>3, FirstSend
<1>5. ASSUME NEW p \in Platforms, OtherAdminSaves(p) PROVE OneExchangeOfRows'
  BY <1>5 DEF OtherAdminSaves
<1> QED
  BY <1>1, <1>2, <1>3, <1>4, <1>5

LEMMA UncrossedAnswers ==
    ASSUME ConnInv, UncrossedInv, NEW m \in posts,
           ListComes(m) \/ HealthComes(m) \/ SaveComes(m) \/ ServePost(m)
    PROVE  UncrossedInv'
<1> SUFFICES ASSUME ~crossed' PROVE OneExchangeOfRows'
  BY DEF UncrossedInv
<1>1. m \in Post /\ crossed \in BOOLEAN /\ stored \in Rows_
  BY DEF ConnInv, ConnTypeOK
<1>2. ~crossed => OneExchangeOfRows /\ posts = {m}
  BY DEF UncrossedInv, OneExchangeOfRows
<1>3. CASE ListComes(m)
  <2>1. CASE m.ans = "ok"
    <3>1. m.told = stored /\ posts = {m}
      BY <1>1, <1>2, <1>3, <2>1 DEF ListComes, OneExchangeOfRows
    <3>2. PICK n : n = PostOf("health", Nothing)
      OBVIOUS
    <3>3. n.ans = "none" /\ DOMAIN n.rows = {}
      BY <3>2, NothingIsAChange DEF PostOf
    <3>4. posts' = {n} /\ snapshot' = stored /\ stored' = stored /\ drawn'
      BY <1>3, <2>1, <3>1, <3>2 DEF ListComes, Draw
    <3> QED
      BY <3>3, <3>4 DEF OneExchangeOfRows, SnapshotIsTrue
  <2>2. CASE m.ans # "ok"
    <3>1. /\ posts' = {} /\ m.is = "list"
          /\ UNCHANGED <<stored, snapshot, drawn>> /\ OneExchangeOfRows
          /\ posts = {m}
      BY <1>2, <1>3, <2>2 DEF ListComes
    <3> QED
      BY <3>1 DEF OneExchangeOfRows, SnapshotIsTrue
  <2> QED
    BY <2>1, <2>2
<1>4. CASE HealthComes(m)
  <2>1. /\ posts' = {} /\ m.is = "health" /\ posts = {m} /\ OneExchangeOfRows
        /\ stored' = stored /\ snapshot' = snapshot
    BY <1>2, <1>4 DEF HealthComes, Draw
  <2>2. drawn
    BY <2>1 DEF OneExchangeOfRows
  <2> QED
    BY <2>1, <2>2 DEF OneExchangeOfRows, SnapshotIsTrue
<1>5. CASE SaveComes(m)
  <2>1. /\ posts' = {} /\ m.is = "save" /\ posts = {m} /\ OneExchangeOfRows
        /\ stored' = stored
        /\ \/ m.ans = "ok" /\ snapshot' = m.told
           \/ m.ans # "ok" /\ snapshot' = snapshot /\ drawn' = drawn
    BY <1>2, <1>5 DEF SaveComes, Draw
  <2> QED
    BY <2>1 DEF OneExchangeOfRows, SnapshotIsTrue
<1>6. CASE ServePost(m)
  <2>1. /\ posts = {m} /\ OneExchangeOfRows /\ m.ans = "none"
        /\ UNCHANGED <<snapshot, drawn>>
    BY <1>1, <1>2, <1>6 DEF ServePost
  <2>2. DOMAIN m.rows = {} => Merged(m.rows) = stored
    BY <1>1 DEF Merged, Rows_
  <2>3. CASE /\ stored' = Merged(m.rows)
             /\ posts' = (posts \ {m}) \cup {[m EXCEPT !.ans = "ok", !.told = stored']}
    <3>1. PICK n : n = [m EXCEPT !.ans = "ok", !.told = stored']
      OBVIOUS
    <3>2. /\ posts' = {n} /\ n.is = m.is /\ n.rows = m.rows /\ n.ans = "ok"
          /\ n.told = stored'
      BY <1>1, <2>1, <2>3, <3>1 DEF Post
    <3>3. m.is # "save" => stored' = stored
      BY <2>1, <2>2, <2>3 DEF OneExchangeOfRows
    <3> QED
      BY <2>1, <3>2, <3>3 DEF OneExchangeOfRows, SnapshotIsTrue
  <2>4. CASE stored' = stored /\ posts' = (posts \ {m}) \cup {[m EXCEPT !.ans = "failed"]}
    <3>1. PICK n : n = [m EXCEPT !.ans = "failed"]
      OBVIOUS
    <3>2. posts' = {n} /\ n.is = m.is /\ n.rows = m.rows /\ n.ans = "failed"
      BY <1>1, <2>1, <2>4, <3>1 DEF Post
    <3> QED
      BY <2>1, <2>4, <3>2 DEF OneExchangeOfRows, SnapshotIsTrue
  <2> QED
    BY <1>6, <2>3, <2>4 DEF ServePost
<1> QED
  BY <1>3, <1>4, <1>5, <1>6

(* A form at rest shows what the server has, for any platforms and any     *)
(* settings, as long as no exchanges overlapped since it was last drawn    *)
(* from the truth (savePlatformConnections, loadPlatformConnections).      *)
THEOREM FormShowsTheServer == ConnSpec => []RestingFormIsTrue
<1>1. ConnInit => UncrossedInv
  BY DEF ConnInit, UncrossedInv, OneExchangeOfRows, SnapshotIsTrue
<1>2. ConnInv /\ UncrossedInv /\ [ConnNext]_connVars => UncrossedInv'
  <2> SUFFICES ASSUME ConnInv, UncrossedInv, [ConnNext]_connVars PROVE UncrossedInv'
    OBVIOUS
  <2>1. CASE UNCHANGED connVars
    BY <2>1 DEF connVars, UncrossedInv, OneExchangeOfRows, SnapshotIsTrue
  <2> QED
    BY <2>1, UncrossedClicks, UncrossedAnswers DEF ConnNext
<1>3. ConnInv /\ UncrossedInv => RestingFormIsTrue
  <2> SUFFICES ASSUME ConnInv, UncrossedInv, drawn, posts = {}, typed = {}, ~crossed
               PROVE  inputs = stored
    BY DEF RestingFormIsTrue
  <2>1. snapshot = stored
    BY DEF UncrossedInv, OneExchangeOfRows, SnapshotIsTrue
  <2>2. inputs = snapshot
    BY DEF ConnInv, ConnTypeOK, UntouchedAsDrawn, Rows_
  <2> QED
    BY <2>1, <2>2
<1> QED
  BY <1>1, <1>2, <1>3, ConnInvHolds, PTL DEF ConnSpec

-----------------------------------------------------------------------------
(* --- LogPage ------------------------------------------------------------ *)

(* The page without its fairness, which no invariant needs.               *)
LogRuns == LogInit /\ [][LogNext]_logVars

(* An answer "not available" comes to a page with such an area only.       *)
LogShape ==
    LogTypeOK /\ (~HasNotice => \A r \in queries : r.ans # "unavailable")

(* A list as the server answers it                                         *)
LEMMA ListIsListed ==
    ASSUME NEW q \in Query, NEW pages \in PageNumbers
    PROVE  ListOf(q, pages) \in Listed
BY LogAssumption DEF ListOf, ClampedTo, Listed, Query, PageNumbers

(* What replaces a request that is answered                                *)
LEMMA AnsweredQuery ==
    ASSUME LogTypeOK, NEW r \in queries, ServeLog(r)
    PROVE  \E n : /\ queries' = (queries \ {r}) \cup {n}
                  /\ n \in Request_ /\ n.q = r.q /\ n.ans # "none"
                  /\ n.ans = "unavailable" => HasNotice
                  /\ n.ans = "rows" => \E pages \in PageNumbers : n.list = ListOf(r.q, pages)
<1>1. r \in Request_ /\ r.q \in Query
  BY DEF LogTypeOK, Request_
<1>2. PICK n \in {[r EXCEPT !.ans = "rows", !.list = ListOf(r.q, pages)]
                     : pages \in PageNumbers}
                 \cup {[r EXCEPT !.ans = ans] : ans \in
                         {"nothing", "failed"} \cup {a \in {"unavailable"} : HasNotice}} :
          queries' = (queries \ {r}) \cup {n}
  BY DEF ServeLog
<1>3. CASE \E pages \in PageNumbers :
             n = [r EXCEPT !.ans = "rows", !.list = ListOf(r.q, pages)]
  <2>1. PICK pages \in PageNumbers :
          n = [r EXCEPT !.ans = "rows", !.list = ListOf(r.q, pages)]
    BY <1>3
  <2>2. ListOf(r.q, pages) \in Listed
    BY <1>1, ListIsListed
  <2>3. n \in Request_ /\ n.q = r.q /\ n.ans = "rows" /\ n.list = ListOf(r.q, pages)
    BY <1>1, <2>1, <2>2 DEF Request_
  <2> QED
    BY <1>2, <2>3
<1>4. CASE \E ans \in {"nothing", "failed"} \cup {a \in {"unavailable"} : HasNotice} :
             n = [r EXCEPT !.ans = ans]
  <2>1. PICK ans \in {"nothing", "failed"} \cup {a \in {"unavailable"} : HasNotice} :
          n = [r EXCEPT !.ans = ans]
    BY <1>4
  <2>2. n \in Request_ /\ n.q = r.q /\ n.ans = ans
    BY <1>1, <2>1 DEF Request_
  <2>3. ans \in {"nothing", "failed", "unavailable"} /\ (ans = "unavailable" => HasNotice)
    BY <2>1
  <2> QED
    BY <1>2, <2>2, <2>3
<1> QED
  BY <1>2, <1>3, <1>4

LEMMA NewQuery ==
    ASSUME NEW f \in Filters, NEW p \in PageNumbers, LoadLog(f, p)
    PROVE  \E n : /\ queries' = queries \cup {n}
                  /\ n \in Request_ /\ n.ans = "none"
                  /\ n.q = [filter |-> f, page |-> p]
<1>1. PICK id \in 1 .. MaxLogLoads :
         queries' = queries \cup
            {[q |-> [filter |-> f, page |-> p], id |-> id, ans |-> "none",
              list |-> [filter |-> f, page |-> p, pages |-> p]]}
  BY DEF LoadLog
<1> DEFINE n == [q |-> [filter |-> f, page |-> p], id |-> id, ans |-> "none",
                 list |-> [filter |-> f, page |-> p, pages |-> p]]
<1>2. n \in Request_ /\ n.ans = "none" /\ n.q = [filter |-> f, page |-> p]
  BY DEF Request_, Query, Listed
<1> HIDE DEF n
<1>3. queries' = queries \cup {n}
  BY <1>1 DEF n
<1> QED
  BY <1>2, <1>3

(* Every load that is begun asks for a filter and a page there can be.     *)
LEMMA LoadsAreTyped ==
    ASSUME LogTypeOK, Search \/ Reset \/ Turn
    PROVE  \E f \in Filters, p \in PageNumbers : LoadLog(f, p)
<1> USE LogAssumption
<1>1. CASE Search \/ Reset
  <2>1. 1 \in PageNumbers
    BY DEF PageNumbers
  <2> QED
    BY <1>1, <2>1 DEF Search, Reset
<1>2. CASE Turn
  <2>1. PagerButtons \subseteq PageNumbers
    <3>1. CASE pagerOf \in Listed
      BY <3>1 DEF PagerButtons, Listed, PageNumbers
    <3>2. CASE pagerOf = NothingListed
      BY <3>2 DEF PagerButtons, NothingListed
    <3> QED
      BY <3>1, <3>2 DEF LogTypeOK
  <2> QED
    BY <1>2, <2>1 DEF Turn
<1> QED
  BY <1>1, <1>2

LEMMA LogShapeStep == LogShape /\ [LogNext]_logVars => LogShape'
<1> SUFFICES ASSUME LogShape, [LogNext]_logVars PROVE LogShape'
  OBVIOUS
<1> USE LogAssumption DEF LogShape, LogTypeOK
<1>1. ASSUME NEW f \in Filters, NEW p \in PageNumbers, LoadLog(f, p) PROVE LogShape'
  <2>1. PICK n : queries' = queries \cup {n} /\ n \in Request_ /\ n.ans = "none"
    BY <1>1, NewQuery
  <2> QED
    BY <1>1, <2>1 DEF LoadLog
<1>2. CASE Search \/ Reset \/ Turn
  BY <1>1, <1>2, LoadsAreTyped
<1>3. ASSUME NEW r \in queries, LogArrives(r) PROVE LogShape'
  <2>1. r \in Request_ /\ r.list \in Listed
    BY DEF Request_
  <2>2. ShownBy(r) \cup PagerAfter(r) \subseteq Areas
    BY DEF ShownBy, PagerAfter, Areas
  <2>3. ~HasNotice => "notice" \notin ShownBy(r) \cup PagerAfter(r)
    BY DEF ShownBy, PagerAfter
  <2>4. inTable' \in Listed \cup {NothingListed} /\ pagerOf' \in Listed \cup {NothingListed}
    BY <1>3, <2>1 DEF LogArrives
  <2> QED
    BY <1>3, <2>2, <2>3, <2>4 DEF LogArrives, LoadingAfter
<1>4. ASSUME NEW r \in queries, ServeLog(r) PROVE LogShape'
  <2>1. PICK n : /\ queries' = (queries \ {r}) \cup {n} /\ n \in Request_
                 /\ n.ans = "unavailable" => HasNotice
    BY <1>4, AnsweredQuery
  <2> QED
    BY <1>4, <2>1 DEF ServeLog
<1>5. CASE UNCHANGED logVars
  BY <1>5 DEF logVars
<1> QED
  BY <1>2, <1>3, <1>4, <1>5 DEF LogNext, Finish

LEMMA LogShapeHolds == LogRuns => []LogShape
<1>1. ASSUME LogInit PROVE LogShape
  <2>1. 0 \in 0 .. MaxLogClicks /\ 1 \in PageNumbers /\ NoFilter \in Filters
    BY LogAssumption DEF PageNumbers
  <2> QED
    BY <1>1, <2>1 DEF LogInit, LogShape, LogTypeOK
<1> QED
  BY <1>1, LogShapeStep, PTL DEF LogRuns

LEMMA LogTypeHolds == LogRuns => []LogTypeOK
<1>1. LogShape => LogTypeOK
  BY DEF LogShape
<1> QED
  BY <1>1, LogShapeHolds, PTL

(* The variables of a page of logs keep their types; a page without a      *)
(* "not available" area shows none.                                        *)
THEOREM LogTypeCorrect == LogSpec => []LogTypeOK
  BY LogTypeHolds, PTL DEF LogSpec, LogRuns

(* A load hides every area there is.                                       *)
LEMMA LoadHidesAll ==
    ASSUME LogTypeOK, NEW f, NEW p, LoadLog(f, p) PROVE areas' = {}
BY DEF LogTypeOK, LoadLog, HiddenAtFirst

(* In no order of loads and answers does the notice that the module is not *)
(* enabled, or any other area, stand beside the loading line.              *)
THEOREM NoticeStandsAlone == LogSpec => []NoticeExcludesLoading
<1>1. LogInit => NoticeExcludesLoading
  BY DEF LogInit, NoticeExcludesLoading
<1>2. LogTypeOK /\ NoticeExcludesLoading /\ [LogNext]_logVars => NoticeExcludesLoading'
  <2> SUFFICES ASSUME LogTypeOK, NoticeExcludesLoading, [LogNext]_logVars
               PROVE  NoticeExcludesLoading'
    OBVIOUS
  <2>1. CASE Search \/ Reset \/ Turn
    BY <2>1, LoadHidesAll DEF Search, Reset, Turn, NoticeExcludesLoading
  <2>2. CASE Finish \/ UNCHANGED logVars
    BY <2>2 DEF NoticeExcludesLoading, Finish, LogArrives, LoadingAfter, ServeLog, logVars
  <2> QED
    BY <2>1, <2>2 DEF LogNext
<1> QED
  BY <1>1, <1>2, LogTypeHolds, PTL DEF LogSpec, LogRuns

(* While a load has the page to itself nothing is displayed, and it asks   *)
(* for what the fields and the page number say.                            *)
LoneQuery(r) ==
    /\ r.q = [filter |-> fields, page |-> logPage]
    /\ r.ans = "rows" => \E pages \in PageNumbers : r.list = ListOf(r.q, pages)
LoneLoadInv ==
    onlyOne => \/ queries = {} /\ LoneLoadShowsItsPage
               \/ areas = {} /\ \E r \in queries : queries = {r} /\ LoneQuery(r)

(* An answer shows one area, and the pager beside it.                      *)
LEMMA OneAreaIsShown ==
    ASSUME NEW r, areas = {}
    PROVE  Cardinality((ShownBy(r) \cup PagerAfter(r)) \ {"pager"}) <= 1
<1> DEFINE some == (ShownBy(r) \cup PagerAfter(r)) \ {"pager"}
<1>0. PagerAfter(r) \subseteq {"pager"}
  BY DEF PagerAfter
<1>a. \/ ShownBy(r) = {} \/ ShownBy(r) = {"notice"}
      \/ ShownBy(r) = {"empty"} \/ ShownBy(r) = {"table"}
  BY DEF ShownBy
<1>1. \/ some = {} \/ some = {"notice"} \/ some = {"empty"} \/ some = {"table"}
  BY <1>0, <1>a
<1> HIDE DEF some
<1>2. Cardinality(some) <= 1
  <2>1. CASE some = {}
    BY <2>1, FS_EmptySet
  <2>2. ASSUME NEW x, some = {x} PROVE Cardinality(some) <= 1
    <3>1. Cardinality({x}) = 1
      BY FS_Singleton
    <3> QED
      BY <2>2, <3>1
  <2> QED
    BY <1>1, <2>1, <2>2
<1> QED
  BY <1>2 DEF some

LEMMA LoneLoadStep == LogTypeOK /\ LoneLoadInv /\ [LogNext]_logVars => LoneLoadInv'
<1> SUFFICES ASSUME LogTypeOK, LoneLoadInv, [LogNext]_logVars, onlyOne' PROVE LoneLoadInv'
  BY DEF LoneLoadInv
<1>1. ASSUME NEW f \in Filters, NEW p \in PageNumbers, LoadLog(f, p) PROVE LoneLoadInv'
  <2>1. queries = {} /\ areas' = {} /\ fields' = f /\ logPage' = p
    BY <1>1, LoadHidesAll DEF LoadLog
  <2>2. PICK n : queries' = {n} /\ n.ans = "none" /\ n.q = [filter |-> f, page |-> p]
    BY <1>1, <2>1, NewQuery
  <2>3. LoneQuery(n)'
    BY <2>1, <2>2 DEF LoneQuery
  <2> QED
    BY <2>1, <2>2, <2>3 DEF LoneLoadInv
<1>2. ASSUME NEW r \in queries, LogArrives(r) PROVE LoneLoadInv'
  <2>1. onlyOne /\ areas = {} /\ queries = {r} /\ LoneQuery(r)
    BY <1>2 DEF LogArrives, LoneLoadInv
  <2>2. /\ queries' = {} /\ areas' = ShownBy(r) \cup PagerAfter(r)
        /\ fields' = fields /\ logPage' = logPage
    BY <1>2, <2>1 DEF LogArrives
  <2>3. ASSUME "table" \in areas'
        PROVE  inTable'.filter = fields /\ inTable'.page = ClampedTo(logPage, inTable'.pages)
    <3>1. r.ans = "rows" /\ inTable' = r.list
      BY <1>2, <2>2, <2>3 DEF LogArrives, ShownBy, PagerAfter
    <3>2. PICK pages \in PageNumbers : r.list = ListOf(r.q, pages)
      BY <2>1, <3>1 DEF LoneQuery
    <3>3. r.q.filter = fields /\ r.q.page = logPage
      BY <2>1 DEF LoneQuery
    <3> QED
      BY <3>1, <3>2, <3>3 DEF ListOf
  <2>4. Cardinality(areas' \ {"pager"}) <= 1
    BY <2>1, <2>2, OneAreaIsShown
  <2>5. LoneLoadShowsItsPage'
    BY <2>2, <2>3, <2>4 DEF LoneLoadShowsItsPage, ClampedTo
  <2> QED
    BY <2>2, <2>5 DEF LoneLoadInv
<1>3. ASSUME NEW r \in queries, ServeLog(r) PROVE LoneLoadInv'
  <2>1. onlyOne /\ areas = {} /\ queries = {r} /\ LoneQuery(r)
    BY <1>3 DEF ServeLog, LoneLoadInv
  <2>2. PICK n : /\ queries' = {n} /\ n.q = r.q
                 /\ n.ans = "rows" => \E pages \in PageNumbers : n.list = ListOf(r.q, pages)
    BY <1>3, <2>1, AnsweredQuery
  <2>3. UNCHANGED <<fields, logPage, areas>>
    BY <1>3 DEF ServeLog
  <2>4. LoneQuery(n)'
    BY <2>1, <2>2, <2>3 DEF LoneQuery
  <2> QED
    BY <2>1, <2>2, <2>3, <2>4 DEF LoneLoadInv
<1>4. CASE UNCHANGED logVars
  BY <1>4 DEF logVars, LoneLoadInv, LoneLoadShowsItsPage, LoneQuery
<1>5. CASE Search \/ Reset \/ Turn
  BY <1>1, <1>5, LoadsAreTyped
<1> QED
  BY <1>2, <1>3, <1>4, <1>5 DEF LogNext, Finish

LEMMA LoneLoadHolds == LogRuns => []LoneLoadShowsItsPage
<1>1. LogInit => LoneLoadInv
  BY DEF LogInit, LoneLoadInv
<1>2. LoneLoadInv => LoneLoadShowsItsPage
  BY DEF LoneLoadInv, LoneLoadShowsItsPage
<1> QED
  BY <1>1, <1>2, LoneLoadStep, LogTypeHolds, PTL DEF LogRuns

(* A load that had the page to itself ends with one area, and a table      *)
(* holds the page asked for of what the fields say, or the last one when   *)
(* there are fewer, for any filters and numbers of pages                   *)
(* (loadOperationLogs and its two likes, OperationLogRepository::list).    *)
THEOREM LoneLoadIsShown == LogSpec => []LoneLoadShowsItsPage
  BY LoneLoadHolds, PTL DEF LogSpec, LogRuns

LEMMA PagerStep == LogTypeOK /\ PagerIsOfItsTable /\ [LogNext]_logVars => PagerIsOfItsTable'
<1> SUFFICES ASSUME LogTypeOK, PagerIsOfItsTable, [LogNext]_logVars
             PROVE  PagerIsOfItsTable'
  OBVIOUS
<1>1. CASE Search \/ Reset \/ Turn
  BY <1>1, LoadHidesAll DEF Search, Reset, Turn, PagerIsOfItsTable
<1>2. ASSUME NEW r \in queries, LogArrives(r) PROVE PagerIsOfItsTable'
  <2>1. areas' = (areas \ {"pager"}) \cup ShownBy(r) \cup PagerAfter(r)
    BY <1>2 DEF LogArrives
  <2>2. CASE r.ans = "rows"
    <3>1. inTable' = r.list /\ (r.list.pages > 1 => pagerOf' = r.list)
      BY <1>2, <2>2 DEF LogArrives
    <3>2. "table" \in areas' /\ ("pager" \in areas' <=> r.list.pages > 1)
      BY <2>1, <2>2 DEF ShownBy, PagerAfter
    <3> QED
      BY <3>1, <3>2 DEF PagerIsOfItsTable
  <2>3. CASE r.ans # "rows"
    <3>1. UNCHANGED <<inTable, pagerOf>>
      BY <1>2, <2>3 DEF LogArrives
    <3>2. /\ "table" \in areas' <=> "table" \in areas
          /\ "pager" \in areas' <=> "pager" \in areas
      BY <2>1, <2>3 DEF ShownBy, PagerAfter
    <3> QED
      BY <3>1, <3>2 DEF PagerIsOfItsTable
  <2> QED
    BY <2>2, <2>3
<1>3. CASE UNCHANGED <<areas, inTable, pagerOf>>
  BY <1>3 DEF PagerIsOfItsTable
<1> QED
  BY <1>1, <1>2, <1>3 DEF LogNext, Finish, ServeLog, logVars

LEMMA PagerHolds == LogRuns => []PagerIsOfItsTable
<1>1. LogInit => PagerIsOfItsTable
  BY DEF LogInit, PagerIsOfItsTable
<1> QED
  BY <1>1, PagerStep, LogTypeHolds, PTL DEF LogRuns

(* In whatever order the answers to overlapping loads come, the pager that *)
(* is displayed is that of the table it stands under, for any filters and  *)
(* numbers of pages (renderOplogPagination and its two likes).             *)
THEOREM PagerFollowsTable == LogSpec => []PagerIsOfItsTable
  BY PagerHolds, PTL DEF LogSpec, LogRuns

-----------------------------------------------------------------------------
(* --- SettingsToggles ---------------------------------------------------- *)

(* Every change of what a job's switch is known to be sets its button with *)
(* it, and only a run sets a button otherwise.                             *)
Loads_ == [is : {"modes", "config"}, ans : Answer_, told : Flags, modes : BOOLEAN]
Saves_ == [is : {"save"}, of : Switches, want : BOOLEAN, old : BOOLEAN,
           modes : BOOLEAN, ans : Answer_]
Runs_ == [is : {"run"}, of : Jobs, ans : Answer_]
SwitchInv ==
    /\ setting \in Flags /\ box \in Flags /\ current \in Flags
    /\ modesOn \in BOOLEAN /\ seenModes \in BOOLEAN /\ bodyShown \in BOOLEAN
    /\ runOff \in [Jobs -> BOOLEAN] /\ dialog \in Dialogs /\ waiting \subseteq Calls
    /\ RunFollowsItsSwitch

LEMMA CallKinds ==
    ASSUME NEW c \in Calls
    PROVE  /\ c.is \in {"modes", "config"} => c \in Loads_
           /\ c.is = "save" => c \in Saves_
           /\ c.is = "run" => c \in Runs_
           /\ c.is \in {"modes", "config", "save", "run"}
BY DEF Calls, Loads_, Saves_, Runs_

LEMMA KindsAreCalls == Loads_ \subseteq Calls /\ Saves_ \subseteq Calls /\ Runs_ \subseteq Calls
BY DEF Calls, Loads_, Saves_, Runs_

LEMMA SyncedFollows ==
    ASSUME current' \in Flags, runOff' = Synced
    PROVE  runOff' \in [Jobs -> BOOLEAN] /\ RunFollowsItsSwitch'
BY DEF Synced, Flags, RunFollowsItsSwitch, Switches

(* A step that leaves the buttons and the switches of the jobs alone, does *)
(* not show the page and takes no run off the list.                        *)
LEMMA SwitchesAlone ==
    ASSUME SwitchInv, runOff' = runOff, bodyShown' => bodyShown,
           \A j \in Jobs : current'[j] = current[j],
           (\E c \in waiting : c.is = "run") => \E c \in waiting' : c.is = "run"
    PROVE  RunFollowsItsSwitch'
BY DEF SwitchInv, RunFollowsItsSwitch

LEMMA NewCallKeeps ==
    ASSUME SwitchInv, NEW c \in Calls, Begin(c)
    PROVE  /\ waiting' \subseteq Calls
           /\ (\E d \in waiting : d.is = "run") => \E d \in waiting' : d.is = "run"
BY DEF SwitchInv, Begin

LEMMA AskForIsALoad ==
    ASSUME NEW what \in {"modes", "config"} PROVE AskFor(what) \in Calls
BY KindsAreCalls DEF AskFor, Loads_, Flags, Answer_

LEMMA SettingsClicks ==
    ASSUME SwitchInv, \/ OpenModes \/ OpenConfig \/ ModesChange
                      \/ \E s \in Switches : Flip(s)
                      \/ \E j \in Jobs : PressRun(j)
    PROVE  SwitchInv'
<1>1. CASE OpenModes
  <2>1. AskFor("modes") \in Calls /\ Begin(AskFor("modes"))
    BY <1>1, AskForIsALoad DEF OpenModes
  <2> QED
    BY <1>1, <2>1, NewCallKeeps, SwitchesAlone DEF OpenModes, SwitchInv, page_
<1>2. CASE OpenConfig
  <2>1. AskFor("config") \in Calls /\ Begin(AskFor("config"))
    BY <1>2, AskForIsALoad DEF OpenConfig
  <2> QED
    BY <1>2, <2>1, NewCallKeeps, SwitchesAlone DEF OpenConfig, SwitchInv
<1>3. CASE ModesChange
  BY <1>3, SwitchesAlone DEF ModesChange, SwitchInv, page_
<1>4. ASSUME NEW s \in Switches, Flip(s) PROVE SwitchInv'
  <2>1. box' \in Flags /\ box'[s] \in BOOLEAN /\ current[s] \in BOOLEAN
    BY <1>4 DEF Flip, SwitchInv, Flags
  <2>2. dialog' \in Dialogs
    BY <1>4, <2>1 DEF Flip, Dialogs
  <2> QED
    BY <1>4, <2>1, <2>2, SwitchesAlone DEF Flip, SwitchInv
<1>5. ASSUME NEW j \in Jobs, PressRun(j) PROVE SwitchInv'
  BY <1>5, SwitchesAlone DEF PressRun, SwitchInv, page_, Dialogs
<1> QED
  BY <1>1, <1>2, <1>3, <1>4, <1>5

LEMMA SettingsAnswers ==
    ASSUME SwitchInv, SayNo \/ SayYes
    PROVE  SwitchInv'
<1>0. dialog' = None /\ None \in Dialogs
  BY DEF SayNo, SayYes, Dialogs
<1>1. CASE SayNo
  <2>1. box' \in Flags
    BY <1>1 DEF SayNo, SwitchInv, Flags, Dialogs, None
  <2> QED
    BY <1>0, <1>1, <2>1, SwitchesAlone DEF SayNo, SwitchInv
<1>2. ASSUME dialog.is = "flip", SayYes, NEW want \in BOOLEAN, NEW s \in Switches,
             Begin(Save(s, want, dialog.old)), runOff' = runOff,
             current' \in Flags, \A j \in Jobs : current'[j] = current[j]
      PROVE  SwitchInv'
  <2>1. dialog.old \in BOOLEAN
    BY <1>2 DEF SwitchInv, Dialogs, None
  <2>2. Save(s, want, dialog.old) \in Calls
    BY <2>1, KindsAreCalls DEF Save, Saves_, SwitchInv, Answer_
  <2> QED
    BY <1>0, <1>2, <2>2, NewCallKeeps, SwitchesAlone DEF SayYes, SwitchInv
<1>3. CASE SayYes /\ dialog.is = "flip" /\ dialog.of # "log"
  <2>1. dialog.want \in BOOLEAN /\ dialog.of \in Switches
    BY <1>3 DEF SwitchInv, Dialogs, None
  <2> QED
    BY <1>2, <1>3, <2>1 DEF SayYes, SwitchInv
<1>4. CASE SayYes /\ dialog.is = "flip" /\ dialog.of = "log"
  <2>1. dialog.want \in BOOLEAN /\ "log" \in Switches /\ box["log"] \in BOOLEAN
    BY <1>4 DEF SwitchInv, Dialogs, None, Flags, Switches
  <2>2. /\ Begin(Save("log", box["log"], dialog.old)) /\ runOff' = runOff
        /\ current' = [current EXCEPT !["log"] = dialog.want]
    BY <1>4 DEF SayYes
  <2>3. current' \in Flags /\ \A j \in Jobs : current'[j] = current[j]
    BY <2>1, <2>2 DEF SwitchInv, Flags, Jobs, Switches
  <2> QED
    BY <1>2, <1>4, <2>1, <2>2, <2>3
<1>5. CASE SayYes /\ dialog.is = "run"
  <2> DEFINE c == [is |-> "run", of |-> dialog.of, ans |-> "none"]
  <2>1. dialog.of \in Jobs
    BY <1>5 DEF SwitchInv, Dialogs, None
  <2>2. c \in Calls
    BY <2>1, KindsAreCalls DEF Runs_, Answer_
  <2>3. Begin(c) /\ runOff' = [runOff EXCEPT ![dialog.of] = TRUE] /\ current' = current
    BY <1>5 DEF SayYes
  <2>4. c \in waiting' /\ c.is = "run" /\ waiting' \subseteq Calls
    BY <2>2, <2>3 DEF Begin, SwitchInv
  <2>5. runOff' \in [Jobs -> BOOLEAN] /\ RunFollowsItsSwitch'
    BY <2>3, <2>4 DEF SwitchInv, RunFollowsItsSwitch
  <2> QED
    BY <1>0, <1>5, <2>3, <2>4, <2>5 DEF SayYes, SwitchInv
<1> QED
  BY <1>1, <1>3, <1>4, <1>5 DEF SayYes

LEMMA ArrivedKeeps ==
    ASSUME SwitchInv, NEW c \in waiting
    PROVE  /\ waiting \ {c} \subseteq Calls
           /\ c.is # "run" => ((\E d \in waiting : d.is = "run")
                                 => \E d \in waiting \ {c} : d.is = "run")
BY DEF SwitchInv

LEMMA SettingsArrivals ==
    ASSUME SwitchInv, NEW c \in waiting,
           \/ ModesArrive(c) \/ ConfigArrives(c) \/ SaveArrives(c)
           \/ LogSaveArrives(c) \/ RunArrives(c)
    PROVE  SwitchInv'
<1>0. c \in Calls /\ "log" \in Switches /\ "push" \in Switches
  BY DEF SwitchInv, Switches
<1>1. CASE ModesArrive(c)
  <2>1. c \in Loads_ /\ waiting' = waiting \ {c} /\ c.is = "modes"
    BY <1>0, <1>1, CallKinds DEF ModesArrive, Arrive
  <2>2. /\ box' \in Flags /\ current' \in Flags /\ seenModes' \in BOOLEAN
        /\ \A j \in Jobs : current'[j] = current[j]
    <3> DEFINE on == c.ans = "ok" /\ c.told["push"]
               seen == c.ans = "ok" /\ c.modes
    <3>1. on \in BOOLEAN /\ seen \in BOOLEAN
      BY Zenon
    <3>2. \/ UNCHANGED <<box, current, seenModes>>
          \/ /\ box' = [box EXCEPT !["push"] = on]
             /\ current' = [current EXCEPT !["push"] = on]
             /\ seenModes' = seen
      BY <1>1 DEF ModesArrive
    <3> HIDE DEF on, seen
    <3> QED
      <4>1. [box EXCEPT !["push"] = on] \in Flags /\ [current EXCEPT !["push"] = on] \in Flags
        BY <1>0, <3>1 DEF SwitchInv, Flags
      <4>2. \A j \in Jobs : [current EXCEPT !["push"] = on][j] = current[j]
        BY DEF SwitchInv, Flags, Jobs, Switches
      <4> QED
        BY <3>1, <3>2, <4>1, <4>2 DEF SwitchInv
  <2> QED
    BY <1>1, <2>1, <2>2, ArrivedKeeps, SwitchesAlone DEF ModesArrive, SwitchInv
<1>2. CASE ConfigArrives(c)
  <2>1. c \in Loads_ /\ waiting' = waiting \ {c} /\ c.is = "config"
    BY <1>0, <1>2, CallKinds DEF ConfigArrives, Arrive
  <2>2. CASE c.ans # "ok"
    BY <1>2, <2>1, <2>2, ArrivedKeeps, SwitchesAlone DEF ConfigArrives, SwitchInv
  <2>3. CASE c.ans = "ok"
    <3>1. c.told \in Flags
      BY <2>1 DEF Loads_
    <3>2. box' \in Flags /\ current' \in Flags /\ runOff' = Synced
      BY <1>0, <1>2, <2>3, <3>1 DEF ConfigArrives, SwitchInv, Flags
    <3> QED
      BY <1>2, <2>1, <2>3, <3>2, ArrivedKeeps, SyncedFollows DEF ConfigArrives, SwitchInv
  <2> QED
    BY <2>2, <2>3
<1>3. CASE SaveArrives(c)
  <2>1. c \in Saves_ /\ c.of \in Switches /\ Kept(c) \in BOOLEAN /\ c.is = "save"
    BY <1>0, <1>3, CallKinds DEF SaveArrives, Saves_, Kept
  <2>2. box' \in Flags /\ current' \in Flags
    BY <1>3, <2>1 DEF SaveArrives, SwitchInv, Flags
  <2>3. /\ waiting' \subseteq Calls
        /\ (\E d \in waiting : d.is = "run") => \E d \in waiting' : d.is = "run"
    BY <1>3, <2>1, ArrivedKeeps, AskForIsALoad DEF SaveArrives
  <2>4. runOff' \in [Jobs -> BOOLEAN] /\ RunFollowsItsSwitch'
    <3>1. CASE c.of \in Jobs /\ c.ans = "ok"
      BY <1>3, <2>2, <3>1, SyncedFollows DEF SaveArrives
    <3>2. CASE ~(c.of \in Jobs /\ c.ans = "ok")
      <4>1. \A j \in Jobs : current'[j] = current[j]
        BY <1>3, <3>2, <2>1 DEF SaveArrives, SwitchInv, Flags, Switches
      <4> QED
        BY <1>3, <2>3, <3>2, <4>1, SwitchesAlone DEF SaveArrives, SwitchInv
    <3> QED
      BY <3>1, <3>2
  <2> QED
    BY <1>3, <2>2, <2>3, <2>4 DEF SaveArrives, SwitchInv
<1>4. CASE LogSaveArrives(c)
  <2>1. /\ c \in Saves_ /\ Kept(c) \in BOOLEAN /\ c.is = "save"
        /\ waiting' = waiting \ {c}
    BY <1>0, <1>4, CallKinds DEF LogSaveArrives, Arrive, Saves_, Kept
  <2>2. /\ box' \in Flags /\ current' \in Flags
        /\ \A j \in Jobs : current'[j] = current[j]
    BY <1>0, <1>4, <2>1 DEF LogSaveArrives, SwitchInv, Flags, Jobs
  <2> QED
    BY <1>4, <2>1, <2>2, ArrivedKeeps, SwitchesAlone DEF LogSaveArrives, SwitchInv
<1>5. CASE RunArrives(c)
  <2>1. waiting' = waiting \ {c} /\ runOff' = [j \in Jobs |-> ~current[j]] /\ current' = current
    BY <1>5 DEF RunArrives, Arrive
  <2>2. runOff' \in [Jobs -> BOOLEAN] /\ RunFollowsItsSwitch'
    BY <2>1 DEF RunFollowsItsSwitch
  <2> QED
    BY <1>5, <2>1, <2>2, ArrivedKeeps DEF RunArrives, SwitchInv
<1> QED
  BY <1>1, <1>2, <1>3, <1>4, <1>5

LEMMA SettingsServed ==
    ASSUME SwitchInv, NEW c \in waiting, ServeSettings(c) \/ ServeSave(c)
    PROVE  SwitchInv'
<1>0. c \in Calls
  BY DEF SwitchInv
<1>1. \E n \in Calls : waiting' = (waiting \ {c}) \cup {n} /\ n.is = c.is
  <2>1. CASE ServeSettings(c)
    <3>1. c \in Loads_
      BY <1>0, <2>1, CallKinds DEF ServeSettings
    <3>2. PICK ans \in Answer_ :
              waiting' = (waiting \ {c}) \cup
                  {[c EXCEPT !.ans = ans, !.told = setting, !.modes = modesOn]}
      BY <2>1 DEF ServeSettings
    <3>3. /\ [c EXCEPT !.ans = ans, !.told = setting, !.modes = modesOn] \in Loads_
          /\ [c EXCEPT !.ans = ans, !.told = setting, !.modes = modesOn].is = c.is
      BY <3>1 DEF Loads_, SwitchInv
    <3> QED
      BY <3>2, <3>3, KindsAreCalls
  <2>2. CASE ServeSave(c)
    <3>1. c \in Saves_ \/ c \in Runs_
      BY <1>0, <2>2, CallKinds DEF ServeSave
    <3>2. PICK ans \in {"ok", "failed"} : waiting' = (waiting \ {c}) \cup {[c EXCEPT !.ans = ans]}
      BY <2>2 DEF ServeSave
    <3>3. CASE c \in Saves_
      <4>1. [c EXCEPT !.ans = ans] \in Saves_ /\ [c EXCEPT !.ans = ans].is = c.is
        BY <3>3 DEF Saves_, Answer_
      <4> QED
        BY <3>2, <4>1, KindsAreCalls
    <3>4. CASE c \in Runs_
      <4>1. [c EXCEPT !.ans = ans] \in Runs_ /\ [c EXCEPT !.ans = ans].is = c.is
        BY <3>4 DEF Runs_, Answer_
      <4> QED
        BY <3>2, <4>1, KindsAreCalls
    <3> QED
      BY <3>1, <3>3, <3>4
  <2> QED
    BY <2>1, <2>2
<1>2. /\ waiting' \subseteq Calls
      /\ (\E d \in waiting : d.is = "run") => \E d \in waiting' : d.is = "run"
  BY <1>1 DEF SwitchInv
<1>3. setting' \in Flags /\ modesOn' \in BOOLEAN
  <2>1. CASE ServeSettings(c)
    BY <2>1 DEF ServeSettings, SwitchInv
  <2>2. CASE ServeSave(c) /\ c.is = "save"
    <3>1. c.want \in BOOLEAN /\ c.modes \in BOOLEAN
      BY <1>0, <2>2, CallKinds DEF Saves_
    <3> QED
      BY <2>2, <3>1 DEF ServeSave, SwitchInv, Flags
  <2>3. CASE ServeSave(c) /\ c.is # "save"
    BY <2>3 DEF ServeSave, SwitchInv
  <2> QED
    BY <2>1, <2>2, <2>3
<1>4. UNCHANGED <<page_, dialog>>
  BY DEF ServeSettings, ServeSave
<1> QED
  BY <1>2, <1>3, <1>4, SwitchesAlone DEF SwitchInv, page_

LEMMA SwitchInvHolds == SettingsSpec => []SwitchInv
<1>1. SettingsInit => SwitchInv
  <2> SUFFICES ASSUME SettingsInit PROVE SwitchInv
    OBVIOUS
  <2>1. /\ [s \in Switches |-> FALSE] \in Flags /\ [s \in Switches |-> s \in Jobs] \in Flags
        /\ [s \in Switches |-> s = "log"] \in Flags
    BY DEF Flags
  <2>2. setting \in Flags /\ box \in Flags /\ current \in Flags
    BY <2>1 DEF SettingsInit
  <2>3. runOff \in [Jobs -> BOOLEAN] /\ dialog \in Dialogs
    BY DEF SettingsInit, Dialogs
  <2> QED
    BY <2>2, <2>3 DEF SettingsInit, SwitchInv, RunFollowsItsSwitch
<1>2. SwitchInv /\ [SettingsNext]_settingsVars => SwitchInv'
  <2>1. ASSUME SwitchInv, UNCHANGED settingsVars PROVE SwitchInv'
    BY <2>1 DEF settingsVars, page_, SwitchInv, RunFollowsItsSwitch
  <2> QED
    BY <2>1, SettingsClicks, SettingsAnswers, SettingsArrivals, SettingsServed
       DEF SettingsNext
<1> QED
  BY <1>1, <1>2, PTL DEF SettingsSpec

(* What is asked or run on the settings page is displayed there.           *)
DialogOnPage ==
    dialog.is = "run" \/ (dialog.is = "flip" /\ dialog.of # "push") => bodyShown
SettingsShape ==
    /\ SwitchInv /\ flips \in 0 .. MaxFlips /\ overlapped \in BOOLEAN
    /\ DialogOnPage

LEMMA SettingsShapeStep == SettingsShape /\ [SettingsNext]_settingsVars => SettingsShape'
<1> SUFFICES ASSUME SettingsShape, [SettingsNext]_settingsVars PROVE SettingsShape'
  OBVIOUS
<1>1. SwitchInv'
  <2>1. CASE UNCHANGED settingsVars
    BY <2>1 DEF SettingsShape, settingsVars, page_, SwitchInv, RunFollowsItsSwitch
  <2> QED
    BY <2>1, SettingsClicks, SettingsAnswers, SettingsArrivals, SettingsServed
       DEF SettingsShape, SettingsNext
<1>2. flips' \in 0 .. MaxFlips /\ overlapped' \in BOOLEAN
  <2>1. CASE Flipped /\ (Noted \/ overlapped' = overlapped)
    <3>1. flips' \in 0 .. MaxFlips
      BY <2>1, SettingsAssumption DEF SettingsShape, Flipped
    <3>2. overlapped' \in BOOLEAN
      BY <2>1 DEF SettingsShape, Noted
    <3> QED
      BY <3>1, <3>2
  <2>2. CASE UNCHANGED <<flips, overlapped>>
    BY <2>2 DEF SettingsShape
  <2> QED
    BY <2>1, <2>2 DEF SettingsNext, settingsVars, OpenModes, OpenConfig, SayNo, SayYes,
       ModesChange, Flip, PressRun, ModesArrive, ConfigArrives, SaveArrives,
       LogSaveArrives, RunArrives, ServeSettings, ServeSave
<1>3. DialogOnPage'
  <2>1. ASSUME dialog' = None PROVE DialogOnPage'
    BY <2>1 DEF DialogOnPage, None
  <2>2. ASSUME dialog' = dialog, bodyShown => bodyShown' PROVE DialogOnPage'
    BY <2>2 DEF SettingsShape, DialogOnPage
  <2>3. ASSUME NEW s \in Switches, Flip(s) PROVE DialogOnPage'
    BY <2>3 DEF Flip, DialogOnPage
  <2>4. ASSUME NEW j \in Jobs, PressRun(j) PROVE DialogOnPage'
    BY <2>4 DEF PressRun, page_, DialogOnPage
  <2>5. CASE OpenConfig \/ SayNo \/ SayYes
    <3>1. dialog' = None
      BY <2>5 DEF OpenConfig, SayNo, SayYes
    <3> QED
      BY <2>1, <3>1
  <2>6. CASE OpenModes \/ ModesChange \/ UNCHANGED settingsVars
    <3>1. dialog' = dialog /\ (bodyShown => bodyShown')
      BY <2>6 DEF OpenModes, ModesChange, settingsVars, page_
    <3> QED
      BY <2>2, <3>1
  <2>7. ASSUME NEW c \in waiting,
               \/ ModesArrive(c) \/ ConfigArrives(c) \/ SaveArrives(c)
               \/ LogSaveArrives(c) \/ RunArrives(c)
               \/ ServeSettings(c) \/ ServeSave(c)
        PROVE  DialogOnPage'
    <3>1. dialog' = dialog
      BY <2>7 DEF ModesArrive, ConfigArrives, SaveArrives, LogSaveArrives, RunArrives,
         ServeSettings, ServeSave
    <3>2. bodyShown => bodyShown'
      BY <2>7 DEF ModesArrive, ConfigArrives, SaveArrives, LogSaveArrives, RunArrives,
         ServeSettings, ServeSave, page_
    <3> QED
      BY <2>2, <3>1, <3>2
  <2> QED
    BY <2>3, <2>4, <2>5, <2>6, <2>7 DEF SettingsNext
<1> QED
  BY <1>1, <1>2, <1>3 DEF SettingsShape

THEOREM SettingsTypeCorrect == SettingsSpec => []SettingsTypeOK
<1>1. ASSUME SettingsInit, SwitchInv PROVE SettingsShape
  <2>1. 0 \in 0 .. MaxFlips
    BY SettingsAssumption
  <2>2. dialog.is = "none"
    BY <1>1 DEF SettingsInit, None
  <2> QED
    BY <1>1, <2>1, <2>2 DEF SettingsInit, SettingsShape, DialogOnPage
<1>2. SettingsShape => SettingsTypeOK
  BY DEF SettingsShape, DialogOnPage, SwitchInv, SettingsTypeOK
<1> QED
  BY <1>1, <1>2, SettingsShapeStep, SwitchInvHolds, PTL DEF SettingsSpec

(* With no run under way each run button follows its switch, whatever      *)
(* loads, saves and runs overlapped.                                       *)
THEOREM ButtonsFollow == SettingsSpec => []RunFollowsItsSwitch
<1>1. SwitchInv => RunFollowsItsSwitch
  BY DEF SwitchInv
<1> QED
  BY <1>1, SwitchInvHolds, PTL

(* While nothing was begun beside a request, at most one question or one   *)
(* request is there.  It holds what the switch it is about was known to be *)
(* and what its box shows; the box of any other switch that is displayed   *)
(* shows what is known.                                                    *)
AskedAbout(s) ==
    \/ dialog.is = "flip" /\ dialog.of = s
    \/ \E c \in waiting : c.is = "save" /\ c.of = s
AloneInv ==
    ~overlapped =>
        /\ dialog # None => waiting = {}
        /\ \A c, d \in waiting : c = d
        /\ dialog.is = "flip" => /\ dialog.old = current[dialog.of]
                                 /\ dialog.want = box[dialog.of]
        /\ \A c \in waiting : c.is = "save" /\ c.of # "log" =>
              c.old = current[c.of] /\ c.want = box[c.of]
        /\ \A s \in Switches :
              s = "push" \/ bodyShown => box[s] = current[s] \/ AskedAbout(s)

LEMMA AloneClicks ==
    ASSUME SwitchInv, AloneInv,
           \/ OpenModes \/ OpenConfig \/ ModesChange
           \/ \E s \in Switches : Flip(s)
           \/ \E j \in Jobs : PressRun(j)
    PROVE  AloneInv'
<1> SUFFICES ASSUME ~overlapped' PROVE AloneInv'
  BY DEF AloneInv
<1>1. CASE OpenModes
  <2>1. /\ ~overlapped /\ waiting = {} /\ dialog = None /\ dialog' = None
        /\ waiting' = {AskFor("modes")} /\ AskFor("modes").is = "modes"
        /\ UNCHANGED <<box, current, bodyShown>>
    BY <1>1 DEF OpenModes, Noted, Begin, AskFor, page_
  <2> QED
    BY <2>1 DEF AloneInv, AskedAbout, None
<1>2. CASE OpenConfig
  <2>1. /\ ~overlapped /\ waiting = {} /\ dialog = None /\ dialog' = None
        /\ waiting' = {AskFor("config")} /\ AskFor("config").is = "config"
        /\ UNCHANGED <<box, current>> /\ bodyShown' = FALSE
    BY <1>2 DEF OpenConfig, Noted, Begin, AskFor
  <2> QED
    BY <2>1 DEF AloneInv, AskedAbout, None
<1>3. CASE ModesChange
  BY <1>3 DEF ModesChange, page_, AloneInv, AskedAbout
<1>4. ASSUME NEW s \in Switches, Flip(s) PROVE AloneInv'
  <2>1. /\ ~overlapped /\ waiting = {} /\ dialog = None /\ waiting' = {}
        /\ UNCHANGED <<current, bodyShown>> /\ (s = "push" \/ bodyShown)
    BY <1>4 DEF Flip, Noted
  <2>2. \A r \in Switches : (r = "push" \/ bodyShown) => box[r] = current[r]
    BY <2>1 DEF AloneInv, AskedAbout, None
  <2>3. \A r \in Switches \ {s} : box'[r] = box[r]
    BY <1>4 DEF Flip, SwitchInv, Flags
  <2>4. /\ dialog'.is = "flip" /\ dialog'.of = s /\ dialog'.want = box'[s]
        /\ dialog'.old = current[s]
    BY <1>4 DEF Flip
  <2> QED
    BY <2>1, <2>2, <2>3, <2>4 DEF AloneInv, AskedAbout
<1>5. ASSUME NEW j \in Jobs, PressRun(j) PROVE AloneInv'
  <2>1. /\ ~overlapped /\ waiting = {} /\ dialog = None /\ waiting' = {}
        /\ dialog'.is = "run" /\ UNCHANGED <<box, current, bodyShown>>
    BY <1>5 DEF PressRun, Noted, page_
  <2> QED
    BY <2>1 DEF AloneInv, AskedAbout, None
<1> QED
  BY <1>1, <1>2, <1>3, <1>4, <1>5

LEMMA AloneAnswers ==
    ASSUME SwitchInv, AloneInv, SayNo \/ SayYes
    PROVE  AloneInv'
<1> SUFFICES ASSUME ~overlapped' PROVE AloneInv'
  BY DEF AloneInv
<1>1. /\ ~overlapped /\ dialog # None /\ waiting = {} /\ dialog' = None
      /\ dialog' # dialog /\ bodyShown' = bodyShown
  BY DEF SayNo, SayYes, AloneInv
<1>2. /\ dialog.is = "flip" \/ dialog.is = "run"
      /\ dialog.is = "flip" => /\ dialog.of \in Switches
                               /\ dialog.old \in BOOLEAN /\ dialog.want \in BOOLEAN
  BY <1>1 DEF SwitchInv, Dialogs, None
<1>3. CASE SayNo
  <2>1. waiting' = {} /\ current' = current
    BY <1>1, <1>3 DEF SayNo
  <2>2. \A s \in Switches : box'[s] = IF dialog.is = "flip" /\ dialog.of = s
                                      THEN dialog.old ELSE box[s]
    BY <1>2, <1>3 DEF SayNo, SwitchInv, Flags
  <2> QED
    BY <1>1, <2>1, <2>2 DEF AloneInv, AskedAbout, None
<1>4. CASE SayYes /\ dialog.is = "flip" /\ dialog.of # "log"
  <2>1. PICK c : c = Save(dialog.of, dialog.want, dialog.old)
    OBVIOUS
  <2>2. waiting' = {c} /\ UNCHANGED <<box, current>>
    BY <1>1, <1>4, <2>1 DEF SayYes, Begin
  <2>3. /\ c.is = "save" /\ c.of = dialog.of /\ c.want = dialog.want
        /\ c.old = dialog.old
    BY <2>1 DEF Save
  <2> QED
    BY <1>1, <1>4, <2>2, <2>3 DEF AloneInv, AskedAbout, None
<1>5. CASE SayYes /\ dialog.is = "flip" /\ dialog.of = "log"
  <2>1. PICK c : c = Save("log", box["log"], dialog.old)
    OBVIOUS
  <2>2. /\ waiting' = {c} /\ box' = box
        /\ current' = [current EXCEPT !["log"] = dialog.want]
    BY <1>1, <1>5, <2>1 DEF SayYes, Begin
  <2>3. c.is = "save" /\ c.of = "log"
    BY <2>1 DEF Save
  <2>4. \A s \in Switches \ {"log"} : current'[s] = current[s]
    BY <2>2 DEF SwitchInv, Flags
  <2> QED
    BY <1>1, <1>5, <2>2, <2>3, <2>4 DEF AloneInv, AskedAbout, None
<1>6. CASE SayYes /\ dialog.is = "run"
  <2>1. PICK c : c = [is |-> "run", of |-> dialog.of, ans |-> "none"]
    OBVIOUS
  <2>2. waiting' = {c} /\ c.is = "run" /\ UNCHANGED <<box, current>>
    BY <1>1, <1>6, <2>1 DEF SayYes, Begin
  <2> QED
    BY <1>1, <1>6, <2>2 DEF AloneInv, AskedAbout, None
<1> QED
  BY <1>2, <1>3, <1>4, <1>5, <1>6

LEMMA AloneArrivals ==
    ASSUME SwitchInv, AloneInv, NEW c \in waiting,
           \/ ModesArrive(c) \/ ConfigArrives(c) \/ SaveArrives(c)
           \/ LogSaveArrives(c) \/ RunArrives(c)
    PROVE  AloneInv'
<1> SUFFICES ASSUME ~overlapped' PROVE AloneInv'
  BY DEF AloneInv
<1>0. c \in Calls /\ "log" \in Switches /\ "push" \in Switches
  BY DEF SwitchInv, Switches
<1>1. ~overlapped /\ waiting = {c} /\ dialog = None /\ dialog' = None
  BY DEF AloneInv, ModesArrive, ConfigArrives, SaveArrives, LogSaveArrives, RunArrives
<1>2. CASE ModesArrive(c)
  <2>1. waiting' = {} /\ c.is = "modes" /\ bodyShown' = bodyShown
    BY <1>1, <1>2 DEF ModesArrive, Arrive
  <2>2. \A s \in Switches : (s = "push" \/ bodyShown) => box[s] = current[s]
    BY <1>1, <2>1 DEF AloneInv, AskedAbout, None
  <2>3. \A s \in Switches : (s = "push" \/ bodyShown) => box'[s] = current'[s]
    BY <1>2, <2>2 DEF ModesArrive, SwitchInv, Flags
  <2> QED
    BY <1>1, <2>1, <2>3 DEF AloneInv, AskedAbout, None
<1>3. CASE ConfigArrives(c)
  <2>1. waiting' = {} /\ c.is = "config" /\ c \in Loads_
    BY <1>0, <1>1, <1>3, CallKinds DEF ConfigArrives, Arrive
  <2>2. \A s \in Switches : (s = "push" \/ bodyShown) => box[s] = current[s]
    BY <1>1, <2>1 DEF AloneInv, AskedAbout, None
  <2>3. CASE c.ans # "ok"
    BY <1>1, <1>3, <2>1, <2>2, <2>3 DEF ConfigArrives, AloneInv, AskedAbout, None
  <2>4. CASE c.ans = "ok"
    <3>1. c.told \in Flags
      BY <2>1 DEF Loads_
    <3>2. \A s \in Switches : box'[s] = current'[s]
      BY <1>0, <1>3, <2>2, <2>4, <3>1 DEF ConfigArrives, Flags
    <3> QED
      BY <1>1, <2>1, <3>2 DEF AloneInv, AskedAbout, None
  <2> QED
    BY <2>3, <2>4
<1>4. CASE SaveArrives(c)
  <2>1. /\ c.is = "save" /\ c.of # "log" /\ c.of \in Switches /\ bodyShown' = bodyShown
        /\ c.old = current[c.of] /\ c.want = box[c.of]
    BY <1>0, <1>1, <1>4, CallKinds DEF SaveArrives, Saves_, AloneInv
  <2>2. \A s \in Switches \ {c.of} :
           s = "push" \/ bodyShown => box[s] = current[s]
    BY <1>1 DEF AloneInv, AskedAbout, None
  <2>3. \A s \in Switches : s = "push" \/ bodyShown => box'[s] = current'[s]
    <3>1. CASE c.ans = "ok"
      BY <1>4, <2>1, <2>2, <3>1 DEF SaveArrives, Kept, SwitchInv, Flags
    <3>2. CASE c.ans # "ok"
      BY <1>4, <2>1, <2>2, <3>2 DEF SaveArrives, Kept, SwitchInv, Flags
    <3> QED
      BY <3>1, <3>2
  <2>4. AskFor("modes").is = "modes"
    BY DEF AskFor
  <2>5. \A d \in waiting' : d = AskFor("modes")
    BY <1>1, <1>4 DEF SaveArrives
  <2> QED
    BY <1>1, <2>1, <2>3, <2>4, <2>5 DEF AloneInv, AskedAbout, None
<1>5. CASE LogSaveArrives(c)
  <2>1. /\ waiting' = {} /\ c.is = "save" /\ c.of = "log" /\ bodyShown' = bodyShown
        /\ box' = [box EXCEPT !["log"] = Kept(c)]
        /\ current' = [current EXCEPT !["log"] = Kept(c)]
    BY <1>1, <1>5 DEF LogSaveArrives, Arrive
  <2>2. \A s \in Switches \ {"log"} :
           s = "push" \/ bodyShown => box[s] = current[s]
    BY <1>1, <2>1 DEF AloneInv, AskedAbout, None
  <2>3. \A s \in Switches : s = "push" \/ bodyShown => box'[s] = current'[s]
    BY <1>0, <2>1, <2>2 DEF SwitchInv, Flags
  <2> QED
    BY <1>1, <2>1, <2>3 DEF AloneInv, AskedAbout, None
<1>6. CASE RunArrives(c)
  <2>1. waiting' = {} /\ c.is = "run" /\ UNCHANGED <<box, current, bodyShown>>
    BY <1>1, <1>6 DEF RunArrives, Arrive
  <2> QED
    BY <1>1, <2>1 DEF AloneInv, AskedAbout, None
<1> QED
  BY <1>2, <1>3, <1>4, <1>5, <1>6

LEMMA AloneServed ==
    ASSUME SwitchInv, AloneInv, NEW c \in waiting, ServeSettings(c) \/ ServeSave(c)
    PROVE  AloneInv'
<1> SUFFICES ASSUME ~overlapped' PROVE AloneInv'
  BY DEF AloneInv
<1>u. UNCHANGED <<box, current, bodyShown, dialog, overlapped>>
  <2>1. CASE ServeSettings(c)
    BY <2>1 DEF ServeSettings, page_
  <2>2. CASE ServeSave(c)
    BY <2>2 DEF ServeSave, page_
  <2> QED
    BY <2>1, <2>2
<1>1. /\ ~overlapped /\ waiting = {c} /\ dialog = None
      /\ UNCHANGED <<box, current, bodyShown, dialog>>
  BY <1>u DEF AloneInv
<1>2. c \in Calls
  BY DEF SwitchInv
<1>3. CASE ServeSettings(c)
  <2>1. c \in Loads_
    BY <1>2, <1>3, CallKinds DEF ServeSettings
  <2>2. PICK n : /\ waiting' = {n}
                 /\ \E ans : n = [c EXCEPT !.ans = ans, !.told = setting, !.modes = modesOn]
    BY <1>1, <1>3 DEF ServeSettings
  <2>3. n.is = c.is /\ c.is # "save"
    BY <2>1, <2>2 DEF Loads_
  <2> QED
    BY <1>1, <2>2, <2>3 DEF AloneInv, AskedAbout, None
<1>4. CASE ServeSave(c)
  <2>1. PICK ans : waiting' = {[c EXCEPT !.ans = ans]}
    BY <1>1, <1>4 DEF ServeSave
  <2>2. PICK n : n = [c EXCEPT !.ans = ans]
    OBVIOUS
  <2>3. CASE c.is = "save"
    <3>1. c \in Saves_
      BY <1>2, <2>3, CallKinds
    <3>2. n.is = c.is /\ n.of = c.of /\ n.old = c.old /\ n.want = c.want
      BY <2>2, <3>1 DEF Saves_
    <3> QED
      BY <1>1, <2>1, <2>2, <3>2 DEF AloneInv, AskedAbout, None
  <2>4. CASE c.is # "save"
    <3>1. c.is = "run" /\ c \in Runs_
      BY <1>2, <1>4, <2>4, CallKinds DEF ServeSave
    <3>2. n.is = "run"
      BY <2>2, <3>1 DEF Runs_
    <3> QED
      BY <1>1, <2>1, <2>2, <3>1, <3>2 DEF AloneInv, AskedAbout, None
  <2> QED
    BY <2>3, <2>4
<1> QED
  BY <1>3, <1>4

(* A box at rest shows the value its switch is known to have, whatever was *)
(* declined, refused or made before, as long as nothing ran side by side   *)
(* (onCustomPushToggle and its three likes).                               *)
THEOREM BoxShowsTheSwitch == SettingsSpec => []RestingBoxIsTrue
<1>1. SettingsInit => AloneInv
  <2> SUFFICES ASSUME SettingsInit PROVE AloneInv
    OBVIOUS
  <2>1. "push" \in Switches /\ box["push"] = current["push"]
    BY DEF SettingsInit, Switches
  <2> QED
    BY <2>1 DEF SettingsInit, AloneInv, AskedAbout, None
<1>2. SwitchInv /\ AloneInv /\ [SettingsNext]_settingsVars => AloneInv'
  <2> SUFFICES ASSUME SwitchInv, AloneInv, [SettingsNext]_settingsVars PROVE AloneInv'
    OBVIOUS
  <2>1. CASE UNCHANGED settingsVars
    BY <2>1 DEF settingsVars, AloneInv, AskedAbout
  <2> QED
    BY <2>1, AloneClicks, AloneAnswers, AloneArrivals, AloneServed DEF SettingsNext
<1>3. AloneInv => RestingBoxIsTrue
  BY DEF AloneInv, AskedAbout, RestingBoxIsTrue, Quiet, None
<1> QED
  BY <1>1, <1>2, <1>3, SwitchInvHolds, PTL DEF SettingsSpec

-----------------------------------------------------------------------------
(* --- SearchList -------------------------------------------------------- *)

(* The page without its fairness, which no invariant needs.               *)
SearchRuns == SearchInit /\ [][SearchNext]_searchVars

LEMMA PagesAreBounded ==
    ASSUME NEW n \in 0 .. MaxHits
    PROVE  PagesOf(n) \in 1 .. MaxHits + 1
<1>1. CASE n = 0
  BY <1>1, SearchAssumption DEF PagesOf
<1>2. CASE n # 0
  <2> DEFINE q == (n + PerPage - 1) \div PerPage
             a == n + PerPage - 1
  <2>1. a \in Nat /\ PerPage \in Nat /\ PerPage > 0 /\ a >= PerPage
    BY <1>2, SearchAssumption
  <2>2. q \in Nat /\ PerPage * q <= a /\ a < PerPage * q + PerPage
    BY <2>1
  <2>3. q >= 1
    BY <2>1, <2>2
  <2>4. q <= n
    BY <2>1, <2>2, <2>3
  <2> QED
    BY <1>2, <2>2, <2>3, <2>4, SearchAssumption DEF PagesOf
<1> QED
  BY <1>1, <1>2

LEMMA FirstPageIsOnePage ==
    ASSUME NEW n \in 0 .. MaxHits
    PROVE  PagesOf(OnPage(n, 1)) = 1
<1>1. \A k \in 1 .. PerPage : PagesOf(k) = 1
  <2> TAKE k \in 1 .. PerPage
  <2> DEFINE a == k + PerPage - 1
             q == a \div PerPage
  <2>1. a \in Nat /\ PerPage \in Nat /\ PerPage > 0 /\ a >= PerPage /\ a < PerPage + PerPage
    BY SearchAssumption
  <2>2. q \in Nat /\ PerPage * q <= a /\ a < PerPage * q + PerPage
    BY <2>1
  <2>3. q = 1
    BY <2>1, <2>2
  <2> QED
    BY <2>3 DEF PagesOf
<1>2. CASE n = 0
  BY <1>2, SearchAssumption DEF PagesOf, OnPage
<1>3. CASE n # 0 /\ 1 < PagesOf(n)
  BY <1>1, <1>3, SearchAssumption DEF OnPage
<1>4. CASE n # 0 /\ ~(1 < PagesOf(n))
  <2> DEFINE a == n + PerPage - 1
             q == a \div PerPage
  <2>1. a \in Nat /\ PerPage \in Nat /\ PerPage > 0
    BY <1>4, SearchAssumption
  <2>2. q \in Nat /\ PerPage * q <= a /\ a < PerPage * q + PerPage
    BY <2>1
  <2>3. q <= 1
    BY <1>4, <2>2 DEF PagesOf
  <2>4. n <= PerPage
    BY <2>1, <2>2, <2>3
  <2>5. OnPage(n, 1) = n
    BY <1>4, SearchAssumption DEF OnPage
  <2> QED
    BY <1>1, <1>4, <2>4, <2>5
<1> QED
  BY <1>2, <1>3, <1>4

(* The types; and the mappings, who count the rows of the page they        *)
(* received, never come to more than one page.                             *)
OnePageOfMappings ==
    which = "mapping" => /\ listPage = 1 /\ listPages = 1
                         /\ \A c \in searches : c.page = 1
SearchInv == SearchTypeOK /\ OnePageOfMappings

LEMMA LoadPageKeeps ==
    ASSUME SearchInv, NEW p \in 1 .. MaxHits + 1, LoadPage(p),
           which = "mapping" => p = 1,
           UNCHANGED <<which, text, listPages, list, hits, failed>>,
           armed' \in BOOLEAN, searchClicks' \in 0 .. MaxSearchClicks
    PROVE  SearchInv'
<1>1. PICK id \in 1 .. MaxSearchLoads :
         searches' = searches \cup
            {[text |-> text, page |-> p, id |-> id, ans |-> "none", hits |-> 0]}
  BY DEF LoadPage
<1>2. PICK n : n = [text |-> text, page |-> p, id |-> id, ans |-> "none", hits |-> 0]
  OBVIOUS
<1>3. n \in SearchCall /\ n.page = p
  BY <1>2, SearchAssumption DEF SearchCall, SearchInv, SearchTypeOK
<1>4. listPage' = p /\ lone' \in BOOLEAN
  BY DEF LoadPage
<1> QED
  BY <1>1, <1>2, <1>3, <1>4 DEF SearchInv, SearchTypeOK, OnePageOfMappings

LEMMA SearchInvStep == SearchInv /\ [SearchNext]_searchVars => SearchInv'
<1> SUFFICES ASSUME SearchInv, [SearchNext]_searchVars PROVE SearchInv'
  OBVIOUS
<1>0. Act => searchClicks' \in 0 .. MaxSearchClicks
  BY SearchAssumption DEF SearchInv, SearchTypeOK, Act
<1>1. ASSUME NEW t \in Texts, Type(t) \/ EntriesChange(t) PROVE SearchInv'
  <2>1. CASE Type(t)
    BY <1>0, <2>1 DEF Type, SearchInv, SearchTypeOK, OnePageOfMappings
  <2>2. CASE EntriesChange(t)
    BY <1>0, <2>2 DEF EntriesChange, SearchInv, SearchTypeOK, OnePageOfMappings
  <2> QED
    BY <1>1, <2>1, <2>2
<1>2. CASE DebounceFires
  <2>1. 1 \in 1 .. MaxHits + 1
    BY SearchAssumption
  <2> QED
    BY <1>2, <2>1, LoadPageKeeps DEF DebounceFires, SearchInv, SearchTypeOK
<1>3. CASE Reload
  BY <1>0, <1>3, LoadPageKeeps DEF Reload, SearchInv, SearchTypeOK, OnePageOfMappings
<1>4. ASSUME NEW p \in 1 .. MaxHits + 1, GoTo(p) PROVE SearchInv'
  BY <1>0, <1>4, LoadPageKeeps DEF GoTo, SearchInv, SearchTypeOK, OnePageOfMappings
<1>5. ASSUME NEW c \in searches, SearchArrives(c) PROVE SearchInv'
  <2>0. c \in SearchCall /\ c.hits \in 0 .. MaxHits /\ c.page \in 1 .. MaxHits + 1
        /\ c.text \in Texts
    BY DEF SearchInv, SearchTypeOK, SearchCall
  <2>1. CASE c.ans = "failed"
    BY <1>5, <2>1 DEF SearchArrives, SearchInv, SearchTypeOK, OnePageOfMappings
  <2>2. CASE c.ans # "failed"
    <3>1. listPages' \in 1 .. MaxHits + 1 /\ (which = "mapping" => listPages' = 1)
      <4>1. CASE which = "security"
        BY <1>5, <2>0, <2>2, <4>1, PagesAreBounded DEF SearchArrives, PagesTold
      <4>2. CASE which = "mapping"
        BY <1>5, <2>0, <2>2, <4>2, FirstPageIsOnePage, SearchAssumption
           DEF SearchArrives, PagesTold, SearchInv, OnePageOfMappings
      <4> QED
        BY <4>1, <4>2 DEF SearchInv, SearchTypeOK
    <3>2. /\ listPage' \in 1 .. MaxHits + 1
          /\ which = "mapping" => listPage' = 1
      BY <1>5, <2>2, <3>1 DEF SearchArrives, AtMost, SearchInv, SearchTypeOK, OnePageOfMappings
    <3>3. list' \in Lists
      BY <1>5, <2>0, <2>2 DEF SearchArrives, Lists
    <3> QED
      BY <1>5, <3>1, <3>2, <3>3 DEF SearchArrives, SearchInv, SearchTypeOK, OnePageOfMappings
  <2> QED
    BY <2>1, <2>2
<1>6. ASSUME NEW c \in searches, ServeSearch(c) PROVE SearchInv'
  <2>0. c \in SearchCall /\ c.page \in 1 .. MaxHits + 1 /\ hits[c.text] \in 0 .. MaxHits
    BY DEF SearchInv, SearchTypeOK, SearchCall
  <2>1. PICK a : /\ searches' = (searches \ {c}) \cup {a}
                 /\ \/ a = [c EXCEPT !.ans = "ok", !.hits = hits[c.text],
                                     !.page = AtMost(@, PagesOf(hits[c.text]))]
                    \/ a = [c EXCEPT !.ans = "error", !.page = 1]
                    \/ a = [c EXCEPT !.ans = "failed"]
    BY <1>6 DEF ServeSearch
  <2>2. AtMost(c.page, PagesOf(hits[c.text])) \in 1 .. c.page
    BY <2>0, PagesAreBounded DEF AtMost
  <2>3. AtMost(c.page, PagesOf(hits[c.text])) \in 1 .. MaxHits + 1
    BY <2>0, <2>2, SearchAssumption
  <2>4. 1 \in 1 .. MaxHits + 1
    BY SearchAssumption
  <2>5. a \in SearchCall
    BY <2>0, <2>1, <2>3, <2>4 DEF SearchCall
  <2>6. which = "mapping" => a.page = 1
    <3>1. a.page \in {AtMost(c.page, PagesOf(hits[c.text])), 1, c.page}
      BY <2>0, <2>1 DEF SearchCall
    <3>2. which = "mapping" => c.page = 1
      BY DEF SearchInv, OnePageOfMappings
    <3> QED
      BY <2>2, <3>1, <3>2
  <2> QED
    BY <1>6, <2>1, <2>5, <2>6 DEF ServeSearch, SearchInv, SearchTypeOK, OnePageOfMappings
<1>7. CASE UNCHANGED searchVars
  BY <1>7 DEF searchVars, SearchInv, SearchTypeOK, OnePageOfMappings
<1> QED
  BY <1>1, <1>2, <1>3, <1>4, <1>5, <1>6, <1>7 DEF SearchNext, SearchGoesOn

(* The invariant holds of every behaviour.                                 *)
LEMMA SearchInvHolds == SearchRuns => []SearchInv
<1>1. SearchInit => SearchInv
  <2>1. 1 \in 1 .. MaxHits + 1 /\ 0 \in 0 .. MaxSearchClicks
    BY SearchAssumption
  <2>2. [kind |-> "none"] \in Lists
    BY DEF Lists
  <2> QED
    BY <2>1, <2>2, SearchAssumption
       DEF SearchInit, SearchInv, SearchTypeOK, OnePageOfMappings
<1> QED
  BY <1>1, SearchInvStep, PTL DEF SearchRuns

(* The variables keep their types: neither list is asked for, nor shows, a *)
(* page that no number of entries can have.                                *)
THEOREM SearchTypeCorrect == SearchSpec => []SearchTypeOK
<1>1. SearchInv => SearchTypeOK
  BY DEF SearchInv
<1> QED
  BY <1>1, SearchInvHolds, PTL DEF SearchSpec, SearchRuns

(* A search that has the page to itself asks for the page whose number the *)
(* pager has and, once the timer has fired, for what the filters hold; an  *)
(* answer tells the page it is of, the last one if there is none beyond.   *)
AskedAlone(c) ==
    /\ ~armed => c.text = text
    /\ c.ans = "none" => c.page = listPage
    /\ c.ans = "ok" => c.page = AtMost(listPage, PagesOf(c.hits))
LoneSearchInv ==
    lone /\ ~failed =>
        \/ \E c \in searches : searches = {c} /\ AskedAlone(c)
        \/ searches = {} /\ LoneSearchIsShown

LEMMA LoneSearchStep ==
    SearchInv /\ LoneSearchInv /\ [SearchNext]_searchVars => LoneSearchInv'
<1> SUFFICES ASSUME SearchInv, LoneSearchInv, [SearchNext]_searchVars, lone', ~failed'
             PROVE  LoneSearchInv'
  BY DEF LoneSearchInv
<1>1. ASSUME NEW t \in Texts, Type(t) \/ EntriesChange(t) PROVE LoneSearchInv'
  <2>1. CASE Type(t)
    BY <2>1 DEF Type, LoneSearchInv, AskedAlone, LoneSearchIsShown
  <2>2. CASE EntriesChange(t)
    BY <2>2 DEF EntriesChange, LoneSearchInv, AskedAlone, LoneSearchIsShown
  <2> QED
    BY <1>1, <2>1, <2>2
<1>2. ASSUME NEW p, LoadPage(p), text' = text PROVE LoneSearchInv'
  <2>1. PICK id : searches' = {[text |-> text, page |-> p, id |-> id, ans |-> "none",
                                hits |-> 0]}
    BY <1>2 DEF LoadPage
  <2>2. PICK n : n = [text |-> text, page |-> p, id |-> id, ans |-> "none", hits |-> 0]
    OBVIOUS
  <2>3. AskedAlone(n)'
    BY <1>2, <2>2 DEF AskedAlone, LoadPage
  <2> QED
    BY <2>1, <2>2, <2>3 DEF LoneSearchInv
<1>3. CASE DebounceFires \/ Reload \/ \E p \in 1 .. MaxHits + 1 : GoTo(p)
  BY <1>2, <1>3 DEF DebounceFires, Reload, GoTo
<1>4. ASSUME NEW c \in searches, SearchArrives(c) PROVE LoneSearchInv'
  <2>1. lone /\ ~failed /\ searches = {c} /\ AskedAlone(c) /\ c.ans = "ok"
    BY <1>4 DEF SearchArrives, LoneSearchInv, SearchInv, SearchTypeOK
  <2>2. /\ searches' = {} /\ list'.kind # "none" /\ list'.text = c.text
        /\ list'.page = c.page /\ listPages' = PagesTold(c)
        /\ listPage' = AtMost(listPage, listPages') /\ UNCHANGED <<text, armed>>
    BY <1>4, <2>1 DEF SearchArrives
  <2>3. c.page = AtMost(listPage, PagesOf(c.hits)) /\ (~armed => c.text = text)
    BY <2>1 DEF AskedAlone
  <2>4. listPage' = c.page
    <3>1. CASE which = "security"
      BY <2>2, <2>3, <3>1 DEF PagesTold
    <3>2. CASE which = "mapping"
      <4>1. c.page = 1 /\ listPage = 1 /\ c.hits \in 0 .. MaxHits
        BY <3>2 DEF SearchInv, OnePageOfMappings, SearchTypeOK, SearchCall
      <4>2. PagesTold(c) = 1
        BY <3>2, <4>1, FirstPageIsOnePage DEF PagesTold
      <4> QED
        BY <2>2, <4>1, <4>2 DEF AtMost
    <3> QED
      BY <3>1, <3>2 DEF SearchInv, SearchTypeOK
  <2> QED
    BY <2>2, <2>3, <2>4 DEF LoneSearchInv, LoneSearchIsShown
<1>5. ASSUME NEW c \in searches, ServeSearch(c) PROVE LoneSearchInv'
  <2>1. /\ searches = {c} /\ AskedAlone(c) /\ c.ans = "none" /\ c \in SearchCall
        /\ UNCHANGED <<armed, text, listPage>>
    BY <1>5 DEF ServeSearch, LoneSearchInv, SearchInv, SearchTypeOK
  <2>2. PICK a : /\ searches' = {a}
                 /\ \/ a = [c EXCEPT !.ans = "ok", !.hits = hits[c.text],
                                     !.page = AtMost(@, PagesOf(hits[c.text]))]
                    \/ a = [c EXCEPT !.ans = "error", !.page = 1]
                    \/ a = [c EXCEPT !.ans = "failed"]
    BY <1>5, <2>1 DEF ServeSearch
  <2>3. /\ a.text = c.text
        /\ a.ans # "none"
        /\ a.ans = "ok" => a.page = AtMost(c.page, PagesOf(a.hits))
    BY <2>1, <2>2 DEF SearchCall
  <2>4. AskedAlone(a)'
    BY <2>1, <2>3 DEF AskedAlone
  <2> QED
    BY <2>2, <2>4 DEF LoneSearchInv
<1>6. CASE UNCHANGED searchVars
  BY <1>6 DEF searchVars, LoneSearchInv, AskedAlone, LoneSearchIsShown
<1> QED
  BY <1>1, <1>3, <1>4, <1>5, <1>6 DEF SearchNext, SearchGoesOn

LEMMA LoneSearchHolds == SearchRuns => []LoneSearchIsShown
<1>1. SearchInit => LoneSearchInv
  BY DEF SearchInit, LoneSearchInv
<1>2. LoneSearchInv => LoneSearchIsShown
  BY DEF LoneSearchInv, LoneSearchIsShown
<1> QED
  BY <1>1, <1>2, LoneSearchStep, SearchInvHolds, PTL DEF SearchRuns

(* A load that had the page to itself ends with the entries of the filters *)
(* on the page whose number stands in the pager, for any number of entries *)
(* and any size of a page (loadMaps, loadSecurityChecks).                  *)
THEOREM LoneSearchEndsWell == SearchSpec => []LoneSearchIsShown
  BY LoneSearchHolds, PTL DEF SearchSpec, SearchRuns

-----------------------------------------------------------------------------
(* --- TokenScopes -------------------------------------------------------- *)

LEMMA NewTokenCalls ==
    /\ AskList \in Call
    /\ \A form \in {"create", "edit", "refresh"}, s \in SUBSET Scopes :
          AskScopes(form, s) \in Call
    /\ \A s \in SUBSET Scopes : Ask("create", NoId, s) \in Call
    /\ \A i \in TokenIds, s \in (SUBSET Scopes) \ {{}} : Ask("save", i, s) \in Call
    /\ \A i \in TokenIds, k \in {"revoke", "delete"} : Ask(k, i, {}) \in Call
    /\ \A l \in Listing : [kind |-> "list", ans |-> "ok", rows |-> l] \in Call
BY DEF Call, AskList, AskScopes, Ask

LEMMA TokenCallFields ==
    ASSUME NEW c \in Call
    PROVE  /\ c.kind = "list" /\ c.ans = "ok" => c.rows \in Listing
           /\ c.kind = "scopes" => /\ c.for \in {"create", "edit", "refresh"}
                                   /\ c.preset \subseteq Scopes
           /\ c.kind = "create" => c.scopes \subseteq Scopes
           /\ c.kind = "save" => c.id \in TokenIds /\ c.scopes \subseteq Scopes
           /\ c.kind \in {"revoke", "delete"} => c.id \in TokenIds
<1>1. CASE c \in [kind : {"list"}, ans : {"none", "error", "lost"}]
  BY <1>1
<1>2. CASE c \in [kind : {"list"}, ans : {"ok"}, rows : Listing]
  BY <1>2
<1>3. CASE c \in [kind : {"scopes"}, ans : {"none", "ok", "error", "lost"},
                  for : {"create", "edit", "refresh"}, preset : SUBSET Scopes]
  BY <1>3
<1>4. CASE c \in [kind : {"create"}, ans : {"none", "ok", "refused"},
                  id : {NoId}, scopes : SUBSET Scopes]
  BY <1>4
<1>5. CASE c \in [kind : {"save"}, ans : {"none", "ok", "refused"},
                  id : TokenIds, scopes : (SUBSET Scopes) \ {{}}]
  BY <1>5
<1>6. CASE c \in [kind : {"revoke", "delete"}, ans : {"none", "ok", "refused"},
                  id : TokenIds, scopes : {{}}]
  BY <1>6
<1> QED
  BY <1>1, <1>2, <1>3, <1>4, <1>5, <1>6, Zenon DEF Call

(* What a call that waited has become by its answer is a call.             *)
LEMMA RepliedIsCall ==
    ASSUME NEW c \in Call, c.ans = "none", NEW ans,
           \/ c.kind = "list" /\ ans \in {"error", "lost"}
           \/ c.kind = "scopes" /\ ans \in {"ok", "error", "lost"}
           \/ c.kind \in {"create", "save", "revoke", "delete"} /\ ans \in {"ok", "refused"}
    PROVE  [c EXCEPT !.ans = ans] \in Call
<1> DEFINE d == [c EXCEPT !.ans = ans]
<1>1. CASE c \in [kind : {"list"}, ans : {"none", "error", "lost"}]
  <2>1. d \in [kind : {"list"}, ans : {"none", "error", "lost"}]
    BY <1>1
  <2> QED
    BY <2>1, Zenon DEF Call
<1>2. CASE c \in [kind : {"scopes"}, ans : {"none", "ok", "error", "lost"},
                  for : {"create", "edit", "refresh"}, preset : SUBSET Scopes]
  <2>1. d \in [kind : {"scopes"}, ans : {"none", "ok", "error", "lost"},
               for : {"create", "edit", "refresh"}, preset : SUBSET Scopes]
    BY <1>2
  <2> QED
    BY <2>1, Zenon DEF Call
<1>3. CASE c \in [kind : {"create"}, ans : {"none", "ok", "refused"},
                  id : {NoId}, scopes : SUBSET Scopes]
  <2>1. d \in [kind : {"create"}, ans : {"none", "ok", "refused"},
               id : {NoId}, scopes : SUBSET Scopes]
    BY <1>3
  <2> QED
    BY <2>1, Zenon DEF Call
<1>4. CASE c \in [kind : {"save"}, ans : {"none", "ok", "refused"},
                  id : TokenIds, scopes : (SUBSET Scopes) \ {{}}]
  <2>1. d \in [kind : {"save"}, ans : {"none", "ok", "refused"},
               id : TokenIds, scopes : (SUBSET Scopes) \ {{}}]
    BY <1>4
  <2> QED
    BY <2>1, Zenon DEF Call
<1>5. CASE c \in [kind : {"revoke", "delete"}, ans : {"none", "ok", "refused"},
                  id : TokenIds, scopes : {{}}]
  <2>1. d \in [kind : {"revoke", "delete"}, ans : {"none", "ok", "refused"},
               id : TokenIds, scopes : {{}}]
    BY <1>5
  <2> QED
    BY <2>1, Zenon DEF Call
<1> QED
  BY <1>1, <1>2, <1>3, <1>4, <1>5 DEF Call

TokenInv == TokenTypeOK /\ FormsExclude

LEMMA TokenInvStep == TokenInv /\ [TokenNext]_tokenVars => TokenInv'
<1> SUFFICES ASSUME TokenInv, [TokenNext]_tokenVars PROVE TokenInv'
  OBVIOUS
<1> USE TokenAssumption DEF TokenInv, TokenTypeOK, FormsExclude
<1>1. NoRows \in Listing
  BY DEF NoRows, Listing
<1>2. ASSUME NEW i \in TokenIds
      PROVE  rows[i] \subseteq Scopes
  BY DEF Listing
<1>3. CASE ShowCreate
  <2>1. AskScopes("create", {}) \in Call
    BY NewTokenCalls
  <2> QED
    BY <1>3, <2>1 DEF ShowCreate
<1>4. ASSUME NEW i \in TokenIds, ShowEdit(i) PROVE TokenInv'
  <2>1. AskScopes("edit", rows[i]) \in Call
    BY <1>2, NewTokenCalls
  <2> QED
    BY <1>2, <1>4, <2>1 DEF ShowEdit
<1>5. CASE SwitchLanguage
  <2>1. AskScopes("refresh", {}) \in Call
    BY NewTokenCalls
  <2> QED
    BY <1>5, <2>1 DEF SwitchLanguage, tokenForms
<1>6. ASSUME NEW c \in calls, ScopesArrive(c) PROVE TokenInv'
  <2>1. c.for \in {"create", "edit", "refresh"} /\ c.preset \subseteq Scopes
    BY <1>6, TokenCallFields DEF ScopesArrive
  <2>2. catalogue' \subseteq Scopes
    <3>1. CASE c.ans = "ok"
      BY <1>6, <3>1 DEF ScopesArrive
    <3>2. CASE c.ans = "error"
      BY <1>6, <3>2 DEF ScopesArrive
    <3>3. CASE c.ans = "lost"
      BY <1>6, <3>3 DEF ScopesArrive
    <3>4. c.kind = "scopes" /\ c.ans # "none" /\ c \in Call
      BY <1>6 DEF ScopesArrive
    <3>5. c.ans \in {"ok", "error", "lost"}
      BY <3>4 DEF Call
    <3> QED
      BY <3>1, <3>2, <3>3, <3>5
  <2>3. createTicks' \subseteq Scopes /\ editTicks' \subseteq Scopes
    <3>1. CASE c.for = "create"
      BY <1>6, <3>1 DEF ScopesArrive
    <3>2. CASE c.for = "edit"
      BY <1>6, <2>2, <3>2 DEF ScopesArrive, Drawn
    <3>3. CASE c.for = "refresh"
      BY <1>6, <2>2, <3>3 DEF ScopesArrive, Drawn
    <3> QED
      BY <2>1, <3>1, <3>2, <3>3
  <2>4. calls' \subseteq Call
    BY <1>6, NewTokenCalls DEF ScopesArrive
  <2> QED
    BY <1>1, <1>6, <2>2, <2>3, <2>4 DEF ScopesArrive
<1>7. ASSUME NEW s \in Scopes, TickCreate(s) \/ TickEdit(s) PROVE TokenInv'
  BY <1>7 DEF TickCreate, TickEdit
<1>8. CASE HideForms
  BY <1>8 DEF HideForms
<1>9. ASSUME NEW n \in Call, calls' = calls \cup {n}, sent < MaxTokenChanges,
             sent' = sent + 1, UNCHANGED <<granted, rows, catalogue, tokenForms>>
      PROVE  TokenInv'
  BY <1>9 DEF tokenForms
<1>10. CASE SubmitCreate
  <2>1. Ask("create", NoId, createTicks) \in Call
    BY NewTokenCalls
  <2> QED
    BY <1>9, <1>10, <2>1 DEF SubmitCreate, TokenIdle
<1>11. CASE SubmitEdit
  <2>1. Ask("save", editing, editTicks) \in Call
    <3>1. editing \in TokenIds /\ editTicks \in (SUBSET Scopes) \ {{}}
      <4>1. /\ editing # NoId /\ editTicks # {}
            /\ editing \in TokenIds \cup {NoId} /\ editTicks \subseteq Scopes
        BY <1>11 DEF SubmitEdit
      <4> QED
        BY <4>1
    <3> QED
      BY <3>1, NewTokenCalls
  <2> QED
    BY <1>9, <1>11, <2>1 DEF SubmitEdit, TokenIdle
<1>12. ASSUME NEW i \in TokenIds, RevokeOrDelete(i) PROVE TokenInv'
  <2>1. PICK k \in {"revoke", "delete"} : calls' = calls \cup {Ask(k, i, {})}
    BY <1>12 DEF RevokeOrDelete
  <2>2. Ask(k, i, {}) \in Call
    BY NewTokenCalls
  <2> QED
    BY <1>9, <1>12, <2>1, <2>2 DEF RevokeOrDelete, TokenIdle
<1>13. ASSUME NEW c \in calls, ChangeArrives(c) PROVE TokenInv'
  <2>1. calls' \subseteq Call /\ rows' \in Listing
    BY <1>1, <1>13, NewTokenCalls DEF ChangeArrives
  <2>2. createOpen' \in BOOLEAN /\ (createOpen' => createOpen)
    BY <1>13 DEF ChangeArrives
  <2>3. /\ editing' \in {editing, NoId} /\ asOpened' \subseteq Scopes
        /\ UNCHANGED <<sent, granted, catalogue, createTicks, editTicks>>
    BY <1>13 DEF ChangeArrives
  <2> QED
    BY <2>1, <2>2, <2>3
<1>14. ASSUME NEW c \in calls, ListArrives(c) PROVE TokenInv'
  <2>1. c \in Call /\ c.kind = "list" /\ c.ans # "none"
    BY <1>14 DEF ListArrives
  <2>2. c.ans \in {"ok", "error", "lost"}
    BY <2>1 DEF Call
  <2>3. c.ans = "ok" => c.rows \in Listing
    BY <2>1, TokenCallFields
  <2>4. rows' \in Listing
    <3>1. CASE c.ans = "ok"
      BY <1>14, <2>3, <3>1 DEF ListArrives
    <3>2. CASE c.ans = "error"
      BY <1>1, <1>14, <3>2 DEF ListArrives
    <3>3. CASE c.ans = "lost"
      BY <1>14, <3>3 DEF ListArrives
    <3> QED
      BY <2>2, <3>1, <3>2, <3>3
  <2> QED
    BY <1>14, <2>4 DEF ListArrives, tokenForms
<1>15. ASSUME NEW c \in calls, NEW n \in Call, calls' = (calls \ {c}) \cup {n},
              UNCHANGED <<sent, rows, catalogue, tokenForms>>, granted' \in Listing
       PROVE  TokenInv'
  BY <1>15 DEF tokenForms
<1>16. ASSUME NEW c \in calls, ServeList(c) PROVE TokenInv'
  <2>1. [kind |-> "list", ans |-> "ok", rows |-> granted] \in Call
    BY NewTokenCalls
  <2>2. \A ans \in {"error", "lost"} : [c EXCEPT !.ans = ans] \in Call
    BY <1>16, RepliedIsCall DEF ServeList
  <2> QED
    BY <1>15, <1>16, <2>1, <2>2 DEF ServeList, Reply
<1>17. ASSUME NEW c \in calls, ServeScopes(c) PROVE TokenInv'
  <2>1. \A ans \in {"ok", "error", "lost"} : [c EXCEPT !.ans = ans] \in Call
    BY <1>17, RepliedIsCall DEF ServeScopes
  <2> QED
    BY <1>15, <1>17, <2>1 DEF ServeScopes, Reply
<1>18. ASSUME NEW c \in calls, ServeChange(c) PROVE TokenInv'
  <2>1. c \in Call /\ c.ans = "none" /\ c.kind \in {"create", "save", "revoke", "delete"}
    BY <1>18 DEF ServeChange
  <2>2. \A ans \in {"ok", "refused"} : [c EXCEPT !.ans = ans] \in Call
    BY <2>1, RepliedIsCall
  <2>3. PICK ans \in {"ok", "refused"} : Reply(c, ans)
    BY <1>18 DEF ServeChange
  <2>4. granted' \in Listing
    <3>1. CASE UNCHANGED granted
      BY <3>1
    <3>2. CASE \E i \in TokenIds, s \in SUBSET Scopes :
                  granted' = [granted EXCEPT ![i] = s]
      BY <3>2 DEF Listing
    <3>3. /\ c.kind = "create" => c.scopes \subseteq Scopes
          /\ c.kind = "save" => c.id \in TokenIds /\ c.scopes \subseteq Scopes
          /\ c.kind = "delete" => c.id \in TokenIds
      BY <2>1, TokenCallFields
    <3> QED
      BY <1>18, <3>1, <3>2, <3>3 DEF ServeChange
  <2>5. UNCHANGED <<sent, rows, catalogue, tokenForms>>
    BY <1>18 DEF ServeChange
  <2> QED
    BY <1>15, <2>2, <2>3, <2>4, <2>5 DEF Reply
<1>19. CASE UNCHANGED tokenVars
  BY <1>19 DEF tokenVars
<1> QED
  BY <1>3, <1>4, <1>5, <1>6, <1>7, <1>8, <1>10, <1>11, <1>12, <1>13, <1>14, <1>16,
     <1>17, <1>18, <1>19 DEF TokenNext

LEMMA TokenInvHolds == TokenSpec => []TokenInv
<1>1. ASSUME TokenInit PROVE TokenInv
  <2>1. NoRows \in Listing /\ AskList \in Call
    BY NewTokenCalls DEF NoRows, Listing
  <2>2. 0 \in 0 .. MaxTokenChanges
    BY TokenAssumption
  <2> QED
    BY <1>1, <2>1, <2>2, TokenAssumption
       DEF TokenInit, TokenInv, TokenTypeOK, FormsExclude, Listing
<1> QED
  BY <1>1, TokenInvStep, PTL DEF TokenSpec

(* Whatever is clicked while whichever answers are awaited, the form that  *)
(* creates a token and the form that edits one are never both displayed    *)
(* (showApiTokenForm, showApiTokenScopeForm).                              *)
THEOREM OneTokenForm == TokenSpec => []FormsExclude
<1>1. TokenInv => FormsExclude
  BY DEF TokenInv
<1> QED
  BY <1>1, TokenInvHolds, PTL

-----------------------------------------------------------------------------
(* --- PullRecords -------------------------------------------------------- *)

(* The page without its fairness, which no invariant needs.               *)
PullRuns == PullInit /\ [][PullNext]_pullVars

(* What is loaded or shown is of a path: while no project was ever loaded  *)
(* there are neither rows nor requests of the table.                       *)
PullShape ==
    /\ PullTypeOK /\ IsFiniteSet(loads)
    /\ path = NoProject => ~Rows /\ loads = {}

(* While there is room for a load, one of the identities is free.          *)
LEMMA SomeIdIsFree ==
    ASSUME IsFiniteSet(loads), Cardinality(loads) < MaxLoads
    PROVE  FreeId \in 1 .. MaxLoads
<1> DEFINE ids == {l.id : l \in loads}
<1>1. IsFiniteSet(ids) /\ Cardinality(ids) <= Cardinality(loads)
  <2> DEFINE f == [l \in loads |-> l.id]
  <2>1. f \in Surjection(loads, ids)
    BY DEF Surjection
  <2> QED
    BY <2>1, FS_Surjection
<1>2. IsFiniteSet(1 .. MaxLoads) /\ Cardinality(1 .. MaxLoads) = MaxLoads
  BY PullAssumption, FS_Interval
<1>3. \E k \in 1 .. MaxLoads : k \notin ids
  <2> SUFFICES ASSUME 1 .. MaxLoads \subseteq ids PROVE FALSE
    OBVIOUS
  <2>1. Cardinality(1 .. MaxLoads) <= Cardinality(ids)
    BY <1>1, FS_Subset
  <2>2. Cardinality(ids) \in Nat /\ Cardinality(loads) \in Nat
    BY <1>1, FS_CardinalityType
  <2> QED
    BY <1>1, <1>2, <2>1, <2>2, PullAssumption
<1>4. \E k \in 1 .. MaxLoads : \A l \in loads : l.id # k
  BY <1>3
<1> QED
  BY <1>4 DEF FreeId

(* A table has at least one page and no more than it has rows.             *)
LEMMA PagesOfBuilds ==
    ASSUME NEW n \in 1 .. MaxRuns
    PROVE  Pages(n) \in 1 .. MaxRuns
<1>1. PageSize \in Nat /\ PageSize >= 1 /\ n \in Nat /\ n >= 1 /\ n <= MaxRuns /\ MaxRuns \in Nat
  BY PullAssumption
<1> DEFINE q == (n + PageSize - 1) \div PageSize
<1>2. q \in Int /\ q * PageSize <= n + PageSize - 1 /\ n + PageSize - 1 < (q + 1) * PageSize
  BY <1>1
<1>3. q >= 1
  <2> SUFFICES ASSUME q <= 0 PROVE FALSE
    BY <1>2
  <2> HIDE DEF q
  <2>1. (q + 1) * PageSize <= PageSize
    BY <1>1, <1>2
  <2> QED
    BY <1>1, <1>2, <2>1
<1>4. q <= n
  <2> SUFFICES ASSUME q >= n + 1 PROVE FALSE
    BY <1>1, <1>2
  <2> HIDE DEF q
  <2>1. (n + 1) * PageSize <= q * PageSize
    BY <1>1, <1>2
  <2>2. (n + 1) * PageSize = n * PageSize + PageSize
    BY <1>1
  <2>3. n <= n * PageSize
    BY <1>1
  <2>4. q * PageSize \in Int /\ n * PageSize \in Int
    BY <1>1, <1>2
  <2> QED
    BY <1>1, <1>2, <2>1, <2>2, <2>3, <2>4
<1> QED
  BY <1>1, <1>2, <1>3, <1>4 DEF Pages

LEMMA RedrawShape ==
    ASSUME PullTypeOK, NEW t \in Tables, Redraw(t)
    PROVE  /\ table' \in Tables /\ cells' \in [1 .. MaxRuns -> Cells]
           /\ tagAsks' \subseteq TagAsk /\ (t.kind # "rows" => ~Rows')
<1>1. Button \in Cells
  BY DEF Button, Cells
<1>2. \A a \in TagAsk : [a EXCEPT !.attached = FALSE] \in TagAsk
  BY DEF TagAsk
<1> QED
  BY <1>1, <1>2 DEF PullTypeOK, Redraw, Rows

LEMMA OtherTables ==
    /\ \A k \in {"blank", "note", "loading", "error"} :
          [kind |-> k] \in Tables /\ [kind |-> k].kind # "rows"
    /\ \A p \in Projects, n \in 0 .. MaxRuns, g \in 1 .. MaxRuns, b \in BOOLEAN :
          [kind |-> "rows", of |-> p, n |-> n, page |-> g, iid |-> b] \in Tables
<1>1. ASSUME NEW p \in Projects, NEW n \in 0 .. MaxRuns, NEW g \in 1 .. MaxRuns,
             NEW b \in BOOLEAN
      PROVE  [kind |-> "rows", of |-> p, n |-> n, page |-> g, iid |-> b] \in Tables
  <2>1. g \in 1 .. MaxRuns + 1
    BY PullAssumption
  <2> QED
    BY <2>1 DEF Tables
<1> QED
  BY <1>1 DEF Tables

LEMMA StartShape ==
    ASSUME PullShape, NEW s \in BOOLEAN, NEW p \in 1 .. MaxRuns, StartLoad(s, p),
           UNCHANGED <<chosen, ticking, fails, loadOk, options, builds>>,
           clicks' \in 0 .. MaxClicks
    PROVE  PullShape'
<1> USE DEF PullShape, PullTypeOK
<1>1. 1 \in 1 .. MaxRuns
  BY PullAssumption
<1>2. CASE chosen = NoProject
  <2>1. [kind |-> "note"] \in Tables /\ [kind |-> "note"].kind # "rows"
    BY OtherTables
  <2>2. /\ Redraw([kind |-> "note"]) /\ page' = p /\ UNCHANGED <<path, loads>>
    BY <1>2 DEF StartLoad
  <2> QED
    BY <2>1, <2>2, RedrawShape
<1>3. CASE chosen # NoProject
  <2> DEFINE l == [id |-> FreeId, path |-> chosen, silent |-> s, ans |-> "none"]
  <2>1. chosen \in Projects /\ l \in Load
    BY <1>3, SomeIdIsFree DEF StartLoad, Choice, Load
  <2>2. path' = chosen /\ loads' = loads \cup {l}
    BY <1>3 DEF StartLoad
  <2> HIDE DEF l
  <2>3. IsFiniteSet(loads') /\ loads' \subseteq Load
    BY <2>1, <2>2, FS_AddElement
  <2>4. CASE s
    <3>1. page' = p /\ UNCHANGED <<table, cells, tagAsks>>
      BY <1>3, <2>4 DEF StartLoad
    <3> QED
      BY <2>1, <2>2, <2>3, <3>1, PullAssumption DEF Choice
  <2>5. CASE ~s
    <3>1. page' = 1 /\ Redraw([kind |-> "loading"])
      BY <1>3, <2>5 DEF StartLoad
    <3>2. [kind |-> "loading"] \in Tables
      BY OtherTables
    <3>3. /\ table' \in Tables /\ cells' \in [1 .. MaxRuns -> Cells]
          /\ tagAsks' \subseteq TagAsk
      BY <3>1, <3>2, RedrawShape
    <3> QED
      BY <1>1, <2>1, <2>2, <2>3, <3>1, <3>3, PullAssumption DEF Choice
  <2> QED
    BY <2>4, <2>5
<1> QED
  BY <1>2, <1>3

LEMMA ArrivedShape ==
    ASSUME PullShape, NEW l \in loads, LoadArrives(l)
    PROVE  PullShape'
<1> USE DEF PullShape, PullTypeOK
<1>1. l.path \in Projects /\ l.n \in 0 .. MaxRuns
  BY DEF LoadArrives, Load
<1>2. page' \in 1 .. MaxRuns
  <2>1. l.n > 0 => Pages(l.n) \in 1 .. MaxRuns
    BY <1>1, PagesOfBuilds
  <2> QED
    BY <2>1 DEF LoadArrives
<1> DEFINE b == chosen \in Gitlab
<1>b. b \in BOOLEAN
  OBVIOUS
<1> HIDE DEF b
<1> DEFINE t == [kind |-> "rows", of |-> l.path, n |-> l.n, page |-> page', iid |-> b]
<1>3. t \in Tables
  BY <1>1, <1>2, <1>b, OtherTables
<1>4. Redraw(t)
  BY DEF LoadArrives, b
<1> HIDE DEF t
<1>5. /\ table' \in Tables /\ cells' \in [1 .. MaxRuns -> Cells] /\ tagAsks' \subseteq TagAsk
  BY <1>3, <1>4, RedrawShape
<1>6. IsFiniteSet(loads') /\ loads' \subseteq Load
  BY FS_Subset DEF LoadArrives
<1>7. path # NoProject /\ path' = path
  BY DEF LoadArrives
<1>8. fails' \in 0 .. PullFailLimit
  BY PullAssumption DEF LoadArrives
<1> QED
  BY <1>2, <1>5, <1>6, <1>7, <1>8 DEF LoadArrives

LEMMA FailedShape ==
    ASSUME PullShape, NEW l \in loads, LoadFails(l)
    PROVE  PullShape'
<1> USE DEF PullShape, PullTypeOK
<1>1. fails' \in 0 .. PullFailLimit /\ ticking' \in BOOLEAN
  <2>1. fails' \in {fails, fails + 1} /\ (fails' = fails \/ fails < PullFailLimit)
    BY DEF LoadFails
  <2>2. ticking' \in BOOLEAN
    BY Zenon DEF LoadFails
  <2> QED
    BY <2>1, <2>2, PullAssumption
<1>2. IsFiniteSet(loads') /\ loads' \subseteq Load
  BY FS_Subset DEF LoadFails
<1>3. /\ table' \in Tables /\ cells' \in [1 .. MaxRuns -> Cells] /\ tagAsks' \subseteq TagAsk
  <2>1. CASE UNCHANGED <<table, cells, tagAsks>>
    BY <2>1
  <2>2. CASE Redraw([kind |-> "error"])
    <3>1. [kind |-> "error"] \in Tables
      BY OtherTables
    <3> QED
      BY <2>2, <3>1, RedrawShape
  <2> QED
    BY <2>1, <2>2 DEF LoadFails
<1>4. path # NoProject /\ path' = path
  BY DEF LoadFails
<1> QED
  BY <1>1, <1>2, <1>3, <1>4 DEF LoadFails

LEMMA ServedShape ==
    ASSUME PullShape, NEW l \in loads, ServeLoad(l) \/ LoseLoad(l)
    PROVE  PullShape'
<1> USE DEF PullShape, PullTypeOK
<1>1. l \in Load /\ l.ans = "none" /\ l.path \in Projects
  BY DEF ServeLoad, LoseLoad, Load
<1>2. PICK n : n \in Load /\ loads' = (loads \ {l}) \cup {n}
  <2>1. CASE ServeLoad(l)
    <3> DEFINE n == [id |-> l.id, path |-> l.path, silent |-> l.silent, ans |-> "ok",
                     n |-> builds[l.path]]
    <3>1. n \in Load
      BY <1>1 DEF Load
    <3>2. loads' = (loads \ {l}) \cup {n}
      BY <2>1 DEF ServeLoad
    <3> QED
      BY <3>1, <3>2
  <2>2. CASE LoseLoad(l)
    <3> DEFINE n == [l EXCEPT !.ans = "lost"]
    <3>1. n \in Load
      BY <1>1 DEF Load
    <3>2. loads' = (loads \ {l}) \cup {n}
      BY <2>2 DEF LoseLoad
    <3> QED
      BY <3>1, <3>2
  <2> QED
    BY <2>1, <2>2
<1>3. IsFiniteSet(loads') /\ loads' \subseteq Load
  <2>1. IsFiniteSet(loads \ {l})
    BY FS_Subset
  <2> QED
    BY <1>2, <2>1, FS_AddElement
<1>4. path # NoProject
  OBVIOUS
<1>5. UNCHANGED <<chosen, path, table, cells, page, ticking, fails, loadOk,
                  options, tagAsks, builds, clicks>>
  BY DEF ServeLoad, LoseLoad
<1> QED
  BY <1>3, <1>4, <1>5

LEMMA TagShape ==
    ASSUME PullShape,
           \/ \E i \in 1 .. MaxRuns : AskTag(i)
           \/ \E a \in tagAsks : TagArrives(a) \/ ServeTag(a)
    PROVE  PullShape'
<1> USE DEF PullShape, PullTypeOK
<1>1. ASSUME NEW i \in 1 .. MaxRuns, AskTag(i) PROVE PullShape'
  <2>1. Rows /\ i \in 1 .. table.n /\ table.of \in Projects /\ table.n \in 0 .. MaxRuns
    BY <1>1 DEF AskTag, Shown, Rows, Tables
  <2>2. path \in Projects
    BY <2>1 DEF Choice
  <2>3. cells[i] \in Cells \ {[is |-> "waiting"]} /\ [is |-> "waiting"] \in Cells
    BY <1>1 DEF AskTag, Cells
  <2>4. RowOf(i).run \in 1 .. MaxRuns
    BY <2>1, PullAssumption DEF RowOf
  <2>5. AskedTag(i) \in TagAsk
    <3> DEFINE num == NumberOf(table.of, RowOf(i).run, table.iid)
               m == Mixed
    <3>1. num \in Nat
      BY <2>1, <2>4, PullAssumption DEF NumberOf
    <3>2. m \in BOOLEAN
      BY Zenon DEF Mixed
    <3>3. 0 \in 0 .. MaxRuns
      BY PullAssumption
    <3>4. AskedTag(i) = [idx |-> i, of |-> path, number |-> num, mixed |-> m,
                         attached |-> TRUE, before |-> cells[i], ans |-> "none", found |-> 0]
      BY Zenon DEF AskedTag
    <3> HIDE DEF num, m
    <3> QED
      BY <2>2, <2>3, <3>1, <3>2, <3>3, <3>4 DEF TagAsk
  <2>6. clicks' \in 0 .. MaxClicks
    BY <1>1, PullAssumption DEF AskTag, Click
  <2>7. cells' \in [1 .. MaxRuns -> Cells] /\ tagAsks' \subseteq TagAsk
    BY <1>1, <2>3, <2>5 DEF AskTag
  <2>8. UNCHANGED <<chosen, path, table, page, ticking, fails, loadOk, loads, options, builds>>
    BY <1>1 DEF AskTag
  <2> QED
    BY <2>6, <2>7, <2>8 DEF Rows
<1>2. ASSUME NEW a \in tagAsks, TagArrives(a) PROVE PullShape'
  <2>1. /\ a.of \in Projects /\ a.mixed \in BOOLEAN /\ a.before \in Cells
        /\ a.found \in 0 .. MaxRuns
    BY DEF TagAsk
  <2>2. a.found # 0 =>
          [is |-> "tag", by |-> [of |-> a.of, run |-> a.found], mixed |-> a.mixed] \in Cells
    BY <2>1, PullAssumption DEF Cells, Build
  <2>3. [is |-> "none"] \in Cells
    BY DEF Cells
  <2>4. cells' \in [1 .. MaxRuns -> Cells] /\ tagAsks' \subseteq TagAsk
    BY <1>2, <2>1, <2>2, <2>3 DEF TagArrives
  <2> QED
    BY <1>2, <2>4 DEF TagArrives, Rows
<1>3. ASSUME NEW a \in tagAsks, ServeTag(a) PROVE PullShape'
  <2>1. [a EXCEPT !.ans = "lost"] \in TagAsk
    BY DEF TagAsk
  <2>2. \A k \in 0 .. MaxRuns : [a EXCEPT !.ans = "ok", !.found = k] \in TagAsk
    BY DEF TagAsk
  <2>3. builds[a.of] \in 0 .. MaxRuns
    BY DEF TagAsk
  <2>4. \A k \in 0 .. builds[a.of] : k \in 0 .. MaxRuns
    BY <2>3, PullAssumption
  <2>5. tagAsks' \subseteq TagAsk
    BY <1>3, <2>1, <2>2, <2>4 DEF ServeTag
  <2> QED
    BY <1>3, <2>5 DEF ServeTag, Rows
<1> QED
  BY <1>1, <1>2, <1>3

LEMMA PullShapeStep == PullShape /\ [PullNext]_pullVars => PullShape'
<1> SUFFICES ASSUME PullShape, [PullNext]_pullVars PROVE PullShape'
  OBVIOUS
<1> USE DEF PullShape, PullTypeOK
<1>1. Click => clicks' \in 0 .. MaxClicks
  BY PullAssumption DEF Click
<1>2. ASSUME NEW p \in Choice, Choose(p) PROVE PullShape'
  BY <1>1, <1>2 DEF Choose, Rows
<1>3. ASSUME NEW s \in BOOLEAN, Load_(s) PROVE PullShape'
  BY <1>1, <1>3, StartShape DEF Load_
<1>4. ASSUME NEW p \in 1 .. MaxRuns, TurnPage(p) PROVE PullShape'
  BY <1>1, <1>4, StartShape DEF TurnPage
<1>5. CASE Tick
  BY <1>5, StartShape DEF Tick
<1>6. CASE Leave
  BY <1>1, <1>6 DEF Leave, Rows
<1>7. CASE Return
  <2>1. fails' \in 0 .. PullFailLimit
    BY <1>7, PullAssumption DEF Return
  <2>2. options' \subseteq Choice
    BY <1>7 DEF Return
  <2> QED
    BY <1>1, <1>7, <2>1, <2>2 DEF Return, Rows
<1>8. ASSUME NEW p \in options, OptionsArrive(p) PROVE PullShape'
  <2>1. chosen' \in Choice
    BY <1>8 DEF OptionsArrive, Choice
  <2> QED
    BY <1>8, <2>1 DEF OptionsArrive, Rows
<1>9. ASSUME NEW p \in Projects, NewBuild(p) PROVE PullShape'
  <2>1. builds' \in [Projects -> 0 .. MaxRuns]
    BY <1>9, PullAssumption DEF NewBuild
  <2> QED
    BY <1>9, <2>1 DEF NewBuild, Rows
<1>10. CASE UNCHANGED pullVars
  BY <1>10 DEF pullVars, Rows
<1> QED
  BY <1>2, <1>3, <1>4, <1>5, <1>6, <1>7, <1>8, <1>9, <1>10, ArrivedShape, FailedShape,
     ServedShape, TagShape DEF PullNext, Answers_

LEMMA PullShapeHolds == PullRuns => []PullShape
<1>1. ASSUME PullInit PROVE PullShape
  <2>1. 1 \in 1 .. MaxRuns /\ 0 \in 0 .. PullFailLimit /\ 0 \in 0 .. MaxClicks
    BY PullAssumption
  <2>2. Button \in Cells /\ [kind |-> "blank"] \in Tables
    BY OtherTables DEF Button, Cells
  <2>3. IsFiniteSet({})
    BY FS_EmptySet
  <2>4. ~Rows
    BY <1>1 DEF PullInit, Rows
  <2> QED
    BY <1>1, <2>1, <2>2, <2>3, <2>4, PullAssumption DEF PullInit, PullShape, PullTypeOK, Choice
<1> QED
  BY <1>1, PullShapeStep, PTL DEF PullRuns

LEMMA PullTypeHolds == PullRuns => []PullTypeOK
<1>1. PullShape => PullTypeOK
  BY DEF PullShape
<1> QED
  BY <1>1, PullShapeHolds, PTL

(* The variables of the page keep their types: the page shown is one a     *)
(* table of that length has, and a tag is asked for a build that can be.   *)
THEOREM PullTypeCorrect == PullSpec => []PullTypeOK
  BY PullTypeHolds, PTL DEF PullSpec, PullRuns

(* A success or coming back sets the count to 0, which is below the limit. *)
TimerInv == fails \in 0 .. PullFailLimit /\ ticking \in BOOLEAN /\ TimerGivesUp

LEMMA FailureStep ==
    ASSUME TimerInv, NEW l \in loads, LoadFails(l)
    PROVE  TimerInv'
<1> DEFINE more == fails + 1 < PullFailLimit
<1>1. CASE l.silent
  <2>1. /\ fails' = IF fails < PullFailLimit THEN fails + 1 ELSE fails
        /\ ticking' = (ticking /\ more)
    BY <1>1 DEF LoadFails
  <2>2. ticking' \in BOOLEAN /\ (ticking' => more)
    <3> HIDE DEF more
    <3> QED
      BY <2>1, Zenon
  <2> QED
    BY <2>1, <2>2, PullAssumption DEF TimerInv, TimerGivesUp
<1>2. CASE ~l.silent
  <2>1. fails' = fails /\ ticking' = ticking
    BY <1>2 DEF LoadFails
  <2> QED
    BY <2>1 DEF TimerInv, TimerGivesUp
<1> QED
  BY <1>1, <1>2

LEMMA TimerStep == TimerInv /\ [PullNext]_pullVars => TimerInv'
<1> SUFFICES ASSUME TimerInv, [PullNext]_pullVars PROVE TimerInv'
  OBVIOUS
<1> USE DEF TimerInv, TimerGivesUp
<1>1. ASSUME NEW l \in loads, LoadArrives(l) PROVE TimerInv'
  BY <1>1, PullAssumption DEF LoadArrives
<1>2. ASSUME NEW l \in loads, LoadFails(l) PROVE TimerInv'
  BY <1>2, FailureStep
<1>3. ASSUME NEW l \in loads, ServeLoad(l) \/ LoseLoad(l) PROVE TimerInv'
  BY <1>3 DEF ServeLoad, LoseLoad
<1>4. CASE Leave
  BY <1>4 DEF Leave
<1>13. CASE Return
  BY <1>13, PullAssumption DEF Return
<1>5. ASSUME NEW p \in Choice, Choose(p) PROVE TimerInv'
  BY <1>5 DEF Choose
<1>6. ASSUME NEW q \in BOOLEAN, Load_(q) PROVE TimerInv'
  BY <1>6 DEF Load_
<1>7. ASSUME NEW p \in 1 .. MaxRuns, TurnPage(p) PROVE TimerInv'
  BY <1>7 DEF TurnPage
<1>8. CASE Tick
  BY <1>8 DEF Tick
<1>14. CASE UNCHANGED pullVars
  BY <1>14 DEF pullVars
<1>9. ASSUME NEW p \in options, OptionsArrive(p) PROVE TimerInv'
  BY <1>9 DEF OptionsArrive
<1>10. ASSUME NEW i \in 1 .. MaxRuns, AskTag(i) PROVE TimerInv'
  BY <1>10 DEF AskTag
<1>11. ASSUME NEW k \in tagAsks, TagArrives(k) \/ ServeTag(k) PROVE TimerInv'
  <2>1. fails' = fails /\ ticking' = ticking
    <3>1. TagArrives(k) => fails' = fails /\ ticking' = ticking
      BY Zenon DEF TagArrives
    <3>2. ServeTag(k) => fails' = fails /\ ticking' = ticking
      BY Zenon DEF ServeTag
    <3> QED
      BY <1>11, <3>1, <3>2
  <2> QED
    BY <2>1
<1>12. ASSUME NEW p \in Projects, NewBuild(p) PROVE TimerInv'
  BY <1>12 DEF NewBuild
<1> QED
  BY <1>1, <1>2, <1>3, <1>4, <1>5, <1>6, <1>7, <1>8, <1>9, <1>10, <1>11, <1>12,
     <1>13, <1>14 DEF PullNext, Answers_

(* After PullFailLimit failures in a row the timer is off, however the     *)
(* silent loads overlap, until the user comes back to the tab.             *)
THEOREM TimerDoesGiveUp == PullSpec => []TimerGivesUp
<1>1. PullInit => TimerInv
  BY PullAssumption DEF PullInit, TimerInv, TimerGivesUp
<1>2. TimerInv => TimerGivesUp
  BY DEF TimerInv
<1> QED
  BY <1>1, <1>2, TimerStep, PTL DEF PullSpec

(* What a request of a tag carries names the row it was made from, unless  *)
(* it is mixed, as long as its cell is in the document; and so do the run  *)
(* found for it and the tag the cell held before.  Whatever moves the rows *)
(* draws the cells anew, and detaches the requests.                        *)
Names(of, number, i) ==
    of = table.of /\ number = NumberOf(of, RowOf(i).run, of \in ReadsIid)
IsTagAsk(a) == a = [idx |-> a.idx, of |-> a.of, number |-> a.number, mixed |-> a.mixed,
                 attached |-> a.attached, before |-> a.before, ans |-> a.ans,
                 found |-> a.found]
AskIsRight(a) ==
    a.attached =>
      /\ a.mixed \/ Names(a.of, a.number, a.idx)
      /\ a.mixed \/ a.found = 0 \/ [of |-> a.of, run |-> a.found] = RowOf(a.idx)
      /\ a.before.is = "tag" => a.before.mixed \/ a.before.by = RowOf(a.idx)
TagsInv ==
    /\ cells = [i \in 1 .. MaxRuns |-> cells[i]]
    /\ \A a \in tagAsks : /\ IsTagAsk(a) /\ AskIsRight(a)
                          /\ a.attached => Rows /\ a.idx \in 1 .. table.n
    /\ \A i \in 1 .. MaxRuns :
          cells[i].is = "tag" => cells[i].mixed \/ cells[i].by = RowOf(i)

LEMMA TagsAlone ==
    ASSUME TagsInv, UNCHANGED <<table, cells, tagAsks>>
    PROVE  TagsInv'
BY DEF TagsInv, Names, RowOf, Rows, IsTagAsk, AskIsRight

LEMMA RedrawTags ==
    ASSUME TagsInv, NEW t, Redraw(t)
    PROVE  TagsInv'
<1>1. \A a \in tagAsks : [a EXCEPT !.attached = FALSE] =
           [idx |-> a.idx, of |-> a.of, number |-> a.number, mixed |-> a.mixed,
            attached |-> FALSE, before |-> a.before, ans |-> a.ans, found |-> a.found]
  <2> TAKE a \in tagAsks
  <2>1. IsTagAsk(a)
    BY DEF TagsInv
  <2>2. PICK i, p, u, m, d, c, s, f :
            a = [idx |-> i, of |-> p, number |-> u, mixed |-> m,
                 attached |-> d, before |-> c, ans |-> s, found |-> f]
    BY <2>1, Zenon DEF IsTagAsk
  <2>3. /\ a.idx = i /\ a.of = p /\ a.number = u /\ a.mixed = m /\ a.before = c
        /\ a.ans = s /\ a.found = f
    BY <2>2
  <2> DEFINE no == FALSE
  <2> HIDE DEF no
  <2>4. [a EXCEPT !.attached = no] =
            [idx |-> i, of |-> p, number |-> u, mixed |-> m, attached |-> no,
             before |-> c, ans |-> s, found |-> f]
    BY <2>2
  <2> QED
    BY <2>3, <2>4, Zenon DEF no
<1>2. \A a \in tagAsks' : IsTagAsk(a) /\ a.attached = FALSE
  <2> TAKE n \in tagAsks'
  <2>1. PICK a \in tagAsks :
            n = [idx |-> a.idx, of |-> a.of, number |-> a.number, mixed |-> a.mixed,
                 attached |-> FALSE, before |-> a.before, ans |-> a.ans, found |-> a.found]
    BY <1>1 DEF Redraw
  <2> QED
    BY <2>1 DEF IsTagAsk
<1>3. cells' = [i \in 1 .. MaxRuns |-> Button] /\ Button.is = "button"
  BY DEF Redraw, Button
<1> QED
  BY <1>2, <1>3 DEF TagsInv, AskIsRight, IsTagAsk

LEMMA StartTags ==
    ASSUME TagsInv, NEW silent \in BOOLEAN, NEW p, StartLoad(silent, p)
    PROVE  TagsInv'
BY TagsAlone, RedrawTags DEF StartLoad

LEMMA AskTags ==
    ASSUME TagsInv, NEW i \in 1 .. MaxRuns, AskTag(i)
    PROVE  TagsInv'
<1>0. Rows /\ i \in 1 .. table.n
  BY DEF AskTag, Shown
<1> DEFINE n == AskedTag(i)
<1>1. n.idx = i /\ n.before = cells[i] /\ n.found = 0 /\ n.of = path
      /\ n.number = NumberOf(table.of, RowOf(i).run, table.iid)
  BY DEF AskedTag
<1>2. n.mixed = Mixed /\ IsTagAsk(n)
  BY Zenon DEF AskedTag, IsTagAsk
<1> HIDE DEF n
<1>3. n.mixed \/ Names(n.of, n.number, i)
  <2>1. CASE Mixed
    BY <1>2, <2>1
  <2>2. CASE ~Mixed
    <3>1. path = table.of /\ table.iid = (table.of \in ReadsIid)
      BY <2>2, Zenon DEF Mixed
    <3> QED
      BY <1>1, <3>1, Zenon DEF Names
  <2> QED
    BY <2>1, <2>2
<1>4. AskIsRight(n)
  BY <1>1, <1>3 DEF AskIsRight, TagsInv
<1>5. /\ tagAsks' = tagAsks \cup {n} /\ table' = table
      /\ cells' = [cells EXCEPT ![i] = [is |-> "waiting"]]
  BY DEF AskTag, n
<1>6. cells' = [j \in 1 .. MaxRuns |-> IF j = i THEN [is |-> "waiting"] ELSE cells[j]]
  BY <1>5 DEF TagsInv
<1>7. \A a \in tagAsks' : /\ IsTagAsk(a) /\ AskIsRight(a)
                          /\ a.attached => Rows /\ a.idx \in 1 .. table.n
  BY <1>0, <1>1, <1>2, <1>4, <1>5 DEF TagsInv
<1>8. \A a \in tagAsks' : /\ IsTagAsk(a)' /\ AskIsRight(a)'
                          /\ (a.attached => Rows /\ a.idx \in 1 .. table.n)'
  BY <1>5, <1>7 DEF AskIsRight, Names, RowOf, Rows, IsTagAsk
<1>9. \A j \in 1 .. MaxRuns :
        (cells[j].is = "tag" => cells[j].mixed \/ cells[j].by = RowOf(j))'
  BY <1>5, <1>6 DEF TagsInv, RowOf
<1>10. cells' = [j \in 1 .. MaxRuns |-> cells'[j]]
  BY <1>6
<1> QED
  BY <1>8, <1>9, <1>10 DEF TagsInv

LEMMA ArrivedTags ==
    ASSUME TagsInv, NEW a \in tagAsks, TagArrives(a)
    PROVE  TagsInv'
<1> DEFINE cell == IF a.ans = "lost" THEN a.before
                   ELSE IF a.found = 0 THEN [is |-> "none"]
                   ELSE [is |-> "tag", by |-> [of |-> a.of, run |-> a.found],
                         mixed |-> a.mixed]
<1>1. cells' = [j \in 1 .. MaxRuns |->
                   IF a.attached /\ j = a.idx THEN cell ELSE cells[j]]
  BY DEF TagArrives, Target
<1>2. a.attached /\ cell.is = "tag" => cell.mixed \/ cell.by = RowOf(a.idx)
  BY DEF TagsInv, AskIsRight
<1> HIDE DEF cell
<1>3. tagAsks' = tagAsks \ {a} /\ table' = table
  BY DEF TagArrives
<1> QED
  BY <1>1, <1>2, <1>3 DEF TagsInv, AskIsRight, Names, RowOf, Rows, IsTagAsk

(* No two runs of a project have the same number of one kind, so the run   *)
(* found for a request that names a row is the run of that row.            *)
LEMMA NumbersTellRunsApart ==
    ASSUME NEW p \in Projects, NEW j \in 1 .. MaxRuns, NEW k \in 1 .. MaxRuns,
           NEW iid, NumberOf(p, j, iid) = NumberOf(p, k, iid)
    PROVE  j = k
BY PullAssumption DEF NumberOf

LEMMA FoundForItsRow ==
    ASSUME PullShape, TagsInv, NEW a \in tagAsks, a.attached, ~a.mixed,
           NEW k \in 1 .. builds[a.of],
           NumberOf(a.of, k, a.of \in ReadsIid) = a.number
    PROVE  [of |-> a.of, run |-> k] = RowOf(a.idx)
<1>1. Names(a.of, a.number, a.idx) /\ Rows /\ a.idx \in 1 .. table.n
  BY DEF TagsInv, AskIsRight
<1>2. a.of \in Projects /\ table.n \in 0 .. MaxRuns /\ builds[a.of] \in 0 .. MaxRuns
  BY <1>1 DEF PullShape, PullTypeOK, TagAsk, Tables, Rows
<1>3. RowOf(a.idx).run \in 1 .. MaxRuns /\ k \in 1 .. MaxRuns
  BY <1>1, <1>2, PullAssumption DEF RowOf
<1> DEFINE kind == a.of \in ReadsIid
<1>4. NumberOf(a.of, k, kind) = NumberOf(a.of, RowOf(a.idx).run, kind)
  BY <1>1 DEF Names
<1> HIDE DEF kind
<1>5. k = RowOf(a.idx).run
  BY <1>2, <1>3, <1>4, NumbersTellRunsApart
<1> QED
  BY <1>1, <1>5 DEF Names, RowOf

LEMMA ServedTags ==
    ASSUME PullShape, TagsInv, NEW a \in tagAsks, ServeTag(a)
    PROVE  TagsInv'
<1>1. PICK n : /\ tagAsks' = (tagAsks \ {a}) \cup {n}
               /\ \/ n = [a EXCEPT !.ans = "lost"]
                  \/ \E k \in 0 .. builds[a.of] :
                        /\ k > 0 => NumberOf(a.of, k, a.of \in ReadsIid) = a.number
                        /\ n = [a EXCEPT !.ans = "ok", !.found = k]
  BY Zenon DEF ServeTag
<1>2. IsTagAsk(a) /\ AskIsRight(a) /\ (a.attached => Rows /\ a.idx \in 1 .. table.n)
  BY DEF TagsInv
<1>3. /\ IsTagAsk(n) /\ AskIsRight(n)
      /\ n.attached => Rows /\ n.idx \in 1 .. table.n
  <2>1. CASE n = [a EXCEPT !.ans = "lost"]
    <3>1. n = [idx |-> a.idx, of |-> a.of, number |-> a.number, mixed |-> a.mixed,
               attached |-> a.attached, before |-> a.before, ans |-> "lost",
               found |-> a.found]
      BY <1>2, <2>1 DEF IsTagAsk
    <3> QED
      BY <1>2, <3>1 DEF IsTagAsk, AskIsRight
  <2>2. ASSUME NEW k \in 0 .. builds[a.of],
               k > 0 => NumberOf(a.of, k, a.of \in ReadsIid) = a.number,
               n = [a EXCEPT !.ans = "ok", !.found = k]
        PROVE  /\ IsTagAsk(n) /\ AskIsRight(n)
               /\ n.attached => Rows /\ n.idx \in 1 .. table.n
    <3>1. n = [idx |-> a.idx, of |-> a.of, number |-> a.number, mixed |-> a.mixed,
               attached |-> a.attached, before |-> a.before, ans |-> "ok", found |-> k]
      BY <1>2, <2>2 DEF IsTagAsk
    <3>2. k = 0 \/ (k > 0 /\ k \in 1 .. builds[a.of])
      BY DEF PullShape, PullTypeOK, TagAsk
    <3>3. a.attached /\ ~a.mixed /\ k # 0 => [of |-> a.of, run |-> k] = RowOf(a.idx)
      BY <2>2, <3>2, FoundForItsRow
    <3> QED
      BY <1>2, <3>1, <3>3 DEF IsTagAsk, AskIsRight
  <2> QED
    BY <1>1, <2>1, <2>2
<1>4. UNCHANGED <<table, cells>>
  BY DEF ServeTag
<1> QED
  BY <1>1, <1>3, <1>4 DEF TagsInv, AskIsRight, Names, RowOf, Rows, IsTagAsk

LEMMA TagsStep == PullShape /\ TagsInv /\ [PullNext]_pullVars => TagsInv'
<1> SUFFICES ASSUME PullShape, TagsInv, [PullNext]_pullVars PROVE TagsInv'
  OBVIOUS
<1>1. ASSUME NEW l \in loads, ServeLoad(l) \/ LoseLoad(l) PROVE TagsInv'
  BY <1>1, TagsAlone DEF ServeLoad, LoseLoad
<1>2. ASSUME NEW l \in loads, LoadArrives(l) PROVE TagsInv'
  BY <1>2, RedrawTags DEF LoadArrives
<1>3. ASSUME NEW l \in loads, LoadFails(l) PROVE TagsInv'
  BY <1>3, TagsAlone, RedrawTags DEF LoadFails
<1>4. ASSUME NEW q \in BOOLEAN, Load_(q) PROVE TagsInv'
  BY <1>4, StartTags DEF Load_
<1>5. ASSUME NEW p \in 1 .. MaxRuns, TurnPage(p) PROVE TagsInv'
  BY <1>5, StartTags DEF TurnPage
<1>6. CASE Tick
  BY <1>6, StartTags DEF Tick
<1>7. ASSUME NEW p, \/ Choose(p) \/ OptionsArrive(p) \/ NewBuild(p)
      PROVE  TagsInv'
  BY <1>7, TagsAlone DEF Choose, OptionsArrive, NewBuild
<1>8. CASE Leave \/ Return \/ UNCHANGED pullVars
  BY <1>8, TagsAlone DEF Leave, Return, pullVars
<1> QED
  BY <1>1, <1>2, <1>3, <1>4, <1>5, <1>6, <1>7, <1>8, AskTags, ArrivedTags, ServedTags
     DEF PullNext, Answers_

LEMMA TagsHold == PullRuns => []TagStaysInItsRow
<1>1. PullInit => TagsInv
  BY DEF PullInit, TagsInv, Button
<1>2. PullShape /\ TagsInv => TagStaysInItsRow
  <2> SUFFICES ASSUME PullShape, TagsInv PROVE TagStaysInItsRow
    OBVIOUS
  <2>1. Shown \subseteq 1 .. MaxRuns
    <3>1. Rows => table.n \in 0 .. MaxRuns
      BY DEF PullShape, PullTypeOK, Tables, Rows
    <3> QED
      BY <3>1, PullAssumption DEF Shown
  <2> QED
    BY <2>1 DEF TagsInv, TagStaysInItsRow
<1> QED
  BY <1>1, <1>2, PullShapeHolds, TagsStep, PTL DEF PullRuns

(* However loads, pages and answers interleave, a tag is shown in the row  *)
(* of the run in whose log it was found, unless the request named another  *)
(* build because the rows were not those of the path or of the selection.  *)
THEOREM TagsStayInTheirRows == PullSpec => []TagStaysInItsRow
  BY TagsHold, PTL DEF PullSpec, PullRuns
-----------------------------------------------------------------------------
(* --- MCConsole ---------------------------------------------------------- *)

(* Whichever page has the focus, each page takes its own steps or none.    *)
LEMMA EachPageTakesItsSteps ==
    ConsoleSpec => /\ TokenSpec /\ RoleRuns /\ UserSpec /\ PwdRuns /\ PullRuns
                   /\ LogRuns /\ SearchRuns /\ SettingsSpec /\ ServiceSpec /\ ConnSpec
<1>1. ConsoleInit => /\ TokenInit /\ RoleInit /\ UserInit /\ PwdInit /\ PullInit
                     /\ LogInit /\ SearchInit /\ SettingsInit /\ ServiceInit /\ ConnInit
  BY DEF ConsoleInit
<1>2. [ConsoleNext]_consoleVars => [TokenNext]_tokenVars
  BY DEF ConsoleNext, consoleVars, Still
<1>3. [ConsoleNext]_consoleVars => [RoleNext]_roleVars
  BY DEF ConsoleNext, consoleVars, Still
<1>4. [ConsoleNext]_consoleVars => [UserNext]_userVars
  BY DEF ConsoleNext, consoleVars, Still
<1>5. [ConsoleNext]_consoleVars => [PwdNext]_pwdVars
  BY DEF ConsoleNext, consoleVars, Still
<1>6. [ConsoleNext]_consoleVars => [PullNext]_pullVars
  BY DEF ConsoleNext, consoleVars, Still
<1>7. [ConsoleNext]_consoleVars => [LogNext]_logVars
  BY DEF ConsoleNext, consoleVars, Still
<1>8. [ConsoleNext]_consoleVars => [SearchNext]_searchVars
  BY DEF ConsoleNext, consoleVars, Still
<1>9. [ConsoleNext]_consoleVars => [SettingsNext]_settingsVars
  BY DEF ConsoleNext, consoleVars, Still
<1>10. [ConsoleNext]_consoleVars => [ServiceNext]_serviceVars
  BY DEF ConsoleNext, consoleVars, Still
<1>11. [ConsoleNext]_consoleVars => [ConnNext]_connVars
  BY DEF ConsoleNext, consoleVars, Still
<1> QED
  BY <1>1, <1>2, <1>3, <1>4, <1>5, <1>6, <1>7, <1>8, <1>9, <1>10, <1>11, PTL
     DEF ConsoleSpec, TokenSpec, RoleRuns, UserSpec, PwdRuns, PullRuns, LogRuns,
         SearchRuns, SettingsSpec, ServiceSpec, ConnSpec

(* In the specification the run checks, with whichever pages it is given   *)
(* and for any constants, the variables of every page keep their types.    *)
THEOREM ConsoleTypeCorrect == ConsoleSpec => []ConsoleTypeOK
<1>1. TokenInv => TokenTypeOK
  BY DEF TokenInv
<1>2. SearchInv => SearchTypeOK
  BY DEF SearchInv
<1>3. ConnInv => ConnTypeOK
  BY DEF ConnInv
<1> QED
  BY <1>1, <1>2, <1>3, EachPageTakesItsSteps, TokenInvHolds, RoleTypeHolds,
     UserTypeCorrect, PwdTypeHolds, PullTypeHolds, LogTypeHolds, SearchInvHolds,
     SettingsTypeCorrect, ServiceTypeCorrect, ConnInvHolds, PTL DEF ConsoleTypeOK

(* And every safety property that holds of a page by itself holds of it    *)
(* there; that the token of a service switched off is dead, on SQLite.     *)
THEOREM ConsoleIsSafe ==
    ConsoleSpec =>
        /\ [](/\ SettledFormShowsItsRole /\ SettledUserFormShowsItsUser
              /\ PasswordReachesItsUser /\ TagStaysInItsRow
              /\ LoneLoadShowsItsPage /\ PagerIsOfItsTable
              /\ LoneSearchIsShown /\ RestingBoxIsTrue
              /\ WayIsAnnounced /\ RestingCardIsTrue
              /\ OnlyTouchedRowsAreSent /\ RestingFormIsTrue)
        /\ Driver = "sqlite" => []FrozenTokenIsDead
        /\ CascadeSparesShared
<1>1. ServiceSpec => (Driver = "sqlite" => []FrozenTokenIsDead)
  BY FrozenForGood
<1> QED
  BY <1>1, EachPageTakesItsSteps, RoleFormHolds, FormShowsItsUser, PasswordHolds,
     TagsHold, LoneLoadHolds, PagerHolds, LoneSearchHolds, BoxShowsTheSwitch,
     AnnouncedWayIsTaken, BoxShowsTheService, TouchedRowsOnly, FormShowsTheServer,
     SparesHold, PTL
=============================================================================
