----------------------------- MODULE TagCleanup -----------------------------
(***************************************************************************)
(* The cleanup of stale artifacts (PipelineTagService::cleanupStaleTags):  *)
(* read every artifact, list the tags the image registry has, delete the   *)
(* artifacts whose tag is not listed.  It runs from the worker, under the  *)
(* tag-cleanup lease, and from two web endpoints, without it: any number   *)
(* of passes overlap.                                                      *)
(*                                                                         *)
(* The listing is HarborService::paginatedGet: one request a page, until a *)
(* short page, a failure or the limit of pages.  Between the requests the  *)
(* registry changes and artifacts are recorded.  One repository is         *)
(* followed; a pass lists each repository on its own.                      *)
(***************************************************************************)
EXTENDS Naturals, Sequences, FiniteSets

CONSTANTS
    Cleaner,      \* passes of the cleanup that may run at the same time
    Pipeline,     \* the pipelines that may have an artifact
    Tag,          \* the tags of the repository
    NoTag,        \* no artifact
    PageSize,     \* $pageSize (100)
    MaxPages,     \* $maxPages (20)
    Faults,       \* how a request to the registry may fail
    MaxChanges,   \* bound: pushes, removals and artifacts recorded
    MaxFaults     \* bound: requests that fail

ASSUME CleanupAssumption ==
    /\ IsFiniteSet(Tag) /\ NoTag \notin Tag
    /\ PageSize \in Nat \ {0}
    /\ MaxPages \in Nat \ {0}
    /\ Faults \subseteq {"down", "refused", "blank"}
    /\ MaxChanges \in Nat
    /\ MaxFaults \in Nat

VARIABLES
    registry,     \* the tags of the repository, newest first
    artifacts,    \* ci_pipeline_artifacts: the tag of each pipeline
    pc,           \* where each pass stands
    rows,         \* the artifacts a pass has read
    page,         \* the page it asks for next
    names,        \* the tags it has been told of
    stale,        \* $staleKeys, what it is going to delete
    kept,         \* history: the artifacts living and unchanged since then
    changes,      \* how often the registry or an artifact has changed
    faults        \* how many requests have failed

pass == <<pc, rows, page, names, stale>>
vars == <<registry, artifacts, pass, kept, changes, faults>>

Present(reg)  == {reg[i] : i \in 1..Len(reg)}
Distinct(reg) == \A i, j \in 1..Len(reg) : reg[i] = reg[j] => i = j
Rows         == [Pipeline -> Tag \cup {NoTag}]
None         == [p \in Pipeline |-> NoTag]

(* The types; the registry lists a tag once, and a pass never asks for a   *)
(* page past the limit (the $maxPages of paginatedGet).                    *)
TypeOK ==
    /\ registry \in Seq(Tag)
    /\ Distinct(registry)
    /\ artifacts \in Rows
    /\ pc \in [Cleaner -> {"idle", "list", "delete"}]
    /\ rows \in [Cleaner -> Rows]
    /\ page \in [Cleaner -> 1..MaxPages]
    /\ names \in [Cleaner -> SUBSET Tag]
    /\ stale \in [Cleaner -> SUBSET Pipeline]
    /\ kept \in [Cleaner -> SUBSET Pipeline]
    /\ changes \in 0..MaxChanges
    /\ faults \in 0..MaxFaults

(* An artifact is recorded of a tag the registry had; it may be gone now.  *)
Init ==
    /\ registry \in UNION {[1..n -> Tag] : n \in 0..Cardinality(Tag)}
    /\ Distinct(registry)
    /\ artifacts \in Rows
    /\ pc = [c \in Cleaner |-> "idle"]
    /\ rows = [c \in Cleaner |-> None]
    /\ page = [c \in Cleaner |-> 1]
    /\ names = [c \in Cleaner |-> {}]
    /\ stale = [c \in Cleaner |-> {}]
    /\ kept = [c \in Cleaner |-> {}]
    /\ changes = 0
    /\ faults = 0

-----------------------------------------------------------------------------
(* History: of the artifacts living when c last read, those neither        *)
(* replaced nor without their tag at any moment since; none once a step    *)
(* has spoilt the listing of c.                                            *)
living(a, reg) == {p \in Pipeline : a[p] \in Present(reg)}

Watch(spoilt) ==
    kept' = [c \in Cleaner |->
                IF pc'[c] = "idle" \/ c \in spoilt THEN {}
                ELSE IF pc[c] = "idle" THEN living(artifacts, registry)
                ELSE {p \in kept[c] : artifacts'[p] = artifacts[p]
                                      /\ p \in living(artifacts, registry')}]

(* A tag removed behind a page already read makes one from beyond it slip  *)
(* on to it, unread.                                                       *)
midway == {c \in Cleaner : pc[c] = "list" /\ page[c] > 1}

(* The pass reads the rows of every artifact; without any it is over.      *)
Read(c) ==
    /\ pc[c] = "idle"
    /\ artifacts # None
    /\ pc' = [pc EXCEPT ![c] = "list"]
    /\ rows' = [rows EXCEPT ![c] = artifacts]
    /\ UNCHANGED <<registry, artifacts, page, names, stale, changes, faults>>
    /\ Watch({})

-----------------------------------------------------------------------------
(* Slips a change could introduce, for checking that the properties below  *)
(* notice them: a listing remembered from pass to pass, an error taken for *)
(* an empty listing, paging without a limit.                               *)
endKeepingNames(c) ==
    /\ pc' = [pc EXCEPT ![c] = "idle"]
    /\ rows' = [rows EXCEPT ![c] = None]
    /\ page' = [page EXCEPT ![c] = 1]
    /\ stale' = [stale EXCEPT ![c] = {}]
    /\ UNCHANGED names

-----------------------------------------------------------------------------
(* The pass is over and forgets what it knew.                              *)
end(c) ==
    /\ pc' = [pc EXCEPT ![c] = "idle"]
    /\ rows' = [rows EXCEPT ![c] = None]
    /\ page' = [page EXCEPT ![c] = 1]
    /\ names' = [names EXCEPT ![c] = {}]
    /\ stale' = [stale EXCEPT ![c] = {}]

(* The artifacts read whose tag is none of the tags listed.                *)
missing(c, listed) == {p \in Pipeline : rows[c][p] \notin listed \cup {NoTag}}

(* The listing is over: what it did not name is stale.                     *)
conclude(c, listed) ==
    IF missing(c, listed) = {} THEN end(c)
    ELSE /\ pc' = [pc EXCEPT ![c] = "delete"]
         /\ names' = [names EXCEPT ![c] = listed]
         /\ stale' = [stale EXCEPT ![c] = missing(c, listed)]
         /\ UNCHANGED <<rows, page>>

min(a, b) == IF a < b THEN a ELSE b

(* What the registry answers for a page, as it is at that moment.          *)
pageOf(reg, n) ==
    SubSeq(reg, (n - 1) * PageSize + 1, min(n * PageSize, Len(reg)))

ErrorAsEmpty(c) ==
    /\ pc[c] = "list"
    /\ "refused" \in Faults /\ faults < MaxFaults /\ faults' = faults + 1
    /\ conclude(c, names[c])
    /\ UNCHANGED <<registry, artifacts, changes>>
    /\ Watch({})

PageWithoutLimit(c) ==
    LET items  == pageOf(registry, page[c])
        listed == names[c] \cup Present(items)
    IN  /\ pc[c] = "list"
        /\ IF Len(items) = PageSize
           THEN /\ names' = [names EXCEPT ![c] = listed]
                /\ page' = [page EXCEPT ![c] = @ + 1]
                /\ UNCHANGED <<pc, rows, stale>>
           ELSE conclude(c, listed)
        /\ UNCHANGED <<registry, artifacts, changes, faults>>
        /\ Watch({})

(* A page arrives: a full one below the limit asks for the next.           *)
Page(c) ==
    LET items  == pageOf(registry, page[c])
        listed == names[c] \cup Present(items)
    IN  /\ pc[c] = "list"
        /\ IF Len(items) = PageSize /\ page[c] < MaxPages
           THEN /\ names' = [names EXCEPT ![c] = listed]
                /\ page' = [page EXCEPT ![c] = @ + 1]
                /\ UNCHANGED <<pc, rows, stale>>
           ELSE conclude(c, listed)
        /\ UNCHANGED <<registry, artifacts, changes, faults>>
        /\ Watch({d \in {c} : Len(registry) > PageSize * MaxPages})

fault(kind) ==
    /\ kind \in Faults
    /\ faults < MaxFaults /\ faults' = faults + 1

(* No connection, or 5xx three times over: an exception, the repository    *)
(* counts as unreachable.  The failure of the one request past the page    *)
(* limit, whose answer is only logged, ends the same way.                  *)
PageDown(c) ==
    /\ pc[c] = "list"
    /\ fault("down")
    /\ end(c)
    /\ UNCHANGED <<registry, artifacts, changes>>
    /\ Watch({})

(* A 4xx, or an answer that is not JSON: an error on the first page; on a  *)
(* later one the listing is what has arrived so far.                       *)
PageRefused(c) ==
    /\ pc[c] = "list"
    /\ fault("refused")
    /\ IF page[c] = 1 THEN end(c) ELSE conclude(c, names[c])
    /\ UNCHANGED <<registry, artifacts, changes>>
    /\ Watch(midway \cap {c})

(* A 200 with an empty body counts as a short page without tags.           *)
PageBlank(c) ==
    /\ pc[c] = "list"
    /\ fault("blank")
    /\ conclude(c, names[c])
    /\ UNCHANGED <<registry, artifacts, changes>>
    /\ Watch({c})

(* One transaction of DELETEs by pipeline, whatever the rows hold by now.  *)
Delete(c) ==
    /\ pc[c] = "delete"
    /\ artifacts' = [p \in Pipeline |-> IF p \in stale[c] THEN NoTag
                                        ELSE artifacts[p]]
    /\ end(c)
    /\ UNCHANGED <<registry, changes, faults>>
    /\ Watch({})

(* The transaction fails and is rolled back, or the process is killed.     *)
GiveUp(c) ==
    /\ pc[c] # "idle"
    /\ faults < MaxFaults /\ faults' = faults + 1
    /\ end(c)
    /\ UNCHANGED <<registry, artifacts, changes>>
    /\ Watch({})

-----------------------------------------------------------------------------
(* The registry and the writers of artifacts go on meanwhile.              *)
change == changes < MaxChanges /\ changes' = changes + 1

Push(t) ==
    /\ change
    /\ t \notin Present(registry)
    /\ registry' = <<t>> \o registry
    /\ UNCHANGED <<artifacts, pass, faults>>
    /\ Watch({})

Remove(t) ==
    /\ change
    /\ \E i \in 1..Len(registry) :
          /\ registry[i] = t
          /\ registry' = SubSeq(registry, 1, i - 1)
                           \o SubSeq(registry, i + 1, Len(registry))
    /\ UNCHANGED <<artifacts, pass, faults>>
    /\ Watch(midway)

(* registry-sync and report record a tag the registry has just confirmed.  *)
Record(p, t) ==
    /\ change
    /\ t \in Present(registry)
    /\ artifacts' = [artifacts EXCEPT ![p] = t]
    /\ UNCHANGED <<registry, pass, faults>>
    /\ Watch({})

-----------------------------------------------------------------------------
Clean(c) == Read(c) \/ Page(c) \/ Delete(c)

Next ==
    \/ \E c \in Cleaner :
          Clean(c) \/ PageDown(c) \/ PageRefused(c) \/ PageBlank(c) \/ GiveUp(c)
    \/ \E t \in Tag : Push(t) \/ Remove(t) \/ \E p \in Pipeline : Record(p, t)

Spec == Init /\ [][Next]_vars

(* The worker starts a pass every hour and a pass started is run.          *)
FairSpec == Spec /\ \A c \in Cleaner : WF_vars(Clean(c))

-----------------------------------------------------------------------------
(* An artifact that nobody replaces and whose tag the registry has all     *)
(* through a pass is not among those the pass deletes, whatever is pushed, *)
(* recorded and deleted by others between its pages, and whatever the      *)
(* registry does before the first: unless the listing is longer than the   *)
(* limit, an answer is blank, a later page is refused or a tag is removed  *)
(* while the pages are read.                                               *)
LivingSpared == \A c \in Cleaner : stale[c] \cap kept[c] = {}

(* What the manual promises of the cleanup: never a wrong delete.          *)
NeverAWrongDelete ==
    [][\A c \in Cleaner : Delete(c) =>
          \A p \in stale[c] : artifacts[p] \notin Present(registry)]_vars

(* Once registry and writers come to rest, every artifact left has its tag *)
(* in the registry for good.                                               *)
EventuallyClean ==
    <>[](\A p \in Pipeline : artifacts[p] \in Present(registry) \cup {NoTag})
=============================================================================
