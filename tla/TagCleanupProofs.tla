-------------------------- MODULE TagCleanupProofs --------------------------
(***************************************************************************)
(* Theorems about the cleanup of stale artifacts, for any number of        *)
(* passes, pipelines and tags, any size of a page and any limit of pages.  *)
(***************************************************************************)
EXTENDS TagCleanup, SequenceTheorems, FiniteSetTheorems, TLAPS

(* The listing                                                             *)
Listing == Seq(Tag)

LEMMA PushLists ==
    ASSUME NEW reg \in Listing, NEW t \in Tag, Distinct(reg), t \notin Present(reg)
    PROVE  /\ <<t>> \o reg \in Listing
           /\ Len(<<t>> \o reg) = Len(reg) + 1
           /\ \A i \in 1..Len(reg) : (<<t>> \o reg)[i + 1] = reg[i]
           /\ Distinct(<<t>> \o reg)
<1> DEFINE new == <<t>> \o reg
<1>1. /\ new \in Listing /\ Len(new) = Len(reg) + 1
      /\ new[1] = t
      /\ \A i \in 1..Len(reg) : new[i + 1] = reg[i]
  BY DEF Listing
<1>2. \A i \in 2..Len(new) : i - 1 \in 1..Len(reg) /\ new[i] = reg[i - 1]
  BY <1>1 DEF Listing
<1>3. \A i \in 1..Len(reg) : reg[i] # t
  BY DEF Present
<1>4. ASSUME NEW i \in 1..Len(new), NEW j \in 1..Len(new), new[i] = new[j]
      PROVE  i = j
  <2>1. CASE i = 1 \/ j = 1
    BY <1>1, <1>2, <1>3, <1>4, <2>1 DEF Listing
  <2>2. CASE i # 1 /\ j # 1
    <3>1. i - 1 \in 1..Len(reg) /\ j - 1 \in 1..Len(reg) /\ reg[i - 1] = reg[j - 1]
      BY <1>2, <1>4, <2>2, <1>1 DEF Listing
    <3> QED
      BY <3>1 DEF Distinct
  <2> QED
    BY <2>1, <2>2
<1> QED
  BY <1>1, <1>4 DEF Distinct

LEMMA Joined ==
    ASSUME NEW a \in Listing, NEW b \in Listing
    PROVE  /\ a \o b \in Listing
           /\ Len(a \o b) = Len(a) + Len(b)
           /\ \A i \in 1..Len(a \o b) :
                 (a \o b)[i] = IF i <= Len(a) THEN a[i] ELSE b[i - Len(a)]
BY DEF Listing

LEMMA RemoveLists ==
    ASSUME NEW reg \in Listing, NEW k \in 1..Len(reg), Distinct(reg)
    PROVE  LET new == SubSeq(reg, 1, k - 1) \o SubSeq(reg, k + 1, Len(reg))
           IN  new \in Listing /\ Distinct(new)
<1> DEFINE front == SubSeq(reg, 1, k - 1)
           back  == SubSeq(reg, k + 1, Len(reg))
           new   == front \o back
           n     == Len(reg)
<1>1. n \in Nat /\ k \in 1..n
  BY DEF Listing
<1>2. /\ front \in Listing /\ Len(front) = k - 1
      /\ \A i \in 1..(k - 1) : front[i] = reg[i]
  BY DEF Listing
<1>3. /\ back \in Listing /\ Len(back) = n - k
      /\ \A i \in 1..(n - k) : back[i] = reg[i + k]
  BY DEF Listing
<1>4. \A i, j \in 1..n : reg[i] = reg[j] => i = j
  BY DEF Distinct
<1> SUFFICES new \in Listing /\ Distinct(new)
  OBVIOUS
<1> HIDE DEF front, back, n
<1>5. /\ new \in Listing /\ Len(new) = n - 1
      /\ \A i \in 1..(n - 1) :
            new[i] = IF i <= k - 1 THEN front[i] ELSE back[i - (k - 1)]
  <2>1. /\ new \in Listing /\ Len(new) = Len(front) + Len(back)
        /\ \A i \in 1..Len(new) :
              new[i] = IF i <= Len(front) THEN front[i] ELSE back[i - Len(front)]
    BY <1>2, <1>3, Joined
  <2> HIDE DEF new
  <2>2. Len(new) = n - 1
    BY <1>1, <1>2, <1>3, <2>1
  <2> QED
    BY <1>2, <2>1, <2>2
<1> HIDE DEF new
<1> DEFINE place(x) == IF x < k THEN x ELSE x + 1
<1>6. ASSUME NEW x \in 1..(n - 1)
      PROVE  new[x] = reg[place(x)] /\ place(x) \in 1..n
  <2>1. CASE x < k
    BY <1>1, <1>2, <1>5, <2>1
  <2>2. CASE ~(x < k)
    <3>1. x - (k - 1) \in 1..(n - k) /\ x - (k - 1) + k = x + 1
      BY <1>1, <2>2
    <3>2. new[x] = back[x - (k - 1)]
      BY <1>1, <1>5, <2>2
    <3> QED
      BY <1>1, <1>3, <2>2, <3>1, <3>2
  <2> QED
    BY <2>1, <2>2
<1>7. ASSUME NEW i \in 1..(n - 1), NEW j \in 1..(n - 1), new[i] = new[j]
      PROVE  i = j
  <2>1. place(i) = place(j)
    BY <1>4, <1>6, <1>7
  <2> QED
    BY <1>1, <2>1
<1> QED
  BY <1>5, <1>7 DEF Distinct

(* A page holds what stands on its positions; a page that is not full is   *)
(* the last one.                                                           *)
LEMMA PageHolds ==
    ASSUME NEW reg \in Listing, NEW n \in Nat \ {0}, NEW i \in 1..Len(reg),
           i > (n - 1) * PageSize, i <= n * PageSize
    PROVE  reg[i] \in Present(pageOf(reg, n))
<1> DEFINE from == (n - 1) * PageSize
           to   == min(n * PageSize, Len(reg))
<1>1. from \in Nat /\ n * PageSize = from + PageSize /\ PageSize \in Nat \ {0}
  BY CleanupAssumption
<1>2. to \in Nat /\ to <= Len(reg) /\ i <= to
  BY <1>1 DEF min, Listing
<1> HIDE DEF from, to
<1>3. i > from
  BY DEF from
<1>4. /\ Len(SubSeq(reg, from + 1, to)) = to - from
      /\ \A j \in 1..(to - from) : SubSeq(reg, from + 1, to)[j] = reg[from + j]
  BY <1>1, <1>2, <1>3 DEF Listing
<1>5. i - from \in 1..(to - from) /\ from + (i - from) = i
  BY <1>1, <1>2, <1>3 DEF Listing
<1> QED
  BY <1>4, <1>5 DEF Present, pageOf, from, to

LEMMA ShortPageIsLast ==
    ASSUME NEW reg \in Listing, NEW n \in Nat \ {0}, NEW i \in 1..Len(reg),
           i > (n - 1) * PageSize, Len(pageOf(reg, n)) # PageSize
    PROVE  i <= n * PageSize
<1> DEFINE from == (n - 1) * PageSize
           to   == min(n * PageSize, Len(reg))
<1>1. from \in Nat /\ n * PageSize = from + PageSize /\ PageSize \in Nat \ {0}
  BY CleanupAssumption
<1> SUFFICES ASSUME i > from + PageSize
             PROVE  FALSE
  BY <1>1 DEF Listing
<1>2. to = from + PageSize /\ to <= Len(reg)
  BY <1>1 DEF min, Listing
<1> HIDE DEF from, to
<1>3. Len(SubSeq(reg, from + 1, to)) = to - from
  BY <1>1, <1>2 DEF Listing
<1> QED
  BY <1>1, <1>2, <1>3 DEF pageOf, from, to

LEMMA PagesAreOfTags ==
    ASSUME NEW reg \in Listing, NEW n \in Nat \ {0}
    PROVE  Present(pageOf(reg, n)) \subseteq Tag
<1> DEFINE from == (n - 1) * PageSize
           to   == min(n * PageSize, Len(reg))
<1>1. from \in Nat /\ to \in Nat /\ to <= Len(reg)
  BY CleanupAssumption DEF min, Listing
<1> HIDE DEF from, to
<1>2. SubSeq(reg, from + 1, to) \in Listing
  BY <1>1 DEF Listing
<1> QED
  BY <1>2 DEF pageOf, Present, Listing, from, to
-----------------------------------------------------------------------------
(* The types.  What a pass does with its own state is one of four things.  *)
PassTypeOK ==
    /\ pc \in [Cleaner -> {"idle", "list", "delete"}]
    /\ rows \in [Cleaner -> Rows]
    /\ page \in [Cleaner -> 1..MaxPages]
    /\ names \in [Cleaner -> SUBSET Tag]
    /\ stale \in [Cleaner -> SUBSET Pipeline]

LEMMA WatchHasType ==
    ASSUME TypeOK, NEW spoilt, Watch(spoilt)
    PROVE  kept' \in [Cleaner -> SUBSET Pipeline]
BY DEF TypeOK, Watch, living

LEMMA EndHasType ==
    ASSUME TypeOK, NEW c \in Cleaner, end(c)
    PROVE  PassTypeOK'
BY CleanupAssumption DEF TypeOK, PassTypeOK, end, Rows, None

LEMMA ConcludeHasType ==
    ASSUME TypeOK, NEW c \in Cleaner, NEW listed \in SUBSET Tag, conclude(c, listed)
    PROVE  PassTypeOK'
<1>1. CASE missing(c, listed) = {}
  BY <1>1, EndHasType DEF conclude
<1>2. CASE missing(c, listed) # {}
  <2>1. missing(c, listed) \in SUBSET Pipeline
    BY DEF missing
  <2> QED
    BY <1>2, <2>1 DEF conclude, TypeOK, PassTypeOK
<1> QED
  BY <1>1, <1>2

LEMMA TypeAtFirst == ASSUME Init PROVE TypeOK
<1>1. registry \in Listing
  BY FS_CardinalityType, CleanupAssumption DEF Init, Listing
<1> QED
  BY <1>1, CleanupAssumption DEF Init, TypeOK, Listing, Rows, None

LEMMA TypeStep ==
    ASSUME TypeOK, [Next]_vars
    PROVE  TypeOK'
<1> USE CleanupAssumption
<1>t. registry \in Listing /\ Distinct(registry) /\ artifacts \in Rows
  BY DEF TypeOK, Listing
<1> DEFINE Shared == /\ registry' \in Listing /\ Distinct(registry)'
                     /\ artifacts' \in Rows
                     /\ changes' \in 0..MaxChanges /\ faults' \in 0..MaxFaults
                     /\ \E spoilt : Watch(spoilt)
<1>0. ASSUME Shared, PassTypeOK'
      PROVE  TypeOK'
  BY <1>0, WatchHasType DEF TypeOK, PassTypeOK, Listing
<1>1. ASSUME NEW c \in Cleaner, Read(c)
      PROVE  TypeOK'
  <2>1. Shared
    BY <1>1, <1>t DEF Read, TypeOK
  <2>2. PassTypeOK'
    BY <1>1 DEF Read, TypeOK, PassTypeOK
  <2> QED
    BY <1>0, <2>1, <2>2
<1>2. ASSUME NEW c \in Cleaner, Page(c)
      PROVE  TypeOK'
  <2> DEFINE listed == names[c] \cup Present(pageOf(registry, page[c]))
  <2>1. Shared
    BY <1>2, <1>t DEF Page, TypeOK
  <2>2. listed \in SUBSET Tag
    BY <1>t, PagesAreOfTags DEF TypeOK
  <2>3. CASE conclude(c, listed)
    BY <1>0, <2>1, <2>2, <2>3, ConcludeHasType
  <2>4. CASE /\ page[c] < MaxPages
             /\ names' = [names EXCEPT ![c] = listed]
             /\ page' = [page EXCEPT ![c] = @ + 1]
             /\ UNCHANGED <<pc, rows, stale>>
    <3>1. PassTypeOK'
      BY <2>2, <2>4 DEF TypeOK, PassTypeOK
    <3> QED
      BY <1>0, <2>1, <3>1
  <2> QED
    BY <1>2, <2>3, <2>4 DEF Page
<1>3. ASSUME NEW c \in Cleaner, PageDown(c) \/ GiveUp(c) \/ Delete(c)
      PROVE  TypeOK'
  <2>1. Shared
    BY <1>3, <1>t DEF PageDown, GiveUp, Delete, fault, TypeOK, Rows
  <2>2. PassTypeOK'
    BY <1>3, EndHasType DEF PageDown, GiveUp, Delete
  <2> QED
    BY <1>0, <2>1, <2>2
<1>4. ASSUME NEW c \in Cleaner, PageRefused(c) \/ PageBlank(c)
      PROVE  TypeOK'
  <2>1. Shared
    BY <1>4, <1>t DEF PageRefused, PageBlank, fault, TypeOK
  <2>2. names[c] \in SUBSET Tag
    BY DEF TypeOK
  <2>3. PassTypeOK'
    BY <1>4, <2>2, EndHasType, ConcludeHasType DEF PageRefused, PageBlank
  <2> QED
    BY <1>0, <2>1, <2>3
<1>5. ASSUME NEW t \in Tag, Push(t) \/ Remove(t) \/ \E p \in Pipeline : Record(p, t)
      PROVE  TypeOK'
  <2>1. PassTypeOK'
    BY <1>5 DEF Push, Remove, Record, pass, TypeOK, PassTypeOK
  <2>2. /\ changes' \in 0..MaxChanges /\ faults' \in 0..MaxFaults
        /\ \E spoilt : Watch(spoilt)
    <3>1. change /\ UNCHANGED faults
      BY <1>5 DEF Push, Remove, Record
    <3>2. \E spoilt : Watch(spoilt)
      BY <1>5 DEF Push, Remove, Record
    <3> QED
      BY <3>1, <3>2 DEF change, TypeOK
  <2>3. CASE Push(t)
    BY <1>0, <1>t, <2>1, <2>2, <2>3, PushLists DEF Push
  <2>4. CASE Remove(t)
    BY <1>0, <1>t, <2>1, <2>2, <2>4, RemoveLists DEF Remove
  <2>5. CASE \E p \in Pipeline : Record(p, t)
    <3>1. artifacts' \in Rows
      BY <1>t, <2>5 DEF Record, Rows
    <3> QED
      BY <1>0, <1>t, <2>1, <2>2, <2>5, <3>1 DEF Record
  <2> QED
    BY <1>5, <2>3, <2>4, <2>5
<1>6. CASE UNCHANGED vars
  BY <1>6 DEF vars, pass, TypeOK
<1> QED
  BY <1>1, <1>2, <1>3, <1>4, <1>5, <1>6 DEF Next, Clean
-----------------------------------------------------------------------------
(* What a pass still lists it has read, and it stands in the registry      *)
(* beyond the pages read unless it has been named.                         *)
InReach(c, p) ==
    \E i \in 1..Len(registry) :
        /\ registry[i] = artifacts[p]
        /\ i > (page[c] - 1) * PageSize \/ artifacts[p] \in names[c]

PassInv(c) ==
    /\ pc[c] = "idle" => page[c] = 1 /\ kept[c] = {}
    /\ pc[c] # "delete" => stale[c] = {}
    /\ pc[c] = "delete" => stale[c] \cap kept[c] = {}
    /\ pc[c] = "list" =>
          \A p \in kept[c] : rows[c][p] = artifacts[p] /\ InReach(c, p)

CleanupInv == TypeOK /\ \A c \in Cleaner : PassInv(c)

(* What a step leaves in kept was there, and is living and unchanged.      *)
LEMMA WatchKeeps ==
    ASSUME TypeOK, NEW spoilt, Watch(spoilt), NEW c \in Cleaner
    PROVE  /\ pc'[c] = "idle" \/ c \in spoilt => kept'[c] = {}
           /\ pc[c] # "idle" =>
                 \A p \in kept'[c] : /\ p \in kept[c] /\ p \in Pipeline
                                     /\ artifacts'[p] = artifacts[p]
                                     /\ artifacts[p] \in Present(registry')
           /\ pc[c] = "idle" =>
                 \A p \in kept'[c] : /\ p \in Pipeline
                                     /\ artifacts[p] \in Present(registry)
BY DEF Watch, living, TypeOK

(* A pass that the step is not about                                       *)
Aside(c) ==
    /\ pc'[c] = pc[c] /\ rows'[c] = rows[c] /\ page'[c] = page[c]
    /\ names'[c] = names[c] /\ stale'[c] = stale[c]

LEMMA AsideKeeps ==
    ASSUME TypeOK, NEW spoilt, Watch(spoilt), NEW c \in Cleaner, PassInv(c), Aside(c),
           \/ registry' = registry
           \/ \E t \in Tag : t \notin Present(registry) /\ registry' = <<t>> \o registry
           \/ c \in midway => c \in spoilt
    PROVE  PassInv(c)'
<1> USE DEF PassInv, Aside
<1>1. CASE pc[c] # "list"
  BY <1>1, WatchKeeps DEF TypeOK
<1>2. CASE pc[c] = "list"
  <2> SUFFICES ASSUME NEW p \in kept'[c]
               PROVE  rows'[c][p] = artifacts'[p] /\ InReach(c, p)'
    BY <1>2
  <2>1. /\ p \in kept[c] /\ p \in Pipeline /\ artifacts'[p] = artifacts[p]
        /\ artifacts[p] \in Present(registry') /\ c \notin spoilt
    BY <1>2, WatchKeeps
  <2>2. rows'[c][p] = artifacts'[p] /\ InReach(c, p)
    BY <1>2, <2>1
  <2>3. CASE registry' = registry
    BY <2>1, <2>2, <2>3 DEF InReach
  <2>4. ASSUME NEW t \in Tag, t \notin Present(registry), registry' = <<t>> \o registry
        PROVE  InReach(c, p)'
    <3>1. PICK i \in 1..Len(registry) :
              /\ registry[i] = artifacts[p]
              /\ i > (page[c] - 1) * PageSize \/ artifacts[p] \in names[c]
      BY <2>2 DEF InReach
    <3>2. i \in Nat /\ Len(registry) \in Nat /\ (page[c] - 1) * PageSize \in Nat
      BY CleanupAssumption DEF TypeOK
    <3>3. i + 1 \in 1..Len(registry') /\ registry'[i + 1] = artifacts'[p]
      BY <2>1, <2>4, <3>1, <3>2, PushLists DEF TypeOK, Listing
    <3>4. i + 1 > (page'[c] - 1) * PageSize \/ artifacts'[p] \in names'[c]
      BY <2>1, <3>1, <3>2
    <3> QED
      BY <3>3, <3>4 DEF InReach
  <2>5. CASE c \notin midway
    <3>1. page[c] = 1
      BY <1>2, <2>5, CleanupAssumption DEF midway, TypeOK
    <3>2. (page'[c] - 1) * PageSize = 0
      BY <3>1, CleanupAssumption
    <3>3. PICK i \in 1..Len(registry') : registry'[i] = artifacts'[p]
      BY <2>1 DEF Present
    <3>4. i > 0
      OBVIOUS
    <3> QED
      BY <2>2, <3>2, <3>3, <3>4 DEF InReach
  <2>6. CASE c \in midway => c \in spoilt
    BY <2>1, <2>5, <2>6
  <2>7. CASE \E t \in Tag : t \notin Present(registry) /\ registry' = <<t>> \o registry
    BY <2>2, <2>4, <2>7
  <2> QED
    BY <2>3, <2>6, <2>7
<1> QED
  BY <1>1, <1>2

LEMMA EndKeeps ==
    ASSUME TypeOK, NEW spoilt, Watch(spoilt), NEW c \in Cleaner, end(c)
    PROVE  PassInv(c)'
BY WatchKeeps DEF end, PassInv, TypeOK

(* The listing is over and has named all that still is in the registry.    *)
LEMMA ConcludeKeeps ==
    ASSUME TypeOK, NEW spoilt, Watch(spoilt), NEW c \in Cleaner, PassInv(c),
           pc[c] = "list", NEW listed, conclude(c, listed),
           \A p \in kept'[c] : artifacts[p] \in listed
    PROVE  PassInv(c)'
<1>1. CASE missing(c, listed) = {}
  BY <1>1, EndKeeps DEF conclude
<1>2. CASE missing(c, listed) # {}
  <2>1. pc'[c] = "delete" /\ stale'[c] = missing(c, listed)
    BY <1>2 DEF conclude, TypeOK
  <2>2. \A p \in kept'[c] : rows[c][p] \in listed
    BY WatchKeeps DEF PassInv
  <2> QED
    BY <2>1, <2>2 DEF PassInv, missing
<1> QED
  BY <1>1, <1>2

LEMMA OthersAside ==
    ASSUME TypeOK, NEW c \in Cleaner,
           \/ Read(c) \/ Page(c) \/ Delete(c) \/ PageDown(c) \/ PageRefused(c)
           \/ PageBlank(c) \/ GiveUp(c)
    PROVE  \A d \in Cleaner \ {c} : Aside(d)
BY DEF Read, Page, Delete, PageDown, PageRefused, PageBlank, GiveUp, end, conclude,
       Aside, TypeOK

LEMMA PassStep ==
    ASSUME TypeOK, NEW c \in Cleaner, PassInv(c),
           \/ Read(c) \/ Page(c) \/ Delete(c) \/ PageDown(c) \/ PageRefused(c)
           \/ PageBlank(c) \/ GiveUp(c)
    PROVE  PassInv(c)'
<1> USE CleanupAssumption
<1>t. registry \in Listing /\ page[c] \in Nat \ {0} /\ page[c] <= MaxPages
  BY DEF TypeOK, Listing
<1>1. CASE Read(c)
  <2>1. /\ pc'[c] = "list" /\ rows'[c] = artifacts /\ page'[c] = 1 /\ stale'[c] = {}
        /\ UNCHANGED <<registry, artifacts>> /\ Watch({}) /\ pc[c] = "idle"
    BY <1>1 DEF Read, PassInv, TypeOK
  <2> SUFFICES ASSUME NEW p \in kept'[c]
               PROVE  InReach(c, p)'
    BY <2>1 DEF PassInv
  <2>2. PICK i \in 1..Len(registry) : registry[i] = artifacts[p]
    BY <2>1, WatchKeeps DEF Present
  <2>3. (page'[c] - 1) * PageSize = 0 /\ i > 0
    BY <2>1
  <2> QED
    BY <2>1, <2>2, <2>3 DEF InReach
<1>2. CASE Page(c)
  <2> DEFINE items  == pageOf(registry, page[c])
             listed == names[c] \cup Present(items)
             over   == {d \in {c} : Len(registry) > PageSize * MaxPages}
  <2>1. pc[c] = "list" /\ Watch(over) /\ UNCHANGED <<registry, artifacts>>
    BY <1>2 DEF Page
  <2>2. ASSUME NEW p \in kept'[c]
        PROVE  /\ p \in kept[c] /\ rows[c][p] = artifacts[p]
               /\ Len(registry) <= PageSize * MaxPages
               /\ \E i \in 1..Len(registry) :
                     /\ registry[i] = artifacts[p]
                     /\ i > page[c] * PageSize \/ artifacts[p] \in listed
    <3>1. p \in kept[c] /\ c \notin over
      BY <2>1, WatchKeeps
    <3>2. PICK i \in 1..Len(registry) :
              /\ registry[i] = artifacts[p]
              /\ i > (page[c] - 1) * PageSize \/ artifacts[p] \in names[c]
      BY <2>1, <3>1 DEF PassInv, InReach
    <3>3. i > page[c] * PageSize \/ i <= page[c] * PageSize
      BY <1>t DEF Listing
    <3>4. i > page[c] * PageSize \/ artifacts[p] \in listed
      BY <1>t, <3>2, <3>3, PageHolds
    <3>5. Len(registry) <= PageSize * MaxPages
      BY <1>t, <3>1 DEF Listing
    <3> QED
      BY <2>1, <3>1, <3>2, <3>4, <3>5 DEF PassInv
  <2>3. CASE /\ page[c] < MaxPages
             /\ names' = [names EXCEPT ![c] = listed]
             /\ page' = [page EXCEPT ![c] = @ + 1]
             /\ UNCHANGED <<pc, rows, stale>>
    <3>1. /\ names'[c] = listed /\ page'[c] - 1 = page[c]
      BY <1>t, <2>3 DEF TypeOK
    <3>2. \A p \in kept'[c] : InReach(c, p)'
      BY <2>1, <2>2, <3>1 DEF InReach
    <3> QED
      BY <2>1, <2>2, <2>3, <3>2 DEF PassInv
  <2>4. CASE conclude(c, listed) /\ ~(Len(items) = PageSize /\ page[c] < MaxPages)
    <3>1. ASSUME NEW p \in kept'[c]
          PROVE  artifacts[p] \in listed
      <4>1. PICK i \in 1..Len(registry) :
                /\ registry[i] = artifacts[p]
                /\ i > (page[c] - 1) * PageSize \/ artifacts[p] \in names[c]
        BY <2>1, <2>2, <3>1 DEF PassInv, InReach
      <4>2. CASE Len(items) # PageSize /\ i > (page[c] - 1) * PageSize
        BY <1>t, <4>1, <4>2, ShortPageIsLast, PageHolds
      <4>3. CASE page[c] = MaxPages /\ i > (page[c] - 1) * PageSize
        <5>1. i <= page[c] * PageSize
          BY <1>t, <2>2, <4>3 DEF Listing
        <5> QED
          BY <1>t, <4>1, <4>3, <5>1, PageHolds
      <4> QED
        BY <1>t, <2>4, <4>1, <4>2, <4>3
    <3> QED
      BY <2>1, <2>4, <3>1, ConcludeKeeps
  <2> QED
    BY <1>2, <2>3, <2>4 DEF Page
<1>3. CASE Delete(c) \/ PageDown(c) \/ GiveUp(c)
  BY <1>3, EndKeeps DEF Delete, PageDown, GiveUp
<1>4. CASE PageRefused(c)
  <2>1. CASE page[c] = 1
    BY <1>4, <2>1, EndKeeps DEF PageRefused
  <2>2. CASE page[c] # 1
    <3>1. c \in midway /\ pc[c] = "list"
      BY <1>t, <1>4, <2>2 DEF PageRefused, midway
    <3>2. kept'[c] = {}
      BY <1>4, <3>1, WatchKeeps DEF PageRefused
    <3> QED
      BY <1>4, <2>2, <3>1, <3>2, ConcludeKeeps DEF PageRefused
  <2> QED
    BY <2>1, <2>2
<1>5. CASE PageBlank(c)
  <2>1. kept'[c] = {}
    BY <1>5, WatchKeeps DEF PageBlank
  <2> QED
    BY <1>5, <2>1, ConcludeKeeps DEF PageBlank
<1> QED
  BY <1>1, <1>2, <1>3, <1>4, <1>5

LEMMA CleanupStep ==
    ASSUME CleanupInv, [Next]_vars
    PROVE  CleanupInv'
<1>t. TypeOK /\ TypeOK' /\ \A c \in Cleaner : PassInv(c)
  BY TypeStep DEF CleanupInv
<1>1. ASSUME NEW c \in Cleaner,
             \/ Clean(c) \/ PageDown(c) \/ PageRefused(c) \/ PageBlank(c) \/ GiveUp(c)
      PROVE  \A d \in Cleaner : PassInv(d)'
  <2>1. UNCHANGED registry /\ \E spoilt : Watch(spoilt)
    BY <1>1 DEF Clean, Read, Page, Delete, PageDown, PageRefused, PageBlank, GiveUp
  <2>2. PassInv(c)'
    BY <1>t, <1>1, PassStep DEF Clean
  <2>3. \A d \in Cleaner \ {c} : Aside(d)
    BY <1>t, <1>1, OthersAside DEF Clean
  <2> QED
    BY <1>t, <2>1, <2>2, <2>3, AsideKeeps
<1>2. ASSUME NEW t \in Tag, Push(t) \/ Remove(t) \/ \E p \in Pipeline : Record(p, t)
      PROVE  \A d \in Cleaner : PassInv(d)'
  <2>1. \A d \in Cleaner : Aside(d)
    BY <1>2 DEF Push, Remove, Record, pass, Aside
  <2>2. CASE Push(t)
    BY <1>t, <2>1, <2>2, AsideKeeps DEF Push
  <2>3. CASE Remove(t)
    BY <1>t, <2>1, <2>3, AsideKeeps DEF Remove
  <2>4. CASE \E p \in Pipeline : Record(p, t)
    BY <1>t, <2>1, <2>4, AsideKeeps DEF Record
  <2> QED
    BY <1>2, <2>2, <2>3, <2>4
<1>3. ASSUME UNCHANGED vars PROVE \A d \in Cleaner : PassInv(d)'
  BY <1>t, <1>3 DEF vars, pass, PassInv, InReach
<1>4. \A d \in Cleaner : PassInv(d)'
  <2>1. CASE \E c \in Cleaner : \/ Clean(c) \/ PageDown(c) \/ PageRefused(c)
                                \/ PageBlank(c) \/ GiveUp(c)
    BY <1>1, <2>1
  <2>2. CASE \E t \in Tag : Push(t) \/ Remove(t) \/ \E p \in Pipeline : Record(p, t)
    BY <1>2, <2>2
  <2> QED
    BY <1>3, <2>1, <2>2 DEF Next
<1> QED
  BY <1>t, <1>4 DEF CleanupInv, PassInv, InReach
-----------------------------------------------------------------------------
(* The types, that a listing has no tag twice, and that paginatedGet never *)
(* asks for a page past its limit.                                         *)
THEOREM TypeCorrect == Spec => []TypeOK
<1>1. TypeOK /\ [Next]_vars => TypeOK'
  BY TypeStep
<1> QED
  BY <1>1, TypeAtFirst, PTL DEF Spec

(* cleanupStaleTags never deletes an artifact that nobody replaced and     *)
(* whose tag the registry had all through the pass, with any number of     *)
(* passes, pushes and records between its pages, for any registry that     *)
(* fits the limit of pages.                                                *)
THEOREM LivingIsSpared == Spec => []LivingSpared
<1>1. Init => CleanupInv
  BY TypeAtFirst DEF CleanupInv, Init, PassInv
<1>2. CleanupInv /\ [Next]_vars => CleanupInv'
  BY CleanupStep
<1>3. CleanupInv => LivingSpared
  BY DEF CleanupInv, PassInv, LivingSpared, TypeOK
<1> QED
  BY <1>1, <1>2, <1>3, PTL DEF Spec
=============================================================================
