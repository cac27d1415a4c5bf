------------------------ MODULE ArtifactWritersProofs ------------------------
(***************************************************************************)
(* Proofs about ArtifactWriters, for any number of requests, passes,       *)
(* pipelines, tags and digests: the types, and that an artifact names only *)
(* tags the registry has had.                                              *)
(*                                                                         *)
(* The second needs to follow a tag all the way it takes: the registry     *)
(* gives it to a listing, the listing to the cache, to what a request is   *)
(* about to record and to the candidates a pass keeps, and these to the    *)
(* table.  Confirmed is the set of tags with a past in the registry, and   *)
(* the five predicates named after it say that each of those places holds  *)
(* no other; as that past only grows, every step keeps them.               *)
(***************************************************************************)
EXTENDS ArtifactWriters, TLAPS

(* The sets of rows and of arguments stay closed but where one is built.   *)
USE WritersAssumption DEF Writer

-----------------------------------------------------------------------------
(* What a writer carries once its tag has been checked, and a request from *)
(* the start, are arguments of record().                                   *)
Carries(w) == \/ pc[w] \in {"find", "write"}
              \/ w \in Sync /\ pc[w] = "digest"

InHand ==
    /\ \A w \in Writer : Carries(w) => args[w] \in Args /\ args[w].tag \in Tag
    /\ \A s \in Sync : pc[s] = "list" => args[s] \in Args

TypeInv == TypeOK /\ InHand

(* The rows and arguments that are none, and the fields of the others.     *)
LEMMA Rows ==
    /\ NoArtifact \notin Artifact
    /\ NoLog \notin Logged
    /\ \A row \in Artifact : row.tag \in Tag /\ row.digest \in Digest \cup {NoDigest}
    /\ \A row \in Logged : row.tag \in Tag /\ row.digest \in Digest \cup {NoDigest}
    /\ \A a \in Args : /\ a.pipeline \in Pipeline
                      /\ a.digest \in Digest \cup {NoDigest}
                      /\ a.source \in 0..MaxTime
BY DEF Artifact, NoArtifact, Logged, NoLog, Args

(* The types hold at the start ...                                         *)
LEMMA InitType == Init => TypeInv
<1> SUFFICES ASSUME Init PROVE TypeInv
  OBVIOUS
<1>1. registry \in [Tag -> Digest \cup {NoDigest}] /\ ever \subseteq Tag \X Digest
  BY DEF Init, Present
<1>2. logged \in [Pipeline -> Logged \cup {NoLog}]
  <2> DEFINE L == {l \in Logged : l.status = "success" /\ l.digest = NoDigest}
  <2>1. logged \in [Pipeline -> {NoLog} \cup L]
    BY DEF Init
  <2>2. L \subseteq Logged
    OBVIOUS
  <2> HIDE DEF L
  <2> QED
    BY <2>1, <2>2
<1>3. InHand
  BY DEF Init, InHand, Carries
<1>4. listed \subseteq SUBSET Tag /\ \A m, n \in listed : m = n
  BY DEF Init, Present
<1> QED
  BY <1>1, <1>2, <1>3, <1>4 DEF Init, TypeInv, TypeOK, Unknown, Nothing

(* ... and every step of a request, a pass and the world keeps them.       *)
LEMMA TypeStep == TypeInv /\ [Next]_vars => TypeInv'
<1> SUFFICES ASSUME TypeInv, [Next]_vars PROVE TypeInv'
  OBVIOUS
<1> USE DEF TypeInv, TypeOK, InHand, Carries, goto, proceed, end, fault,
        change, world, workers, Nothing, Unknown
<1>1. ASSUME NEW s \in Sync, Receive(s) PROVE TypeInv'
  <2>1. PICK p \in Pipeline, t \in Tag \cup {NoTag}, time \in 1..MaxTime,
             d \in Digest \cup {NoDigest} :
           args' = [args EXCEPT ![s] = [pipeline |-> p, tag |-> t,
                                        digest |-> d, source |-> time]]
    BY <1>1 DEF Receive
  <2> DEFINE a == [pipeline |-> p, tag |-> t, digest |-> d, source |-> time]
  <2>2. a \in Args
    BY DEF Args
  <2>3. args' = [args EXCEPT ![s] = a]
    BY <2>1
  <2> HIDE DEF a
  <2> QED
    BY <1>1, <2>2, <2>3 DEF Receive
<1>2. ASSUME NEW s \in Sync, Verify(s) PROVE TypeInv'
  <2>1. Listing \subseteq Tag
    BY DEF Listing, Present
  <2>2. CASE end(s)
    BY <1>2, <2>1, <2>2 DEF Verify
  <2>3. CASE ~end(s)
    <3>1. PICK t \in verifiedTag(s, Listing) :
             /\ args' = [args EXCEPT ![s].tag = t]
             /\ goto(s, "digest")
             /\ UNCHANGED <<found, rows, digests>>
      BY <1>2, <2>3 DEF Verify
    <3>2. t \in Tag
      BY <2>1, <3>1 DEF verifiedTag
    <3>3. args[s] \in Args
      BY <1>2 DEF Verify
    <3>4. /\ [args[s] EXCEPT !.tag = t] \in Args
          /\ [args[s] EXCEPT !.tag = t].tag = t
      BY <3>2, <3>3 DEF Args
    <3> DEFINE a == [args[s] EXCEPT !.tag = t]
    <3>5. args' = [args EXCEPT ![s] = a]
      BY <3>1
    <3>6. a \in Args /\ a.tag \in Tag
      BY <3>2, <3>4
    <3> HIDE DEF a
    <3>7. listed' \subseteq SUBSET Tag /\ \A m, n \in listed' : m = n
      BY <1>2, <2>1 DEF Verify
    <3>8. UNCHANGED <<registry, ever, logged, artifacts, found, rows, digests,
                      changes, faults>>
      BY <1>2, <3>1 DEF Verify
    <3>9. pc' = [pc EXCEPT ![s] = "digest"]
      BY <3>1
    <3>10. TypeOK'
      BY <3>5, <3>6, <3>7, <3>8, <3>9
    <3>11. InHand'
      BY <3>5, <3>6, <3>9
    <3> QED
      BY <3>10, <3>11
  <2> QED
    BY <2>2, <2>3
<1>3. ASSUME NEW s \in Sync, ResolveDigest(s) PROVE TypeInv'
  <2>1. args[s] \in Args /\ args[s].tag \in Tag
    BY <1>3 DEF ResolveDigest
  <2>2. ASSUME NEW d \in Digest \cup {NoDigest}
        PROVE  /\ [args[s] EXCEPT !.digest = d] \in Args
               /\ [args[s] EXCEPT !.digest = d].tag = args[s].tag
    BY <2>1 DEF Args
  <2>3. PICK d \in Digest \cup {NoDigest} :
           args' = [args EXCEPT ![s] = [args[s] EXCEPT !.digest = d]]
    BY <1>3, <2>1, Rows DEF ResolveDigest
  <2> QED
    BY <1>3, <2>1, <2>2, <2>3 DEF ResolveDigest
<1>4. ASSUME NEW s \in Sync, DigestFails(s) PROVE TypeInv'
  BY <1>4 DEF DigestFails
<1>5. ASSUME NEW s \in Sync, Decline(s) PROVE TypeInv'
  BY <1>5 DEF Decline
<1>6. ASSUME NEW w \in Writer, FindRow(w) PROVE TypeInv'
  <2>1. args[w] \in Args /\ args[w].tag \in Tag
    BY <1>6 DEF FindRow
  <2>2. artifacts[args[w].pipeline] \in Artifact \cup {NoArtifact}
    BY <2>1, Rows
  <2> QED
    BY <1>6, <2>1, <2>2 DEF FindRow
<1>7. ASSUME NEW w \in Writer, Write(w) PROVE TypeInv'
  <2>1. args[w] \in Args /\ args[w].tag \in Tag
    BY <1>7 DEF Write
  <2>2. stored(w) \in Artifact
    <3>1. found[w] # NoArtifact => found[w] \in Artifact
      OBVIOUS
    <3> QED
      BY <2>1, <3>1, Rows DEF stored, Artifact
  <2> HIDE DEF stored
  <2> QED
    BY <1>7, <2>2 DEF Write
<1>8. ASSUME NEW f \in Filler, Read(f) PROVE TypeInv'
  BY <1>8 DEF Read
<1>9. ASSUME NEW f \in Filler, List(f) PROVE TypeInv'
  BY <1>9 DEF List
<1>10. ASSUME NEW f \in Filler, Resolve(f) PROVE TypeInv'
  BY <1>10 DEF Resolve
<1>11. ASSUME NEW f \in Filler, Finish(f) PROVE TypeInv'
  BY <1>11 DEF Finish
<1>12. ASSUME NEW f \in Filler, NEW p \in Pipeline, Consider(f, p) PROVE TypeInv'
  <2>1. rows[f][p] \in Logged
    BY <1>12 DEF Consider
  <2>2. /\ rows[f][p].tag \in Tag
        /\ digestFor(f, p) \in Digest \cup {NoDigest}
    BY <2>1, Rows DEF digestFor
  <2> DEFINE a == [pipeline |-> p, tag |-> rows[f][p].tag,
                   digest |-> digestFor(f, p), source |-> 0]
  <2>3. a \in Args /\ a.tag \in Tag
    BY <2>2 DEF Args
  <2>4. \/ args' = args /\ pc' = pc
        \/ args' = [args EXCEPT ![f] = a] /\ pc' = [pc EXCEPT ![f] = "find"]
    BY <1>12 DEF Consider
  <2> HIDE DEF a
  <2>5. rows' \in [Filler -> [Pipeline -> Logged \cup {NoLog}]]
    BY <1>12 DEF Consider
  <2>6. UNCHANGED <<world, artifacts, found, digests, changes, faults>>
    BY <1>12 DEF Consider
  <2>7. /\ args' \in [Writer -> Args \cup {NoArgs}]
        /\ pc' \in [Writer -> {"idle", "list", "digest", "next", "find", "write", "done"}]
    BY <2>3, <2>4
  <2>8. TypeOK'
    BY <2>5, <2>6, <2>7
  <2>9. InHand'
    BY <2>3, <2>4
  <2> QED
    BY <2>8, <2>9
<1>13. ASSUME NEW f \in Filler, ResolveFails(f) PROVE TypeInv'
  BY <1>13 DEF ResolveFails
<1>14. ASSUME NEW w \in Writer, WriteFails(w) PROVE TypeInv'
  BY <1>14 DEF WriteFails
<1>15. ASSUME NEW w \in Writer, Abort(w) PROVE TypeInv'
  BY <1>15 DEF Abort
<1>16. ASSUME NEW t \in Tag, Remove(t) PROVE TypeInv'
  BY <1>16 DEF Remove
<1>17. ASSUME NEW t \in Tag, NEW d \in Digest, Push(t, d) PROVE TypeInv'
  BY <1>17 DEF Push
<1>18. ASSUME NEW p \in Pipeline, ResolveTag(p) PROVE TypeInv'
  BY <1>18 DEF ResolveTag
<1>19. ASSUME NEW p \in Pipeline, Clean(p) PROVE TypeInv'
  BY <1>19 DEF Clean
<1>20. CASE Expire \/ UNCHANGED vars
  BY <1>20 DEF Expire, vars
<1> QED
  BY <1>1, <1>2, <1>3, <1>4, <1>5, <1>6, <1>7, <1>8, <1>9, <1>10, <1>11,
     <1>12, <1>13, <1>14, <1>15, <1>16, <1>17, <1>18, <1>19, <1>20, Zenon
     DEF Next, Pass, Writer

(* The types, after any number of steps.                                   *)
THEOREM TypeCorrect == Spec => []TypeOK
<1>1. TypeInv => TypeOK
  BY DEF TypeInv
<1> QED
  BY InitType, TypeStep, <1>1, PTL DEF Spec

-----------------------------------------------------------------------------
(* The tags the registry has had.                                          *)
Confirmed == {t \in Tag : \E d \in Digest : <<t, d>> \in ever}

(* The stations of a tag on its way to the table.                          *)
RegistryConfirmed == \A t \in Tag : registry[t] # NoDigest => t \in Confirmed

CacheConfirmed == \A names \in listed : names \subseteq Confirmed

CarriedConfirmed == \A w \in Writer : Carries(w) => args[w].tag \in Confirmed

RowsConfirmed ==
    \A f \in Filler, p \in Pipeline :
        pc[f] # "list" /\ rows[f][p] # NoLog => rows[f][p].tag \in Confirmed

TableConfirmed ==
    \A p \in Pipeline : artifacts[p] # NoArtifact => artifacts[p].tag \in Confirmed

Inv == /\ TypeInv
       /\ RegistryConfirmed /\ CacheConfirmed /\ CarriedConfirmed
       /\ RowsConfirmed /\ TableConfirmed

(* What the registry has had it will always have had.                      *)
LEMMA ConfirmedGrows == TypeInv /\ [Next]_vars => Confirmed \subseteq Confirmed'
<1> SUFFICES ASSUME [Next]_vars PROVE ever \subseteq ever'
  BY DEF Confirmed
<1> QED
  BY DEF Next, Pass, Receive, Verify, ResolveDigest, DigestFails, Decline, Read,
     List, Resolve, ResolveFails, Consider, Finish, FindRow, Write, WriteFails,
     Abort, Push, Remove, Expire, ResolveTag, Clean, world, vars

(* At the start only the registry and the cached listing hold tags.        *)
LEMMA InitConfirmed == Init => Inv
<1> SUFFICES ASSUME Init PROVE Inv
  OBVIOUS
<1>1. RegistryConfirmed
  BY DEF Init, RegistryConfirmed, Confirmed, Present
<1>2. Present \subseteq Confirmed
  BY <1>1 DEF Present, RegistryConfirmed
<1>3. CacheConfirmed
  BY <1>2 DEF Init, CacheConfirmed
<1>4. CarriedConfirmed
  BY DEF Init, CarriedConfirmed, Carries
<1>5. RowsConfirmed /\ TableConfirmed
  BY DEF Init, RowsConfirmed, TableConfirmed, Nothing
<1> QED
  BY <1>1, <1>3, <1>4, <1>5, InitType DEF Inv

(* A pushed tag is one the registry has had, from that very step.          *)
LEMMA RegistryStep == Inv /\ [Next]_vars => RegistryConfirmed'
<1> SUFFICES ASSUME Inv, [Next]_vars PROVE RegistryConfirmed'
  OBVIOUS
<1> USE DEF Inv, TypeInv, TypeOK, RegistryConfirmed, world
<1>1. ASSUME NEW t \in Tag, NEW d \in Digest, Push(t, d) PROVE RegistryConfirmed'
  BY <1>1, ConfirmedGrows DEF Push, Confirmed
<1>2. ASSUME NEW t \in Tag, Remove(t) PROVE RegistryConfirmed'
  BY <1>2, ConfirmedGrows DEF Remove
<1>3. CASE registry' = registry
  BY <1>3, ConfirmedGrows
<1> QED
  BY <1>1, <1>2, <1>3 DEF Next, Pass, Receive, Verify, ResolveDigest,
     DigestFails, Decline, Read, List, Resolve, ResolveFails, Consider, Finish,
     FindRow, Write, WriteFails, Abort, Expire, ResolveTag, Clean, vars

(* What is listed, from the cache or afresh, the registry has had.         *)
LEMMA ListingConfirmed == Inv => Listing \subseteq Confirmed
BY DEF Inv, RegistryConfirmed, CacheConfirmed, Listing, Present

(* A listing that is cached is one the registry has given.                 *)
LEMMA CacheStep == Inv /\ [Next]_vars => CacheConfirmed'
<1> SUFFICES ASSUME Inv, [Next]_vars PROVE CacheConfirmed'
  OBVIOUS
<1>1. Confirmed \subseteq Confirmed'
  BY ConfirmedGrows DEF Inv
<1>2. ASSUME NEW s \in Sync, Verify(s) PROVE CacheConfirmed'
  BY <1>1, <1>2, ListingConfirmed DEF Verify, CacheConfirmed
<1>3. CASE listed' = {} \/ listed' = listed
  BY <1>1, <1>3 DEF Inv, CacheConfirmed
<1> QED
  BY <1>2, <1>3 DEF Next, Pass, Receive, ResolveDigest, DigestFails, Decline,
     Read, List, Resolve, ResolveFails, Consider, Finish, FindRow, Write,
     WriteFails, Abort, Push, Remove, Expire, ResolveTag, Clean, world, vars

(* A request carries a tag it found listed, a pass one of its rows.        *)
LEMMA CarriedStep == Inv /\ [Next]_vars => CarriedConfirmed'
<1> SUFFICES ASSUME Inv, [Next]_vars, NEW w \in Writer, Carries(w)'
             PROVE  args'[w].tag \in Confirmed'
  BY DEF CarriedConfirmed
<1>1. Confirmed \subseteq Confirmed'
  BY ConfirmedGrows DEF Inv
<1>2. TypeOK /\ InHand
  BY DEF Inv, TypeInv
<1>3. CASE Carries(w) /\ args'[w].tag = args[w].tag
  BY <1>1, <1>3 DEF Inv, CarriedConfirmed
<1>4. ASSUME w \in Sync, Verify(w) PROVE args'[w].tag \in Confirmed'
  <2>1. PICK t \in verifiedTag(w, Listing) : args' = [args EXCEPT ![w].tag = t]
    BY <1>2, <1>4 DEF Verify, end, goto, Carries, TypeOK
  <2>2. args[w] \in Args
    BY <1>2, <1>4 DEF Verify, InHand
  <2>3. args'[w].tag = t
    BY <1>2, <2>1, <2>2 DEF TypeOK, Args
  <2> QED
    BY <1>1, <2>1, <2>3, ListingConfirmed DEF verifiedTag
<1>5. ASSUME w \in Filler, NEW p \in Pipeline, Consider(w, p)
      PROVE  args'[w].tag \in Confirmed'
  <2>1. rows[w][p].tag \in Confirmed
    BY <1>5 DEF Consider, Inv, RowsConfirmed
  <2>2. args'[w].tag = rows[w][p].tag
    BY <1>2, <1>5 DEF Consider, Carries, TypeOK, goto
  <2> QED
    BY <1>1, <2>1, <2>2
<1>6. \/ Carries(w) /\ args'[w].tag = args[w].tag
      \/ w \in Sync /\ Verify(w)
      \/ w \in Filler /\ \E p \in Pipeline : Consider(w, p)
  <2> USE <1>2 DEF TypeOK, InHand, Carries, goto, proceed, end, world, workers
  <2>1. CASE pc' = pc /\ args' = args
    BY <2>1
  <2>2. ASSUME NEW s \in Sync, s # w,
               \/ Receive(s) \/ Verify(s) \/ ResolveDigest(s)
               \/ DigestFails(s) \/ Decline(s)
        PROVE  Carries(w) /\ args'[w].tag = args[w].tag
    BY <2>2 DEF Receive, Verify, ResolveDigest, DigestFails, Decline
  <2>3. ASSUME NEW s \in Sync, s = w,
               \/ Receive(s) \/ ResolveDigest(s) \/ DigestFails(s) \/ Decline(s)
        PROVE  Carries(w) /\ args'[w].tag = args[w].tag
    <3>1. args[w] \in Args => [args[w] EXCEPT !.digest =
                                  registry[args[w].tag]].tag = args[w].tag
      BY DEF Args
    <3> QED
      BY <2>3, <3>1 DEF Receive, ResolveDigest, DigestFails, Decline, Args
  <2>4. ASSUME NEW f \in Filler, NEW p \in Pipeline, Consider(f, p), f # w
        PROVE  Carries(w) /\ args'[w].tag = args[w].tag
    BY <2>4 DEF Consider
  <2>5. ASSUME NEW f \in Filler,
               Read(f) \/ List(f) \/ Resolve(f) \/ ResolveFails(f) \/ Finish(f)
        PROVE  Carries(w) /\ args'[w].tag = args[w].tag
    BY <2>5 DEF Read, List, Resolve, ResolveFails, Finish
  <2>6. ASSUME NEW x \in Writer, FindRow(x) \/ Write(x) \/ WriteFails(x) \/ Abort(x)
        PROVE  Carries(w) /\ args'[w].tag = args[w].tag
    BY <2>6 DEF FindRow, Write, WriteFails, Abort
  <2>7. CASE \/ Expire \/ UNCHANGED vars
             \/ \E t \in Tag : Remove(t) \/ \E d \in Digest : Push(t, d)
             \/ \E p \in Pipeline : ResolveTag(p) \/ Clean(p)
    BY <2>1, <2>7 DEF Expire, Remove, Push, ResolveTag, Clean, vars
  <2> QED
    BY <2>2, <2>3, <2>4, <2>5, <2>6, <2>7 DEF Next, Pass
<1> QED
  BY <1>3, <1>4, <1>5, <1>6

(* A pass keeps rows of listed tags only.                                  *)
LEMMA RowsStep == Inv /\ [Next]_vars => RowsConfirmed'
<1> SUFFICES ASSUME Inv, [Next]_vars, NEW f \in Filler, NEW p \in Pipeline,
                    pc'[f] # "list", rows'[f][p] # NoLog
             PROVE  rows'[f][p].tag \in Confirmed'
  BY DEF RowsConfirmed
<1>1. Confirmed \subseteq Confirmed'
  BY ConfirmedGrows DEF Inv
<1>2. TypeOK
  BY DEF Inv, TypeInv
<1>3. CASE pc[f] # "list" /\ rows'[f][p] = rows[f][p]
  BY <1>1, <1>3 DEF Inv, RowsConfirmed
<1>4. ASSUME List(f) PROVE rows'[f][p].tag \in Confirmed'
  BY <1>1, <1>2, <1>4 DEF List, TypeOK, Inv, RegistryConfirmed, Present
<1>5. (pc[f] # "list" /\ rows'[f][p] = rows[f][p]) \/ List(f)
  <2> USE <1>2 DEF TypeOK, goto, proceed, end, world, workers, Nothing
  <2>1. ASSUME NEW g \in Filler, g # f,
               \/ Read(g) \/ List(g) \/ Resolve(g) \/ ResolveFails(g) \/ Finish(g)
               \/ \E q \in Pipeline : Consider(g, q)
        PROVE  pc[f] # "list" /\ rows'[f][p] = rows[f][p]
    BY <2>1 DEF Read, List, Resolve, ResolveFails, Finish, Consider
  <2>2. CASE Read(f) \/ Resolve(f) \/ ResolveFails(f) \/ Finish(f)
    BY <2>2 DEF Read, Resolve, ResolveFails, Finish
  <2>3. ASSUME NEW q \in Pipeline, Consider(f, q)
        PROVE  pc[f] # "list" /\ rows'[f][p] = rows[f][p]
    BY <2>3 DEF Consider
  <2>4. ASSUME NEW s \in Sync,
               \/ Receive(s) \/ Verify(s) \/ ResolveDigest(s)
               \/ DigestFails(s) \/ Decline(s)
        PROVE  pc[f] # "list" /\ rows'[f][p] = rows[f][p]
    BY <2>4 DEF Receive, Verify, ResolveDigest, DigestFails, Decline
  <2>5. ASSUME NEW w \in Writer, FindRow(w) \/ Write(w) \/ WriteFails(w) \/ Abort(w)
        PROVE  pc[f] # "list" /\ rows'[f][p] = rows[f][p]
    BY <2>5 DEF FindRow, Write, WriteFails, Abort
  <2>6. CASE \/ Expire \/ UNCHANGED vars
             \/ \E t \in Tag : Remove(t) \/ \E d \in Digest : Push(t, d)
             \/ \E q \in Pipeline : ResolveTag(q) \/ Clean(q)
    BY <2>6 DEF Expire, Remove, Push, ResolveTag, Clean, vars
  <2> QED
    BY <2>1, <2>2, <2>3, <2>4, <2>5, <2>6 DEF Next, Pass
<1> QED
  BY <1>3, <1>4, <1>5

(* What is written is what its writer carries.                             *)
LEMMA TableStep == Inv /\ [Next]_vars => TableConfirmed'
<1> SUFFICES ASSUME Inv, [Next]_vars PROVE TableConfirmed'
  OBVIOUS
<1>1. Confirmed \subseteq Confirmed'
  BY ConfirmedGrows DEF Inv
<1>2. TypeOK
  BY DEF Inv, TypeInv
<1>3. ASSUME NEW w \in Writer, Write(w) PROVE TableConfirmed'
  <2>1. stored(w).tag \in Confirmed
    BY <1>3 DEF Write, Inv, CarriedConfirmed, Carries, stored
  <2> HIDE DEF stored
  <2> QED
    BY <1>1, <1>2, <1>3, <2>1 DEF Write, TypeOK, Inv, TableConfirmed
<1>4. ASSUME NEW p \in Pipeline, Clean(p) PROVE TableConfirmed'
  BY <1>1, <1>2, <1>4 DEF Clean, TypeOK, Inv, TableConfirmed
<1>5. CASE artifacts' = artifacts
  BY <1>1, <1>5 DEF Inv, TableConfirmed
<1> QED
  BY <1>3, <1>4, <1>5 DEF Next, Pass, Receive, Verify, ResolveDigest,
     DigestFails, Decline, Read, List, Resolve, ResolveFails, Consider, Finish,
     FindRow, WriteFails, Abort, Push, Remove, Expire, ResolveTag, world, vars

(* An artifact names only tags the registry has had: what the backfill and *)
(* registry-sync check before they write survives the cached listing, the  *)
(* requests and passes that race, and a registry that moves meanwhile.     *)
THEOREM OnlyConfirmedTags == Spec => []ArtifactsWereInRegistry
<1>1. Inv /\ [Next]_vars => Inv'
  BY TypeStep, RegistryStep, CacheStep, CarriedStep, RowsStep, TableStep DEF Inv
<1>2. Inv => ArtifactsWereInRegistry
  BY DEF Inv, TableConfirmed, Confirmed, ArtifactsWereInRegistry
<1> QED
  BY InitConfirmed, <1>1, <1>2, PTL DEF Spec
=============================================================================
