--------------------------- MODULE ArtifactWriters ---------------------------
(***************************************************************************)
(* The writers of ci_pipeline_artifacts that check a tag against the image *)
(* registry: the registry-sync and scan-sync requests (RegistrySyncService *)
(* ::execute) and the backfill, which promotes the tags read out of build  *)
(* logs (PipelineTagService::backfillTagsFromBuildLog).  Both end in       *)
(* PipelineArtifactService::record: a SELECT, a decision and one           *)
(* autocommitted UPDATE or INSERT IGNORE.                                  *)
(*                                                                         *)
(* Every request to the registry and every statement is an action of its   *)
(* own; requests and passes interleave, the registry moves, the cleanup    *)
(* deletes rows.  One repository is followed and a registry is configured  *)
(* (without one, syncs record what they are told and nothing is            *)
(* backfilled).  Audit rows and commit statuses are left out.              *)
(***************************************************************************)
EXTENDS Naturals

CONSTANTS
    Sync,         \* registry-sync requests
    Filler,       \* passes of the backfill that may run at the same time
    Pipeline,     \* the pipelines that may have an artifact
    Tag,          \* the tags of the repository, pushed or only logged
    NoTag,        \* no tag
    Digest,       \* what a tag may point to
    NoDigest,     \* nothing: the tag, or its digest, is unknown
    MaxTime,      \* bound: values of source_updated_at are 1..MaxTime, 0 is NULL
    MaxChanges,   \* bound: changes of the registry, the logs, the cleanup
    MaxFaults     \* bound: requests and statements that fail

ASSUME WritersAssumption ==
    /\ Sync \cap Filler = {}
    /\ NoTag \notin Tag
    /\ NoDigest \notin Digest
    /\ MaxTime \in Nat
    /\ MaxChanges \in Nat
    /\ MaxFaults \in Nat

VARIABLES
    registry,     \* the digest of each tag, NoDigest of those it has not
    ever,         \* history: the tags with the digests they have had
    listed,       \* the listing cached for 30 seconds, if any: {} or {names}
    logged,       \* ci_build_tag_cache: what the log of each pipeline says
    artifacts,    \* ci_pipeline_artifacts: the row of each pipeline
    pc,           \* where each request and each pass stands
    args,         \* what it is about to record
    found,        \* the row its record() has read
    rows,         \* the candidates a pass has still to consider
    digests,      \* the digests a pass has been told of
    changes, faults

Writer == Sync \cup Filler

world  == <<registry, ever, listed, logged>>
vars   == <<world, artifacts, pc, args, found, rows, digests, changes, faults>>

Logged   == [tag : Tag, digest : Digest \cup {NoDigest},
             status : {"success", "failed"}]
NoLog    == [tag |-> NoTag, status |-> "none"]

Artifact   == [tag : Tag, digest : Digest \cup {NoDigest}, source : 0..MaxTime]
NoArtifact == [tag |-> NoTag, source |-> 0]

Args == [pipeline : Pipeline, tag : Tag \cup {NoTag},
         digest : Digest \cup {NoDigest}, source : 0..MaxTime]
NoArgs == [tag |-> NoTag]

Present == {t \in Tag : registry[t] # NoDigest}
Unknown == [t \in Tag |-> NoDigest]
Nothing == [p \in Pipeline |-> NoLog]

(* The types; at most one listing is cached, and no table, cache or        *)
(* candidate ever holds the tag of an untagged image.                      *)
TypeOK ==
    /\ registry \in [Tag -> Digest \cup {NoDigest}]
    /\ ever \subseteq Tag \X Digest
    /\ listed \subseteq SUBSET Tag
    /\ \A m, n \in listed : m = n
    /\ logged \in [Pipeline -> Logged \cup {NoLog}]
    /\ artifacts \in [Pipeline -> Artifact \cup {NoArtifact}]
    /\ pc \in [Writer -> {"idle", "list", "digest", "next", "find", "write", "done"}]
    /\ args \in [Writer -> Args \cup {NoArgs}]
    /\ found \in [Writer -> Artifact \cup {NoArtifact}]
    /\ rows \in [Filler -> [Pipeline -> Logged \cup {NoLog}]]
    /\ digests \in [Filler -> [Tag -> Digest \cup {NoDigest}]]
    /\ changes \in 0..MaxChanges
    /\ faults \in 0..MaxFaults

Init ==
    /\ registry \in [Tag -> Digest \cup {NoDigest}]
    /\ ever = {<<t, registry[t]>> : t \in Present}
    /\ listed \in {{}, {Present}}
    /\ logged \in [Pipeline -> {NoLog} \cup
                     {l \in Logged : l.status = "success" /\ l.digest = NoDigest}]
    /\ artifacts = [p \in Pipeline |-> NoArtifact]
    /\ pc = [w \in Writer |-> "idle"]
    /\ args = [w \in Writer |-> NoArgs]
    /\ found = [w \in Writer |-> NoArtifact]
    /\ rows = [f \in Filler |-> Nothing]
    /\ digests = [f \in Filler |-> Unknown]
    /\ changes = 0
    /\ faults = 0

goto(w, phase) == pc' = [pc EXCEPT ![w] = phase]

fault == faults < MaxFaults /\ faults' = faults + 1

(* A request is over for good; a pass goes on with its next candidate,     *)
(* which ends it when there is none.                                       *)
proceed(w) == goto(w, IF w \in Sync THEN "done" ELSE "next")

(* The request or the pass is over and what it knew is forgotten.          *)
end(w) ==
    /\ goto(w, IF w \in Sync THEN "done" ELSE "idle")
    /\ args' = [args EXCEPT ![w] = NoArgs]
    /\ found' = [found EXCEPT ![w] = NoArtifact]
    /\ rows' = [f \in Filler |-> IF f = w THEN Nothing ELSE rows[f]]
    /\ digests' = [f \in Filler |-> IF f = w THEN Unknown ELSE digests[f]]

-----------------------------------------------------------------------------
(* Registry-sync.  The CI reports a tag, or none for the newest of the     *)
(* repository, and may know its digest.                                    *)
Receive(s) ==
    /\ pc[s] = "idle"
    /\ \E p \in Pipeline, t \in Tag \cup {NoTag}, time \in 1..MaxTime,
          d \in Digest \cup {NoDigest} :
          /\ d = NoDigest \/ <<t, d>> \in ever
          /\ args' = [args EXCEPT ![s] = [pipeline |-> p, tag |-> t,
                                          digest |-> d, source |-> time]]
    /\ goto(s, "list")
    /\ UNCHANGED <<world, artifacts, found, rows, digests, changes, faults>>

(* Slips a change could introduce, for checking that the properties below  *)
(* notice them: a listing with the untagged images in it, a reported tag   *)
(* taken at its word, a row taken for good whatever its digest.            *)
ListingUntagged == Present \cup {NoTag}

AsReported(s, names) ==
    IF args[s].tag = NoTag THEN names ELSE {args[s].tag}

AnyRow(row, digest) == row # NoArtifact

(* The tags to check against: the cached ones if any, else those of the    *)
(* registry, which are cached.                                             *)
Listing == IF listed = {} THEN Present ELSE UNION listed

(* The tags the report may stand for: its own, or the first listed.        *)
verifiedTag(s, names) ==
    IF args[s].tag = NoTag THEN names ELSE names \cap {args[s].tag}

(* A tag the listing has is verified; without one there is nothing to      *)
(* record and only the audit row is written.                               *)
Verify(s) ==
    /\ pc[s] = "list"
    /\ listed' = {Listing}
    /\ \/ verifiedTag(s, Listing) = {} /\ end(s)
       \/ \E t \in verifiedTag(s, Listing) :
             /\ args' = [args EXCEPT ![s].tag = t]
             /\ goto(s, "digest")
             /\ UNCHANGED <<found, rows, digests>>
    /\ UNCHANGED <<registry, ever, logged, artifacts, changes, faults>>

(* The digest the registry gives for the tag now goes before the reported. *)
ResolveDigest(s) ==
    LET t == args[s].tag
    IN  /\ pc[s] = "digest"
        /\ args' = [args EXCEPT ![s].digest =
                      IF registry[t] # NoDigest THEN registry[t] ELSE @]
        /\ goto(s, "find")
        /\ UNCHANGED <<world, artifacts, found, rows, digests, changes, faults>>

(* The details cannot be had: the reported digest, or none, has to do.     *)
DigestFails(s) ==
    /\ pc[s] = "digest"
    /\ fault
    /\ goto(s, "find")
    /\ UNCHANGED <<world, artifacts, args, found, rows, digests, changes>>

(* ci_status is not success, or the pipeline is not known.                 *)
Decline(s) ==
    /\ pc[s] = "digest"
    /\ end(s)
    /\ UNCHANGED <<world, artifacts, changes, faults>>

-----------------------------------------------------------------------------
(* Backfill.  A pass reads the candidates of the builds that succeeded.    *)
succeeded(p) == logged[p].status = "success"

Read(f) ==
    LET candidates == [p \in Pipeline |->
                          IF succeeded(p) THEN logged[p] ELSE NoLog]
    IN  /\ pc[f] = "idle"
        /\ candidates # Nothing
        /\ rows' = [rows EXCEPT ![f] = candidates]
        /\ goto(f, "list")
        /\ UNCHANGED <<world, artifacts, args, found, digests, changes, faults>>

(* It drops those the registry does not list ...                           *)
List(f) ==
    /\ pc[f] = "list"
    /\ rows' = [rows EXCEPT ![f] = [p \in Pipeline |->
                  IF @[p].tag \in Present THEN @[p] ELSE NoLog]]
    /\ goto(f, "digest")
    /\ UNCHANGED <<world, artifacts, args, found, digests, changes, faults>>

(* ... and learns, once, the digests of the others.                        *)
Resolve(f) ==
    /\ pc[f] = "digest"
    /\ digests' = [digests EXCEPT ![f] = registry]
    /\ goto(f, "next")
    /\ UNCHANGED <<world, artifacts, args, found, rows, changes, faults>>

ResolveFails(f) ==
    /\ pc[f] = "digest"
    /\ fault
    /\ goto(f, "next")
    /\ UNCHANGED <<world, artifacts, args, found, rows, digests, changes>>

(* The digest of the registry goes before the one of the log.              *)
digestFor(f, p) ==
    LET row == rows[f][p]
    IN  IF digests[f][row.tag] # NoDigest THEN digests[f][row.tag] ELSE row.digest

(* A row with the digest of the candidate is good, whatever its tag.       *)
Same(row, digest) == row # NoArtifact /\ row.digest = digest

Consider(f, p) ==
    LET row == rows[f][p]
    IN  /\ pc[f] = "next"
        /\ row # NoLog
        /\ rows' = [rows EXCEPT ![f][p] = NoLog]
        /\ IF Same(artifacts[p], digestFor(f, p))
           THEN UNCHANGED <<pc, args>>
           ELSE /\ args' = [args EXCEPT ![f] =
                              [pipeline |-> p, tag |-> row.tag,
                               digest |-> digestFor(f, p), source |-> 0]]
                /\ goto(f, "find")
        /\ UNCHANGED <<world, artifacts, found, digests, changes, faults>>

Finish(f) ==
    /\ pc[f] = "next"
    /\ rows[f] = Nothing
    /\ end(f)
    /\ UNCHANGED <<world, artifacts, changes, faults>>

-----------------------------------------------------------------------------
(* record(): the row there is, and whether the new one may replace it.  A  *)
(* NULL time always may, and so does a digest that is another one.         *)
Keeps(row, new) ==
    /\ row # NoArtifact
    /\ new.source # 0 /\ new.source < row.source
    /\ new.digest \in {NoDigest, row.digest}

FindRow(w) ==
    LET row == artifacts[args[w].pipeline]
    IN  /\ pc[w] = "find"
        /\ found' = [found EXCEPT ![w] = row]
        /\ IF Keeps(row, args[w]) THEN proceed(w) ELSE goto(w, "write")
        /\ UNCHANGED <<world, artifacts, args, rows, digests, changes, faults>>

(* The row to store: no digest keeps the one that was found.               *)
stored(w) ==
    [tag    |-> args[w].tag,
     digest |-> IF args[w].digest = NoDigest /\ found[w] # NoArtifact
                THEN found[w].digest ELSE args[w].digest,
     source |-> args[w].source]

(* UPDATE of the row there is by now, if one was found; INSERT IGNORE if   *)
(* none was.  Either counts as written, also when it changes nothing.      *)
Write(w) ==
    LET p == args[w].pipeline
    IN  /\ pc[w] = "write"
        /\ artifacts' = IF found[w] = NoArtifact <=> artifacts[p] = NoArtifact
                        THEN [artifacts EXCEPT ![p] = stored(w)]
                        ELSE artifacts
        /\ proceed(w)
        /\ UNCHANGED <<world, args, found, rows, digests, changes, faults>>

(* A statement of record() fails: logged, the row is left alone.           *)
WriteFails(w) ==
    /\ pc[w] \in {"find", "write"}
    /\ fault
    /\ proceed(w)
    /\ UNCHANGED <<world, artifacts, args, found, rows, digests, changes>>

(* The registry is unreachable, the SELECT of the candidates or of a row   *)
(* fails, or the process dies.                                             *)
Abort(w) ==
    /\ pc[w] \notin {"idle", "done"}
    /\ fault
    /\ end(w)
    /\ UNCHANGED <<world, artifacts, changes>>

-----------------------------------------------------------------------------
(* The rest of the world: images are pushed and removed, the cached        *)
(* listing expires, resolve-tag reads a log, the cleanup deletes a row.    *)
change == changes < MaxChanges /\ changes' = changes + 1

workers == <<pc, args, found, rows, digests, faults>>

Push(t, d) ==
    /\ change
    /\ registry' = [registry EXCEPT ![t] = d]
    /\ ever' = ever \cup {<<t, d>>}
    /\ UNCHANGED <<listed, logged, artifacts, workers>>

Remove(t) ==
    /\ change
    /\ t \in Present
    /\ registry' = [registry EXCEPT ![t] = NoDigest]
    /\ UNCHANGED <<ever, listed, logged, artifacts, workers>>

Expire ==
    /\ listed # {}
    /\ listed' = {}
    /\ UNCHANGED <<registry, ever, logged, artifacts, workers, changes>>

ResolveTag(p) ==
    /\ change
    /\ \E l \in Logged : logged' = [logged EXCEPT ![p] = l]
    /\ UNCHANGED <<registry, ever, listed, artifacts, workers>>

Clean(p) ==
    /\ change
    /\ artifacts[p] # NoArtifact
    /\ artifacts' = [artifacts EXCEPT ![p] = NoArtifact]
    /\ UNCHANGED <<world, workers>>

-----------------------------------------------------------------------------
Pass(f) ==
    \/ Read(f) \/ List(f) \/ Resolve(f) \/ Finish(f)
    \/ \E p \in Pipeline : Consider(f, p)
    \/ FindRow(f) \/ Write(f)

Next ==
    \/ \E s \in Sync : \/ Receive(s) \/ Verify(s) \/ ResolveDigest(s)
                       \/ DigestFails(s) \/ Decline(s) \/ FindRow(s) \/ Write(s)
    \/ \E f \in Filler : Pass(f) \/ ResolveFails(f)
    \/ \E w \in Writer : WriteFails(w) \/ Abort(w)
    \/ \E t \in Tag : Remove(t) \/ \E d \in Digest : Push(t, d)
    \/ \E p \in Pipeline : ResolveTag(p) \/ Clean(p)
    \/ Expire

Spec == Init /\ [][Next]_vars

(* The worker starts a pass every half hour and a pass started is run; a   *)
(* request is run by its php-fpm worker.                                   *)
FairSpec ==
    /\ Spec
    /\ \A f \in Filler : WF_vars(Pass(f))
    /\ \A s \in Sync : WF_vars(Verify(s) \/ ResolveDigest(s)
                               \/ FindRow(s) \/ Write(s))

-----------------------------------------------------------------------------
(* An artifact only ever names a tag the registry has had: however stale   *)
(* the listing it was checked against, whatever the log or the report says *)
(* ("the registry explicitly reports it as existing").                     *)
ArtifactsWereInRegistry ==
    \A p \in Pipeline :
        artifacts[p] # NoArtifact =>
            \E d \in Digest : <<artifacts[p].tag, d>> \in ever

(* Once the world comes to rest, the builds whose candidate the registry   *)
(* has are recorded, and with the registry's digest where it is that tag:  *)
(* "versions that were pushed but whose callback was lost do not vanish".  *)
BackfillCatchesUp ==
    <>[](\A p \in Pipeline :
            succeeded(p) /\ logged[p].tag \in Present =>
                /\ artifacts[p] # NoArtifact
                /\ artifacts[p].tag = logged[p].tag =>
                      artifacts[p].digest = registry[logged[p].tag])

(* What the comment on the backfill and the manual say: it fills gaps and  *)
(* never replaces the tag a sync has recorded.                             *)
BackfillFillsGapsOnly ==
    [][\A f \in Filler, p \in Pipeline :
          Write(f) /\ artifacts[p] # NoArtifact =>
              artifacts'[p].tag = artifacts[p].tag]_vars

(* What the change log says: an older report no longer overwrites a newer  *)
(* one (of the same digest, which the code excepts).                       *)
OlderNeverOverwrites ==
    [][\A s \in Sync :
          Write(s) /\ Keeps(artifacts[args[s].pipeline], args[s]) =>
              artifacts' = artifacts]_vars
=============================================================================
