-------------------------- MODULE MCArtifactWriters --------------------------
(* A few requests and passes over one pipeline or two, two tags and two    *)
(* digests.                                                                *)
EXTENDS ArtifactWriters, TLC

Symmetry == Permutations(Sync) \cup Permutations(Filler)
              \cup Permutations(Digest)
=============================================================================
