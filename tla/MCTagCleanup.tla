---------------------------- MODULE MCTagCleanup ----------------------------
(* Two passes and three tags on pages of one, so that a listing may end    *)
(* before, at or beyond the limit of pages.                                *)
EXTENDS TagCleanup, TLC

Symmetry == Permutations(Cleaner) \cup Permutations(Pipeline)
              \cup Permutations(Tag)
=============================================================================
