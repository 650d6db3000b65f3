----------------------------- MODULE MCTracking -----------------------------
(* Instances of Tracking for TLC. *)
EXTENDS Tracking, TLC

CONSTANTS h1, h2, h3, m1, m2, l1, l2

Symmetry == Permutations(Hits) \cup Permutations(Messages) \cup Permutations(Links)
=============================================================================
