------------------------- MODULE MCEntrypointLinks --------------------------
(* Instances of EntrypointLinks for TLC.                                   *)
EXTENDS EntrypointLinks, TLC

CONSTANTS x1, e1, e2, q1, q2, p1, w1, w2

Symmetry ==
  Permutations(Entrypoints) \cup Permutations(Queues) \cup Permutations(Workers)
=============================================================================
