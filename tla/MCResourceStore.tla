-------------------------- MODULE MCResourceStore ---------------------------
(* An instance of ResourceStore for TLC.                                   *)
EXTENDS ResourceStore, TLC

CONSTANTS r1, r2, r3, g1, g2, w1, a, b, integer, Integer

\* "integer" is built in; " Integer " reads as the same name.
NormalNames == [n \in Names |-> IF n = Integer THEN integer ELSE n]

Symmetry == Permutations(Resources)
=============================================================================
