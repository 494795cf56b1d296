--------------------------- MODULE MCPluginFiles ----------------------------
(* Instances of PluginFiles for TLC.                                       *)
EXTENDS PluginFiles, TLC

CONSTANTS p1, f1, f2, f3, a, b, w1, w2

Symmetry ==
  Permutations(Files) \cup Permutations(Filenames) \cup Permutations(Workers)
=============================================================================
