------------------------------ MODULE MCDrafts ------------------------------
(* A small instance of Drafts for TLC.                                     *)
EXTENDS Drafts, TLC

\* Workers and draft ids are interchangeable, and so are users; resources are
\* too, since no property tells one from another.
Symmetry ==
  (Permutations(Workers) \cup Permutations(DraftIds))
    \cup (Permutations(Users) \cup Permutations(Resources))
=============================================================================
