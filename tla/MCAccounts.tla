----------------------------- MODULE MCAccounts -----------------------------
(* Instances of Accounts for TLC.                                          *)
EXTENDS Accounts, TLC

CONSTANTS u1, u2, g1, g2, ann, bob, mail1, mail2, pw1, pw2, j1, j2, w1, w2

Symmetry ==
  Permutations(Users) \cup Permutations(Groups) \cup Permutations(Jars)
  \cup Permutations(Workers) \cup Permutations(Passwords) \cup Permutations(Mails)
=============================================================================
