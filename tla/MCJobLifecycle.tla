--------------------------- MODULE MCJobLifecycle ---------------------------
(* Instances of JobLifecycle for TLC.                                      *)
EXTENDS JobLifecycle

CONSTANTS j1, w1, c1, u1, u2

=============================================================================
