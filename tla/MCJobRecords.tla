---------------------------- MODULE MCJobRecords ----------------------------
(* A small instance of JobRecords for TLC.                                 *)
EXTENDS JobRecords

\* A finite value and one that is not.
SomeValues == {0, 9}
NotFinite == {9}
=============================================================================
