---------------------------- MODULE MCQuickLogin ----------------------------
(* Small instances of QuickLogin for TLC.                                  *)
EXTENDS QuickLogin, TLC

\* Requests differ in nothing.
Symmetry == Permutations(Procs)
=============================================================================
