----------------------------- MODULE MCSessions -----------------------------
(* Sessions with small values for TLC.                                     *)
EXTENDS Sessions, TLC

\* Handlers are interchangeable.
Symmetry == Permutations(Procs)
=============================================================================
