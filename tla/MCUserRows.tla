----------------------------- MODULE MCUserRows -----------------------------
(* UserRows with small values for TLC.                                     *)
EXTENDS UserRows, TLC

AllHandlers == Kinds

\* Handlers are interchangeable.
Symmetry == Permutations(Procs)
=============================================================================
