--------------------------- MODULE MCSettingsCache ---------------------------
(* SettingsCache with small values for TLC.                                *)
EXTENDS SettingsCache, TLC

CONSTANTS OldPath, NewPath, OldTitle, NewTitle

MCInitial == [path |-> OldPath, title |-> OldTitle]

\* Requests are interchangeable.
Symmetry == Permutations(Procs)
=============================================================================
