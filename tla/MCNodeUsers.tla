---------------------------- MODULE MCNodeUsers ----------------------------
(* Small instances of NodeUsers for TLC.                                   *)
EXTENDS NodeUsers, TLC

\* Requests differ in nothing; nodes do, by Hidden and by the CHOOSE in Idle.
Symmetry == Permutations(Requests)
=============================================================================
