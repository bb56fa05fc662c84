------------------------- MODULE MCSubscriptionBody -------------------------
(* Small instances of SubscriptionBody for TLC.                            *)
EXTENDS SubscriptionBody, TLC

\* Requests differ in nothing.
Symmetry == Permutations(Procs)
=============================================================================
