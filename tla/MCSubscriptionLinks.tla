------------------------ MODULE MCSubscriptionLinks ------------------------
(* SubscriptionLinks with small values for TLC.                            *)
EXTENDS SubscriptionLinks, TLC

CONSTANT Plain

\* Suffixes that need no normalizing; the others are covered by the proofs.
MCCustom == {Plain}
MCCanon == [s \in TypedSuffixes |-> Plain]

\* Handlers are interchangeable.
Symmetry == Permutations(Procs)
=============================================================================
