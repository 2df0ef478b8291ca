----------------------------- MODULE MCRepeater -----------------------------
\* Instances of Repeater, with an executor that may do anything and with those of
\* the combinators, for TLC: see the .cfg files for the bounds.
EXTENDS Combinators

ASSUME MaxOffers > 0 /\ MaxAsked > 1
=============================================================================
