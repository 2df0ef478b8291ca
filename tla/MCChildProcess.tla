-------------------------- MODULE MCChildProcess ---------------------------
\* Instance of ChildProcess for TLC: see the .cfg files for the bounds.
EXTENDS ChildProcess, TLC

ASSUME Child # {}

\* The members of Child are interchangeable (used without liveness only).
Perms == Permutations(Child)
=============================================================================
