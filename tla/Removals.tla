------------------------------ MODULE Removals ------------------------------
\* Sequences that lose elements.
EXTENDS Integers, Sequences

\* What remains of s without the elements of S, in the order of s.
Remaining(s, S) ==
  LET r[n \in 0..Len(s)] ==
        IF n = 0 THEN <<>> ELSE IF s[n] \in S THEN r[n - 1] ELSE Append(r[n - 1], s[n])
  IN  r[Len(s)]
=============================================================================
