----------------------------- MODULE PrefixSums -----------------------------
\* Running totals of a sequence of numbers.
EXTENDS Integers, Sequences

\* Sums(f)[i] is the sum of the first i elements of f.
Sums(f) ==
  LET s[i \in 0..Len(f)] == IF i = 0 THEN 0 ELSE s[i - 1] + f[i]
  IN  s

\* What the elements of a queue weigh together.
TotalSize(queue) == Sums([j \in 1..Len(queue) |-> queue[j].size])[Len(queue)]
=============================================================================
