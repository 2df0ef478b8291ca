------------------------------ MODULE MCQueue ------------------------------
\* Instance of Queue for TLC: three chunks of at most four bytes in all.
EXTENDS Queue, TLC

Symmetry == Permutations(Chunk)

\* No guard and no invariant reads the reply, and TLC checks the steps of
\* ImplementsFifo on every transition: the reply need not tell states apart.
StateView == <<list, heap, nbytes, nchunks, views, mode, written>>
=============================================================================
