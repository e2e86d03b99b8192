--------------------------- MODULE MCSeqlockWeak ---------------------------
\* Threads that update, look up and hold the lock without changing anything.
EXTENDS SeqlockWeak, TLC

CONSTANTS t1, t2, t3

Sym == Permutations(Threads)
=============================================================================
