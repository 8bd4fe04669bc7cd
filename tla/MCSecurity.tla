----------------------------- MODULE MCSecurity -----------------------------
\* Security on a small instance.
EXTENDS Security, TLC

CONSTANTS t1, t2, d1, d2, k1, k2

TwoThreads == {t1, t2}
TwoData == {d1, d2}
TwoKeys == {k1, k2}

Symmetric == Permutations(TwoThreads) \cup Permutations(TwoData) \cup Permutations(TwoKeys)
=============================================================================
