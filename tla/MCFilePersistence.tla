-------------------------- MODULE MCFilePersistence --------------------------
\* FilePersistence on small instances.
EXTENDS FilePersistence, TLC

CONSTANTS a, b, c, x

ThreeCallers == {a, b, c}
OneId == {x}

\* A record of one piece, and a longer one.
ShortAndLong == {1, 2}

Symmetric == Permutations(ThreeCallers)
=============================================================================
