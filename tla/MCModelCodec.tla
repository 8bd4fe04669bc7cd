---------------------------- MODULE MCModelCodec ----------------------------
\* ModelCodec on small instances.
EXTENDS ModelCodec, TLC

CONSTANTS r

OneText == {r}
OneHash == {<<Radix - 1, Radix * Radix - 1>>}

\* Two milliseconds that differ in two bytes, and the least and the largest bytes.
TwoTimes == {Radix * Radix - 1, Radix * Radix}
TwoRandom == {[k \in 1..10 |-> 0], [k \in 1..10 |-> Radix * Radix - 1]}

\* Around Half and around the end of the unsigned integers.
SomeNumbers == {0, Half - 1, Half, 2 * Half - 1}
=============================================================================
