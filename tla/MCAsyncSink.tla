---------------------------- MODULE MCAsyncSink ----------------------------
\* AsyncSink on a small instance: two logging threads.
EXTENDS AsyncSink, TLC

CONSTANTS t1, t2

TwoThreads == {t1, t2}
=============================================================================
