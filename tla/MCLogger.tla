------------------------------ MODULE MCLogger ------------------------------
\* Logger on small instances.
EXTENDS Logger, TLC

CONSTANTS t1, t2, a, b, c, console, file

TwoThreads == {t1, t2}
ThreeLoggers == {a, b, c}
TwoSinks == <<console, file>>

\* Debug and Error.
TwoLevels == {2, 5}

\* Debug is a breadcrumb for a and b, and a message for c; a keeps one breadcrumb,
\* b two, and c reports its errors without breadcrumbs.
InfoOrDebug == a :> 3 @@ b :> 3 @@ c :> 2
OneAndTwo == a :> 1 @@ b :> 2 @@ c :> 0
NotC == {a, b}

\* One thread long enough to fill its history beyond a limit and report it, and
\* one beside it.
ThreeAndOne == t1 :> 3 @@ t2 :> 1
=============================================================================
