CONSTANTS
    t1 = t1
    t2 = t2
    a = a
    b = b
    c = c
    console = console
    file = file
    Threads <- TwoThreads
    Loggers <- ThreeLoggers
    MinLevel <- InfoOrDebug
    Forensics <- ThreeLoggers
    Enabled <- NotC
    Limit <- OneAndTwo
    Sinks <- TwoSinks
    Levels <- TwoLevels
    MaxLogs <- ThreeAndOne
SPECIFICATION Spec
INVARIANT TypeOK
INVARIANT HistoryIsRecent
INVARIANT ReportedBeforeError
INVARIANT ReportedOnce
INVARIANT SinksAgree
CHECK_DEADLOCK FALSE
