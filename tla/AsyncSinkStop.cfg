CONSTANTS
    t1 = t1
    t2 = t2
    Threads <- TwoThreads
    MaxWrites = 1
SPECIFICATION FairSpec
PROPERTY StopEndsWorker
