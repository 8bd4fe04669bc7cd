CONSTANTS
    t1 = t1
    t2 = t2
    Threads <- TwoThreads
    MaxWrites = 2
SPECIFICATION FairSpec
INVARIANT TypeOK
INVARIANT InFlightExact
INVARIANT NoLostWakeup
INVARIANT ThreadOrder
PROPERTY ImplementsChannel
PROPERTY QueuedIsWritten
 
