CONSTANTS
    e1 = e1
    e2 = e2
    c1 = c1
    c2 = c2
    None = None
    Failed = Failed
    WrongVersion = WrongVersion
    Executors <- TwoExecutors
    Connections <- TwoConnections
    Sends <- SomeRequests
SPECIFICATION FairSpec
INVARIANT TypeOK
INVARIANT OneAccept
INVARIANT StrandSerial
INVARIANT SessionOwned
INVARIANT QuietAtReturn
PROPERTY ImplementsExchange
PROPERTY SignalEndsRun
PROPERTY ReadIsAnswered
PROPERTY DispatchedIsAnswered
