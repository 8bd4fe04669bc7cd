CONSTANTS
    None = None
    Ephemeral = Ephemeral
    Texts <- SomeTexts
    Number <- SomeNumbers
    MaxPort = 2
    MaxThreadCount = 4
    DefaultPort = 1
    MaxArgs = 4
    Cores <- UnknownOrMany
SPECIFICATION Spec
INVARIANT TypeOK
INVARIANT LastOneCounts
INVARIANT RunningHasExecutor
INVARIANT ReadyBeforeClients
CHECK_DEADLOCK FALSE
