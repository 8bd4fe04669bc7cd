CONSTANTS
    None = None
    Ephemeral = Ephemeral
    Texts <- SomeTexts
    Number <- SomeNumbers
    MaxPort = 2
    MaxThreadCount = 4
    DefaultPort = 1
    MaxArgs = 2
    Cores <- UnknownOrMany
SPECIFICATION Spec
INVARIANT ListensOnPort
CHECK_DEADLOCK FALSE
