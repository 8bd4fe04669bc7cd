CONSTANTS
    None = None
    Ephemeral = Ephemeral
    Texts <- SomeTexts
    Number <- SomeNumbers
    MaxPort = 2
    MaxThreadCount = 4
    DefaultPort = 1
    MaxArgs = 4
    Cores <- UnknownOrMany
SPECIFICATION Spec
INVARIANT InvalidReverts
CHECK_DEADLOCK FALSE
