CONSTANTS
    r = r
    None = None
    Throws = Throws
    Unread = Unread
    Radix = 4
    Version = 3
    Times <- TwoTimes
    Random <- TwoRandom
    MaxIds = 2
    MaxLost = 1
    Texts <- OneText
    Hashes <- OneHash
    Half = 17
    Numbers <- SomeNumbers
SPECIFICATION Spec
INVARIANT RoundTrip
