CONSTANTS
    t1 = t1
    t2 = t2
    d1 = d1
    d2 = d2
    k1 = k1
    k2 = k2
    None = None
    Threads <- TwoThreads
    Data <- TwoData
    Keys <- TwoKeys
    BlockSize = 2
    MaxLength = 3
    MaxCalls = 3
    MaxRaised = 2
SPECIFICATION Spec
SYMMETRY Symmetric
CHECK_DEADLOCK FALSE
INVARIANT TypeOK
INVARIANT ErrorsAreOwn
INVARIANT VerifiesOwn
INVARIANT DecryptsOwn
INVARIANT DigestIsOfStream
