CONSTANTS
    a = a
    b = b
    c = c
    x = x
    None = None
    Unread = Unread
    Failed = Failed
    Callers <- ThreeCallers
    Ids <- OneId
    Versions <- ShortAndLong
    MaxSaves = 2
    MaxCrashes = 1
SPECIFICATION Spec
SYMMETRY Symmetric
INVARIANT TypeOK
INVARIANT ReadIsCurrent
INVARIANT SavedStays
PROPERTY ImplementsStore
