CONSTANTS
    a = a
    b = b
    c = c
    x = x
    None = None
    Unread = Unread
    Failed = Failed
    Callers <- ThreeCallers
    Ids <- OneId
    Versions <- ShortAndLong
    MaxSaves = 2
    MaxCrashes = 0
SPECIFICATION Spec
SYMMETRY Symmetric
INVARIANT ReturnedIsStored
