CONSTANTS
    c1 = c1
    c2 = c2
    Clients <- MCClients
    NoId = NoId
    MaxCalls = 3
    SeqBits = 1
    MaxTime = 2

SPECIFICATION Spec

INVARIANT TypeOK
PROPERTY NoStaleRelease
PROPERTY LockReturns

CHECK_DEADLOCK FALSE
