\* Violation run: CloseWaitsForSessions.
CONSTANTS
    p1 = p1  p2 = p2
    Peers <- MCPeers
    MaxConnNum = 1
    WriteBuffer = 1
    MaxMsgs = 2
SPECIFICATION Spec
CHECK_DEADLOCK FALSE
INVARIANT CloseWaitsForSessions
