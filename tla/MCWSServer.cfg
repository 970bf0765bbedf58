\* Pass run: two peers against a WebSocket server with a cap of one connection.
CONSTANTS
    p1 = p1  p2 = p2
    Peers <- MCPeers
    MaxConnNum = 1
    WriteBuffer = 1
    MaxMsgs = 2
SPECIFICATION Spec
INVARIANT TypeOK
INVARIANT ClosedSessionSockets
CHECK_DEADLOCK FALSE
