\* Violation run: a one-byte frame under the gate's MsgMinLen of 1.
CONSTANTS
    p1 = p1  p2 = p2
    Peers <- MCPeers
    MaxConnNum = 1
    WriteBuffer = 1
    MaxMsgs = 2
    MsgMinLen = 1
SPECIFICATION GateSpec
CHECK_DEADLOCK FALSE
INVARIANT ConnSetAccurate
