--------------------------- MODULE MCTCPShortFrame ---------------------------
(* Model values for checking TCPGateSession with TLC.                     *)
EXTENDS TCPGateSession, TLC

CONSTANTS p1, p2

MCPeers == {p1, p2}

=============================================================================
