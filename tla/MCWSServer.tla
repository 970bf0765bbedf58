----------------------------- MODULE MCWSServer -----------------------------
(* Model values for checking WSServer with TLC.                           *)
EXTENDS WSServer, TLC

CONSTANTS p1, p2

MCPeers == {p1, p2}

=============================================================================
