---------------------------- MODULE MCTCPServer ----------------------------
(* Model values for checking TCPServer with TLC.                          *)
EXTENDS TCPServer, TLC

CONSTANTS p1, p2

MCPeers == {p1, p2}

(* Peers are interchangeable.                                             *)
MCSymmetry == Permutations(MCPeers)

=============================================================================
