---------------------------- MODULE MCNetClient ----------------------------
(* A TCPClient and a WSClient side by side, with the connections the cfg  *)
(* gives each: the TCPClient without AutoReconnect, the WSClient with it. *)
EXTENDS Naturals

CONSTANTS g1, g2, TCPConns, TCPMaxConnects, WSConns, WSMaxConnects

VARIABLES
    tStatus, tPc, tRetry, tSock, tConns, tConnsNil, tMuLeaked, tWg, tCloser, tAccepted,
    wStatus, wPc, wRetry, wSock, wConns, wConnsNil, wMuLeaked, wWg, wCloser, wAccepted

(* Sets of connections for the cfg.                                        *)
TCPOne == {g1}
Both == {g1, g2}
NoConns == {}

tVars == <<tStatus, tPc, tRetry, tSock, tConns, tConnsNil, tMuLeaked, tWg, tCloser, tAccepted>>
wVars == <<wStatus, wPc, wRetry, wSock, wConns, wConnsNil, wMuLeaked, wWg, wCloser, wAccepted>>

TCP == INSTANCE NetClient
         WITH Kind <- "tcp", Conns <- TCPConns, AutoReconnect <- FALSE,
              MaxConnects <- TCPMaxConnects,
              status <- tStatus, pc <- tPc, retry <- tRetry, sock <- tSock,
              conns <- tConns, connsNil <- tConnsNil, muLeaked <- tMuLeaked,
              wg <- tWg, closer <- tCloser, accepted <- tAccepted

WS == INSTANCE NetClient
         WITH Kind <- "ws", Conns <- WSConns, AutoReconnect <- TRUE,
              MaxConnects <- WSMaxConnects,
              status <- wStatus, pc <- wPc, retry <- wRetry, sock <- wSock,
              conns <- wConns, connsNil <- wConnsNil, muLeaked <- wMuLeaked,
              wg <- wWg, closer <- wCloser, accepted <- wAccepted

Init == TCP!Init /\ WS!Init

Next == (TCP!Next /\ UNCHANGED wVars) \/ (WS!Next /\ UNCHANGED tVars)

Spec == Init /\ [][Next]_<<tVars, wVars>> /\ TCP!Fairness /\ WS!Fairness

TypeOK == TCP!TypeOK /\ WS!TypeOK

(* Both clients keep client.conns in step with their connect goroutines, *)
(* and after Close no agent reads from a socket Close did not close.      *)
ConnsTracked == TCP!ConnsTracked /\ WS!ConnsTracked

(* WSClient.Close returns: its isClosed check under client.mu means no   *)
(* goroutine writes to the nil map and leaks the mutex.                   *)
WSCloseReturns == WS!CloseReturns

=============================================================================
