------------------------------- MODULE TCPConn -------------------------------
(***************************************************************************)
(* The connection of src/network/tcp_conn.go: a net.Conn, a bounded write *)
(* queue writeChan drained by a write pump goroutine (writeLoop), and the  *)
(* close flag doDestroy switches with a CAS from Running to Closed.       *)
(* Message bytes are abstracted away: the queue is a count of messages.   *)
(*                                                                         *)
(* A connection is a record, so that the server's steps can apply the     *)
(* connection's operations (WriteMsg, Close) inside their own step.       *)
(*   sock    the server side of the socket: "none" before the peer dials, *)
(*           "open", or "closed" (by either end; reads and writes fail)   *)
(*   flag    closeFlag: "initial" (its zero value), "running", "closed"   *)
(*   queue   the messages in writeChan                                    *)
(*   qclosed writeChan has been closed                                    *)
(*   pump    the writeLoop goroutine: "none", "running", "exited"         *)
(***************************************************************************)
EXTENDS Naturals

CONSTANTS
    Peers,        \* the remote ends that may connect
    WriteBuffer,  \* cap(writeChan)
    MaxMsgs       \* bound on the WriteMsg calls of a behaviour

ASSUME WriteBuffer \in Nat \ {0} /\ MaxMsgs \in Nat

VARIABLES
    conn,     \* conn[p]: the connection of peer p
    written   \* WriteMsg calls so far

Conns == [sock : {"none", "open", "closed"},
          flag : {"initial", "running", "closed"},
          queue : 0..WriteBuffer, qclosed : BOOLEAN,
          pump : {"none", "running", "exited"}]

NoConn == [sock |-> "none", flag |-> "initial", queue |-> 0,
           qclosed |-> FALSE, pump |-> "none"]

(* newTCPConn: the struct's closeFlag keeps its zero value, StatusInitial; *)
(* the write pump is submitted to the pool.                              *)
NewTCPConn(c) == [c EXCEPT !.pump = "running"]

IsClosed(c) == c.flag = "closed"

(* doDestroy: CAS Running -> Closed, then close the socket and writeChan. *)
(* Nothing ever sets closeFlag to Running, so the CAS never succeeds.     *)
DoDestroy(c) ==
    IF c.flag = "running"
    THEN [c EXCEPT !.flag = "closed", !.sock = "closed", !.qclosed = TRUE]
    ELSE c

(* WriteBytes: drop on a closed connection; on a full queue destroy the   *)
(* connection instead of queueing; otherwise enqueue.                     *)
WriteBytes(c) ==
    CASE IsClosed(c)            -> c
      [] c.queue = WriteBuffer  -> DoDestroy(c)
      [] OTHER                  -> [c EXCEPT !.queue = @ + 1]

(* WriteMsg: ConnClosed on a closed connection, else frame and WriteBytes. *)
WriteMsg(c) == IF IsClosed(c) THEN c ELSE WriteBytes(c)

-----------------------------------------------------------------------------
(* Actions of the connection's goroutines and of its users.               *)

(* writeLoop: take the next message and conn.Write it; a write error      *)
(* (the socket is closed) breaks the loop.  No fairness: Write blocks     *)
(* while the peer does not read.                                          *)
PumpWrite(p) ==
    /\ conn[p].pump = "running"
    /\ conn[p].queue > 0
    /\ conn' = [conn EXCEPT ![p].queue = @ - 1,
                            ![p].pump = IF conn[p].sock = "open" THEN "running" ELSE "exited"]
    /\ UNCHANGED written

(* writeLoop: `range writeChan` ends once the channel is closed and empty. *)
PumpEnd(p) ==
    /\ conn[p].pump = "running"
    /\ conn[p].queue = 0
    /\ conn[p].qclosed
    /\ conn' = [conn EXCEPT ![p].pump = "exited"]
    /\ UNCHANGED written

(* A module's handler (or the agent) calls WriteMsg on the connection.    *)
Write(p) ==
    /\ conn[p].pump # "none"
    /\ written < MaxMsgs
    /\ conn' = [conn EXCEPT ![p] = WriteMsg(@)]
    /\ written' = written + 1

(* The peer hangs up.                                                     *)
PeerHangup(p) ==
    /\ conn[p].sock = "open"
    /\ conn' = [conn EXCEPT ![p].sock = "closed"]
    /\ UNCHANGED written

=============================================================================
