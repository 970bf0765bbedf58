---------------------------- MODULE TCPGateSession ----------------------------
(***************************************************************************)
(* The TCP server as cmd/gate configures it, with route's Processor in    *)
(* the session: agent.Run hands every frame the parser accepts to         *)
(* Processor.Unmarshal, which reads the message id from the first IdLen   *)
(* bytes with no length check.  This adds that step to TCPServer.         *)
(***************************************************************************)
EXTENDS TCPServer

CONSTANT
    MsgMinLen    \* TCPMsgOption.MsgMinLen as the gate sets it (module.go: 1)

ASSUME MsgMinLen \in Nat

(* route's idLen: the width of the message id at the front of a body.     *)
IdLen == 2

(* setDefault: a MsgMinLen of 0 becomes 1; the parser then accepts every *)
(* body at least this long.                                               *)
EffMinLen == IF MsgMinLen = 0 THEN 1 ELSE MsgMinLen

(* A session is "dead" when its task was ended by a recovered panic.     *)
GateTypeOK ==
    agent \in [Peers -> {"none", "run", "unreg", "done", "dead"}]

(* agent.Run reads a frame whose body is shorter than IdLen, which the   *)
(* parser accepts when EffMinLen < IdLen: Processor.Unmarshal's data[:2]  *)
(* panics.  Nothing in Run or the session task recovers; the pool does,   *)
(* so the task ends there, and tcpConn.Close, the delete from conns,      *)
(* OnClose and waiter.Done, which are not deferred, never run.           *)
AgentShortFrame(p) ==
    /\ agent[p] = "run"
    /\ conn[p].sock = "open"
    /\ EffMinLen < IdLen
    /\ agent' = [agent EXCEPT ![p] = "dead"]
    /\ UNCHANGED <<conn, written, srvClosed, listening, backlog, accPc, accConn,
                   conns, connsNil, muLeaked, waiter, closer>>

GateNext ==
    \/ Next
    \/ \E p \in Peers : AgentShortFrame(p)

GateSpec == Init /\ [][GateNext]_vars /\ Fairness

=============================================================================
