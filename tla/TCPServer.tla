------------------------------ MODULE TCPServer ------------------------------
(***************************************************************************)
(* The acceptor of src/network/tcp_server.go with its sessions (the agent *)
(* task the gate spawns per connection, agent.go) and its Close.  The     *)
(* Gate starts the server right after creating it (gate.go), so the model *)
(* begins with the listener open and the accept goroutine running.        *)
(*                                                                         *)
(* connsMu guards the set of accepted sockets.  Each critical section is  *)
(* one step, except that the accept goroutine can panic inside one (a     *)
(* write to the nil map Close leaves behind); the pool recovers the panic *)
(* but the mutex stays locked for good: muLeaked.                          *)
(***************************************************************************)
EXTENDS TCPConn, FiniteSets

CONSTANTS
    MaxConnNum   \* TCPServerOptions.MaxConnNum

ASSUME MaxConnNum \in Nat


VARIABLES
    srvClosed,  \* server.closed is StatusClosed
    listening,  \* the listener is open
    backlog,    \* dialled sockets not yet returned by Accept
    accPc,      \* the accept goroutine: "accept", "register", "spawn", "exited"
    accConn,    \* the socket it holds between Accept and the spawn
    conns,      \* server.conns, when it is not nil
    connsNil,   \* Close has set server.conns to nil
    muLeaked,   \* connsMu is locked by a goroutine that has died
    agent,      \* agent[p]: "none", "run", "unreg", "done"
    waiter,     \* the counter of server.waiter
    closer      \* the goroutine in Close: "idle", "locking", "waiting", "done"

srvVars == <<srvClosed, listening, backlog, accPc, accConn, conns, connsNil,
             muLeaked, agent, waiter, closer>>
vars == <<conn, written, srvVars>>

TypeOK ==
    /\ conn \in [Peers -> Conns]
    /\ written \in 0..MaxMsgs
    /\ srvClosed \in BOOLEAN /\ listening \in BOOLEAN /\ connsNil \in BOOLEAN
    /\ backlog \subseteq Peers /\ conns \subseteq Peers
    /\ accPc \in {"accept", "register", "spawn", "exited"} /\ accConn \in Peers
    /\ muLeaked \in BOOLEAN
    /\ agent \in [Peers -> {"none", "run", "unreg", "done"}]
    /\ waiter \in Nat
    /\ closer \in {"idle", "locking", "waiting", "done"}

(* NewTCPServer then Start: listener open, waiter.Add(1), accept loop.    *)
Init ==
    /\ conn = [p \in Peers |-> NoConn]
    /\ written = 0
    /\ srvClosed = FALSE /\ listening = TRUE /\ backlog = {}
    /\ accPc = "accept" /\ accConn = CHOOSE p \in Peers : TRUE
    /\ conns = {} /\ connsNil = FALSE /\ muLeaked = FALSE
    /\ agent = [p \in Peers |-> "none"]
    /\ waiter = 1
    /\ closer = "idle"

-----------------------------------------------------------------------------
(* Fault variants: plausible mistakes in the steps below, each of which a *)
(* property must detect.                                                  *)

(* The accept loop treats every Accept error as temporary and retries.    *)
AcceptErrorRetries ==
    /\ accPc = "accept"
    /\ ~listening
    /\ UNCHANGED <<conn, written, srvVars>>

(* The session is spawned without waiter.Add(1).                          *)
AcceptSpawnNoAdd ==
    /\ accPc = "spawn"
    /\ conn' = [conn EXCEPT ![accConn] = NewTCPConn(@)]
    /\ agent' = [agent EXCEPT ![accConn] = "run"]
    /\ accPc' = "accept"
    /\ UNCHANGED <<written, srvClosed, listening, backlog, accConn, conns,
                   connsNil, muLeaked, waiter, closer>>

(* The session forgets delete(server.conns, conn).                        *)
AgentUnregisterKeepsConn(p) ==
    /\ agent[p] = "unreg"
    /\ ~muLeaked
    /\ agent' = [agent EXCEPT ![p] = "done"]
    /\ waiter' = waiter - 1
    /\ UNCHANGED <<conn, written, srvClosed, listening, backlog, accPc, accConn,
                   conns, connsNil, muLeaked, closer>>

(* Close returns without server.waiter.Wait().                            *)
CloseWaitSkipped ==
    /\ closer = "waiting"
    /\ closer' = "done"
    /\ UNCHANGED <<conn, written, srvClosed, listening, backlog, accPc, accConn,
                   conns, connsNil, muLeaked, agent, waiter>>

-----------------------------------------------------------------------------
(* The peer dials while the listener is open.                             *)
Dial(p) ==
    /\ listening
    /\ conn[p].sock = "none"
    /\ conn' = [conn EXCEPT ![p].sock = "open"]
    /\ backlog' = backlog \cup {p}
    /\ UNCHANGED <<written, srvClosed, listening, accPc, accConn, conns, connsNil,
                   muLeaked, agent, waiter, closer>>

(* listener.Accept returns a socket.                                      *)
Accept(p) ==
    /\ accPc = "accept"
    /\ p \in backlog
    /\ backlog' = backlog \ {p}
    /\ accPc' = "register" /\ accConn' = p
    /\ UNCHANGED <<conn, written, srvClosed, listening, conns, connsNil,
                   muLeaked, agent, waiter, closer>>

(* listener.Accept fails because Close closed the listener: a non-timeout *)
(* error, so the loop returns and its deferred waiter.Done runs.  (The    *)
(* timeout branch needs a deadline on the listener, which is never set.) *)
AcceptError ==
    /\ accPc = "accept"
    /\ ~listening
    /\ accPc' = "exited"
    /\ waiter' = waiter - 1
    /\ UNCHANGED <<conn, written, srvClosed, listening, backlog, accConn, conns,
                   connsNil, muLeaked, agent, closer>>

(* connsMu.Lock(); over MaxConnNum close the socket and go on; else       *)
(* server.conns[conn] = struct{}{}, which panics on the nil map Close     *)
(* leaves: the goroutine dies holding connsMu (waiter.Done is deferred).  *)
AcceptRegister ==
    LET p == accConn IN
    /\ accPc = "register"
    /\ ~muLeaked
    /\ CASE connsNil ->
              /\ muLeaked' = TRUE /\ accPc' = "exited" /\ waiter' = waiter - 1
              /\ UNCHANGED <<conn, conns>>
         [] Cardinality(conns) >= MaxConnNum ->
              /\ conn' = [conn EXCEPT ![p].sock = "closed"]
              /\ accPc' = "accept"
              /\ UNCHANGED <<conns, muLeaked, waiter>>
         [] OTHER ->
              /\ conns' = conns \cup {p}
              /\ accPc' = "spawn"
              /\ UNCHANGED <<conn, muLeaked, waiter>>
    /\ UNCHANGED <<written, srvClosed, listening, backlog, accConn, connsNil,
                   agent, closer>>

(* newTCPConn (starts the write pump), newAgent, waiter.Add(1), submit   *)
(* the session task, which runs agent.OnConnect and then agent.Run.       *)
AcceptSpawn ==
    /\ accPc = "spawn"
    /\ conn' = [conn EXCEPT ![accConn] = NewTCPConn(@)]
    /\ waiter' = waiter + 1
    /\ agent' = [agent EXCEPT ![accConn] = "run"]
    /\ accPc' = "accept"
    /\ UNCHANGED <<written, srvClosed, listening, backlog, accConn, conns,
                   connsNil, muLeaked, closer>>

-----------------------------------------------------------------------------
(* The session task after agent.Run returns: tcpConn.Close().             *)
AgentExit(p) ==
    /\ agent' = [agent EXCEPT ![p] = "unreg"]
    /\ conn' = [conn EXCEPT ![p] = DoDestroy(@)]
    /\ UNCHANGED <<written, srvClosed, listening, backlog, accPc, accConn, conns,
                   connsNil, muLeaked, waiter, closer>>

(* agent.Run: ReadMsg fails once the socket is closed (or the connection *)
(* is flagged closed).                                                    *)
AgentReadError(p) ==
    /\ agent[p] = "run"
    /\ conn[p].sock = "closed" \/ IsClosed(conn[p])
    /\ AgentExit(p)

(* agent.Run: a frame that fails to unmarshal or route ends the loop.    *)
AgentBadMessage(p) ==
    /\ agent[p] = "run"
    /\ conn[p].sock = "open"
    /\ AgentExit(p)

(* connsMu.Lock(); delete(server.conns, conn); Unlock; agent.OnClose();   *)
(* waiter.Done().  Deleting from the nil map is a no-op.                 *)
AgentUnregister(p) ==
    /\ agent[p] = "unreg"
    /\ ~muLeaked
    /\ conns' = conns \ {p}
    /\ agent' = [agent EXCEPT ![p] = "done"]
    /\ waiter' = waiter - 1
    /\ UNCHANGED <<conn, written, srvClosed, listening, backlog, accPc, accConn,
                   connsNil, muLeaked, closer>>

-----------------------------------------------------------------------------
(* TCPServer.Close: CAS Running -> Closed, listener.Close() (sockets not  *)
(* yet accepted are reset with it).                                       *)
CloseBegin ==
    /\ closer = "idle"
    /\ ~srvClosed
    /\ srvClosed' = TRUE
    /\ listening' = FALSE
    /\ backlog' = {}
    /\ conn' = [p \in Peers |-> IF p \in backlog THEN [conn[p] EXCEPT !.sock = "closed"]
                                                 ELSE conn[p]]
    /\ closer' = "locking"
    /\ UNCHANGED <<written, accPc, accConn, conns, connsNil, muLeaked, agent, waiter>>

(* connsMu.RLock(); close every registered socket; server.conns = nil;    *)
(* RUnlock.                                                               *)
CloseConns ==
    /\ closer = "locking"
    /\ ~muLeaked
    /\ conn' = [p \in Peers |-> IF p \in conns THEN [conn[p] EXCEPT !.sock = "closed"]
                                               ELSE conn[p]]
    /\ conns' = {}
    /\ connsNil' = TRUE
    /\ closer' = "waiting"
    /\ UNCHANGED <<written, srvClosed, listening, backlog, accPc, accConn,
                   muLeaked, agent, waiter>>

(* server.waiter.Wait().                                                  *)
CloseWait ==
    /\ closer = "waiting"
    /\ waiter = 0
    /\ closer' = "done"
    /\ UNCHANGED <<conn, written, srvClosed, listening, backlog, accPc, accConn,
                   conns, connsNil, muLeaked, agent, waiter>>

-----------------------------------------------------------------------------
AcceptorNext ==
    \/ \E p \in Peers : Accept(p)
    \/ AcceptError
    \/ AcceptRegister
    \/ AcceptSpawn

SessionNext(p) ==
    \/ AgentReadError(p)
    \/ AgentUnregister(p)

ConnNext(p) ==
    \/ (PumpWrite(p) \/ PumpEnd(p) \/ Write(p)) /\ UNCHANGED srvVars

CloseNext == CloseConns \/ CloseWait

Next ==
    \/ AcceptorNext
    \/ CloseBegin
    \/ CloseNext
    \/ \E p \in Peers :
         \/ Dial(p)
         \/ PeerHangup(p) /\ UNCHANGED srvVars
         \/ AgentBadMessage(p)
         \/ SessionNext(p)
         \/ ConnNext(p)

(* The pool runs the accept goroutine and the session tasks; a goroutine  *)
(* that has entered Close keeps going.  Peers, handlers' writes, Close     *)
(* itself and the write pump (which needs a reading peer) are not forced. *)
Fairness ==
    /\ WF_vars(AcceptorNext)
    /\ WF_vars(CloseNext)
    /\ \A p \in Peers : WF_vars(SessionNext(p))

Spec == Init /\ [][Next]_vars /\ Fairness

-----------------------------------------------------------------------------
(* Properties.                                                            *)

(* server.conns holds exactly the sockets whose session is still running *)
(* or about to be spawned, never more than MaxConnNum: the acceptor's     *)
(* count and insert and the session's delete keep it in step with the     *)
(* sessions, so a finished session never holds a slot of the cap.         *)
ConnSetAccurate ==
    /\ Cardinality(conns) <= MaxConnNum
    /\ \A p \in conns :
         \/ agent[p] \in {"run", "unreg"}
         \/ accPc = "spawn" /\ accConn = p

(* TCPServer.Close returns only after the accept loop and every session   *)
(* task it started have finished, OnClose included (waiter counts each).  *)
CloseWaitsForSessions ==
    closer = "done" =>
        /\ accPc = "exited"
        /\ \A p \in Peers : agent[p] \in {"none", "done"}

(* Once Close has closed the listener, the accept loop ends.              *)
AcceptLoopEnds == srvClosed ~> accPc = "exited"

(* A call to TCPServer.Close returns.                                     *)
CloseReturns == closer = "locking" ~> closer = "done"

=============================================================================
