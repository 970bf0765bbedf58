------------------------------ MODULE WSServer -------------------------------
(***************************************************************************)
(* The WebSocket acceptor of src/network/ws_server.go.  net/http accepts  *)
(* each connection and runs ServeHTTP in a goroutine of its own; there is *)
(* no accept loop of the server's to wait for.  ServeHTTP checks the      *)
(* closed flag, upgrades, registers the socket under connsMu, runs the    *)
(* session, and then, in this order: waiter.Done(), wsConn.Close(), the   *)
(* delete under connsMu and agent.OnClose().  The WSConn of ws_conn.go has *)
(* the closeFlag, writeChan, writeLoop and doDestroy of TCPConn, line for  *)
(* line, so its operations are TCPConn's.                                 *)
(*                                                                         *)
(* As in TCPServer, a write to the nil map Close leaves panics inside     *)
(* connsMu; net/http recovers the handler's panic, and the mutex stays     *)
(* locked: muLeaked.  So does a message shorter than route's 2-byte id:   *)
(* Processor.Unmarshal panics inside agent.Run, and the rest of ServeHTTP *)
(* (waiter.Done, wsConn.Close, the delete, OnClose) never runs.           *)
(***************************************************************************)
EXTENDS TCPConn, FiniteSets

CONSTANTS
    MaxConnNum   \* WSServerOption.MaxConnNum

ASSUME MaxConnNum \in Nat

VARIABLES
    srvClosed,  \* server.closed is StatusClosed
    listening,  \* the listener is open (http.Server.Serve runs)
    conns,      \* server.conns, when it is not nil
    connsNil,   \* Close has set server.conns to nil
    muLeaked,   \* connsMu is locked by a goroutine that has died
    handler,    \* handler[p]: where p's ServeHTTP goroutine is
    waiter,     \* the counter of server.waiter
    closer      \* the goroutine in Close: "idle", "locking", "waiting", "done"

srvVars == <<srvClosed, listening, conns, connsNil, muLeaked, handler, waiter, closer>>
vars == <<conn, written, srvVars>>

HandlerStates == {"none", "start", "upgraded", "registered", "run", "exit",
                  "closing", "done", "dead"}

(* The handler states in which a session has been registered and has not *)
(* yet finished (OnClose not yet run).                                    *)
InSession == {"registered", "run", "exit", "closing"}

TypeOK ==
    /\ conn \in [Peers -> Conns]
    /\ written \in 0..MaxMsgs
    /\ srvClosed \in BOOLEAN /\ listening \in BOOLEAN /\ connsNil \in BOOLEAN
    /\ conns \subseteq Peers /\ muLeaked \in BOOLEAN
    /\ handler \in [Peers -> HandlerStates]
    /\ waiter \in Nat
    /\ closer \in {"idle", "locking", "waiting", "done"}

(* NewWSServer then Start: the listener is open and http.Server serves.  *)
Init ==
    /\ conn = [p \in Peers |-> NoConn]
    /\ written = 0
    /\ srvClosed = FALSE /\ listening = TRUE
    /\ conns = {} /\ connsNil = FALSE /\ muLeaked = FALSE
    /\ handler = [p \in Peers |-> "none"]
    /\ waiter = 0
    /\ closer = "idle"

-----------------------------------------------------------------------------
(* Fault variants: plausible mistakes in the steps below, each of which a *)
(* property must detect.                                                  *)

(* The teardown calls server.waiter.Done() a second time.                 *)
SessionCloseDoneTwice(p) ==
    /\ handler[p] = "closing"
    /\ ~muLeaked
    /\ conn' = [conn EXCEPT ![p] = DoDestroy(@)]
    /\ conns' = conns \ {p}
    /\ handler' = [handler EXCEPT ![p] = "done"]
    /\ waiter' = waiter - 1
    /\ UNCHANGED <<written, srvClosed, listening, connsNil, muLeaked, closer>>

(* Register guards the nil map by making a new one, as a defensive fix  *)
(* of the panic might.                                                    *)
RegisterRecreatesMap(p) ==
    /\ handler[p] = "upgraded"
    /\ ~muLeaked
    /\ IF ~connsNil /\ Cardinality(conns) >= MaxConnNum
       THEN /\ conn' = [conn EXCEPT ![p].sock = "closed"]
            /\ handler' = [handler EXCEPT ![p] = "done"]
            /\ UNCHANGED <<conns, connsNil>>
       ELSE /\ conns' = (IF connsNil THEN {} ELSE conns) \cup {p}
            /\ connsNil' = FALSE
            /\ handler' = [handler EXCEPT ![p] = "registered"]
            /\ UNCHANGED conn
    /\ UNCHANGED <<written, srvClosed, listening, muLeaked, waiter, closer>>

-----------------------------------------------------------------------------
(* The peer connects; net/http accepts it and starts ServeHTTP.          *)
Dial(p) ==
    /\ listening
    /\ handler[p] = "none"
    /\ conn' = [conn EXCEPT ![p].sock = "open"]
    /\ handler' = [handler EXCEPT ![p] = "start"]
    /\ UNCHANGED <<written, srvClosed, listening, conns, connsNil, muLeaked, waiter, closer>>

(* ServeHTTP: on a closed server answer 503 and return; else Upgrade.    *)
Upgrade(p) ==
    /\ handler[p] = "start"
    /\ handler' = [handler EXCEPT ![p] = IF srvClosed THEN "done" ELSE "upgraded"]
    /\ UNCHANGED <<conn, written, srvClosed, listening, conns, connsNil, muLeaked,
                   waiter, closer>>

(* connsMu.Lock(); over MaxConnNum close the socket and return; else     *)
(* server.conns[conn] = struct{}{}, which panics on the nil map.          *)
Register(p) ==
    /\ handler[p] = "upgraded"
    /\ ~muLeaked
    /\ CASE connsNil ->
              /\ muLeaked' = TRUE /\ handler' = [handler EXCEPT ![p] = "done"]
              /\ UNCHANGED <<conn, conns>>
         [] Cardinality(conns) >= MaxConnNum ->
              /\ conn' = [conn EXCEPT ![p].sock = "closed"]
              /\ handler' = [handler EXCEPT ![p] = "done"]
              /\ UNCHANGED <<conns, muLeaked>>
         [] OTHER ->
              /\ conns' = conns \cup {p}
              /\ handler' = [handler EXCEPT ![p] = "registered"]
              /\ UNCHANGED <<conn, muLeaked>>
    /\ UNCHANGED <<written, srvClosed, listening, connsNil, waiter, closer>>

(* waiter.Add(1); newWSConn (starts the write pump); newAgent; OnConnect; *)
(* agent.Run.                                                             *)
Start(p) ==
    /\ handler[p] = "registered"
    /\ waiter' = waiter + 1
    /\ conn' = [conn EXCEPT ![p] = NewTCPConn(@)]
    /\ handler' = [handler EXCEPT ![p] = "run"]
    /\ UNCHANGED <<written, srvClosed, listening, conns, connsNil, muLeaked, closer>>

(* agent.Run ends: ReadMessage fails on a closed socket ...              *)
ReadError(p) ==
    /\ handler[p] = "run"
    /\ conn[p].sock = "closed"
    /\ handler' = [handler EXCEPT ![p] = "exit"]
    /\ UNCHANGED <<conn, written, srvClosed, listening, conns, connsNil, muLeaked,
                   waiter, closer>>

(* ... or a message fails to unmarshal or route.                          *)
BadMessage(p) ==
    /\ handler[p] = "run"
    /\ conn[p].sock = "open"
    /\ handler' = [handler EXCEPT ![p] = "exit"]
    /\ UNCHANGED <<conn, written, srvClosed, listening, conns, connsNil, muLeaked,
                   waiter, closer>>

(* The peer sends a binary message of 0 or 1 bytes; WS sets no minimum.   *)
(* Unmarshal reads the id from data[:2], which succeeds when the read     *)
(* buffer's capacity covers it; if the id read is registered, data[2:]     *)
(* panics (an unregistered id is BadMessage's ErrNotRegistered).  agent.Run *)
(* does not recover; net/http's per-connection recover does, on a hijacked *)
(* connection, and ServeHTTP's teardown is skipped: the socket stays open  *)
(* and in conns, and the waiter is never decremented.                     *)
ShortMessage(p) ==
    /\ handler[p] = "run"
    /\ conn[p].sock = "open"
    /\ handler' = [handler EXCEPT ![p] = "dead"]
    /\ UNCHANGED <<conn, written, srvClosed, listening, conns, connsNil, muLeaked,
                   waiter, closer>>

(* server.waiter.Done(), before the session is torn down.                 *)
SessionDone(p) ==
    /\ handler[p] = "exit"
    /\ waiter' = waiter - 1
    /\ handler' = [handler EXCEPT ![p] = "closing"]
    /\ UNCHANGED <<conn, written, srvClosed, listening, conns, connsNil, muLeaked, closer>>

(* wsConn.Close(); connsMu.Lock(); delete; Unlock; agent.OnClose().       *)
SessionClose(p) ==
    /\ handler[p] = "closing"
    /\ ~muLeaked
    /\ conn' = [conn EXCEPT ![p] = DoDestroy(@)]
    /\ conns' = conns \ {p}
    /\ handler' = [handler EXCEPT ![p] = "done"]
    /\ UNCHANGED <<written, srvClosed, listening, connsNil, muLeaked, waiter, closer>>

(* The sizes of a WriteMsg's concatenated buffers that WSConn tells     *)
(* apart: nothing, within maxMsgLen, over it.                            *)
MsgSizes == {"empty", "fits", "toolong"}

(* WSConn.WriteMsg: ConnClosed on a closed connection; a total length of *)
(* 0 returns nil and one over maxMsgLen ErrMessageTooLong, both without   *)
(* writing; otherwise doWrite, whose queue logic is TCPConn.WriteBytes.   *)
WSWriteMsg(c, size) ==
    IF IsClosed(c) \/ size # "fits" THEN c ELSE WriteBytes(c)

(* A module's handler (or the agent) calls WriteMsg on the WSConn.        *)
WSWrite(p) ==
    /\ conn[p].pump # "none"
    /\ written < MaxMsgs
    /\ \E size \in MsgSizes : conn' = [conn EXCEPT ![p] = WSWriteMsg(@, size)]
    /\ written' = written + 1
    /\ UNCHANGED srvVars

-----------------------------------------------------------------------------
(* WSServer.Close: CAS Running -> Closed; ln.Close().                     *)
CloseBegin ==
    /\ closer = "idle"
    /\ ~srvClosed
    /\ srvClosed' = TRUE
    /\ listening' = FALSE
    /\ closer' = "locking"
    /\ UNCHANGED <<conn, written, conns, connsNil, muLeaked, handler, waiter>>

(* connsMu.Lock(); close every registered socket; conns = nil; Unlock.    *)
CloseConns ==
    /\ closer = "locking"
    /\ ~muLeaked
    /\ conn' = [p \in Peers |-> IF p \in conns THEN [conn[p] EXCEPT !.sock = "closed"]
                                               ELSE conn[p]]
    /\ conns' = {}
    /\ connsNil' = TRUE
    /\ closer' = "waiting"
    /\ UNCHANGED <<written, srvClosed, listening, muLeaked, handler, waiter>>

(* server.waiter.Wait().                                                  *)
CloseWait ==
    /\ closer = "waiting"
    /\ waiter = 0
    /\ closer' = "done"
    /\ UNCHANGED <<conn, written, srvClosed, listening, conns, connsNil, muLeaked,
                   handler, waiter>>

-----------------------------------------------------------------------------
SessionNext(p) ==
    \/ Upgrade(p)
    \/ Register(p)
    \/ Start(p)
    \/ ReadError(p)
    \/ SessionDone(p)
    \/ SessionClose(p)

CloseNext == CloseConns \/ CloseWait

Next ==
    \/ CloseBegin
    \/ CloseNext
    \/ \E p \in Peers :
         \/ Dial(p)
         \/ BadMessage(p)
         \/ ShortMessage(p)
         \/ SessionNext(p)
         \/ PeerHangup(p) /\ UNCHANGED srvVars
         \/ (PumpWrite(p) \/ PumpEnd(p)) /\ UNCHANGED srvVars
         \/ WSWrite(p)

(* net/http runs each handler goroutine; a goroutine that has entered     *)
(* Close keeps going.  Peers, writes and Close itself are not forced.     *)
Fairness ==
    /\ WF_vars(CloseNext)
    /\ \A p \in Peers : WF_vars(SessionNext(p))

Spec == Init /\ [][Next]_vars /\ Fairness

-----------------------------------------------------------------------------
(* Properties.                                                            *)

(* Once WSServer.Close has taken connsMu and closed the registered        *)
(* sockets, no session reads from an open socket: a ServeHTTP that        *)
(* registered before that is closed by it, and one that comes after      *)
(* panics on the nil map instead of registering.  So every read loop of   *)
(* a closed server ends, even though Close may wait on sessions that died *)
(* in a panic.                                                             *)
ClosedSessionSockets ==
    closer \in {"waiting", "done"} =>
        \A p \in Peers : handler[p] \in {"registered", "run"} => conn[p].sock = "closed"

(* WSServer.Close returns only after every session it counted has been    *)
(* torn down, agent.OnClose included.                                     *)
CloseWaitsForSessions ==
    closer = "done" => \A p \in Peers : handler[p] \notin InSession

=============================================================================
