------------------------------ MODULE NetClient ------------------------------
(***************************************************************************)
(* The dialling side of src/network: TCPClient (tcp_client.go) and        *)
(* WSClient (ws_client.go).  Start submits ConnNum connect goroutines;    *)
(* each dials with up to three retries, registers its socket in           *)
(* client.conns under client.mu, runs its agent until the agent returns,  *)
(* unregisters, and dials again when AutoReconnect is set.  Close flips   *)
(* the status, closes every registered socket, sets client.conns to nil   *)
(* and waits for the connect goroutines.                                  *)
(*                                                                         *)
(* The two clients differ in one step only: TCPClient checks isClosed     *)
(* before it takes client.mu, WSClient after.  Kind selects the client.   *)
(* The remote end is abstract: it accepts a dial or refuses it, at most   *)
(* MaxConnects times, and may hang up.  Each critical section of          *)
(* client.mu is one step; a goroutine that panics inside one (the write   *)
(* to the nil map) dies holding the mutex, which the pool's recover does  *)
(* not release: muLeaked.                                                  *)
(***************************************************************************)
EXTENDS Naturals, FiniteSets

CONSTANTS
    Kind,           \* "tcp" or "ws"
    Conns,          \* the connect goroutines (opts.ConnNum of them)
    AutoReconnect,  \* opts.AutoReconnect
    MaxConnects     \* bound on the dials the remote end accepts

ASSUME Kind \in {"tcp", "ws"} /\ AutoReconnect \in BOOLEAN /\ MaxConnects \in Nat

(* dial's maxRetry (maxRetries in WSClient).                              *)
MaxRetry == 3

VARIABLES
    status,    \* client.closed: "initial", "running", "closed"
    pc,        \* pc[g]: where connect goroutine g is
    retry,     \* retry[g]: dial's retry counter
    sock,      \* sock[g]: g's current socket: "none", "open", "closed"
    conns,     \* client.conns, when it is not nil
    connsNil,  \* Close has set client.conns to nil
    muLeaked,  \* client.mu is held by a goroutine that has died
    wg,        \* the client's WaitGroup counter
    closer,    \* the goroutine in Close: "idle", "locking", "waiting", "done"
    accepted   \* dials the remote end has accepted

vars == <<status, pc, retry, sock, conns, connsNil, muLeaked, wg, closer, accepted>>

PCs == {"idle", "dial", "got", "lock", "run", "unreg", "done"}

TypeOK ==
    /\ status \in {"initial", "running", "closed"}
    /\ pc \in [Conns -> PCs]
    /\ retry \in [Conns -> 0..MaxRetry]
    /\ sock \in [Conns -> {"none", "open", "closed"}]
    /\ conns \subseteq Conns
    /\ connsNil \in BOOLEAN /\ muLeaked \in BOOLEAN
    /\ wg \in 0..Cardinality(Conns)
    /\ closer \in {"idle", "locking", "waiting", "done"}
    /\ accepted \in 0..MaxConnects

(* NewTCPClient / NewWSClient: an empty conns map, status Initial.        *)
Init ==
    /\ status = "initial"
    /\ pc = [g \in Conns |-> "idle"]
    /\ retry = [g \in Conns |-> 0]
    /\ sock = [g \in Conns |-> "none"]
    /\ conns = {} /\ connsNil = FALSE /\ muLeaked = FALSE
    /\ wg = 0
    /\ closer = "idle"
    /\ accepted = 0

(* connect returns: its deferred wg.Done runs.                            *)
Exit(g) ==
    /\ pc' = [pc EXCEPT ![g] = "done"]
    /\ wg' = wg - 1

-----------------------------------------------------------------------------
(* Start: CAS Initial -> Running, then wg.Add(1) and AddTask(connect) per *)
(* connection.                                                            *)
Start ==
    /\ status = "initial"
    /\ status' = "running"
    /\ pc' = [g \in Conns |-> "dial"]
    /\ wg' = Cardinality(Conns)
    /\ UNCHANGED <<retry, sock, conns, connsNil, muLeaked, closer, accepted>>

(* One turn of dial's loop.  A dial that succeeds, or any dial once the   *)
(* client is closed, returns its conn (nil on error); after MaxRetry      *)
(* failed retries it returns nil; otherwise it sleeps and retries.  A nil *)
(* conn ends connect, AutoReconnect or not.                               *)
Dial(g) ==
    /\ pc[g] = "dial"
    /\ \/ /\ accepted < MaxConnects
          /\ accepted' = accepted + 1
          /\ sock' = [sock EXCEPT ![g] = "open"]
          /\ pc' = [pc EXCEPT ![g] = "got"]
          /\ retry' = [retry EXCEPT ![g] = 0]
          /\ UNCHANGED wg
       \/ /\ UNCHANGED <<accepted, sock>>
          /\ IF status = "closed" \/ retry[g] >= MaxRetry
             THEN Exit(g) /\ retry' = [retry EXCEPT ![g] = 0]
             ELSE retry' = [retry EXCEPT ![g] = @ + 1] /\ UNCHANGED <<pc, wg>>
    /\ UNCHANGED <<status, conns, connsNil, muLeaked, closer>>

(* client.conns[conn] = struct{}{} under client.mu: on the nil map Close  *)
(* leaves it panics, and the goroutine dies holding the mutex, its        *)
(* socket still open.                                                     *)
Insert(g) ==
    IF connsNil
    THEN /\ muLeaked' = TRUE
         /\ Exit(g)
         /\ UNCHANGED conns
    ELSE /\ conns' = conns \cup {g}
         /\ pc' = [pc EXCEPT ![g] = "run"]
         /\ UNCHANGED <<muLeaked, wg>>

(* TCPClient.connect: if isClosed, close the socket and return; else take *)
(* client.mu.                                                             *)
TCPCheck(g) ==
    /\ Kind = "tcp"
    /\ pc[g] = "got"
    /\ IF status = "closed"
       THEN Exit(g) /\ sock' = [sock EXCEPT ![g] = "closed"]
       ELSE pc' = [pc EXCEPT ![g] = "lock"] /\ UNCHANGED <<sock, wg>>
    /\ UNCHANGED <<status, retry, conns, connsNil, muLeaked, closer, accepted>>

(* TCPClient.connect: Lock; insert; Unlock.                               *)
TCPRegister(g) ==
    /\ pc[g] = "lock"
    /\ ~muLeaked
    /\ Insert(g)
    /\ UNCHANGED <<status, retry, sock, connsNil, closer, accepted>>

(* Fault variant: WSClient's isClosed check moved before client.mu.Lock. *)
WSRegisterCheckFirst(g) ==
    /\ Kind = "ws"
    /\ pc[g] = "got"
    /\ IF status = "closed"
       THEN Exit(g) /\ sock' = [sock EXCEPT ![g] = "closed"]
       ELSE pc' = [pc EXCEPT ![g] = "lock"] /\ UNCHANGED <<sock, wg>>
    /\ UNCHANGED <<status, retry, conns, connsNil, muLeaked, closer, accepted>>

(* WSClient.connect: Lock; if isClosed, Unlock, close the socket and      *)
(* return; else insert; Unlock.                                           *)
WSRegister(g) ==
    /\ Kind = "ws"
    /\ pc[g] = "got"
    /\ ~muLeaked
    /\ IF status = "closed"
       THEN /\ Exit(g)
            /\ sock' = [sock EXCEPT ![g] = "closed"]
            /\ UNCHANGED <<conns, muLeaked>>
       ELSE Insert(g) /\ UNCHANGED sock
    /\ UNCHANGED <<status, retry, connsNil, closer, accepted>>

(* agent.Run returns: its read fails on a closed socket, and the cleanup  *)
(* calls tcpConn.Close / wsConn.Close, whose CAS from Running never       *)
(* succeeds (closeFlag stays Initial), so the socket is left as it is.    *)
AgentReadError(g) ==
    /\ pc[g] = "run"
    /\ sock[g] = "closed"
    /\ pc' = [pc EXCEPT ![g] = "unreg"]
    /\ UNCHANGED <<status, retry, sock, conns, connsNil, muLeaked, wg, closer, accepted>>

(* agent.Run returns on an agent error while the socket is still open.    *)
AgentError(g) ==
    /\ pc[g] = "run"
    /\ sock[g] = "open"
    /\ pc' = [pc EXCEPT ![g] = "unreg"]
    /\ UNCHANGED <<status, retry, sock, conns, connsNil, muLeaked, wg, closer, accepted>>

(* Lock; delete(client.conns, conn) (a no-op on nil); Unlock; OnClose;    *)
(* then sleep and dial again under AutoReconnect, else return.            *)
Unregister(g) ==
    /\ pc[g] = "unreg"
    /\ ~muLeaked
    /\ conns' = conns \ {g}
    /\ IF AutoReconnect
       THEN pc' = [pc EXCEPT ![g] = "dial"] /\ UNCHANGED wg
       ELSE Exit(g)
    /\ UNCHANGED <<status, retry, sock, connsNil, muLeaked, closer, accepted>>

(* The remote end closes the connection.                                  *)
RemoteHangup(g) ==
    /\ sock[g] = "open"
    /\ sock' = [sock EXCEPT ![g] = "closed"]
    /\ UNCHANGED <<status, pc, retry, conns, connsNil, muLeaked, wg, closer, accepted>>

-----------------------------------------------------------------------------
(* Close: CAS Running -> Closed (a Close before Start does nothing).      *)
Close ==
    /\ status = "running"
    /\ status' = "closed"
    /\ closer' = "locking"
    /\ UNCHANGED <<pc, retry, sock, conns, connsNil, muLeaked, wg, accepted>>

(* Fault variant: Close drops the map without closing its sockets.       *)
CloseConnsSkipsClose ==
    /\ closer = "locking"
    /\ ~muLeaked
    /\ conns' = {}
    /\ connsNil' = TRUE
    /\ closer' = "waiting"
    /\ UNCHANGED <<status, pc, retry, sock, muLeaked, wg, accepted>>

(* RLock; close every registered socket; client.conns = nil; RUnlock.    *)
CloseConns ==
    /\ closer = "locking"
    /\ ~muLeaked
    /\ sock' = [g \in Conns |-> IF g \in conns THEN "closed" ELSE sock[g]]
    /\ conns' = {}
    /\ connsNil' = TRUE
    /\ closer' = "waiting"
    /\ UNCHANGED <<status, pc, retry, muLeaked, wg, accepted>>

(* wg.Wait().                                                             *)
CloseWait ==
    /\ closer = "waiting"
    /\ wg = 0
    /\ closer' = "done"
    /\ UNCHANGED <<status, pc, retry, sock, conns, connsNil, muLeaked, wg, accepted>>

-----------------------------------------------------------------------------
ConnectNext(g) ==
    \/ Dial(g) \/ TCPCheck(g) \/ TCPRegister(g) \/ WSRegister(g)
    \/ AgentReadError(g) \/ Unregister(g)

CloseNext == CloseConns \/ CloseWait

Next ==
    \/ Start \/ Close \/ CloseNext
    \/ \E g \in Conns : ConnectNext(g) \/ AgentError(g) \/ RemoteHangup(g)

(* The pool runs the connect goroutines (a sleep ends) and a goroutine    *)
(* inside Close keeps going.  The application's Start and Close, agent    *)
(* errors and the remote end are not forced.                              *)
Fairness ==
    /\ \A g \in Conns : WF_vars(ConnectNext(g))
    /\ WF_vars(CloseNext)

Spec == Init /\ [][Next]_vars /\ Fairness

-----------------------------------------------------------------------------
(* Properties.                                                            *)

(* Close can reach every socket an agent reads from: while conns is a    *)
(* map, it holds exactly the goroutines between registering and           *)
(* unregistering; once Close has set it to nil, every such goroutine's    *)
(* socket is closed, so its agent.Run returns and wg.Wait can end.        *)
ConnsTracked ==
    /\ ~connsNil => conns = {g \in Conns : pc[g] \in {"run", "unreg"}}
    /\ connsNil => \A g \in Conns : pc[g] \in {"run", "unreg"} => sock[g] = "closed"

(* A call to Close returns.                                               *)
CloseReturns == closer = "locking" ~> closer = "done"

=============================================================================
