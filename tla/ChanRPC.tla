------------------------------- MODULE ChanRPC -------------------------------
(***************************************************************************)
(* The channel RPC of src/chanrpc: a Server per module (its function table *)
(* and its bounded call queue chanCall) and the Client that issues calls   *)
(* to it.  A CallInfo is abstracted to the function it names and where its *)
(* Result must go: nowhere (Server.Go), the synchronous reply channel of   *)
(* an outside goroutine (Server.Call0/Call1/CallN through a pooled Client) *)
(* or the asynchronous reply channel ChanAsynRet of a module's Client.     *)
(* A Result is abstracted to its error.                                    *)
(*                                                                         *)
(* Operations used inside one step of a module's loop (AsynCall, ret, the  *)
(* drain of Close) are pure operators over the state they change, so that  *)
(* Skeleton can compose them with the rest of a handler.  The operations   *)
(* of outside goroutines, which block on channel sends, are actions here.  *)
(***************************************************************************)
EXTENDS Naturals, Sequences, SequencesExt

CONSTANTS
    Mods,      \* modules, each owning one Server and one async Client
    Callers,   \* outside goroutines calling Server.Go / Server.Call0
    Fns,       \* function ids a Server may register
    QCap,      \* capacity of chanCall (NewServer(maxCall))
    AsynCap,   \* capacity of ChanAsynRet (NewClient(asynSize))
    MaxCalls   \* bound on the number of calls issued in a behaviour

ASSUME QCap \in Nat \ {0} /\ AsynCap \in Nat \ {0} /\ MaxCalls \in Nat

(* The errors a Result can carry; "ok" is a nil error, "panic" the error  *)
(* Exec builds when the function panicked.                                *)
Errs == {"ok", "panic", "ServerClosed", "FullChannel", "NotRegistered"}

NoReply        == <<"none">>
SyncReply(c)   == <<"sync", c>>
AsyncReply(m)  == <<"async", m>>
Targets        == {SyncReply(c) : c \in Callers} \cup {AsyncReply(m) : m \in Mods}
CallInfos      == [f : Fns, reply : Targets \cup {NoReply}]

VARIABLES
    functions,   \* functions[m]: ids registered on m's Server
    closed,      \* closed[m]: m's Server closed flag (chanCall closed with it)
    chanCall,    \* chanCall[m]: the queued CallInfos of m's Server
    resultChan,  \* resultChan[t]: Results waiting in reply channel t
    pending,     \* pending[m]: pendingAsynCall of m's Client
    caller,      \* caller[c]: what outside goroutine c is doing
    issued       \* calls issued so far (bounded by MaxCalls)

rpcVars == <<functions, closed, chanCall, resultChan, pending, caller, issued>>

CallerStates == [pc : {"idle", "send", "wait", "panicked"},
                 to : Mods, ci : CallInfos]

RPCTypeOK ==
    /\ functions \in [Mods -> SUBSET Fns]
    /\ closed \in [Mods -> BOOLEAN]
    /\ chanCall \in [Mods -> Seq(CallInfos)]
    /\ resultChan \in [Targets -> Seq(Errs)]
    /\ pending \in [Mods -> Nat]
    /\ caller \in [Callers -> CallerStates]
    /\ issued \in 0..MaxCalls

RPCInit ==
    /\ functions = [m \in Mods |-> {}]
    /\ closed = [m \in Mods |-> FALSE]
    /\ chanCall = [m \in Mods |-> <<>>]
    /\ resultChan = [t \in Targets |-> <<>>]
    /\ pending = [m \in Mods |-> 0]
    /\ caller = [c \in Callers |->
                    [pc |-> "idle", to |-> CHOOSE m \in Mods : TRUE,
                     ci |-> [f |-> CHOOSE f \in Fns : TRUE, reply |-> NoReply]]]
    /\ issued = 0

-----------------------------------------------------------------------------
(* Fault variants: plausible mistakes in the operations below, each of    *)
(* which a property of Skeleton must detect.                               *)

DrainClosedSilently(rc, queue) == rc

(* TooManyCalls routed through ChanAsynRet instead of the inline callback. *)
AsynCallRejectViaChan(st, m, m2, f) ==
    IF st.p[m] >= AsynCap
    THEN [st EXCEPT !.r[AsyncReply(m)] = Append(@, "FullChannel")]
    ELSE LET own(e) == [st.r EXCEPT ![AsyncReply(m)] = Append(@, e)]
         IN [CASE f \notin functions[m2] -> [st EXCEPT !.r = own("NotRegistered")]
               [] closed[m2]             -> [st EXCEPT !.r = own("ServerClosed")]
               [] Len(st.q[m2]) < QCap   ->
                    [st EXCEPT !.q[m2] = Append(@, [f |-> f, reply |-> AsyncReply(m)])]
               [] OTHER                  -> [st EXCEPT !.r = own("FullChannel")]
             EXCEPT !.p[m] = @ + 1]

-----------------------------------------------------------------------------
(* Server.ret: deliver a Result to the CallInfo's reply channel, if any.   *)
ret(rc, ci, err) ==
    IF ci.reply = NoReply THEN rc
    ELSE [rc EXCEPT ![ci.reply] = Append(@, err)]

(* The drain loop of Server.Close: every queued CallInfo is answered with *)
(* ServerClosed, in queue order.                                          *)
DrainClosed(rc, queue) ==
    FoldLeft(LAMBDA r, ci : ret(r, ci, "ServerClosed"), rc, queue)

(* Client.AsynCall issued by module m's Client towards m2's Server, as a  *)
(* function of st = [q |-> chanCall, r |-> resultChan, p |-> pending].     *)
(* Over the cap the callback runs inline with TooManyCalls and nothing     *)
(* changes.  Otherwise asynCall either enqueues without blocking or pushes *)
(* an error Result onto m's own ChanAsynRet, and pendingAsynCall grows.   *)
AsynCall(st, m, m2, f) ==
    IF st.p[m] >= AsynCap THEN st
    ELSE LET own(e) == [st.r EXCEPT ![AsyncReply(m)] = Append(@, e)]
             ci     == [f |-> f, reply |-> AsyncReply(m)]
             sent   ==
               CASE f \notin functions[m2]     -> [st EXCEPT !.r = own("NotRegistered")]
                 [] closed[m2]                 -> [st EXCEPT !.r = own("ServerClosed")]
                 [] Len(st.q[m2]) < QCap       -> [st EXCEPT !.q[m2] = Append(@, ci)]
                 [] OTHER                      -> [st EXCEPT !.r = own("FullChannel")]
         IN [sent EXCEPT !.p[m] = @ + 1]

(* Server.Close as a function of st: the CAS, close(chanCall) and drain.  *)
CloseServer(st, m) ==
    IF closed[m] THEN st
    ELSE [st EXCEPT !.q[m] = <<>>, !.r = DrainClosed(st.r, st.q[m])]

-----------------------------------------------------------------------------
(* Actions of outside goroutines (the gate's agents, other goroutines).   *)

(* Server.Register: fails on a closed server or a taken id.               *)
Register(m, f) ==
    /\ ~closed[m]
    /\ f \notin functions[m]
    /\ functions' = [functions EXCEPT ![m] = @ \cup {f}]
    /\ UNCHANGED <<closed, chanCall, resultChan, pending, caller, issued>>

(* Server.Go: getFunc, then a blocking send with no closed check.  An     *)
(* unregistered id is a silent no-op.                                     *)
ServerGo(c, m, f) ==
    /\ caller[c].pc = "idle"
    /\ issued < MaxCalls
    /\ f \in functions[m]
    /\ caller' = [caller EXCEPT ![c] = [pc |-> "send", to |-> m,
                                         ci |-> [f |-> f, reply |-> NoReply]]]
    /\ issued' = issued + 1
    /\ UNCHANGED <<functions, closed, chanCall, resultChan, pending>>

(* Server.Call0 (Call1 and CallN differ only in the shape of the value   *)
(* they return) through a pooled Client: getFunc, then Server.call with  *)
(* block = TRUE, which checks the closed flag before its blocking send.   *)
(* The NotRegistered and ServerClosed returns change nothing.             *)
ServerCall0(c, m, f) ==
    /\ caller[c].pc = "idle"
    /\ issued < MaxCalls
    /\ f \in functions[m]
    /\ ~closed[m]
    /\ caller' = [caller EXCEPT ![c] = [pc |-> "send", to |-> m,
                                         ci |-> [f |-> f, reply |-> SyncReply(c)]]]
    /\ issued' = issued + 1
    /\ UNCHANGED <<functions, closed, chanCall, resultChan, pending>>

(* The channel send `s.chanCall <- ci`: blocks while full; on a closed    *)
(* channel (closed after the check, or while blocked) the send panics.    *)
CallerSend(c) ==
    LET m == caller[c].to
        ci == caller[c].ci
    IN /\ caller[c].pc = "send"
       /\ \/ /\ closed[m]
             /\ caller' = [caller EXCEPT ![c].pc = "panicked"]
             /\ UNCHANGED chanCall
          \/ /\ ~closed[m]
             /\ Len(chanCall[m]) < QCap
             /\ chanCall' = [chanCall EXCEPT ![m] = Append(@, ci)]
             /\ caller' = [caller EXCEPT ![c].pc =
                              IF ci.reply = NoReply THEN "idle" ELSE "wait"]
       /\ UNCHANGED <<functions, closed, resultChan, pending, issued>>

(* `result := <-c.chanSyncRet`, then Client.Close with nothing pending.   *)
CallerReceive(c) ==
    /\ caller[c].pc = "wait"
    /\ resultChan[SyncReply(c)] # <<>>
    /\ resultChan' = [resultChan EXCEPT ![SyncReply(c)] = Tail(@)]
    /\ caller' = [caller EXCEPT ![c].pc = "idle"]
    /\ UNCHANGED <<functions, closed, chanCall, pending, issued>>

CallerNext ==
    \E c \in Callers :
        \/ \E m \in Mods, f \in Fns : ServerGo(c, m, f) \/ ServerCall0(c, m, f)
        \/ CallerSend(c)
        \/ CallerReceive(c)

=============================================================================
