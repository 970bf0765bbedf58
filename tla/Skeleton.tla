------------------------------- MODULE Skeleton ------------------------------
(***************************************************************************)
(* The module skeleton of src/skeleton.go composed with the channel RPC    *)
(* (ChanRPC) and the timer Dispatcher (GoTimer).  Each module m has one    *)
(* Skeleton whose loop goroutine selects over the cancellation of its     *)
(* context, its Client's ChanAsynRet, its Server's chanCall, the Go helper *)
(* channel ChanCb and the Dispatcher's ChanJob, and runs what it receives  *)
(* to completion before selecting again.  Outside goroutines call the     *)
(* modules' Servers with Server.Go and Server.Call0.                       *)
(*                                                                         *)
(* A handler run by Server.Exec is abstracted to one of HandlerEffects:    *)
(* return, panic, call Skeleton.Go, call Skeleton.AfterFunc, or call       *)
(* Skeleton.AsynCall on some module's Server.  The Go helper's counter     *)
(* pendingGo is a nil *AtomicInt32 (goroutine.New never allocates it), so  *)
(* every g.Go, g.Idle and g.Cb dereferences nil and panics: nothing ever   *)
(* reaches ChanCb, and the loop's shutdown panics at s.g.Idle().           *)
(***************************************************************************)
EXTENDS ChanRPC, GoTimer, FiniteSets

CONSTANTS
    HandlerEffects  \* what the registered functions may do when run

ASSUME TMods = Mods
ASSUME HandlerEffects \subseteq {"return", "panic", "go", "timer", "asyn"}

VARIABLES
    status,  \* status[m]: the Skeleton's status (Initial, Running, Closed)
    loop     \* loop[m]: where m's loop goroutine is

vars == <<rpcVars, timerVars, status, loop>>

(* "crashed": the loop goroutine was ended by a panicking timer callback; *)
(* "gone": it ended in its shutdown sequence.                            *)
LoopStates == {"none", "select", "closing", "crashed", "gone"}

TypeOK ==
    /\ RPCTypeOK
    /\ TimerTypeOK
    /\ status \in [Mods -> {"initial", "running", "closed"}]
    /\ loop \in [Mods -> LoopStates]

Init ==
    /\ RPCInit
    /\ TimerInit
    /\ status = [m \in Mods |-> "initial"]
    /\ loop = [m \in Mods |-> "none"]

-----------------------------------------------------------------------------
(* Skeleton.Run: CAS Initial -> Running, create the context, submit the   *)
(* loop to the pool.                                                      *)
Run(m) ==
    /\ status[m] = "initial"
    /\ status' = [status EXCEPT ![m] = "running"]
    /\ loop' = [loop EXCEPT ![m] = "select"]
    /\ UNCHANGED <<rpcVars, timerVars>>

(* Skeleton.Close: CAS Running -> Closed, then cancelFunc().              *)
Close(m) ==
    /\ status[m] = "running"
    /\ status' = [status EXCEPT ![m] = "closed"]
    /\ UNCHANGED <<rpcVars, timerVars, loop>>

-----------------------------------------------------------------------------
(* The handler effects; each is guarded by isRunning() in the Skeleton    *)
(* method the handler calls.                                              *)
Effects ==
    {<<e>> : e \in HandlerEffects \ {"asyn"}}
      \cup (IF "asyn" \in HandlerEffects
              THEN {<<"asyn", m2, f>> : m2 \in Mods, f \in Fns} ELSE {})

(* Skeleton.Go on a running Skeleton calls g.Go, whose first statement    *)
(* g.pendingGo.Incr(1) dereferences the nil counter: the handler panics.  *)
(* On a Skeleton that is not running it does nothing.                     *)
SkeletonGo(run) == IF run THEN "panic" ELSE "ok"

(* case ci := <-s.server.Chan(): s.server.Exec(ci).  The function runs,   *)
(* with its effect; a panic is recovered by Exec and becomes the error of *)
(* the Result, which is sent to the reply channel, if any.                *)
Exec(m, eff) ==
    LET ci   == Head(chanCall[m])
        run  == status[m] = "running"
        st0  == [q |-> [chanCall EXCEPT ![m] = Tail(@)], r |-> resultChan, p |-> pending]
        asyn == eff[1] = "asyn" /\ run
        st1  == IF asyn THEN AsynCall(st0, m, eff[2], eff[3]) ELSE st0
        err  == CASE eff[1] = "panic" -> "panic"
                  [] eff[1] = "go"    -> SkeletonGo(run)
                  [] OTHER            -> "ok"
    IN /\ loop[m] = "select"
       /\ chanCall[m] # <<>>
       /\ asyn => issued < MaxCalls
       /\ chanCall' = st1.q
       /\ resultChan' = ret(st1.r, ci, err)
       /\ pending' = st1.p
       /\ issued' = IF asyn THEN issued + 1 ELSE issued
       /\ IF eff[1] = "timer" /\ run
            THEN \E k \in JobKinds : AfterFunc(m, k)
            ELSE UNCHANGED timerVars
       /\ UNCHANGED <<functions, closed, caller, status, loop>>

(* case ri := <-s.client.ChanAsynRet: s.client.Cb(ri): pendingAsynCall-- *)
(* and the callback runs under recover.                                   *)
AsynRet(m) ==
    /\ loop[m] = "select"
    /\ resultChan[AsyncReply(m)] # <<>>
    /\ resultChan' = [resultChan EXCEPT ![AsyncReply(m)] = Tail(@)]
    /\ pending' = [pending EXCEPT ![m] = @ - 1]
    /\ UNCHANGED <<functions, closed, chanCall, caller, issued, timerVars, status, loop>>

(* case t := <-s.dispatcher.ChanJob: t.Run().  Task.Run does not recover, *)
(* so a panicking callback ends the loop goroutine.                       *)
RunJob(m) ==
    /\ loop[m] = "select"
    /\ chanJob[m] # <<>>
    /\ chanJob' = [chanJob EXCEPT ![m] = Tail(@)]
    /\ loop' = [loop EXCEPT ![m] = IF Head(chanJob[m]) = "panic" THEN "crashed" ELSE "select"]
    /\ UNCHANGED <<rpcVars, dispClosed, wheelStopped, armed, timersMade, status>>

(* case <-ctx.Done(): s.dispatcher.Close() ...                           *)
ShutdownDispatcher(m) ==
    /\ loop[m] = "select"
    /\ status[m] = "closed"
    /\ DispatcherClose(m)
    /\ loop' = [loop EXCEPT ![m] = IF FirstPanic(m) = 0 THEN "closing" ELSE "crashed"]
    /\ UNCHANGED <<rpcVars, status>>

(* ... s.server.Close(), then `for !s.g.Idle() || ...` dereferences the   *)
(* nil pendingGo and the loop goroutine panics before s.client.Close().   *)
ShutdownServer(m) ==
    LET st == CloseServer([q |-> chanCall, r |-> resultChan, p |-> pending], m)
    IN /\ loop[m] = "closing"
       /\ closed' = [closed EXCEPT ![m] = TRUE]
       /\ chanCall' = st.q
       /\ resultChan' = st.r
       /\ loop' = [loop EXCEPT ![m] = "gone"]
       /\ UNCHANGED <<functions, pending, caller, issued, timerVars, status>>

LoopNext(m) ==
    \/ \E eff \in Effects : Exec(m, eff)
    \/ AsynRet(m)
    \/ RunJob(m)
    \/ ShutdownDispatcher(m)
    \/ ShutdownServer(m)

Next ==
    \/ \E m \in Mods :
         \/ Run(m)
         \/ Close(m)
         \/ \E f \in Fns : Register(m, f) /\ UNCHANGED <<timerVars, status, loop>>
         \/ Fire(m) /\ UNCHANGED <<rpcVars, status, loop>>
         \/ LoopNext(m)
    \/ CallerNext /\ UNCHANGED <<timerVars, status, loop>>

(* The orchestrator runs every module; the pool runs every loop and every *)
(* outside goroutine; the wheel keeps ticking.  Close comes from a signal *)
(* and Register, Server.Go and Server.Call0 from callers: none is forced. *)
Fairness ==
    /\ \A m \in Mods :
         /\ WF_vars(Run(m))
         /\ WF_vars(LoopNext(m))
         /\ WF_vars(Fire(m) /\ UNCHANGED <<rpcVars, status, loop>>)
    /\ \A c \in Callers :
         /\ WF_vars(CallerSend(c) /\ UNCHANGED <<timerVars, status, loop>>)
         /\ WF_vars(CallerReceive(c) /\ UNCHANGED <<timerVars, status, loop>>)

Spec == Init /\ [][Next]_vars /\ Fairness

-----------------------------------------------------------------------------
(* Properties.                                                            *)

(* The number of CallInfos queued on any Server that will reply to t.     *)
Queued(t) ==
    SumFunction([m \in Mods |->
        Cardinality({i \in DOMAIN chanCall[m] : chanCall[m][i].reply = t})])

CallAnsweredUnlessCrashed ==
    \A c \in Callers :
        caller[c].pc = "wait" ~> (caller[c].pc = "idle" \/ loop[caller[c].to] = "crashed")

(* A Server.Go or Server.Call0 never sends on a closed chanCall (which    *)
(* panics the sender): Server.call checks the closed flag first.          *)
NoSendOnClosedChannel ==
    \A c \in Callers : caller[c].pc # "panicked"

=============================================================================
