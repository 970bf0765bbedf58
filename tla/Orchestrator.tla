----------------------------- MODULE Orchestrator -----------------------------
(***************************************************************************)
(* The process lifecycle of game.go and module.go: gogame.Run starts the   *)
(* modules in registration order, each one's Run on the pool followed by a *)
(* bounded spin on Running, then blocks in pkg.Wait; on a signal stop()    *)
(* destroys them in reverse order, each Destroy followed by wg.Wait on the *)
(* module's Run task.                                                      *)
(*                                                                         *)
(* Three kinds of Module are modelled from the code that implements the   *)
(* interface in this repository:                                           *)
(*   "skel"  - cmd/game and cmd/login: a status CAS, then Skeleton.Run,   *)
(*             which submits the loop goroutine and returns; Destroy is a *)
(*             status CAS, then Skeleton.Close (a CAS and cancelFunc).    *)
(*   "gate"  - cmd/gate: a status CAS, then Gate.Start / Gate.Close,      *)
(*             each one step here (the servers are TCPServer, WSServer).  *)
(*   "pprof" - gopprof.ProfileServer, appended when ProfileAddr is set:   *)
(*             Running is always true, Run assigns httpServer and blocks  *)
(*             in Serve, Destroy calls httpServer.Shutdown.               *)
(* A skeleton's loop is reduced to live or gone: its shutdown sequence is *)
(* the Skeleton module's.  No cluster is configured (cmd/main.go).        *)
(***************************************************************************)
EXTENDS Naturals, Sequences

CONSTANTS
    Kinds,  \* Kinds[i]: the kind of the i-th module passed to gogame.Run
    Spins   \* module.run's spin bound (`retry >= 10`)

N == Len(Kinds)
Mods == 1..N

VARIABLES
    mstatus,  \* mstatus[i]: the module's own status field
    inner,    \* inner[i]: what its Run starts: the Skeleton's status, or the
              \* gate's servers ("initial" while they are nil)
    loop,     \* loop[i]: the skeleton's loop goroutine: "none", "live", "gone"
    task,     \* task[i]: module.run's pool task: "none", "queued", "cas"
              \* (past the status CAS), "serving" (in Serve), "done"
    srv,      \* srv[i]: ProfileServer.httpServer: "nil", "set", "shutdown"
    opc,      \* the main goroutine: "start", "spin", "started", "destroy", "wait", "stopped"
    idx,      \* the module start() or stop() is at
    retry     \* module.run's spin counter

vars == <<mstatus, inner, loop, task, srv, opc, idx, retry>>

TypeOK ==
    /\ Kinds \in Seq({"skel", "gate", "pprof"})
    /\ mstatus \in [Mods -> {"initial", "running", "closed"}]
    /\ inner \in [Mods -> {"initial", "running", "closed"}]
    /\ loop \in [Mods -> {"none", "live", "gone"}]
    /\ task \in [Mods -> {"none", "queued", "cas", "serving", "done"}]
    /\ srv \in [Mods -> {"nil", "set", "shutdown"}]
    /\ opc \in {"start", "spin", "started", "destroy", "wait", "stopped"}
    /\ idx \in 0..N + 1
    /\ retry \in 0..Spins

(* initModule: newModule and Init for each module; every status Initial.  *)
Init ==
    /\ mstatus = [i \in Mods |-> "initial"]
    /\ inner = [i \in Mods |-> "initial"]
    /\ loop = [i \in Mods |-> "none"]
    /\ task = [i \in Mods |-> "none"]
    /\ srv = [i \in Mods |-> "nil"]
    /\ opc = "start"
    /\ idx = 1
    /\ retry = 0

(* Gate.Close: close whichever servers Start created; nothing while they *)
(* are nil.  Skeleton.Close's CAS Running -> Closed has the same effect.  *)
GateClose(s) == IF s = "running" THEN "closed" ELSE s

(* Gate.Start: newWSServer and newTCPServer create the servers and start  *)
(* them; Skeleton.Run CASes Initial -> Running.  Either happens once.     *)
GateStart(s) == IF s = "initial" THEN "running" ELSE s

(* Module.Running(): the status is Running; ProfileServer returns true.   *)
Running(i) == Kinds[i] = "pprof" \/ mstatus[i] = "running"

-----------------------------------------------------------------------------
(* start(), one module: m.run does wg.Add(1) and submits the Run task.    *)
StartModule ==
    /\ opc = "start"
    /\ idx <= N
    /\ task' = [task EXCEPT ![idx] = "queued"]
    /\ opc' = "spin"
    /\ retry' = 0
    /\ UNCHANGED <<mstatus, inner, loop, srv, idx>>

(* One turn of m.run's loop: break once Running() or after Spins sleeps. *)
Spin ==
    /\ opc = "spin"
    /\ IF Running(idx) \/ retry >= Spins
       THEN opc' = "start" /\ idx' = idx + 1 /\ UNCHANGED retry
       ELSE retry' = retry + 1 /\ UNCHANGED <<opc, idx>>
    /\ UNCHANGED <<mstatus, inner, loop, task, srv>>

(* start() returns; Run then blocks in pkg.Wait.                         *)
StartDone ==
    /\ opc = "start"
    /\ idx = N + 1
    /\ opc' = "started"
    /\ UNCHANGED <<mstatus, inner, loop, task, srv, idx, retry>>

(* pkg.Wait receives a signal and calls stop().                           *)
Signal ==
    /\ opc = "started"
    /\ opc' = "destroy"
    /\ idx' = N
    /\ UNCHANGED <<mstatus, inner, loop, task, srv, retry>>

(* The next module stop() destroys, or stop() returns.                    *)
NextDown(i) ==
    IF i = 1 THEN opc' = "stopped" /\ idx' = 0
             ELSE opc' = "destroy" /\ idx' = i - 1

(* m.destroy calls mi.Destroy().  A skeleton or gate module CASes its     *)
(* status Running -> Closed and, if that succeeds, closes what its Run   *)
(* started (a CAS that fails while that is still Initial).  The profile  *)
(* server reads httpServer, written by the Run task with no              *)
(* synchronisation: the read may see nil until Serve has been reached,   *)
(* and Shutdown on nil panics; destroy's deferred recover swallows it,   *)
(* and wg.Wait is skipped.                                                *)
Destroy ==
    LET i == idx IN
    /\ opc = "destroy"
    /\ IF Kinds[i] = "pprof"
       THEN /\ \E seen \in IF srv[i] = "nil" THEN {"nil"} ELSE {"nil", srv[i]} :
                 IF seen = "nil"
                 THEN NextDown(i) /\ UNCHANGED srv
                 ELSE srv' = [srv EXCEPT ![i] = "shutdown"] /\ opc' = "wait" /\ UNCHANGED idx
            /\ UNCHANGED <<mstatus, inner>>
       ELSE /\ IF mstatus[i] = "running"
               THEN /\ mstatus' = [mstatus EXCEPT ![i] = "closed"]
                    /\ inner' = [inner EXCEPT ![i] = GateClose(@)]
               ELSE UNCHANGED <<mstatus, inner>>
            /\ opc' = "wait"
            /\ UNCHANGED <<srv, idx>>
    /\ UNCHANGED <<loop, task, retry>>

(* m.wg.Wait(): the module's Run task has returned.                       *)
WaitRun ==
    /\ opc = "wait"
    /\ task[idx] = "done"
    /\ NextDown(idx)
    /\ UNCHANGED <<mstatus, inner, loop, task, srv, retry>>

-----------------------------------------------------------------------------
(* The Run task: mi.Run()'s status CAS Initial -> Running; on failure Run *)
(* returns and wg.Done runs.                                              *)
RunCAS(i) ==
    /\ task[i] = "queued"
    /\ Kinds[i] # "pprof"
    /\ IF mstatus[i] = "initial"
       THEN mstatus' = [mstatus EXCEPT ![i] = "running"] /\ task' = [task EXCEPT ![i] = "cas"]
       ELSE task' = [task EXCEPT ![i] = "done"] /\ UNCHANGED mstatus
    /\ UNCHANGED <<inner, loop, srv, opc, idx, retry>>

(* Skeleton.Run (CAS Initial -> Running, submit the loop) or Gate.Start; *)
(* then mi.Run returns and wg.Done runs.                                  *)
RunStart(i) ==
    /\ task[i] = "cas"
    /\ inner' = [inner EXCEPT ![i] = GateStart(@)]
    /\ loop' = [loop EXCEPT ![i] = IF Kinds[i] = "skel" /\ inner[i] = "initial" THEN "live" ELSE @]
    /\ task' = [task EXCEPT ![i] = "done"]
    /\ UNCHANGED <<mstatus, srv, opc, idx, retry>>

(* ProfileServer.Run: net.Listen, assign httpServer, enter Serve.  Serve  *)
(* on a server already shut down returns at once.                         *)
PprofServe(i) ==
    /\ task[i] = "queued"
    /\ Kinds[i] = "pprof"
    /\ task' = [task EXCEPT ![i] = IF srv[i] = "shutdown" THEN "done" ELSE "serving"]
    /\ srv' = [srv EXCEPT ![i] = IF @ = "nil" THEN "set" ELSE @]
    /\ UNCHANGED <<mstatus, inner, loop, opc, idx, retry>>

(* Serve returns ErrServerClosed after Shutdown; Run returns.             *)
PprofReturn(i) ==
    /\ task[i] = "serving"
    /\ srv[i] = "shutdown"
    /\ task' = [task EXCEPT ![i] = "done"]
    /\ UNCHANGED <<mstatus, inner, loop, srv, opc, idx, retry>>

(* The skeleton's loop sees ctx.Done(), runs its shutdown and returns.    *)
LoopExit(i) ==
    /\ loop[i] = "live"
    /\ inner[i] = "closed"
    /\ loop' = [loop EXCEPT ![i] = "gone"]
    /\ UNCHANGED <<mstatus, inner, task, srv, opc, idx, retry>>

-----------------------------------------------------------------------------
Next ==
    \/ StartModule \/ Spin \/ StartDone \/ Signal \/ Destroy \/ WaitRun
    \/ \E i \in Mods : RunCAS(i) \/ RunStart(i) \/ PprofServe(i) \/ PprofReturn(i) \/ LoopExit(i)

Spec == Init /\ [][Next]_vars

-----------------------------------------------------------------------------
(* Properties.                                                            *)

(* The graceful-shutdown contract of the spec (4.12 step 6 and acceptance *)
(* test 4): when stop() calls a module's Destroy, every module after it   *)
(* has finished: its Run task has returned, its skeleton's loop has       *)
(* returned, and nothing its Run started is still running.                *)
LaterModulesFinished ==
    opc = "destroy" =>
        \A j \in idx + 1..N :
            /\ task[j] = "done"
            /\ loop[j] # "live"
            /\ inner[j] # "running"

=============================================================================
