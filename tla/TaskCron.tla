------------------------------ MODULE TaskCron ------------------------------
(***************************************************************************)
(* The cron-over-etcd scheduler of src/internal/gotask/task.go, for one    *)
(* task on a cluster of nodes, each with its own TaskCron.  The task's key *)
(* lives in etcd under a lease that lapses at the task's next run time;    *)
(* every node watches the prefix and, on the key's DELETE, puts it back    *)
(* under a fresh lease and spawns runTask, which races the other nodes for *)
(* the exec lock key (a transaction on its create revision) and runs the   *)
(* handler if its own TaskCron registered one.                             *)
(*                                                                         *)
(* Time is abstracted away: any live lease may lapse at any moment.  Each  *)
(* etcd RPC is one atomic step and may fail.  The task's value is reduced  *)
(* to its status; key, value and spec are the same in every call.          *)
(***************************************************************************)
EXTENDS Naturals, Sequences

CONSTANTS
    Nodes,      \* the processes, each with one TaskCron
    ApiNodes,   \* the nodes whose application calls Add, Remove, UpdateTime
    NoRun,      \* the exec key is absent
    MaxRuns,    \* bound on the runTask goroutines spawned
    MaxOps      \* bound on the Add/Remove/UpdateTime calls

ASSUME ApiNodes \subseteq Nodes /\ MaxRuns \in Nat /\ MaxOps \in Nat /\ NoRun \notin 1..MaxRuns

RunIds == 1..MaxRuns

(* A lease attached to no key changes nothing when it lapses or is        *)
(* revoked, so leases appear only where a key is attached to them: the    *)
(* task key has a lease or none, and the exec key is attached to the exec  *)
(* lease of the runTask that put it, named by that runTask.               *)
VARIABLES
    tkey,     \* the task's key in etcd: [val, leased]; val is its status
    ekey,     \* the exec lock key: the runTask whose lease it is under, or NoRun
    events,   \* events[n]: DELETE events (the previous status) n's watch has not read
    tasks,    \* tasks[n]: n's tc.tasks entry: "none", "handler", "nohandler"
    mdel,     \* mdel[n]: the Status of that entry is statusDel
    status,   \* status[n]: tc.status
    watch,    \* watch[n]: where n's watch goroutine is
    api,      \* api[n]: the Add/Remove/UpdateTime call running on n
    ops,      \* such calls so far
    runs      \* runs[r]: the r-th runTask goroutine and its handler goroutine

vars == <<tkey, ekey, events, tasks, mdel, status, watch, api, ops, runs>>

Statuses == {"normal", "del"}
RunPCs   == {"none", "grant", "txn", "lookup", "wait", "revoke", "done"}
Idle     == [op |-> "idle", val |-> "normal", mem |-> FALSE]
Unused   == [node |-> CHOOSE n \in Nodes : TRUE, pc |-> "none", live |-> FALSE,
             handler |-> "none", won |-> FALSE]

TypeOK ==
    /\ tkey \in [val : Statuses \cup {"none"}, leased : BOOLEAN]
    /\ ekey \in RunIds \cup {NoRun}
    /\ events \in [Nodes -> Seq(Statuses)]
    /\ tasks \in [Nodes -> {"none", "handler", "nohandler"}]
    /\ mdel \in [Nodes -> BOOLEAN]
    /\ status \in [Nodes -> {"initial", "running", "closed"}]
    /\ watch \in [Nodes -> {"start", "recv", "rearm", "exited"}]
    /\ api \in [Nodes -> [op : {"idle", "add", "remove", "delete", "update"},
                          val : Statuses, mem : BOOLEAN]]
    /\ ops \in 0..MaxOps
    /\ runs \in [RunIds -> [node : Nodes, pc : RunPCs, live : BOOLEAN,
                            handler : {"none", "running", "blocked"},
                            won : BOOLEAN]]

(* New: tc.tasks is empty, the status Initial, the watch goroutine queued. *)
Init ==
    /\ tkey = [val |-> "none", leased |-> FALSE]
    /\ ekey = NoRun
    /\ events = [n \in Nodes |-> <<>>]
    /\ tasks = [n \in Nodes |-> "none"]
    /\ mdel = [n \in Nodes |-> FALSE]
    /\ status = [n \in Nodes |-> "initial"]
    /\ watch = [n \in Nodes |-> "start"]
    /\ api = [n \in Nodes |-> Idle]
    /\ ops = 0
    /\ runs = [r \in RunIds |-> Unused]

-----------------------------------------------------------------------------
(* etcd.                                                                  *)

(* A watch created with clientv3.Watch sees the events after its creation, *)
(* until Close cancels its context.                                        *)
Watching(n) == watch[n] \in {"recv", "rearm"} /\ status[n] # "closed"

(* A DELETE of the task key, seen by every watch with its previous value.  *)
DeleteTaskKey ==
    /\ tkey' = [val |-> "none", leased |-> FALSE]
    /\ events' = [n \in Nodes |-> IF Watching(n) THEN Append(events[n], tkey.val)
                                                 ELSE events[n]]

(* The task key's lease lapses at the task's next run time: etcd deletes  *)
(* the key.                                                                *)
ExpireTask ==
    /\ tkey.leased
    /\ DeleteTaskKey
    /\ UNCHANGED <<ekey, tasks, mdel, status, watch, api, ops, runs>>

(* A runTask's exec lease lapses after t.Timeout seconds (etcd's minimum  *)
(* TTL when Timeout is -1), deleting the exec key if it is attached.       *)
ExpireExec(r) ==
    /\ runs[r].live
    /\ runs' = [runs EXCEPT ![r].live = FALSE]
    /\ ekey' = IF ekey = r THEN NoRun ELSE ekey
    /\ UNCHANGED <<tkey, events, tasks, mdel, status, watch, api, ops>>

-----------------------------------------------------------------------------
(* The API, one call at a time per node.  A call that returns before its  *)
(* first write (closed, RepeatedRegister, a failed Get, a bad spec) changes *)
(* nothing and is no step.  A Grant or Put that fails returns the error;  *)
(* a lease granted before a failed Put is attached to nothing.             *)

(* Add: getTask finds the task neither in tc.tasks nor in etcd.            *)
AddGet(n) ==
    /\ api[n].op = "idle" /\ ops < MaxOps
    /\ status[n] # "closed"
    /\ tasks[n] = "none"
    /\ tkey.val = "none"
    /\ api' = [api EXCEPT ![n].op = "add"]
    /\ ops' = ops + 1
    /\ UNCHANGED <<tkey, ekey, events, tasks, mdel, status, watch, runs>>

(* Add: Grant(next - now), Put under the lease, then tc.tasks[key] = t.    *)
AddPut(n) ==
    /\ api[n].op = "add"
    /\ \/ /\ tkey' = [val |-> "normal", leased |-> TRUE]
          /\ tasks' = [tasks EXCEPT ![n] = "handler"]
          /\ mdel' = [mdel EXCEPT ![n] = FALSE]
       \/ UNCHANGED <<tkey, tasks, mdel>>
    /\ api' = [api EXCEPT ![n] = Idle]
    /\ UNCHANGED <<ekey, events, status, watch, ops, runs>>

(* getTask: tc.tasks first (its entry keeps the handler), else etcd.       *)
GetTask(n) ==
    IF tasks[n] # "none"
    THEN [found |-> TRUE, val |-> IF mdel[n] THEN "del" ELSE "normal", mem |-> TRUE]
    ELSE [found |-> tkey.val # "none",
          val |-> IF tkey.val = "del" THEN "del" ELSE "normal", mem |-> FALSE]

(* Remove or UpdateTime: getTask finds the task.                           *)
CallGet(n) ==
    /\ api[n].op = "idle" /\ ops < MaxOps
    /\ status[n] # "closed"
    /\ GetTask(n).found
    /\ \E op \in {"remove", "update"} :
         api' = [api EXCEPT ![n] = [op |-> op, val |-> GetTask(n).val,
                                    mem |-> GetTask(n).mem]]
    /\ ops' = ops + 1
    /\ UNCHANGED <<tkey, ekey, events, tasks, mdel, status, watch, runs>>

(* Remove: t.Status = statusDel, Put without a lease.  A t found in       *)
(* tc.tasks is the cached entry itself, marked Del even if the Put fails. *)
RemovePut(n) ==
    /\ api[n].op = "remove"
    /\ mdel' = [mdel EXCEPT ![n] = @ \/ api[n].mem]
    /\ \/ /\ tkey' = [val |-> "del", leased |-> FALSE]
          /\ api' = [api EXCEPT ![n] = [Idle EXCEPT !.op = "delete"]]
       \/ /\ api' = [api EXCEPT ![n] = Idle]
          /\ UNCHANGED tkey
    /\ UNCHANGED <<ekey, events, tasks, status, watch, ops, runs>>

(* Remove: Delete, then delete(tc.tasks, key) if it succeeded.             *)
RemoveDelete(n) ==
    /\ api[n].op = "delete"
    /\ \/ /\ IF tkey.val # "none" THEN DeleteTaskKey ELSE UNCHANGED <<tkey, events>>
          /\ tasks' = [tasks EXCEPT ![n] = "none"]
          /\ mdel' = [mdel EXCEPT ![n] = FALSE]
       \/ UNCHANGED <<tkey, events, tasks, mdel>>
    /\ api' = [api EXCEPT ![n] = Idle]
    /\ UNCHANGED <<ekey, status, watch, ops, runs>>

(* UpdateTime: Grant, Put of t (new spec) under the lease, then            *)
(* tc.tasks[key] = t; a task read from etcd has no handler, and keeps the  *)
(* status it was read with.                                               *)
UpdatePut(n) ==
    /\ api[n].op = "update"
    /\ \/ /\ tkey' = [val |-> api[n].val, leased |-> TRUE]
          /\ tasks' = [tasks EXCEPT ![n] = IF api[n].mem THEN @ ELSE "nohandler"]
          /\ mdel' = [mdel EXCEPT ![n] = IF api[n].mem THEN @ ELSE api[n].val = "del"]
       \/ UNCHANGED <<tkey, tasks, mdel>>
    /\ api' = [api EXCEPT ![n] = Idle]
    /\ UNCHANGED <<ekey, events, status, watch, ops, runs>>

(* Close: CAS Running -> Closed, then cancel the watch's context.          *)
Close(n) ==
    /\ status[n] = "running"
    /\ status' = [status EXCEPT ![n] = "closed"]
    /\ UNCHANGED <<tkey, ekey, events, tasks, mdel, watch, api, ops, runs>>

-----------------------------------------------------------------------------
(* The watch goroutine of each node.                                      *)

(* watch: tc.status = Running (a plain store), then client.Watch.          *)
WatchStart(n) ==
    /\ watch[n] = "start"
    /\ status' = [status EXCEPT ![n] = "running"]
    /\ watch' = [watch EXCEPT ![n] = "recv"]
    /\ UNCHANGED <<tkey, ekey, events, tasks, mdel, api, ops, runs>>

(* The next DELETE event: a previous value with status Del is skipped,     *)
(* any other must run again.  After Close cancelled the context, the       *)
(* channel may still hand over what it had buffered.                       *)
WatchRecv(n) ==
    /\ watch[n] = "recv"
    /\ events[n] # <<>>
    /\ events' = [events EXCEPT ![n] = Tail(@)]
    /\ watch' = [watch EXCEPT ![n] = IF Head(events[n]) = "del" THEN "recv" ELSE "rearm"]
    /\ UNCHANGED <<tkey, ekey, tasks, mdel, status, api, ops, runs>>

(* The first runTask slot not yet used.                                    *)
FreeRun == CHOOSE r \in RunIds :
               runs[r].pc = "none" /\ \A q \in 1..(r - 1) : runs[q].pc # "none"

(* Grant(next - now), Put the previous value back under the new lease,     *)
(* then gopool.AddTask(runTask).                                           *)
WatchRearm(n) ==
    /\ watch[n] = "rearm"
    /\ \E r \in RunIds : runs[r].pc = "none"
    /\ tkey' = [val |-> "normal", leased |-> TRUE]
    /\ runs' = [runs EXCEPT ![FreeRun] = [Unused EXCEPT !.node = n, !.pc = "grant"]]
    /\ watch' = [watch EXCEPT ![n] = "recv"]
    /\ UNCHANGED <<ekey, events, tasks, mdel, status, api, ops>>

(* The Grant or the Put fails: `continue`, and this node spawns no runTask. *)
WatchRearmError(n) ==
    /\ watch[n] = "rearm"
    /\ watch' = [watch EXCEPT ![n] = "recv"]
    /\ UNCHANGED <<tkey, ekey, events, tasks, mdel, status, api, ops, runs>>

(* The cancelled watch channel closes and the range loop ends; what it   *)
(* had not handed over is dropped.                                        *)
WatchExit(n) ==
    /\ watch[n] = "recv"
    /\ status[n] = "closed"
    /\ watch' = [watch EXCEPT ![n] = "exited"]
    /\ events' = [events EXCEPT ![n] = <<>>]
    /\ UNCHANGED <<tkey, ekey, tasks, mdel, status, api, ops, runs>>

-----------------------------------------------------------------------------
(* runTask, one goroutine per spawn, and the handler goroutine it starts.  *)

RunStep(r, f) ==
    /\ runs' = [runs EXCEPT ![r] = f]
    /\ UNCHANGED <<tkey, events, tasks, mdel, status, watch, api, ops>>

(* runTask has returned: of its locals only the exec lease (when a key is *)
(* attached to it) and the handler goroutine remain.                       *)
Returned(r, live) == [Unused EXCEPT !.pc = "done", !.live = live,
                                    !.handler = runs[r].handler]

(* Grant(t.Timeout) for the exec lock, or return on its error.             *)
RunGrant(r) ==
    /\ runs[r].pc = "grant"
    /\ RunStep(r, [runs[r] EXCEPT !.pc = "txn", !.live = TRUE])
    /\ UNCHANGED ekey

RunGrantError(r) ==
    /\ runs[r].pc = "grant"
    /\ RunStep(r, Returned(r, FALSE))
    /\ UNCHANGED ekey

(* Txn: if the exec key's create revision is 0, put it under the exec     *)
(* lease.  A Put under a lapsed lease fails.  A lost race or an error      *)
(* returns through the deferred Revoke.                                    *)
RunTxn(r) ==
    /\ runs[r].pc = "txn"
    /\ IF runs[r].live /\ ekey = NoRun
       THEN /\ ekey' = r
            /\ RunStep(r, [runs[r] EXCEPT !.pc = "lookup", !.won = TRUE])
       ELSE /\ RunStep(r, [runs[r] EXCEPT !.pc = "revoke"])
            /\ UNCHANGED ekey

RunTxnError(r) ==
    /\ runs[r].pc = "txn"
    /\ RunStep(r, [runs[r] EXCEPT !.pc = "revoke"])
    /\ UNCHANGED ekey

(* mTask := tc.tasks[key] under mu; without a handler, return.  Else the   *)
(* timer starts and the handler runs in a goroutine of the pool.           *)
RunLookup(r) ==
    /\ runs[r].pc = "lookup"
    /\ RunStep(r, IF tasks[runs[r].node] = "handler"
                  THEN [runs[r] EXCEPT !.pc = "wait", !.handler = "running"]
                  ELSE [runs[r] EXCEPT !.pc = "revoke"])
    /\ UNCHANGED ekey

(* The handler returns and `finish <- struct{}{}` meets runTask's select. *)
HandlerFinish(r) ==
    /\ runs[r].handler = "running" /\ runs[r].pc = "wait"
    /\ RunStep(r, [runs[r] EXCEPT !.handler = "none", !.pc = "revoke"])
    /\ UNCHANGED ekey

(* The handler returns after runTask left the select: the send on the     *)
(* unbuffered finish channel blocks for good.                              *)
HandlerBlock(r) ==
    /\ runs[r].handler = "running" /\ runs[r].pc # "wait"
    /\ RunStep(r, [runs[r] EXCEPT !.handler = "blocked"])
    /\ UNCHANGED ekey

(* Fault variant: a select with no timer case waits for finish alone.     *)
TimeoutMissing(r) ==
    /\ runs[r].pc = "wait"
    /\ FALSE
    /\ UNCHANGED vars

(* The timer (t.Timeout seconds, MaxInt32 without one) fires first.        *)
Timeout(r) ==
    /\ runs[r].pc = "wait"
    /\ RunStep(r, [runs[r] EXCEPT !.pc = "revoke"])
    /\ UNCHANGED ekey

(* The deferred Revoke ends the exec lease and the exec key with it.  Its *)
(* error is ignored; the lease then lives until it lapses, which matters  *)
(* only while the exec key is attached to it.                              *)
RunRevoke(r) ==
    /\ runs[r].pc = "revoke"
    /\ \/ /\ RunStep(r, Returned(r, FALSE))
          /\ ekey' = IF ekey = r THEN NoRun ELSE ekey
       \/ /\ RunStep(r, Returned(r, runs[r].live /\ ekey = r))
          /\ UNCHANGED ekey

-----------------------------------------------------------------------------
WatchNext(n) == WatchStart(n) \/ WatchRecv(n) \/ WatchRearm(n) \/ WatchExit(n)

RunNext(r) == RunGrant(r) \/ RunTxn(r) \/ RunLookup(r) \/ Timeout(r) \/ RunRevoke(r)

Next ==
    \/ ExpireTask
    \/ \E n \in ApiNodes :
         \/ AddGet(n) \/ AddPut(n) \/ CallGet(n) \/ RemovePut(n) \/ RemoveDelete(n)
         \/ UpdatePut(n) \/ Close(n)
    \/ \E n \in Nodes : WatchNext(n) \/ WatchRearmError(n)
    \/ \E r \in RunIds :
         \/ RunNext(r) \/ ExpireExec(r) \/ RunGrantError(r) \/ RunTxnError(r)
         \/ HandlerFinish(r) \/ HandlerBlock(r)

(* The pool runs the watch and runTask goroutines, and a runTask's timer  *)
(* fires in the end.  Lapsing is never forced: nothing here waits for it. *)
(* API calls, RPC errors and the user's handler returning are not forced  *)
(* either.                                                                *)
Spec == Init /\ [][Next]_vars
             /\ \A n \in Nodes : WF_vars(WatchNext(n))
             /\ \A r \in RunIds : WF_vars(RunNext(r))

-----------------------------------------------------------------------------
(* Properties.                                                            *)

(* Every runTask returns, and so revokes its exec lease, even when the    *)
(* user's handler never returns: the timer bounds the wait.               *)
RunTaskReturns == \A r \in RunIds : runs[r].pc = "grant" ~> runs[r].pc = "done"

(* When some node has registered the task's handler, the exec lock is    *)
(* never won by a node that has none: winning it there skips the run.     *)
WinnerHasHandler ==
    [][\A r \in RunIds :
         (runs[r].pc = "lookup" /\ runs'[r].pc = "revoke")
            => \A n \in Nodes : tasks[n] # "handler"]_vars

=============================================================================
