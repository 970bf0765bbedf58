------------------------------- MODULE GoTimer -------------------------------
(***************************************************************************)
(* The timer Dispatcher of src/internal/gotimer: a timing wheel whose      *)
(* fired AfterFunc callbacks are sent to the bounded channel ChanJob, read *)
(* and run by the owning module's loop.  A callback is abstracted to       *)
(* whether it returns or panics; the wheel's timing is abstracted away, so *)
(* armed timers fire in any order.                                         *)
(***************************************************************************)
EXTENDS Naturals, Sequences, SequencesExt, Bags

CONSTANTS
    TMods,      \* modules, each owning one Dispatcher
    JobKinds,   \* what a timer callback does: "ok" returns, "panic" panics
    JobCap,     \* capacity of ChanJob (NewDispatcher(jobCap))
    MaxTimers   \* bound on the number of AfterFunc calls in a behaviour

ASSUME JobKinds \subseteq {"ok", "panic"} /\ JobCap \in Nat \ {0}

VARIABLES
    dispClosed,    \* dispClosed[m]: the Dispatcher's status is Closed
    wheelStopped,  \* wheelStopped[m]: timer.Stop() has run
    armed,         \* armed[m]: bag of callbacks armed on the wheel
    chanJob,       \* chanJob[m]: fired callbacks waiting in ChanJob
    timersMade     \* AfterFunc calls so far (bounded by MaxTimers)

timerVars == <<dispClosed, wheelStopped, armed, chanJob, timersMade>>

TimerTypeOK ==
    /\ dispClosed \in [TMods -> BOOLEAN]
    /\ wheelStopped \in [TMods -> BOOLEAN]
    /\ \A m \in TMods : IsABag(armed[m]) /\ BagToSet(armed[m]) \subseteq JobKinds
    /\ chanJob \in [TMods -> Seq(JobKinds)]
    /\ timersMade \in 0..MaxTimers

TimerInit ==
    /\ dispClosed = [m \in TMods |-> FALSE]
    /\ wheelStopped = [m \in TMods |-> FALSE]
    /\ armed = [m \in TMods |-> EmptyBag]
    /\ chanJob = [m \in TMods |-> <<>>]
    /\ timersMade = 0

(* Dispatcher.AfterFunc on a running Dispatcher arms the callback; on a  *)
(* closed one it returns ErrTimerClosed and changes nothing.              *)
AfterFunc(m, k) ==
    /\ ~dispClosed[m]
    /\ timersMade < MaxTimers
    /\ armed' = [armed EXCEPT ![m] = @ (+) SetToBag({k})]
    /\ timersMade' = timersMade + 1
    /\ UNCHANGED <<dispClosed, wheelStopped, chanJob>>

(* The wheel fires an armed timer: its wrapper does `dis.ChanJob <- cb`,  *)
(* blocking the wheel while ChanJob is full.  A stopped wheel fires none. *)
Fire(m) ==
    \E k \in BagToSet(armed[m]) :
        /\ ~wheelStopped[m]
        /\ Len(chanJob[m]) < JobCap
        /\ armed' = [armed EXCEPT ![m] = @ (-) SetToBag({k})]
        /\ chanJob' = [chanJob EXCEPT ![m] = Append(@, k)]
        /\ UNCHANGED <<dispClosed, wheelStopped, timersMade>>

(* The jobs `for i := 0; i < len(dis.ChanJob); i++` receives: i grows     *)
(* while len shrinks, so of n queued jobs it takes the first ceil(n/2).   *)
DrainCount(n) == (n + 1) \div 2

(* Index of the first panicking callback among the jobs Close runs, 0 if *)
(* none: Task.Run calls recover() outside a deferred function, so the     *)
(* panic escapes Close.                                                   *)
FirstPanic(m) ==
    SelectInSubSeq(chanJob[m], 1, DrainCount(Len(chanJob[m])),
                   LAMBDA k : k = "panic")

(* Dispatcher.Close, run by the module's loop at shutdown: CAS to Closed, *)
(* run the drained jobs, then timer.Stop().  A panicking job ends Close   *)
(* early, leaving the wheel running (FirstPanic(m) # 0).               *)
DispatcherClose(m) ==
    LET n == Len(chanJob[m])
        p == FirstPanic(m)
    IN /\ ~dispClosed[m]
       /\ dispClosed' = [dispClosed EXCEPT ![m] = TRUE]
       /\ IF p = 0
            THEN /\ chanJob' = [chanJob EXCEPT ![m] = SubSeq(@, DrainCount(n) + 1, n)]
                 /\ wheelStopped' = [wheelStopped EXCEPT ![m] = TRUE]
                 /\ armed' = [armed EXCEPT ![m] = EmptyBag]
            ELSE /\ chanJob' = [chanJob EXCEPT ![m] = SubSeq(@, p + 1, n)]
                 /\ UNCHANGED <<wheelStopped, armed>>
       /\ UNCHANGED timersMade

=============================================================================
