------------------------------- MODULE RedLock -------------------------------
(***************************************************************************)
(* The redis lock of src/internal/golocker/redlock/redislock.go, used as  *)
(* its test uses it: each client goroutine takes the lock with Lock or    *)
(* TryLock, works, and calls UnLock.  Redis runs each Lua script          *)
(* atomically, so one Eval is one step.  Time is abstracted away: the     *)
(* lock key's TTL (px + defaultLockExpire ms) may lapse at any moment,     *)
(* since a holder may be delayed arbitrarily long.  An Eval can fail on   *)
(* the network either before or after Redis ran the script.               *)
(*                                                                         *)
(* Every call takes its id from uuid.Next of src/internal/uuid/uuid.go:   *)
(* the 10 ms periods since the generator's start time, then a sequence    *)
(* number, then the machine id.  All clients share one generator (one     *)
(* process), so the machine bits are the same in every id and are left    *)
(* out; the sequence has SeqBits bits instead of 8, so that it wraps.      *)
(* The wall clock (time.Now, not monotonic) may step either way.          *)
(***************************************************************************)
EXTENDS Naturals, FiniteSets

CONSTANTS
    Clients,  \* the goroutines using the lock
    NoId,     \* the key is absent (GET returns nil)
    MaxCalls, \* bound on the Lock/TryLock calls of a behaviour
    SeqBits,  \* bitLenSequence, scaled down
    MaxTime   \* bound on the clock, in 10 ms periods since startTime

VARIABLES
    key,      \* the value stored under the lock key, or NoId
    ttl,      \* the key carries a TTL (SET ... PX)
    pc,       \* pc[c]: where client c is
    lockId,   \* lockId[c]: the id of c's current Lock/TryLock call
    calls,    \* Lock/TryLock calls made so far
    builder,  \* uuid's builder: [elapsed, sequence]
    now       \* timestamp(nowFunc()) - builder.startTime

vars == <<key, ttl, pc, lockId, calls, builder, now>>

MaxSequence == 2^SeqBits - 1

(* The id of a period and sequence number; the time part is at least 1,  *)
(* so no id is 0 or 1.                                                    *)
MakeId(elapsed, sequence) == elapsed * 2^SeqBits + sequence

Ids == 2..MakeId(MaxTime + MaxCalls, MaxSequence)

PCs == {"idle", "trylock", "locking", "cs", "unlocking", "done", "failed",
        "panicked", "crashed"}

TypeOK ==
    /\ key \in Ids \cup {NoId}
    /\ ttl \in BOOLEAN
    /\ pc \in [Clients -> PCs]
    /\ lockId \in [Clients -> Ids \cup {NoId}]
    /\ calls \in 0..MaxCalls
    /\ builder \in [elapsed : 0..(MaxTime + MaxCalls), sequence : 0..MaxSequence]
    /\ now \in 1..(MaxTime + MaxCalls)

Init ==
    /\ key = NoId
    /\ ttl = FALSE
    /\ pc = [c \in Clients |-> "idle"]
    /\ lockId = [c \in Clients |-> NoId]
    /\ calls = 0
    /\ builder = [elapsed |-> 0, sequence |-> MaxSequence]
    /\ now \in 1..MaxTime

-----------------------------------------------------------------------------
(* The two Lua scripts, as functions of the stored value k and the         *)
(* caller's id: the new value, whether it has a TTL, and the reply      *)
(* ("nil" is redis.Nil).  t is whether the stored value has a TTL.       *)

(* Fault variant: the lock script sets the key without PX.               *)
lockCommandNoPX(k, t, id) ==
    IF k = id \/ k = NoId THEN [key |-> id, ttl |-> FALSE, reply |-> "OK"]
    ELSE [key |-> k, ttl |-> t, reply |-> "nil"]

(* lockCommand: refresh the TTL of one's own lock, else SET NX PX.         *)
lockCommand(k, t, id) ==
    IF k = id \/ k = NoId THEN [key |-> id, ttl |-> TRUE, reply |-> "OK"]
    ELSE [key |-> k, ttl |-> t, reply |-> "nil"]

(* Fault variant: the unlock script deletes without comparing the owner. *)
delCommandNoCheck(k, t, id) ==
    IF k = NoId THEN [key |-> k, ttl |-> t, nil |-> TRUE, reply |-> 0]
    ELSE [key |-> NoId, ttl |-> FALSE, nil |-> FALSE, reply |-> 1]

(* delCommand: DEL one's own lock (reply 1), else GET: the other holder's *)
(* id (ParseInt of its decimal string), or nil.                           *)
delCommand(k, t, id) ==
    CASE k = id   -> [key |-> NoId, ttl |-> FALSE, nil |-> FALSE, reply |-> 1]
      [] k = NoId -> [key |-> k, ttl |-> t, nil |-> TRUE, reply |-> 0]
      [] OTHER    -> [key |-> k, ttl |-> t, nil |-> FALSE, reply |-> k]

-----------------------------------------------------------------------------
(* uuid.Next as a function of the builder b and the current period past. *)
(* Fault variant: the sequence is incremented without `& maxSequence`.    *)
UuidNextNoMask(b, past) ==
    IF b.elapsed < past THEN [elapsed |-> past, sequence |-> 0]
    ELSE LET s == b.sequence + 1
         IN  [elapsed |-> IF s = 0 THEN b.elapsed + 1 ELSE b.elapsed, sequence |-> s]

(* Fault variant: a wrapped sequence does not move on to the next period. *)
UuidNextNoCarry(b, past) ==
    IF b.elapsed < past THEN [elapsed |-> past, sequence |-> 0]
    ELSE [elapsed |-> b.elapsed, sequence |-> (b.sequence + 1) % (MaxSequence + 1)]

(* In a new period the sequence restarts at 0.  Otherwise (the same period *)
(* or a clock that stepped back) the sequence advances, and when it wraps  *)
(* to 0 the id moves on to the next period.                               *)
UuidNext(b, past) ==
    IF b.elapsed < past THEN [elapsed |-> past, sequence |-> 0]
    ELSE LET s == (b.sequence + 1) % (MaxSequence + 1)
         IN  [elapsed |-> IF s = 0 THEN b.elapsed + 1 ELSE b.elapsed, sequence |-> s]

(* TryLock and Lock begin: px defaults, lockId := uuid.Next().  Next runs *)
(* under builder.mu; after a wrap it sleeps until the clock reaches the   *)
(* period it moved on to.                                                  *)
Start(c) ==
    /\ pc[c] = "idle"
    /\ calls < MaxCalls
    /\ \E entry \in {"trylock", "locking"} : pc' = [pc EXCEPT ![c] = entry]
    /\ LET b == UuidNext(builder, now)
       IN  /\ builder' = b
           /\ lockId' = [lockId EXCEPT ![c] = MakeId(b.elapsed, b.sequence)]
           /\ now' = IF b.elapsed > now THEN b.elapsed ELSE now
    /\ calls' = calls + 1
    /\ UNCHANGED <<key, ttl>>

(* The wall clock moves, forward or (an NTP step) back.                    *)
Tick ==
    /\ \E t \in 1..MaxTime \ {now} : now' = t
    /\ UNCHANGED <<key, ttl, pc, lockId, calls, builder>>

(* One Eval of lockCommand that answers: on a nil reply TryLock returns *)
(* false and Lock tries again at once; on "OK" both return the id.       *)
EvalLock(c) ==
    /\ pc[c] \in {"trylock", "locking"}
    /\ LET r == lockCommand(key, ttl, lockId[c])
       IN  /\ key' = r.key /\ ttl' = r.ttl
           /\ pc' = [pc EXCEPT ![c] =
                       CASE r.reply = "OK"    -> "cs"
                         [] pc[c] = "locking" -> "locking"
                         [] OTHER             -> "failed"]
    /\ UNCHANGED <<lockId, calls, builder, now>>

(* An Eval of lockCommand fails on the network, before or after Redis ran *)
(* the script; Lock and TryLock return the error.                         *)
EvalLockError(c) ==
    /\ pc[c] \in {"trylock", "locking"}
    /\ LET r == lockCommand(key, ttl, lockId[c])
       IN  \E ran \in BOOLEAN : /\ key' = IF ran THEN r.key ELSE key
                                /\ ttl' = IF ran THEN r.ttl ELSE ttl
    /\ pc' = [pc EXCEPT ![c] = "failed"]
    /\ UNCHANGED <<lockId, calls, builder, now>>

(* The holder is done with its work and calls UnLock ...                  *)
Work(c) ==
    /\ pc[c] = "cs"
    /\ pc' = [pc EXCEPT ![c] = "unlocking"]
    /\ UNCHANGED <<key, ttl, lockId, calls, builder, now>>

(* ... or its process dies while it holds the lock.                       *)
Crash(c) ==
    /\ pc[c] = "cs"
    /\ pc' = [pc EXCEPT ![c] = "crashed"]
    /\ UNCHANGED <<key, ttl, lockId, calls, builder, now>>

(* One Eval of delCommand in UnLock's loop that answers: redis.Nil      *)
(* panics "unlock of unlocked mutex"; reply 1 returns nil; any other      *)
(* reply (another holder's id) loops.                                     *)
EvalUnlock(c) ==
    /\ pc[c] = "unlocking"
    /\ LET r == delCommand(key, ttl, lockId[c])
       IN  /\ key' = r.key /\ ttl' = r.ttl
           /\ pc' = [pc EXCEPT ![c] =
                       CASE r.nil           -> "panicked"
                         [] r.reply = 1     -> "done"
                         [] OTHER           -> "unlocking"]
    /\ UNCHANGED <<lockId, calls, builder, now>>

(* An Eval of delCommand fails on the network (the DEL may have run);     *)
(* UnLock returns the error.                                              *)
EvalUnlockError(c) ==
    /\ pc[c] = "unlocking"
    /\ LET r == delCommand(key, ttl, lockId[c])
       IN  \E ran \in BOOLEAN : /\ key' = IF ran THEN r.key ELSE key
                                /\ ttl' = IF ran THEN r.ttl ELSE ttl
    /\ pc' = [pc EXCEPT ![c] = "failed"]
    /\ UNCHANGED <<lockId, calls, builder, now>>

(* A client that got its answer takes the lock again later.             *)
Again(c) ==
    /\ pc[c] \in {"done", "failed"}
    /\ pc' = [pc EXCEPT ![c] = "idle"]
    /\ UNCHANGED <<key, ttl, lockId, calls, builder, now>>

(* The key's TTL lapses and Redis removes it.                             *)
Expire ==
    /\ key # NoId
    /\ ttl
    /\ key' = NoId
    /\ ttl' = FALSE
    /\ UNCHANGED <<pc, lockId, calls, builder, now>>

ClientNext(c) == Start(c) \/ EvalLock(c) \/ Work(c) \/ EvalUnlock(c)

Next ==
    \/ Expire
    \/ Tick
    \/ \E c \in Clients :
         \/ ClientNext(c)
         \/ EvalLockError(c) \/ EvalUnlockError(c)
         \/ Crash(c) \/ Again(c)

(* Every client goroutine in a call is scheduled; Redis expires a key    *)
(* whose TTL has passed.  A network error, a crash, a further call or a *)
(* clock step is never forced.                                                          *)
Spec == Init /\ [][Next]_vars /\ WF_vars(Expire)
                              /\ \A c \in Clients : WF_vars(ClientNext(c))

-----------------------------------------------------------------------------
(* Properties.                                                            *)

(* A lock is released only by its own holder's UnLock or by its TTL: no   *)
(* client's Lock, TryLock or UnLock ever removes or overwrites the id of  *)
(* another client, even one whose own lock expired while it worked.      *)
NoStaleRelease ==
    [][\A c \in Clients :
         (key # NoId /\ key = lockId[c] /\ key' # key) =>
            \/ pc[c] = "unlocking" /\ pc'[c] # "unlocking"
            \/ key' = NoId /\ pc' = pc]_vars

(* Every Lock call returns, although Lock has no effective timeout       *)
(* (DefaultLockTimeout): a holder that crashes, or an id whose reply was  *)
(* lost, keeps the key only until its TTL.                                *)
LockReturns == \A c \in Clients : pc[c] = "locking" ~> pc[c] # "locking"

=============================================================================
