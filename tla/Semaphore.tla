------------------------------ MODULE Semaphore ------------------------------
(***************************************************************************)
(* boost::semaphore (semaphore.hpp): a counter guarded by a mutex, with a  *)
(* condition variable on which callers of wait and timed_wait sleep.       *)
(*                                                                         *)
(* Every critical section of the code touches the counter only while it    *)
(* holds _mutex, so one action is one stretch of a call between acquiring  *)
(* the mutex and giving it up (on return, or inside the condition          *)
(* variable's wait).  A thread that wants the mutex is at "enter", "woken" *)
(* or "timedout" and any of them may be the next to get it; leaving the    *)
(* condition variable's queue, by a notification, a time-out or            *)
(* spuriously, does not need the mutex.                                    *)
(***************************************************************************)
EXTENDS Integers, FiniteSets

CONSTANTS Threads,   \* the threads that share the semaphore
          Initial,   \* initial_count
          W          \* the number of values of unsigned int (2^32 in the code)

ASSUME ThreadsAssumption == IsFiniteSet(Threads)
ASSUME WidthAssumption   == W \in Nat \ {0}
ASSUME InitialAssumption == Initial \in 0 .. W - 1

VARIABLES count,     \* _count
          op,        \* op[t]: the call thread t is in, or "none"
          pc,        \* pc[t]: where in that call it is
          expired    \* expired[t]: the deadline of t's timed_wait has passed

vars == <<count, op, pc, expired>>

Calls == {"post", "wait", "timed_wait"}
Waits == {"wait", "timed_wait"}

(* "out": in no call; "enter": about to lock the mutex for the first time; *)
(* "asleep": in the queue of _cond; "woken": out of that queue, about to   *)
(* lock the mutex and test the predicate again; "timedout": the same, but  *)
(* the predicate's value is what timed_wait returns.                       *)
Places == {"out", "enter", "asleep", "woken", "timedout"}

Asleep == {t \in Threads : pc[t] = "asleep"}

(* Threads that left the queue of _cond and have yet to test the predicate. *)
Awake == {t \in Threads : pc[t] \in {"woken", "timedout"}}

TypeOK == /\ count \in 0 .. W - 1
          /\ op \in [Threads -> Calls \cup {"none"}]
          /\ pc \in [Threads -> Places]
          /\ expired \in [Threads -> BOOLEAN]

------------------------------------------------------------------------------
Init == /\ count = Initial
        /\ op = [t \in Threads |-> "none"]
        /\ pc = [t \in Threads |-> "out"]
        /\ expired = [t \in Threads |-> FALSE]

(* A thread calls post, wait or one of the timed_wait overloads. *)
Call(t, call) == /\ pc[t] = "out"
                 /\ pc' = [pc EXCEPT ![t] = "enter"]
                 /\ op' = [op EXCEPT ![t] = call]
                 /\ expired' = [expired EXCEPT ![t] = FALSE]
                 /\ UNCHANGED count

(* ++_count, on an unsigned int. *)
Increment(n) == (n + 1) % W

(* The places after a call of t that returns and, at the same time, takes  *)
(* the threads in S out of the queue of _cond.                             *)
Released(t, S) == [u \in Threads |-> IF u = t THEN "out"
                                     ELSE IF u \in S THEN "woken" ELSE pc[u]]

Finish(t, S) == /\ pc' = Released(t, S)
                /\ op' = [op EXCEPT ![t] = "none"]
                /\ UNCHANGED expired

(* _cond.notify_one(): one sleeper leaves the queue, if there is one. *)
NotifyOne(S) == IF Asleep = {} THEN S = {} ELSE \E u \in Asleep : S = {u}

(* Faults: a post that does not count modulo the width, one that notifies  *)
(* only when the counter was zero, and one that does not notify.           *)
PostUnbounded(t) == /\ pc[t] = "enter"
                    /\ op[t] = "post"
                    /\ count' = count + 1
                    /\ \E S \in SUBSET Threads : NotifyOne(S) /\ Finish(t, S)

PostNotifiesFromZero(t) ==
  /\ pc[t] = "enter"
  /\ op[t] = "post"
  /\ count' = Increment(count)
  /\ \E S \in SUBSET Threads : /\ IF count = 0 THEN NotifyOne(S) ELSE S = {}
                               /\ Finish(t, S)

PostSilent(t) == /\ pc[t] = "enter"
                 /\ op[t] = "post"
                 /\ count' = Increment(count)
                 /\ Finish(t, {})

(* post(): lock, ++_count, notify_one, unlock. *)
Post(t) == /\ pc[t] = "enter"
           /\ op[t] = "post"
           /\ count' = Increment(count)
           /\ \E S \in SUBSET Asleep : NotifyOne(S) /\ Finish(t, S)

(* Fault: a wait that trusts the notification and does not test _count. *)
TakeUntested(t) == /\ pc[t] \in {"enter", "woken", "timedout"}
                   /\ op[t] \in Waits
                   /\ count > 0 \/ pc[t] = "woken"
                   /\ count' = count - 1
                   /\ Finish(t, {})

(* wait and timed_wait with the predicate true: --_count and return, also  *)
(* when the time is up.                                                    *)
Take(t) == /\ pc[t] \in {"enter", "woken", "timedout"}
           /\ op[t] \in Waits
           /\ count > 0
           /\ count' = count - 1
           /\ Finish(t, {})

(* The predicate is false and the time is not known to be up: unlock the   *)
(* mutex and join the queue of _cond, in one step.                         *)
Sleep(t) == /\ pc[t] \in {"enter", "woken"}
            /\ op[t] \in Waits
            /\ count = 0
            /\ pc' = [pc EXCEPT ![t] = "asleep"]
            /\ UNCHANGED <<count, op, expired>>

(* Fault: a timed_wait that takes a permit and still reports the time-out. *)
FailConsumes(t) == /\ pc[t] = "timedout"
                   /\ count' = IF count > 0 THEN count - 1 ELSE 0
                   /\ Finish(t, {})

(* timed_wait returns false: the time is up and the predicate is false. *)
Fail(t) == /\ pc[t] = "timedout"
           /\ count = 0
           /\ UNCHANGED count
           /\ Finish(t, {})

(* The clock passes the deadline of a timed_wait that is still open. *)
Expire(t) == /\ op[t] = "timed_wait"
             /\ ~expired[t]
             /\ expired' = [expired EXCEPT ![t] = TRUE]
             /\ UNCHANGED <<count, op, pc>>

(* The condition variable's own wait ends because the deadline has passed. *)
WakeByTimeout(t) == /\ pc[t] = "asleep"
                    /\ expired[t]
                    /\ pc' = [pc EXCEPT ![t] = "timedout"]
                    /\ UNCHANGED <<count, op, expired>>

(* A condition variable may wake a sleeper that nobody notified. *)
WakeSpuriously(t) == /\ pc[t] = "asleep"
                     /\ pc' = [pc EXCEPT ![t] = "woken"]
                     /\ UNCHANGED <<count, op, expired>>

(* The steps that neither give nor take a permit. *)
Idle(t) == \/ \E call \in Calls : Call(t, call)
           \/ Sleep(t)
           \/ Fail(t)
           \/ Expire(t)
           \/ WakeByTimeout(t)
           \/ WakeSpuriously(t)

Next == \E t \in Threads : Post(t) \/ Take(t) \/ Idle(t)

(* A thread that wants the mutex gets it, time passes, and a wait whose    *)
(* deadline has passed returns from the condition variable however often   *)
(* it is also notified.  Nothing makes a thread call the semaphore, and    *)
(* nothing makes a spurious wake-up happen.                                *)
Fairness == \A t \in Threads : /\ WF_vars(Post(t))
                               /\ WF_vars(Take(t) \/ Sleep(t) \/ Fail(t))
                               /\ WF_vars(Expire(t))
                               /\ SF_vars(WakeByTimeout(t))

Safety == Init /\ [][Next]_vars

Spec == Safety /\ Fairness

------------------------------------------------------------------------------
(* No permit is left lying while threads sleep: as long as anyone sleeps,  *)
(* there are at least as many threads on their way to test the predicate   *)
(* as there are permits to take.  It is what notify_one under the lock, in *)
(* every post and not only in the one that leaves zero, is for.            *)
NoLostWakeup == Asleep # {} => count <= Cardinality(Awake)

(* The calls are atomic operations on a counter of permits, and they end   *)
(* when the abstract ones must: a permit is handed to some waiter, and a   *)
(* timed wait comes back.                                                  *)
Abstract == INSTANCE AbstractSemaphore

AtomicSemaphore == Abstract!ASpec
==============================================================================
