-------------------------- MODULE AbstractSemaphore --------------------------
(***************************************************************************)
(* What boost::semaphore (semaphore.hpp) promises its callers: a counter   *)
(* of permits on which post, wait and timed_wait act atomically.  There is *)
(* no mutex, no condition variable and no sleeping thread here: a call is  *)
(* open from the moment it is made until the moment it takes effect.       *)
(***************************************************************************)
EXTENDS Integers

CONSTANTS Threads,   \* the callers
          Initial,   \* the constructor's initial_count
          W          \* the number of values of an unsigned int

VARIABLES count,     \* permits available
          op         \* op[t]: the call thread t has open, "none" if it has none

avars == <<count, op>>

ACalls == {"post", "wait", "timed_wait"}

AInit == /\ count = Initial
         /\ op = [t \in Threads |-> "none"]

Open(t, call) == /\ op[t] = "none"
                 /\ op' = [op EXCEPT ![t] = call]
                 /\ UNCHANGED count

Return(t) == op' = [op EXCEPT ![t] = "none"]

(* A post adds one permit, in the arithmetic of the counter's width. *)
APost(t) == /\ op[t] = "post"
            /\ count' = (count + 1) % W
            /\ Return(t)

(* A wait, timed or not, ends by taking one permit. *)
Acquire(t) == /\ op[t] \in {"wait", "timed_wait"}
              /\ count > 0
              /\ count' = count - 1
              /\ Return(t)

(* A timed wait may also end empty-handed, at an instant without permits. *)
GiveUp(t) == /\ op[t] = "timed_wait"
             /\ count = 0
             /\ UNCHANGED count
             /\ Return(t)

EndTimedWait(t) == /\ op[t] = "timed_wait"
                   /\ (Acquire(t) \/ GiveUp(t))

ANext == \E t \in Threads :
            \/ \E call \in ACalls : Open(t, call)
            \/ APost(t)
            \/ Acquire(t)
            \/ GiveUp(t)

(* A post takes effect; while there are permits some waiter gets one (not  *)
(* any particular one: the semaphore is not first-come first-served); a    *)
(* timed wait ends.                                                        *)
AFairness == /\ \A t \in Threads : WF_avars(APost(t))
             /\ WF_avars(\E t \in Threads : Acquire(t))
             /\ \A t \in Threads : WF_avars(EndTimedWait(t))

ASafety == AInit /\ [][ANext]_avars

ASpec == ASafety /\ AFairness
==============================================================================
