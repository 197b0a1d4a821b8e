--------------------------- MODULE SemaphoreLedger ---------------------------
(***************************************************************************)
(* Semaphore with a ledger: two history variables that count the posts     *)
(* made and the permits handed out, which the counter of the code itself,  *)
(* being taken modulo W, does not remember.                                *)
(***************************************************************************)
EXTENDS Semaphore

CONSTANT MaxPosts    \* bound on the number of posts in a behaviour

ASSUME MaxPostsAssumption == MaxPosts \in Nat

VARIABLES posted,    \* calls of post that have taken effect
          granted    \* calls of wait and timed_wait that obtained a permit

lvars == <<vars, posted, granted>>

LInit == /\ Init
         /\ posted = 0
         /\ granted = 0

LPost(t) == /\ Post(t)
            /\ posted' = posted + 1
            /\ UNCHANGED granted

LTake(t) == /\ Take(t)
            /\ granted' = granted + 1
            /\ UNCHANGED posted

(* The bound: a post is called only while the posts made and the ones in   *)
(* progress are fewer than MaxPosts.                                       *)
PostsBounded == Cardinality({t \in Threads : op'[t] = "post"}) + posted <= MaxPosts

LIdle(t) == /\ Idle(t)
            /\ PostsBounded
            /\ UNCHANGED <<posted, granted>>

LNext == \E t \in Threads : LPost(t) \/ LTake(t) \/ LIdle(t)

LSpec == LInit /\ [][LNext]_lvars

(* The bound is on the calls of post; it does not disable what is fair. *)
LFairSpec == LSpec /\ Fairness

------------------------------------------------------------------------------
(* No thread gets past wait() or a successful timed_wait() on a permit     *)
(* that nobody gave: the permits handed out never exceed initial_count     *)
(* plus the calls of post, in whatever order the threads lock the mutex,   *)
(* wake spuriously or time out, and also when the counter wraps.           *)
NoOverdraft == granted <= Initial + posted

(* As long as the permits ever given fit in an unsigned int none is lost:  *)
(* what has not been handed out is still in _count.  In particular a       *)
(* timed_wait that fails, and one that is notified just as its time runs   *)
(* out, consumes nothing.                                                  *)
NoPermitLost == Initial + posted < W => count + granted = Initial + posted
==============================================================================
