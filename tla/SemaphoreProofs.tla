--------------------------- MODULE SemaphoreProofs ---------------------------
(***************************************************************************)
(* Theorems about Semaphore and SemaphoreLedger, for any finite set of     *)
(* threads, any width W and any initial count.                             *)
(***************************************************************************)
EXTENDS SemaphoreLedger, FiniteSetTheorems, TLAPS

(* ++_count of a counter in range adds one or, at the top, wraps to zero. *)
LEMMA IncrementWraps ==
  ASSUME NEW n \in 0 .. W - 1
  PROVE  Increment(n) = IF n = W - 1 THEN 0 ELSE n + 1
  BY WidthAssumption DEF Increment

------------------------------------------------------------------------------
(* Type correctness.                                                       *)

LEMMA InitTypeOK == Init => TypeOK
  BY WidthAssumption, InitialAssumption DEF Init, TypeOK, Places, Calls

LEMMA StepTypeOK == TypeOK /\ [Next]_vars => TypeOK'
  <1> SUFFICES ASSUME TypeOK, [Next]_vars
               PROVE  TypeOK'
    OBVIOUS
  <1> USE DEF TypeOK, Places, Calls, Waits
  <1>1. ASSUME NEW t \in Threads, Post(t)
        PROVE  TypeOK'
    <2>1. count' \in 0 .. W - 1
      BY <1>1, IncrementWraps, WidthAssumption DEF Post
    <2>2. QED
      BY <1>1, <2>1 DEF Post, Finish, Released
  <1>2. ASSUME NEW t \in Threads, Take(t)
        PROVE  TypeOK'
    <2>1. count' \in 0 .. W - 1
      BY <1>2, WidthAssumption DEF Take
    <2>2. QED
      BY <1>2, <2>1 DEF Take, Finish, Released
  <1>3. ASSUME NEW t \in Threads, Idle(t)
        PROVE  TypeOK'
    <2>1. ASSUME NEW call \in Calls, Call(t, call)
          PROVE  TypeOK'
      BY <2>1 DEF Call
    <2>2. CASE Sleep(t)
      BY <2>2 DEF Sleep
    <2>3. CASE Fail(t)
      BY <2>3 DEF Fail, Finish, Released
    <2>4. CASE Expire(t)
      BY <2>4 DEF Expire
    <2>5. CASE WakeByTimeout(t)
      BY <2>5 DEF WakeByTimeout
    <2>6. CASE WakeSpuriously(t)
      BY <2>6 DEF WakeSpuriously
    <2>7. QED
      BY <1>3, <2>1, <2>2, <2>3, <2>4, <2>5, <2>6 DEF Idle
  <1>4. CASE UNCHANGED vars
    BY <1>4 DEF vars
  <1>5. QED
    BY <1>1, <1>2, <1>3, <1>4 DEF Next

(* The variables keep their types whatever the threads do. *)
THEOREM SemaphoreTypeCorrect == Safety => []TypeOK
  BY InitTypeOK, StepTypeOK, PTL DEF Safety

------------------------------------------------------------------------------
(* Permits handed out and permits given.  NoOverdraft is not inductive:    *)
(* with a counter that were too high the next Take would overdraw.  What   *)
(* is inductive bounds the counter too, from above by the permits still to *)
(* be handed out, and exactly so as long as the counter cannot have        *)
(* wrapped.                                                                *)

LedgerInv == /\ TypeOK
             /\ posted \in Nat
             /\ granted \in Nat
             /\ count + granted <= Initial + posted
             /\ NoPermitLost

LEMMA LedgerInvInit == LInit => LedgerInv
  BY InitTypeOK, InitialAssumption, WidthAssumption
     DEF LInit, Init, LedgerInv, NoPermitLost

LEMMA LedgerInvStep == LedgerInv /\ [LNext]_lvars => LedgerInv'
  <1> SUFFICES ASSUME LedgerInv, [LNext]_lvars
               PROVE  LedgerInv'
    OBVIOUS
  <1> USE WidthAssumption, InitialAssumption DEF LedgerInv, NoPermitLost
  <1>1. TypeOK'
    BY StepTypeOK DEF LNext, LPost, LTake, LIdle, Next, lvars
  <1>2. count \in 0 .. W - 1 /\ count' \in 0 .. W - 1
    BY <1>1 DEF TypeOK
  <1>3. ASSUME NEW t \in Threads, LPost(t)
        PROVE  LedgerInv'
    (* the new permit is in the counter, or the counter has wrapped to zero *)
    <2>1. count' = IF count = W - 1 THEN 0 ELSE count + 1
      BY <1>2, <1>3, IncrementWraps DEF LPost, Post
    <2>2. posted' = posted + 1 /\ granted' = granted
      BY <1>3 DEF LPost
    <2>3. QED
      BY <1>1, <1>2, <2>1, <2>2
  <1>4. ASSUME NEW t \in Threads, LTake(t)
        PROVE  LedgerInv'
    <2>1. count' = count - 1 /\ granted' = granted + 1 /\ posted' = posted
      BY <1>4 DEF LTake, Take
    <2>2. QED
      BY <1>1, <1>2, <2>1
  <1>5. ASSUME NEW t \in Threads, LIdle(t)
        PROVE  LedgerInv'
    <2>1. UNCHANGED <<count, posted, granted>>
      BY <1>5 DEF LIdle, Idle, Call, Sleep, Fail, Expire, WakeByTimeout,
                  WakeSpuriously
    <2>2. QED
      BY <1>1, <2>1
  <1>6. CASE UNCHANGED lvars
    BY <1>1, <1>6 DEF lvars, vars
  <1>7. QED
    BY <1>3, <1>4, <1>5, <1>6 DEF LNext

(* No permit is handed out that was not given, for any number of threads,  *)
(* any width of the counter and any number of posts.                       *)
THEOREM NeverOverdrawn == LSpec => []NoOverdraft
  <1>1. LedgerInv => NoOverdraft
    BY InitialAssumption, WidthAssumption DEF LedgerInv, TypeOK, NoOverdraft
  <1>2. QED
    BY <1>1, LedgerInvInit, LedgerInvStep, PTL DEF LSpec

(* No permit is lost while the permits given fit in the counter. *)
THEOREM PermitsConserved == LSpec => []NoPermitLost
  <1>1. LedgerInv => NoPermitLost
    BY DEF LedgerInv
  <1>2. QED
    BY <1>1, LedgerInvInit, LedgerInvStep, PTL DEF LSpec

------------------------------------------------------------------------------
(* No lost wake-up.                                                        *)

(* Awake is a finite set, so its cardinality counts. *)
LEMMA AwakeFinite == IsFiniteSet(Awake) /\ Cardinality(Awake) \in Nat
  <1>1. IsFiniteSet(Awake)
    BY ThreadsAssumption, FS_Subset DEF Awake
  <1>2. QED
    BY <1>1, FS_CardinalityType

WakeupInv == TypeOK /\ NoLostWakeup

LEMMA WakeupInvStep == WakeupInv /\ [Next]_vars => WakeupInv'
  <1> SUFFICES ASSUME WakeupInv, [Next]_vars
               PROVE  WakeupInv'
    OBVIOUS
  <1> USE DEF WakeupInv
  <1>1. TypeOK'
    BY StepTypeOK
  <1>2. count \in 0 .. W - 1 /\ count' \in 0 .. W - 1
    BY <1>1 DEF TypeOK
  <1>3. IsFiniteSet(Awake') /\ Cardinality(Awake') \in Nat
    <2>1. IsFiniteSet(Awake')
      BY ThreadsAssumption, FS_Subset DEF Awake
    <2>2. QED
      BY <2>1, FS_CardinalityType
  (* leaving the queue raises the number of awake threads by one *)
  <1>4. ASSUME NEW u \in Threads, pc[u] = "asleep", Awake' = Awake \cup {u}
        PROVE  Cardinality(Awake') = Cardinality(Awake) + 1
    <2>1. u \notin Awake
      BY <1>4 DEF Awake
    <2>2. QED
      BY <1>4, <2>1, AwakeFinite, FS_AddElement
  <1>5. ASSUME NEW t \in Threads, Post(t)
        PROVE  NoLostWakeup'
    <2>1. PICK S \in SUBSET Asleep : NotifyOne(S) /\ pc' = Released(t, S)
      BY <1>5 DEF Post, Finish
    <2>2. count' <= count + 1
      BY <1>2, <1>5, IncrementWraps, WidthAssumption DEF Post
    <2>3. CASE Asleep = {}
      <3>1. Asleep' = {}
        BY <1>5, <2>1, <2>3 DEF Asleep, NotifyOne, Released, Post, TypeOK
      <3>2. QED
        BY <3>1 DEF NoLostWakeup
    <2>4. CASE Asleep # {}
      <3>1. PICK u \in Asleep : S = {u}
        BY <2>1, <2>4 DEF NotifyOne
      <3>2. u \in Threads /\ pc[u] = "asleep" /\ u # t
        BY <1>5, <3>1 DEF Asleep, Post
      <3>3. Awake' = Awake \cup {u}
        BY <1>5, <2>1, <3>1, <3>2 DEF Awake, Released, Post, TypeOK
      <3>4. Cardinality(Awake') = Cardinality(Awake) + 1
        BY <1>4, <3>2, <3>3
      <3>5. count <= Cardinality(Awake)
        BY <2>4 DEF NoLostWakeup
      <3>6. QED
        BY <1>2, <1>3, <2>2, <3>4, <3>5, AwakeFinite DEF NoLostWakeup
    <2>5. QED
      BY <2>3, <2>4
  <1>6. ASSUME NEW t \in Threads, Take(t)
        PROVE  NoLostWakeup'
    <2>1. count' = count - 1 /\ pc' = Released(t, {})
      BY <1>6 DEF Take, Finish
    <2>2. Asleep' = Asleep
      BY <1>6, <2>1 DEF Asleep, Released, Take, TypeOK
    <2>3. Awake' = Awake \ {t}
      BY <1>6, <2>1 DEF Awake, Released, Take, TypeOK
    <2>4. Cardinality(Awake') >= Cardinality(Awake) - 1
      BY <2>3, AwakeFinite, <1>3, FS_RemoveElement
    <2>5. QED
      BY <1>2, <1>3, <2>1, <2>2, <2>4, AwakeFinite DEF NoLostWakeup
  <1>7. ASSUME NEW t \in Threads, Idle(t)
        PROVE  NoLostWakeup'
    <2>1. ASSUME NEW call \in Calls, Call(t, call)
          PROVE  NoLostWakeup'
      <3>1. Asleep' = Asleep /\ Awake' = Awake /\ count' = count
        BY <2>1 DEF Asleep, Awake, Call, TypeOK
      <3>2. QED
        BY <3>1 DEF NoLostWakeup
    <2>2. CASE Sleep(t)
      (* there was no permit to sleep on *)
      BY <1>3, <2>2 DEF Sleep, NoLostWakeup
    <2>3. CASE Fail(t)
      BY <1>3, <2>3 DEF Fail, NoLostWakeup
    <2>4. CASE Expire(t)
      BY <2>4 DEF Expire, NoLostWakeup, Asleep, Awake
    <2>5. CASE WakeByTimeout(t) \/ WakeSpuriously(t)
      <3>1. pc[t] = "asleep" /\ count' = count
        BY <2>5 DEF WakeByTimeout, WakeSpuriously
      <3>2. Awake' = Awake \cup {t}
        BY <2>5 DEF Awake, WakeByTimeout, WakeSpuriously, TypeOK
      <3>3. Cardinality(Awake') = Cardinality(Awake) + 1
        BY <1>4, <3>1, <3>2
      <3>4. t \in Asleep
        BY <3>1 DEF Asleep
      <3>5. QED
        BY <1>2, <1>3, <3>1, <3>3, <3>4, AwakeFinite DEF NoLostWakeup
    <2>6. QED
      BY <1>7, <2>1, <2>2, <2>3, <2>4, <2>5 DEF Idle
  <1>8. CASE UNCHANGED vars
    <2>1. Asleep' = Asleep /\ Awake' = Awake /\ count' = count
      BY <1>8 DEF vars, Asleep, Awake
    <2>2. QED
      BY <1>1, <2>1 DEF NoLostWakeup
  <1>9. QED
    BY <1>1, <1>5, <1>6, <1>7, <1>8 DEF Next

(* A sleeping thread is never left behind while permits lie unused. *)
THEOREM NoWakeupIsLost == Safety => []NoLostWakeup
  <1>1. Init => WakeupInv
    BY InitTypeOK DEF Init, WakeupInv, NoLostWakeup, Asleep
  <1>2. WakeupInv => NoLostWakeup
    BY DEF WakeupInv
  <1>3. QED
    BY <1>1, <1>2, WakeupInvStep, PTL DEF Safety

------------------------------------------------------------------------------
(* The semaphore implements its abstract specification (safety part).      *)

(* What the place of a thread says about the call it is in. *)
PlaceInv == \A t \in Threads :
               /\ (pc[t] = "out") <=> (op[t] = "none")
               /\ pc[t] \in {"asleep", "woken", "timedout"} => op[t] \in Waits
               /\ (expired[t] /\ op[t] # "none") => op[t] = "timed_wait"
               /\ pc[t] = "timedout" => op[t] = "timed_wait"

RefinementInv == TypeOK /\ PlaceInv

LEMMA RefinementInvStep == RefinementInv /\ [Next]_vars => RefinementInv'
  <1> SUFFICES ASSUME RefinementInv, [Next]_vars
               PROVE  PlaceInv'
    BY StepTypeOK DEF RefinementInv
  <1> USE DEF RefinementInv, PlaceInv, TypeOK, Waits, Calls
  <1>1. ASSUME NEW t \in Threads, Post(t)
        PROVE  PlaceInv'
    BY <1>1 DEF Post, Finish, Released, Asleep
  <1>2. ASSUME NEW t \in Threads, Take(t)
        PROVE  PlaceInv'
    BY <1>2 DEF Take, Finish, Released
  <1>3. ASSUME NEW t \in Threads, Idle(t)
        PROVE  PlaceInv'
    <2>1. ASSUME NEW call \in Calls, Call(t, call)
          PROVE  PlaceInv'
      BY <2>1 DEF Call
    <2>2. CASE Sleep(t)
      BY <2>2 DEF Sleep
    <2>3. CASE Fail(t)
      BY <2>3 DEF Fail, Finish, Released
    <2>4. CASE Expire(t)
      BY <2>4 DEF Expire
    <2>5. CASE WakeByTimeout(t)
      BY <2>5 DEF WakeByTimeout
    <2>6. CASE WakeSpuriously(t)
      BY <2>6 DEF WakeSpuriously
    <2>7. QED
      BY <1>3, <2>1, <2>2, <2>3, <2>4, <2>5, <2>6 DEF Idle
  <1>4. CASE UNCHANGED vars
    BY <1>4 DEF vars
  <1>5. QED
    BY <1>1, <1>2, <1>3, <1>4 DEF Next

LEMMA StepImplements == RefinementInv /\ [Next]_vars => [Abstract!ANext]_(Abstract!avars)
  <1> SUFFICES ASSUME RefinementInv, [Next]_vars
               PROVE  [Abstract!ANext]_(Abstract!avars)
    OBVIOUS
  <1> USE DEF RefinementInv, PlaceInv, TypeOK, Waits, Calls, Abstract!avars
  <1>1. ASSUME NEW t \in Threads, Post(t)
        PROVE  Abstract!APost(t)
    BY <1>1 DEF Post, Finish, Increment, Abstract!APost, Abstract!Return
  <1>2. ASSUME NEW t \in Threads, Take(t)
        PROVE  Abstract!Acquire(t)
    BY <1>2 DEF Take, Finish, Abstract!Acquire, Abstract!Return
  <1>3. ASSUME NEW t \in Threads, NEW call \in Calls, Call(t, call)
        PROVE  Abstract!Open(t, call)
    BY <1>3 DEF Call, Abstract!Open
  <1>4. ASSUME NEW t \in Threads, Fail(t)
        PROVE  Abstract!GiveUp(t)
    BY <1>4 DEF Fail, Finish, Abstract!GiveUp, Abstract!Return
  <1>5. ASSUME NEW t \in Threads,
               Sleep(t) \/ Expire(t) \/ WakeByTimeout(t) \/ WakeSpuriously(t)
        PROVE  UNCHANGED Abstract!avars
    BY <1>5 DEF Sleep, Expire, WakeByTimeout, WakeSpuriously
  <1>6. CASE UNCHANGED vars
    BY <1>6 DEF vars
  <1>7. QED
    BY <1>1, <1>2, <1>3, <1>4, <1>5, <1>6
       DEF Next, Idle, Abstract!ANext, Abstract!ACalls

(* Every behaviour of the semaphore is a behaviour of the atomic counter   *)
(* of permits; in particular a timed_wait returns false only at an instant *)
(* when there is no permit, whatever woke it.                              *)
THEOREM SemaphoreImplementsCounter == Safety => Abstract!ASafety
  <1>1. Init => RefinementInv
    BY InitTypeOK DEF Init, RefinementInv, PlaceInv
  <1>2. Init => Abstract!AInit
    BY DEF Init, Abstract!AInit
  <1>3. QED
    BY <1>1, <1>2, RefinementInvStep, StepImplements, PTL
       DEF Safety, Abstract!ASafety
==============================================================================
