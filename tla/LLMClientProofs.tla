---------------------------- MODULE LLMClientProofs ----------------------------
(***************************************************************************)
(* For any number of threads, any threshold, cooldown, quota and retries:  *)
(* the unlocked circuit breaker of app/reasoning/llm_client.py loses no    *)
(* trip, and lets no call through during a cooldown.  Both follow from the *)
(* types and TripNotLost, which is inductive: the only steps that leave    *)
(* failureCount at the threshold keep opened_at set or keep the thread     *)
(* that will set it.                                                       *)
(***************************************************************************)
EXTENDS LLMClient, TLAPS

IInv == TypeOK /\ TripNotLost

(* What TypeOK says of one thread.                                         *)
ThreadOK(t) ==
    /\ pc[t] \in Returned \cup Running
    /\ timer[t] \in Nat
    /\ attempt[t] \in 0..Attempts
    /\ pc[t] = "inflight" => attempt[t] > 0
    /\ IF pc[t] = "backoff" THEN attempt[t] \in 1..(Attempts - 1)
                            ELSE timer[t] <= MaxLag
    /\ calls[t] \in 0..Calls

(* A step of thread t leaves the other threads alone.                      *)
OnlyThread(t) ==
    /\ pc' = [pc EXCEPT ![t] = pc'[t]]
    /\ timer' = [timer EXCEPT ![t] = timer'[t]]
    /\ attempt' = [attempt EXCEPT ![t] = attempt'[t]]
    /\ calls' = [calls EXCEPT ![t] = calls'[t]]

Maps ==
    /\ pc \in [Threads -> Returned \cup Running]
    /\ timer \in [Threads -> Nat]
    /\ attempt \in [Threads -> 0..Attempts]
    /\ calls \in [Threads -> 0..Calls]

(* The invariant holds initially.                                          *)
LEMMA InitInvariant == Init => IInv
  BY LLMAssumption DEF Init, IInv, TypeOK, TripNotLost, Returned

(* A step of a thread changes nothing that is another thread's.            *)
LEMMA StepOfThread ==
    ASSUME TypeOK, NEW t \in Threads, Enter(t) \/ Step(t)
    PROVE  OnlyThread(t)
  <1>1. Maps
    BY DEF TypeOK, Maps
  <1>2. Enter(t) => OnlyThread(t)
    BY <1>1 DEF Enter, Goto, ReadClock, Maps, OnlyThread
  <1>3. Compare(t) => OnlyThread(t)
    BY <1>1 DEF Compare, Goto, ReadClock, Maps, OnlyThread
  <1>4. Throttle(t) => OnlyThread(t)
    BY <1>1 DEF Throttle, Goto, Maps, OnlyThread
  <1>5. Answer(t) => OnlyThread(t)
    BY <1>1 DEF Answer, Goto, Maps, OnlyThread
  <1>6. Reject(t) => OnlyThread(t)
    BY <1>1 DEF Reject, Goto, Maps, OnlyThread
  <1>7. Retry(t) => OnlyThread(t)
    BY <1>1 DEF Retry, Goto, Maps, OnlyThread
  <1>8. RecordSuccess(t) => OnlyThread(t)
    BY <1>1 DEF RecordSuccess, Goto, Maps, OnlyThread
  <1>9. Parse(t) => OnlyThread(t)
    BY <1>1 DEF Parse, Goto, Maps, OnlyThread
  <1>10. RecordFailure(t) => OnlyThread(t)
    BY <1>1 DEF RecordFailure, Goto, ReadClock, Maps, OnlyThread
  <1>11. Open(t) => OnlyThread(t)
    BY <1>1 DEF Open, Goto, ReadClock, Maps, OnlyThread
  <1> QED
    BY <1>2, <1>3, <1>4, <1>5, <1>6, <1>7, <1>8, <1>9, <1>10, <1>11 DEF Step

(* So it preserves the types if it does for its own thread and for what    *)
(* the threads share.                                                      *)
SharedOK ==
    /\ failureCount \in Nat
    /\ openedAt \in (0..OldestOpening) \cup {None}
    /\ quota \in [1..Quota -> 0..Period]

(* Maps with entries that are right thread by thread are right.            *)
LEMMA TypesByThread ==
    ASSUME TypeOK, NEW t \in Threads, OnlyThread(t), ThreadOK(t)', SharedOK'
    PROVE  TypeOK'
  <1>1. Maps
    BY DEF TypeOK, Maps
  <1>2. Maps'
    BY <1>1 DEF Maps, OnlyThread, ThreadOK
  <1>3. ASSUME NEW s \in Threads
        PROVE  /\ pc'[s] = "inflight" => attempt'[s] > 0
               /\ IF pc'[s] = "backoff" THEN attempt'[s] \in 1..(Attempts - 1)
                                        ELSE timer'[s] <= MaxLag
    <2>1. CASE s = t
      BY <2>1 DEF ThreadOK
    <2>2. CASE s # t
      <3>1. pc'[s] = pc[s] /\ timer'[s] = timer[s] /\ attempt'[s] = attempt[s]
        BY <1>1, <2>2 DEF Maps, OnlyThread
      <3> QED
        BY <3>1 DEF TypeOK
    <2> QED
      BY <2>1, <2>2
  <1> QED
    BY <1>2, <1>3 DEF Maps, SharedOK, TypeOK

(* What TypeOK gives of the thread that moves.                             *)
LEMMA Now ==
    ASSUME TypeOK, NEW t \in Threads
    PROVE  ThreadOK(t) /\ SharedOK /\ Maps
  BY DEF TypeOK, ThreadOK, SharedOK, Maps

(* A step of a thread preserves the types.                                 *)
LEMMA StepTypes ==
    ASSUME TypeOK, NEW t \in Threads, Enter(t) \/ Step(t)
    PROVE  ThreadOK(t)' /\ SharedOK'
  <1>0. ThreadOK(t) /\ SharedOK /\ Maps
    BY Now
  <1> USE <1>0, LLMAssumption
  <1>1. CASE Enter(t)
    <2>1. calls[t] - 1 \in 0..Calls
      BY <1>1 DEF Enter, ThreadOK
    <2> QED
      BY <1>1, <2>1
         DEF Enter, Goto, ReadClock, breaker, Maps, ThreadOK, SharedOK, Running, Returned
  <1>2. CASE Compare(t)
    <2>1. ThreadOK(t)'
      <3>1. /\ attempt' = attempt /\ calls' = calls /\ timer'[t] = 0
            /\ pc'[t] \in {"crashed", "throttle", "unavailable"}
        BY <1>2 DEF Compare, Goto, ReadClock, Maps
      <3> QED
        BY <3>1 DEF ThreadOK, Running, Returned
    <2>2. SharedOK'
      BY <1>2 DEF Compare, breaker, SharedOK
    <2> QED
      BY <2>1, <2>2
  <1>3. CASE Throttle(t)
    <2>1. SharedOK'
      BY <1>3 DEF Throttle, breaker, SharedOK
    <2>2. ThreadOK(t)'
      BY <1>3 DEF Throttle, Goto, Maps, ThreadOK, Running
    <2> QED
      BY <2>1, <2>2
  <1>4. CASE Answer(t)
    BY <1>4 DEF Answer, Goto, breaker, Maps, ThreadOK, SharedOK, Running
  <1>5. CASE Reject(t)
    <2>1. SharedOK'
      BY <1>5 DEF Reject, breaker, SharedOK
    <2>2. ThreadOK(t)'
      <3>1. CASE attempt[t] < Attempts /\ Goto(t, "backoff")
                 /\ timer' = [timer EXCEPT ![t] = Backoff[attempt[t]]]
        <4>1. attempt[t] \in 1..(Attempts - 1) /\ attempt' = attempt /\ calls' = calls
          BY <1>5, <3>1 DEF Reject, ThreadOK
        <4> QED
          BY <3>1, <4>1 DEF Goto, Maps, ThreadOK, Running
      <3>2. CASE attempt[t] = Attempts /\ Goto(t, "failing") /\ UNCHANGED timer
        BY <1>5, <3>2 DEF Reject, Goto, Maps, ThreadOK, Running
      <3> QED
        BY <1>5, <3>1, <3>2 DEF Reject
    <2> QED
      BY <2>1, <2>2
  <1>6. CASE Retry(t)
    BY <1>6 DEF Retry, Goto, breaker, Maps, ThreadOK, SharedOK, Running
  <1>7. CASE RecordSuccess(t)
    BY <1>7 DEF RecordSuccess, Goto, Maps, ThreadOK, SharedOK, Running
  <1>8. CASE Parse(t)
    BY <1>8 DEF Parse, Goto, breaker, Maps, ThreadOK, SharedOK, Running, Returned
  <1>9. CASE RecordFailure(t)
    BY <1>9 DEF RecordFailure, Goto, ReadClock, Maps, ThreadOK, SharedOK,
                Running, Returned
  <1>10. CASE Open(t)
    <2>1. timer[t] \in 0..OldestOpening
      BY <1>10 DEF Open, ThreadOK, OldestOpening
    <2> QED
      BY <1>10, <2>1 DEF Open, Goto, ReadClock, Maps, ThreadOK, SharedOK, Returned
  <1> QED
    BY <1>1, <1>2, <1>3, <1>4, <1>5, <1>6, <1>7, <1>8, <1>9, <1>10 DEF Step

(* The clock preserves the types.                                          *)
LEMMA TickTypes == TypeOK /\ Tick => TypeOK'
  <1> SUFFICES ASSUME TypeOK, Tick PROVE TypeOK'
    OBVIOUS
  <1>1. Maps /\ SharedOK /\ pc' = pc /\ attempt' = attempt /\ calls' = calls
    BY DEF TypeOK, Maps, SharedOK, Tick
  <1>2. /\ timer' = [t \in Threads |->
                       IF HoldsClock(t) THEN timer[t] + 1
                       ELSE IF pc[t] = "backoff" THEN Less(timer[t])
                       ELSE timer[t]]
        /\ \A t \in Threads : HoldsClock(t) => timer[t] < MaxLag
    BY DEF Tick
  <1>3. ASSUME NEW t \in Threads
        PROVE  timer'[t] \in Nat /\ (pc[t] # "backoff" => timer'[t] <= MaxLag)
    <2>1. timer[t] \in Nat /\ (pc[t] # "backoff" => timer[t] <= MaxLag)
      BY DEF TypeOK
    <2>2. CASE HoldsClock(t)
      <3>1. timer'[t] = timer[t] + 1 /\ timer[t] < MaxLag
        BY <1>2, <2>2
      <3> QED
        BY <2>1, <3>1, LLMAssumption
    <2>3. CASE ~HoldsClock(t)
      <3>1. timer'[t] = IF pc[t] = "backoff" THEN Less(timer[t]) ELSE timer[t]
        BY <1>2, <2>3
      <3> QED
        BY <2>1, <3>1 DEF Less
    <2> QED
      BY <2>2, <2>3
  <1>4. timer' \in [Threads -> Nat]
    BY <1>2, <1>3
  <1>5. SharedOK'
    <2>1. openedAt' \in (0..OldestOpening) \cup {None}
      <3>1. OldestOpening \in Nat
        BY LLMAssumption DEF OldestOpening
      <3>2. openedAt' = IF openedAt \in {None, OldestOpening} THEN openedAt
                        ELSE openedAt + 1
        BY DEF Tick
      <3>3. openedAt \in (0..OldestOpening) \cup {None}
        BY <1>1 DEF SharedOK
      <3> HIDE DEF OldestOpening
      <3> QED
        BY <3>1, <3>2, <3>3
    <2>2. quota' \in [1..Quota -> 0..Period]
      BY <1>1, LLMAssumption DEF SharedOK, Tick, Less
    <2> QED
      BY <1>1, <2>1, <2>2 DEF SharedOK, Tick
  <1> QED
    BY <1>1, <1>3, <1>4, <1>5 DEF TypeOK, Maps, SharedOK

(* A step that leaves the breaker alone and stores no opened_at.           *)
LEMMA BreakerUntouched ==
    ASSUME TripNotLost, TypeOK, NEW t \in Threads, OnlyThread(t),
           UNCHANGED breaker, pc[t] # "opening"
    PROVE  TripNotLost'
  <1>1. \A s \in Threads \ {t} : pc'[s] = pc[s]
    BY Now DEF OnlyThread, Maps
  <1> QED
    BY <1>1 DEF TripNotLost, breaker

(* A step of a thread preserves TripNotLost.                               *)
LEMMA TripKept ==
    ASSUME TripNotLost, TypeOK, NEW t \in Threads, Enter(t) \/ Step(t)
    PROVE  TripNotLost'
  <1>0. OnlyThread(t) /\ Maps /\ SharedOK
    BY StepOfThread, Now
  <1>1. CASE Enter(t)
    <2>1. pc[t] # "opening" /\ UNCHANGED breaker
      BY <1>1 DEF Enter, Returned
    <2> QED
      BY <1>0, <2>1, BreakerUntouched
  <1>2. CASE Compare(t)
    <2>1. CASE UNCHANGED breaker
      <3>1. pc[t] # "opening"
        BY <1>2 DEF Compare
      <3> QED
        BY <1>0, <2>1, <3>1, BreakerUntouched
    <2>2. CASE failureCount' = 0
      BY <2>2, LLMAssumption DEF TripNotLost
    <2> QED
      BY <1>2, <2>1, <2>2 DEF Compare
  <1>3. CASE Throttle(t) \/ Answer(t) \/ Reject(t) \/ Retry(t) \/ Parse(t)
    <2>1. pc[t] # "opening" /\ UNCHANGED breaker
      BY <1>3 DEF Throttle, Answer, Reject, Retry, Parse
    <2> QED
      BY <1>0, <2>1, BreakerUntouched
  <1>4. CASE RecordSuccess(t)
    <2>1. failureCount' = 0
      BY <1>4 DEF RecordSuccess
    <2> QED
      BY <2>1, LLMAssumption DEF TripNotLost
  <1>5. CASE RecordFailure(t)
    <2>1. failureCount' >= Threshold => pc'[t] = "opening"
      BY <1>0, <1>5 DEF RecordFailure, Goto, Maps
    <2> QED
      BY <2>1 DEF TripNotLost
  <1>6. CASE Open(t)
    <2>1. openedAt' # None
      BY <1>0, <1>6, LLMAssumption DEF Open, Maps
    <2> QED
      BY <2>1 DEF TripNotLost
  <1> QED
    BY <1>1, <1>2, <1>3, <1>4, <1>5, <1>6 DEF Step

(* Every step preserves the invariant.                                     *)
LEMMA StepInvariant == IInv /\ [Next]_vars => IInv'
  <1> SUFFICES ASSUME IInv, [Next]_vars PROVE IInv'
    OBVIOUS
  <1>0. TypeOK /\ TripNotLost
    BY DEF IInv
  <1>1. ASSUME NEW t \in Threads, Enter(t) \/ Step(t) PROVE IInv'
    BY <1>0, <1>1, StepOfThread, StepTypes, TypesByThread, TripKept DEF IInv
  <1>2. CASE Tick
    <2>1. TypeOK'
      BY <1>0, <1>2, TickTypes
    <2>2. TripNotLost'
      <3>1. pc' = pc /\ failureCount' = failureCount
        BY <1>2 DEF Tick
      <3>2. openedAt # None => openedAt' # None
        <4>1. openedAt' = IF openedAt \in {None, OldestOpening} THEN openedAt
                          ELSE openedAt + 1
          BY <1>2 DEF Tick
        <4>2. openedAt # None => openedAt \in Nat
          BY <1>0 DEF TypeOK
        <4> QED
          BY <4>1, <4>2, LLMAssumption
      <3> QED
        BY <1>0, <3>1, <3>2 DEF TripNotLost
    <2> QED
      BY <2>1, <2>2 DEF IInv
  <1>3. CASE UNCHANGED vars
    BY <1>0, <1>3 DEF vars, breaker, IInv, TypeOK, TripNotLost
  <1> QED
    BY <1>1, <1>2, <1>3 DEF Next

(* IInv is an invariant of the client.                                     *)
LEMMA Invariance == Spec => []IInv
  BY InitInvariant, StepInvariant, PTL DEF Spec

(* The breaker, the throttle and the threads keep their types; a clock     *)
(* reading is never older than the scheduling lag.                         *)
THEOREM TypeCorrect == Spec => []TypeOK
  <1>1. IInv => TypeOK
    BY DEF IInv
  <1> QED
    BY <1>1, Invariance, PTL

(* record_failure() loses no trip to a concurrent success or reset.        *)
THEOREM TripHolds == Spec => []TripNotLost
  <1>1. IInv => TripNotLost
    BY DEF IInv
  <1> QED
    BY <1>1, Invariance, PTL

(* is_open() lets no call through while the breaker cools down.            *)
THEOREM AdmissionHolds == Spec => AdmissionWaitsForCooldown
  <1>1. IInv /\ [Next]_vars
          => [Cooling => \A t \in Threads : ~Admitted(t)]_vars
    <2> SUFFICES ASSUME IInv, [Next]_vars, Cooling, NEW t \in Threads,
                        pc[t] # "throttle", pc'[t] = "throttle"
                 PROVE  FALSE
      BY DEF Admitted
    <2>1. TypeOK /\ openedAt # None /\ openedAt \in Nat /\ openedAt <= Cooldown
      BY DEF IInv, TypeOK, Cooling
    <2>2. ASSUME NEW s \in Threads, Enter(s) \/ Step(s) PROVE FALSE
      <3>1. s = t
        BY <2>1, <2>2, StepOfThread, Now DEF OnlyThread, Maps
      <3>2. Maps /\ timer[t] \in Nat
        BY <2>1, Now DEF ThreadOK
      <3>3. CASE Enter(t)
        BY <2>1, <3>2, <3>3 DEF Enter, Goto, Maps
      <3>4. CASE Compare(t)
        <4>1. openedAt > Cooldown + timer[t]
          BY <2>1, <3>2, <3>4 DEF Compare, CooldownOver, Goto, Maps
        <4> QED
          BY <2>1, <3>2, <4>1, LLMAssumption
      <3>5. CASE Step(t) /\ ~Compare(t)
        BY <3>2, <3>5 DEF Step, Throttle, Answer, Reject, Retry, RecordSuccess,
                          Parse, RecordFailure, Open, Goto, Maps
      <3> QED
        BY <2>2, <3>1, <3>3, <3>4, <3>5
    <2>3. CASE Tick \/ UNCHANGED vars
      BY <2>3 DEF Tick, vars
    <2> QED
      BY <2>2, <2>3 DEF Next
  <1> QED
    BY <1>1, Invariance, PTL DEF Spec, AdmissionWaitsForCooldown
================================================================================
