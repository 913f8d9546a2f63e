------------------------------- MODULE LLMClient -------------------------------
(***************************************************************************)
(* call_llm_json of app/reasoning/llm_client.py, called by the threads of  *)
(* several background jobs at once: the circuit breaker they share, the    *)
(* throttle, the retries, and what the caller gets.                        *)
(*                                                                         *)
(* The breaker has no lock.  A step of a thread runs up to the next point  *)
(* where the interpreter may switch threads (a call has returned): between *)
(* reading the clock and using what was read, another thread may run.      *)
(*                                                                         *)
(* Time is kept as ages and as time left, so that the clock needs no end.  *)
(* The throttle is what SlidingWindow promises: a grant takes a unit of    *)
(* quota for a period, and is refused when no unit is free.                *)
(***************************************************************************)
EXTENDS Naturals

CONSTANTS
    Threads,
    Threshold,   \* failure_threshold
    Cooldown,    \* cooldown_seconds
    Attempts,    \* stop_after_attempt
    Backoff,     \* seconds tenacity waits after the n-th failed attempt
    Quota,       \* _LLM_MAX_CALLS_PER_MINUTE
    Period,      \* the throttle's 60 seconds
    None,        \* the value of opened_at when the breaker is closed
    Calls,       \* bound: calls each thread makes
    MaxLag       \* bound: ticks a thread may be preempted at a clock reading

ASSUME LLMAssumption ==
    /\ Threshold \in Nat \ {0} /\ Cooldown \in Nat /\ Attempts \in Nat \ {0}
    /\ Backoff \in [1..(Attempts - 1) -> Nat]
    /\ Quota \in Nat \ {0} /\ Period \in Nat \ {0}
    /\ None \notin Nat
    /\ Calls \in Nat /\ MaxLag \in Nat

VARIABLES
    failureCount,   \* _breaker.failure_count
    openedAt,       \* None, or the age of _breaker.opened_at
    quota,          \* unit of the throttle's quota -> time until it is free
    pc,             \* thread -> where it is in call_llm_json
    timer,          \* thread -> age of its clock reading, or backoff left
    attempt,        \* thread -> number of the attempt under way
    calls           \* thread -> calls it may still make

breaker == <<failureCount, openedAt>>
vars == <<breaker, quota, pc, timer, attempt, calls>>

(* How a call ends: a parsed answer, LLMUnavailableError, another error.   *)
Returned == {"idle", "value", "unavailable", "crashed"}
Running == {"compare", "throttle", "inflight", "backoff", "answered", "garbled",
            "parse", "parse_garbled", "failing", "opening"}

OldestOpening == Cooldown + MaxLag + 1   \* ages beyond it are not told apart

TypeOK ==
    /\ failureCount \in Nat
    /\ openedAt \in (0..OldestOpening) \cup {None}
    /\ quota \in [1..Quota -> 0..Period]
    /\ pc \in [Threads -> Returned \cup Running]
    /\ timer \in [Threads -> Nat]
    /\ attempt \in [Threads -> 0..Attempts]
    /\ \A t \in Threads :
        /\ pc[t] = "inflight" => attempt[t] > 0
        /\ IF pc[t] = "backoff" THEN attempt[t] \in 1..(Attempts - 1)
                                ELSE timer[t] <= MaxLag
    /\ calls \in [Threads -> 0..Calls]

Init ==
    /\ failureCount = 0
    /\ openedAt = None
    /\ quota = [u \in 1..Quota |-> 0]
    /\ pc = [t \in Threads |-> "idle"]
    /\ timer = [t \in Threads |-> 0]
    /\ attempt = [t \in Threads |-> 0]
    /\ calls = [t \in Threads |-> Calls]

--------------------------------------------------------------------------------

Goto(t, label) == pc' = [pc EXCEPT ![t] = label]

ReadClock(t) == timer' = [timer EXCEPT ![t] = 0]

(* is_open() tests opened_at, then reads the clock ...                     *)
Enter(t) ==
    /\ pc[t] \in Returned
    /\ calls[t] > 0
    /\ calls' = [calls EXCEPT ![t] = @ - 1]
    /\ \/ openedAt = None /\ Goto(t, "throttle") /\ UNCHANGED timer
       \/ openedAt # None /\ Goto(t, "compare") /\ ReadClock(t)
    /\ UNCHANGED <<breaker, quota, attempt>>

(* Mutant of CooldownOver: >= for >.                                       *)
CooldownOverTooEarly(t) == openedAt >= Cooldown + timer[t]

CooldownOver(t) == openedAt > Cooldown + timer[t]

(* ... and reads opened_at again, which another thread may have set to     *)
(* None since: float - None is a TypeError that nothing catches.           *)
Compare(t) ==
    /\ pc[t] = "compare"
    /\ \/ /\ openedAt = None
          /\ Goto(t, "crashed")
          /\ UNCHANGED breaker
       \/ /\ openedAt # None
          /\ CooldownOver(t)
          /\ openedAt' = None
          /\ failureCount' = 0
          /\ Goto(t, "throttle")
       \/ /\ openedAt # None
          /\ ~CooldownOver(t)
          /\ Goto(t, "unavailable")
          /\ UNCHANGED breaker
    /\ ReadClock(t)
    /\ UNCHANGED <<quota, attempt, calls>>

(* Mutant of Throttle: a refused poll uses up quota like a granted one.    *)
ThrottleCountsPolls(t) ==
    /\ pc[t] = "throttle"
    /\ \/ /\ \E u \in 1..Quota : quota[u] = 0 /\ quota' = [quota EXCEPT ![u] = Period]
          /\ attempt' = [attempt EXCEPT ![t] = 1]
          /\ Goto(t, "inflight")
       \/ /\ \A u \in 1..Quota : quota[u] > 0
          /\ quota' = [u \in 1..Quota |-> Period]
          /\ UNCHANGED <<attempt, pc>>
    /\ UNCHANGED <<breaker, timer, calls>>

(* wait_and_check(): a poll that is refused changes nothing.               *)
Throttle(t) ==
    /\ pc[t] = "throttle"
    /\ \E u \in 1..Quota : quota[u] = 0 /\ quota' = [quota EXCEPT ![u] = Period]
    /\ attempt' = [attempt EXCEPT ![t] = 1]
    /\ Goto(t, "inflight")
    /\ UNCHANGED <<breaker, timer, calls>>

(* The API answers, with JSON or with something else.                      *)
Answer(t) ==
    /\ pc[t] = "inflight"
    /\ Goto(t, "answered") \/ Goto(t, "garbled")
    /\ UNCHANGED <<breaker, quota, timer, attempt, calls>>

(* Mutant of Reject: the last attempt is retried, too.                     *)
RejectAgain(t) ==
    /\ pc[t] = "inflight"
    /\ timer' = [timer EXCEPT ![t] = Backoff[1]]
    /\ Goto(t, "backoff")
    /\ UNCHANGED <<breaker, quota, attempt, calls>>

(* An attempt fails: tenacity sleeps before the next, or reraises.         *)
Reject(t) ==
    /\ pc[t] = "inflight"
    /\ \/ /\ attempt[t] < Attempts
          /\ timer' = [timer EXCEPT ![t] = Backoff[attempt[t]]]
          /\ Goto(t, "backoff")
       \/ /\ attempt[t] = Attempts
          /\ Goto(t, "failing")
          /\ UNCHANGED timer
    /\ UNCHANGED <<breaker, quota, attempt, calls>>

Retry(t) ==
    /\ pc[t] = "backoff"
    /\ timer[t] = 0
    /\ attempt' = [attempt EXCEPT ![t] = @ + 1]
    /\ Goto(t, "inflight")
    /\ UNCHANGED <<breaker, quota, timer, calls>>

(* Mutant of RecordSuccess: the failures are not forgotten.                *)
RecordSuccessKeepsCount(t) ==
    /\ pc[t] \in {"answered", "garbled"}
    /\ openedAt' = None
    /\ Goto(t, IF pc[t] = "answered" THEN "parse" ELSE "parse_garbled")
    /\ UNCHANGED <<failureCount, quota, timer, attempt, calls>>

(* record_success(), before the answer is parsed.                          *)
RecordSuccess(t) ==
    /\ pc[t] \in {"answered", "garbled"}
    /\ failureCount' = 0
    /\ openedAt' = None
    /\ Goto(t, IF pc[t] = "answered" THEN "parse" ELSE "parse_garbled")
    /\ UNCHANGED <<quota, timer, attempt, calls>>

(* json.loads()                                                            *)
Parse(t) ==
    /\ pc[t] \in {"parse", "parse_garbled"}
    /\ Goto(t, IF pc[t] = "parse" THEN "value" ELSE "failing")
    /\ UNCHANGED <<breaker, quota, timer, attempt, calls>>

(* record_failure() counts, and at the threshold reads the clock ...       *)
RecordFailure(t) ==
    /\ pc[t] = "failing"
    /\ failureCount' = failureCount + 1
    /\ Goto(t, IF failureCount' >= Threshold THEN "opening" ELSE "unavailable")
    /\ ReadClock(t)
    /\ UNCHANGED <<openedAt, quota, attempt, calls>>

(* ... and stores what it read in opened_at.                               *)
Open(t) ==
    /\ pc[t] = "opening"
    /\ openedAt' = timer[t]
    /\ Goto(t, "unavailable")
    /\ ReadClock(t)
    /\ UNCHANGED <<failureCount, quota, attempt, calls>>

--------------------------------------------------------------------------------

HoldsClock(t) == pc[t] \in {"compare", "opening"}

Less(n) == IF n = 0 THEN 0 ELSE n - 1

Tick ==
    /\ \A t \in Threads : HoldsClock(t) => timer[t] < MaxLag
    /\ openedAt' = IF openedAt \in {None, OldestOpening} THEN openedAt
                   ELSE openedAt + 1
    /\ quota' = [u \in 1..Quota |-> Less(quota[u])]
    /\ timer' = [t \in Threads |->
                    IF HoldsClock(t) THEN timer[t] + 1
                    ELSE IF pc[t] = "backoff" THEN Less(timer[t])
                    ELSE timer[t]]
    /\ UNCHANGED <<failureCount, pc, attempt, calls>>

(* What a call does once it has been made.                                 *)
Step(t) ==
    \/ Compare(t) \/ Throttle(t) \/ Answer(t) \/ Reject(t) \/ Retry(t)
    \/ RecordSuccess(t) \/ Parse(t) \/ RecordFailure(t) \/ Open(t)

Next == (\E t \in Threads : Enter(t) \/ Step(t)) \/ Tick

(* Threads are scheduled, the clock runs, the API answers or fails in the  *)
(* end.  No job has to make another call.                                  *)
Fairness == WF_vars(Tick) /\ \A t \in Threads : WF_vars(Step(t))

Spec == Init /\ [][Next]_vars /\ Fairness

--------------------------------------------------------------------------------

(* The failure that reaches the threshold opens the breaker: no interleav- *)
(* ing of successes, resets and other failures loses the trip.  At the     *)
(* threshold, either opened_at is set or the thread that will set it is    *)
(* between the clock and the store (record_failure).                       *)
TripNotLost ==
    failureCount >= Threshold =>
        openedAt # None \/ \E t \in Threads : pc[t] = "opening"

(* No call passes the gate while the breaker is open and its cooldown is   *)
(* not over, though the gate tests, reads the clock and compares in steps  *)
(* between which other threads open, close and reopen the breaker.         *)
Admitted(t) == pc[t] # "throttle" /\ pc'[t] = "throttle"
Cooling == openedAt # None /\ openedAt <= Cooldown
AdmissionWaitsForCooldown ==
    [][Cooling => \A t \in Threads : ~Admitted(t)]_vars

(* Every call returns, whatever the API does, and the throttle starves no  *)
(* thread for ever: the jobs make finitely many calls.                     *)
EveryCallReturns ==
    \A t \in Threads : pc[t] \in Running ~> pc[t] \in Returned
================================================================================
