----------------------------- MODULE SlidingWindow -----------------------------
(***************************************************************************)
(* What the rate limiter of app/rate_limiter.py promises its callers,      *)
(* without the deques: for every key a log of the charges made against it, *)
(* of which only those younger than the key's period count.                *)
(*                                                                         *)
(*   QuotaKeys    charged by check(): "login:<ip>" and "gemini"            *)
(*   LockoutKeys  asked by peek(), charged by record_failure(), wiped by   *)
(*                clear(): "lockout:<email>"                               *)
(***************************************************************************)
EXTENDS Naturals, Sequences, FiniteSets

CONSTANTS QuotaKeys, LockoutKeys, MaxCalls, Period,
          MaxTime,      \* bound: the clock stops here
          MaxCharges    \* bound: failures recorded between two clears

Keys == QuotaKeys \cup LockoutKeys

ASSUME KeysAssumption == QuotaKeys \cap LockoutKeys = {}
ASSUME LimitAssumption ==
    /\ MaxCalls \in [Keys -> Nat \ {0}]
    /\ Period \in [Keys -> Nat \ {0}]
    /\ MaxTime \in Nat
    /\ MaxCharges \in Nat

VARIABLES now,      \* time.time()
          log,      \* key -> times of all charges since the last clear
          reply     \* what the last check or peek answered

(* The charges that count against key k at time t.                         *)
Counting(k, t) == {i \in DOMAIN log[k] : t - log[k][i] < Period[k]}

UnderLimit(k) == Cardinality(Counting(k, now)) < MaxCalls[k]

NoReply == <<>>
Replies == (Keys \X BOOLEAN) \cup {NoReply}

AbsInit ==
    /\ now = 0
    /\ log = [k \in Keys |-> <<>>]
    /\ reply = NoReply

(* A charge is stamped when it is appended, which is not before the moment *)
(* the quota was looked at.                                                *)
Charge(k) ==
    \E t \in now..MaxTime :
        /\ now' = t
        /\ log' = [log EXCEPT ![k] = Append(@, t)]

Grant(k) ==
    /\ UnderLimit(k)
    /\ Charge(k)
    /\ reply' = <<k, TRUE>>

Refuse(k) ==
    /\ ~UnderLimit(k)
    /\ reply' = <<k, FALSE>>
    /\ UNCHANGED <<now, log>>

Ask(k) ==
    /\ reply' = <<k, UnderLimit(k)>>
    /\ UNCHANGED <<now, log>>

Fail(k) ==
    /\ Charge(k)
    /\ UNCHANGED reply

Forgive(k) ==
    /\ log' = [log EXCEPT ![k] = <<>>]
    /\ UNCHANGED <<now, reply>>

Pass ==
    /\ now < MaxTime
    /\ now' = now + 1
    /\ UNCHANGED <<log, reply>>

AbsNext ==
    \/ \E k \in QuotaKeys : Grant(k) \/ Refuse(k)
    \/ \E k \in LockoutKeys : Ask(k) \/ Fail(k) \/ Forgive(k)
    \/ Pass

absVars == <<now, log, reply>>

AbsSpec == AbsInit /\ [][AbsNext]_absVars
=============================================================================
