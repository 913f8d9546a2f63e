------------------------------ MODULE RateLimiter ------------------------------
(***************************************************************************)
(* InMemoryRateLimitBackend of app/rate_limiter.py: one deque of           *)
(* timestamps per key, pruned from the left by every operation, all of it  *)
(* under one lock, so that an operation is one action.  The clock may move *)
(* between the reading that prunes and the reading that stamps the entry.  *)
(*                                                                         *)
(* The variable log is a history variable: the times appended to a key's   *)
(* deque since the key was last cleared, including those pruned since.     *)
(***************************************************************************)
EXTENDS SlidingWindow, Integers

VARIABLE windows    \* key -> its deque (an absent key is the empty deque)

vars == <<now, windows, log, reply>>

TypeOK ==
    /\ now \in 0..MaxTime
    /\ windows \in [Keys -> Seq(0..MaxTime)]
    /\ log \in [Keys -> Seq(0..MaxTime)]
    /\ reply \in Replies

Init ==
    /\ AbsInit
    /\ windows = [k \in Keys |-> <<>>]

--------------------------------------------------------------------------------

(* _prune(key, period): popleft while the oldest entry has expired.  The   *)
(* loop stops at the first live entry: it removes exactly n entries.       *)
Expired(k, t) == now - t >= Period[k]

PruneStopsAfter(k, n) ==
    /\ \A i \in 1..n : Expired(k, windows[k][i])
    /\ n < Len(windows[k]) => ~Expired(k, windows[k][n + 1])

(* Mutant of Kept: one entry too many is dropped.                          *)
KeptTooFew(k, n) == SubSeq(windows[k], n + 2, Len(windows[k]))

Kept(k, n) == SubSeq(windows[k], n + 1, Len(windows[k]))

(* Mutant of Stamp: the time at which the entry will expire is stored.     *)
StampExpiry(k, window, t) ==
    /\ now' = t
    /\ windows' = [windows EXCEPT ![k] = Append(window, t + Period[k])]
    /\ log' = [log EXCEPT ![k] = Append(@, t)]

Stamp(k, window, t) ==
    /\ now' = t
    /\ windows' = [windows EXCEPT ![k] = Append(window, t)]
    /\ log' = [log EXCEPT ![k] = Append(@, t)]

(* Mutant of Full: > for >=.                                               *)
FullTooLate(k, n) == Len(windows[k]) - n > MaxCalls[k]

Full(k, n) == Len(windows[k]) - n >= MaxCalls[k]

(* check(): prune, refuse when full, else stamp.                           *)
Check(k) ==
    \E n \in 0..Len(windows[k]) :
        /\ PruneStopsAfter(k, n)
        /\ \/ /\ Full(k, n)
              /\ windows' = [windows EXCEPT ![k] = Kept(k, n)]
              /\ reply' = <<k, FALSE>>
              /\ UNCHANGED <<now, log>>
           \/ /\ ~Full(k, n)
              /\ \E t \in now..MaxTime : Stamp(k, Kept(k, n), t)
              /\ reply' = <<k, TRUE>>

(* Mutant of Peek: it does not prune.                                      *)
PeekUnpruned(k) ==
    /\ reply' = <<k, ~Full(k, 0)>>
    /\ UNCHANGED <<now, windows, log>>

(* peek(): prune and compare, without consuming quota.                     *)
Peek(k) ==
    \E n \in 0..Len(windows[k]) :
        /\ PruneStopsAfter(k, n)
        /\ windows' = [windows EXCEPT ![k] = Kept(k, n)]
        /\ reply' = <<k, ~Full(k, n)>>
        /\ UNCHANGED <<now, log>>

(* record_failure(): prune and stamp, whatever the count.                  *)
RecordFailure(k) ==
    /\ Len(log[k]) < MaxCharges
    /\ \E n \in 0..Len(windows[k]) :
        /\ PruneStopsAfter(k, n)
        /\ \E t \in now..MaxTime : Stamp(k, Kept(k, n), t)
    /\ UNCHANGED reply

(* clear(): forget the key.                                                *)
Clear(k) ==
    /\ windows' = [windows EXCEPT ![k] = <<>>]
    /\ log' = [log EXCEPT ![k] = <<>>]
    /\ UNCHANGED <<now, reply>>

Tick ==
    /\ now < MaxTime
    /\ now' = now + 1
    /\ UNCHANGED <<windows, log, reply>>

Next ==
    \/ \E k \in QuotaKeys : Check(k)
    \/ \E k \in LockoutKeys : Peek(k) \/ RecordFailure(k) \/ Clear(k)
    \/ Tick

Spec == Init /\ [][Next]_vars

--------------------------------------------------------------------------------

(* Over ANY stretch of Period time units, not only over the one that ends  *)
(* now, check() has granted at most MaxCalls units of a quota key: a grant *)
(* and the grant MaxCalls later are at least a period apart.  This is what *)
(* "N per window" must mean for the sliding window of rate_limiter.py:     *)
(* pruning and the late second clock reading must not open a gap.          *)
QuotaRespected ==
    \A k \in QuotaKeys : \A i \in DOMAIN log[k] :
        i + MaxCalls[k] \in DOMAIN log[k]
            => log[k][i + MaxCalls[k]] - log[k][i] >= Period[k]

(* The deque is the log without some expired head: pruning never drops an  *)
(* entry that still counts, and nothing reorders or duplicates entries.    *)
WindowIsSuffix(k) ==
    LET dropped == Len(log[k]) - Len(windows[k]) IN
    /\ dropped >= 0
    /\ \A i \in 1..Len(windows[k]) : windows[k][i] = log[k][dropped + i]
    /\ \A i \in 1..dropped : Expired(k, log[k][i])

LogOrdered(k) ==
    \A i, j \in DOMAIN log[k] : i <= j => log[k][i] <= log[k][j]

LogPast(k) == \A i \in DOMAIN log[k] : log[k][i] <= now

NoLiveEntryForgotten ==
    \A k \in Keys : WindowIsSuffix(k) /\ LogOrdered(k) /\ LogPast(k)

(* The deques implement the promise: a charge is granted, and a peek       *)
(* answers yes, exactly when fewer than MaxCalls charges of the key are    *)
(* younger than its period; nothing else ever changes what counts.         *)
ImplementsSlidingWindow == AbsSpec
================================================================================
