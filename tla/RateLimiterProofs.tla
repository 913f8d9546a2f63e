--------------------------- MODULE RateLimiterProofs ---------------------------
(***************************************************************************)
(* For all keys, limits, periods and clocks: the sliding window of         *)
(* app/rate_limiter.py never grants more than MaxCalls in a period, and    *)
(* implements SlidingWindow.  The inductive invariant says that a deque is *)
(* its key's log without some expired head: pruning drops only what no     *)
(* longer counts, so that the length of the deque is the number of charges *)
(* that count, and a grant is far enough from the one MaxCalls before it.  *)
(***************************************************************************)
EXTENDS RateLimiter, SequenceTheorems, FiniteSetTheorems, TLAPS

IInv == TypeOK /\ NoLiveEntryForgotten /\ QuotaRespected

Times == 0..MaxTime

(* The constants of key k are positive integers.                           *)
LEMMA Limits ==
    ASSUME NEW k \in Keys
    PROVE  MaxCalls[k] \in Nat \ {0} /\ Period[k] \in Nat \ {0}
  BY LimitAssumption

(* Pruning by n entries leaves the deque from its entry n + 1 on.          *)
LEMMA KeptEntries ==
    ASSUME TypeOK, NEW k \in Keys, NEW n \in 0..Len(windows[k])
    PROVE  /\ Kept(k, n) \in Seq(Times)
           /\ Len(Kept(k, n)) = Len(windows[k]) - n
           /\ \A i \in 1..(Len(windows[k]) - n) :
                Kept(k, n)[i] = windows[k][n + i]
  <1> DEFINE w == windows[k]
  <1>1. w \in Seq(Times) /\ Len(w) \in Nat
    BY LenProperties DEF TypeOK, Times
  <1>2. \A i \in (n + 1)..Len(w) : w[i] \in Times
    BY <1>1, ElementOfSeq
  <1>3. n + 1 \in Int /\ Len(w) \in Int
    BY <1>1
  <1>4. /\ SubSeq(w, n + 1, Len(w)) \in Seq(Times)
        /\ Len(SubSeq(w, n + 1, Len(w)))
             = IF n + 1 <= Len(w) THEN Len(w) - (n + 1) + 1 ELSE 0
        /\ \A i \in 1..(Len(w) - (n + 1) + 1) :
             SubSeq(w, n + 1, Len(w))[i] = w[(n + 1) + i - 1]
    BY <1>2, <1>3, SubSeqProperties
  <1> QED
    BY <1>1, <1>4 DEF Kept

(* A list g of G times is the tail of an ordered list f of F times, whose  *)
(* earlier entries have all expired at t; the first n entries of g have    *)
(* expired, the next has not, and h is g without them.                     *)
CutOf(f, F, g, G, h, n, t, p) ==
    /\ F \in Nat /\ G \in 0..F /\ n \in 0..G /\ t \in Nat /\ p \in Nat
    /\ \A i \in 1..F : f[i] \in Nat
    /\ \A i, j \in 1..F : i <= j => f[i] <= f[j]
    /\ \A i \in 1..G : g[i] = f[(F - G) + i]
    /\ \A i \in 1..(F - G) : t - f[i] >= p
    /\ \A i \in 1..n : t - g[i] >= p
    /\ n < G => ~(t - g[n + 1] >= p)
    /\ \A i \in 1..(G - n) : h[i] = g[n + i]

LiveIn(f, F, t, p) == {i \in 1..F : t - f[i] < p}

Gone(F, G, n) == (F - G) + n

(* Then h is the tail of f that is live at t.                              *)
LEMMA LiveTail ==
    ASSUME NEW f, NEW F, NEW g, NEW G, NEW h, NEW n, NEW t, NEW p,
           CutOf(f, F, g, G, h, n, t, p)
    PROVE  /\ Gone(F, G, n) \in 0..F /\ G - n = F - Gone(F, G, n)
           /\ \A i \in 1..(F - Gone(F, G, n)) : h[i] = f[Gone(F, G, n) + i]
           /\ \A i \in 1..Gone(F, G, n) : t - f[i] >= p
           /\ Cardinality(LiveIn(f, F, t, p)) = G - n
  <1> DEFINE cut == Gone(F, G, n)
  <1> USE DEF CutOf, Gone
  <1>1. cut \in 0..F /\ G - n = F - cut
    OBVIOUS
  <1>2. ASSUME NEW i \in 1..(F - cut) PROVE h[i] = f[cut + i]
    <2>1. i \in 1..(G - n) /\ n + i \in 1..G
      OBVIOUS
    <2>2. h[i] = f[(F - G) + (n + i)]
      BY <2>1
    <2>3. (F - G) + (n + i) = cut + i
      OBVIOUS
    <2> QED
      BY <2>2, <2>3
  <1>3. ASSUME NEW i \in 1..cut PROVE t - f[i] >= p
    <2>1. CASE i <= F - G
      BY <2>1
    <2>2. CASE i > F - G
      <3>1. i - (F - G) \in 1..n /\ i - (F - G) \in 1..G
        BY <2>2
      <3>2. g[i - (F - G)] = f[(F - G) + (i - (F - G))]
        BY <3>1
      <3>3. (F - G) + (i - (F - G)) = i
        OBVIOUS
      <3> QED
        BY <3>1, <3>2, <3>3
    <2> QED
      BY <2>1, <2>2
  <1>4. ASSUME NEW i \in (cut + 1)..F PROVE t - f[i] < p
    <2>1. n < G /\ n + 1 \in 1..G /\ cut + 1 \in 1..F /\ i \in 1..F /\ cut + 1 <= i
      OBVIOUS
    <2>2. g[n + 1] = f[cut + 1]
      <3>1. g[n + 1] = f[(F - G) + (n + 1)]
        BY <2>1
      <3> QED
        BY <3>1
    <2>3. f[cut + 1] <= f[i] /\ f[cut + 1] \in Nat /\ f[i] \in Nat
      BY <2>1
    <2>4. ~(t - f[cut + 1] >= p)
      BY <2>1, <2>2
    <2> QED
      BY <2>3, <2>4
  <1>5. LiveIn(f, F, t, p) = (cut + 1)..F
    <2>1. \A i \in 1..F : t - f[i] < p => i > cut
      BY <1>3
    <2> QED
      BY <1>1, <1>4, <2>1 DEF LiveIn
  <1>6. Cardinality((cut + 1)..F) = G - n
    <2>1. cut + 1 \in Int /\ F \in Int
      OBVIOUS
    <2>2. Cardinality((cut + 1)..F)
            = IF cut + 1 > F THEN 0 ELSE F - (cut + 1) + 1
      BY <2>1, FS_Interval
    <2> QED
      BY <1>1, <2>2
  <1> QED
    BY <1>1, <1>2, <1>3, <1>5, <1>6

(* Pruning keeps every charge that counts and no other: everything in the  *)
(* log before the kept entries has expired, and their number is the number *)
(* of charges that count.                                                  *)
LEMMA PruneExact ==
    ASSUME TypeOK, NoLiveEntryForgotten,
           NEW k \in Keys, NEW n \in 0..Len(windows[k]), PruneStopsAfter(k, n)
    PROVE  LET gone == Gone(Len(log[k]), Len(windows[k]), n) IN
           /\ gone \in 0..Len(log[k])
           /\ Len(windows[k]) - n = Len(log[k]) - gone
           /\ \A i \in 1..(Len(log[k]) - gone) : Kept(k, n)[i] = log[k][gone + i]
           /\ \A i \in 1..gone : Expired(k, log[k][i])
           /\ Cardinality(Counting(k, now)) = Len(windows[k]) - n
  <1> DEFINE gone == Gone(Len(log[k]), Len(windows[k]), n)
  <1>1. windows[k] \in Seq(Times) /\ log[k] \in Seq(Times) /\ now \in Nat
    BY DEF TypeOK, Times
  <1>2. /\ Len(windows[k]) \in Nat /\ Len(log[k]) \in Nat
        /\ DOMAIN log[k] = 1..Len(log[k])
    BY <1>1, LenProperties
  <1>3. \A i \in 1..Len(log[k]) : log[k][i] \in Nat
    <2>1. \A i \in 1..Len(log[k]) : log[k][i] \in Times
      BY <1>1, ElementOfSeq
    <2> QED
      BY <2>1 DEF Times
  <1>4. /\ Len(windows[k]) \in 0..Len(log[k])
        /\ \A i \in 1..Len(windows[k]) :
             windows[k][i] = log[k][(Len(log[k]) - Len(windows[k])) + i]
        /\ \A i \in 1..(Len(log[k]) - Len(windows[k])) :
             now - log[k][i] >= Period[k]
    <2>1. WindowIsSuffix(k)
      BY DEF NoLiveEntryForgotten
    <2>2. /\ Len(log[k]) - Len(windows[k]) >= 0
          /\ \A i \in 1..Len(windows[k]) :
               windows[k][i] = log[k][(Len(log[k]) - Len(windows[k])) + i]
          /\ \A i \in 1..(Len(log[k]) - Len(windows[k])) : Expired(k, log[k][i])
      BY <2>1 DEF WindowIsSuffix
    <2>3. Len(windows[k]) \in 0..Len(log[k])
      BY <1>2, <2>2
    <2> QED
      BY <2>2, <2>3 DEF Expired
  <1>5. \A i, j \in 1..Len(log[k]) : i <= j => log[k][i] <= log[k][j]
    BY <1>2 DEF NoLiveEntryForgotten, LogOrdered
  <1>6. \A i \in 1..(Len(windows[k]) - n) : Kept(k, n)[i] = windows[k][n + i]
    BY KeptEntries
  <1>7. /\ \A i \in 1..n : now - windows[k][i] >= Period[k]
        /\ n < Len(windows[k]) => ~(now - windows[k][n + 1] >= Period[k])
    BY DEF PruneStopsAfter, Expired
  <1>8. Period[k] \in Nat
    BY Limits
  <1>9. Counting(k, now) = LiveIn(log[k], Len(log[k]), now, Period[k])
    BY <1>2 DEF Counting, LiveIn
  <1>10. /\ gone \in 0..Len(log[k])
         /\ Len(windows[k]) - n = Len(log[k]) - gone
         /\ \A i \in 1..(Len(log[k]) - gone) : Kept(k, n)[i] = log[k][gone + i]
         /\ \A i \in 1..gone : now - log[k][i] >= Period[k]
         /\ Cardinality(LiveIn(log[k], Len(log[k]), now, Period[k]))
              = Len(windows[k]) - n
    <2>1. CutOf(log[k], Len(log[k]), windows[k], Len(windows[k]), Kept(k, n),
                n, now, Period[k])
      BY <1>1, <1>2, <1>3, <1>4, <1>5, <1>6, <1>7, <1>8 DEF CutOf
    <2> QED
      BY <2>1, LiveTail
  <1> QED
    BY <1>9, <1>10 DEF Expired

--------------------------------------------------------------------------------

Good(k) == WindowIsSuffix(k) /\ LogOrdered(k) /\ LogPast(k)

(* What TypeOK says of the deque and the log of one key.                   *)
LEMMA LogFacts ==
    ASSUME TypeOK, NEW k \in Keys
    PROVE  /\ windows[k] \in Seq(Times) /\ log[k] \in Seq(Times)
           /\ Len(windows[k]) \in Nat /\ Len(log[k]) \in Nat
           /\ DOMAIN log[k] = 1..Len(log[k])
           /\ \A i \in 1..Len(log[k]) : log[k][i] \in Nat
           /\ now \in Nat /\ now \in Times /\ MaxTime \in Nat
  <1>1. windows[k] \in Seq(Times) /\ log[k] \in Seq(Times) /\ now \in Times
    BY DEF TypeOK, Times
  <1>2. \A i \in 1..Len(log[k]) : log[k][i] \in Times
    BY <1>1, ElementOfSeq
  <1> QED
    BY <1>1, <1>2, LenProperties, LimitAssumption DEF Times

(* A key that is not operated on stays good as the clock moves on: what    *)
(* has expired stays expired.                                              *)
LEMMA Untouched ==
    ASSUME TypeOK, NEW k \in Keys, Good(k), now' \in Nat, now' >= now,
           log'[k] = log[k], windows'[k] = windows[k]
    PROVE  Good(k)'
  <1>1. LogOrdered(k)'
    BY DEF Good, LogOrdered
  <1>2. LogPast(k)'
    BY LogFacts DEF Good, LogPast
  <1>3. WindowIsSuffix(k)'
    <2>1. ASSUME NEW i \in 1..(Len(log[k]) - Len(windows[k])), Expired(k, log[k][i])
          PROVE  now' - log[k][i] >= Period[k]
      <3>1. i \in 1..Len(log[k])
        BY LogFacts
      <3>2. log[k][i] \in Nat /\ now \in Nat /\ Period[k] \in Nat
        BY <3>1, LogFacts, Limits
      <3> QED
        BY <2>1, <3>2 DEF Expired
    <2> QED
      BY <2>1 DEF Good, WindowIsSuffix, Expired
  <1> QED
    BY <1>1, <1>2, <1>3 DEF Good

(* Pruning a key keeps it good.                                            *)
LEMMA Pruned ==
    ASSUME TypeOK, NoLiveEntryForgotten,
           NEW k \in Keys, NEW n \in 0..Len(windows[k]), PruneStopsAfter(k, n),
           windows'[k] = Kept(k, n), log'[k] = log[k], now' = now
    PROVE  Good(k)'
  <1> DEFINE gone == Gone(Len(log[k]), Len(windows[k]), n)
  <1>1. /\ gone \in 0..Len(log[k])
        /\ Len(windows[k]) - n = Len(log[k]) - gone
        /\ \A i \in 1..(Len(log[k]) - gone) : Kept(k, n)[i] = log[k][gone + i]
        /\ \A i \in 1..gone : Expired(k, log[k][i])
    BY PruneExact
  <1>2. Len(Kept(k, n)) = Len(log[k]) - gone
    BY <1>1, KeptEntries
  <1> HIDE DEF gone
  <1>3. Len(log[k]) - Len(Kept(k, n)) = gone
    BY <1>1, <1>2, LogFacts
  <1>4. WindowIsSuffix(k)'
    <2>1. gone >= 0
      BY <1>1
    <2>2. \A i \in 1..Len(Kept(k, n)) : Kept(k, n)[i] = log[k][gone + i]
      BY <1>1, <1>2
    <2>3. \A i \in 1..gone : now - log[k][i] >= Period[k]
      BY <1>1 DEF Expired
    <2>4. /\ Len(log'[k]) - Len(windows'[k]) = gone
          /\ windows'[k] = Kept(k, n) /\ log'[k] = log[k] /\ now' = now
      BY <1>3
    <2> QED
      BY <2>1, <2>2, <2>3, <2>4 DEF WindowIsSuffix, Expired
  <1>5. LogOrdered(k)' /\ LogPast(k)'
    BY DEF NoLiveEntryForgotten, LogOrdered, LogPast
  <1> QED
    BY <1>4, <1>5 DEF Good

(* Appending is what the sequence lemmas say it is.                        *)
LEMMA Appended ==
    ASSUME NEW S, NEW s \in Seq(S), NEW e \in S
    PROVE  /\ Append(s, e) \in Seq(S)
           /\ Len(Append(s, e)) = Len(s) + 1 /\ Len(s) \in Nat
           /\ \A i \in 1..Len(s) : Append(s, e)[i] = s[i]
           /\ Append(s, e)[Len(s) + 1] = e
  OBVIOUS

(* Pruning a key and stamping it at a time not before now keeps it good.   *)
LEMMA Stamped ==
    ASSUME TypeOK, NoLiveEntryForgotten,
           NEW k \in Keys, NEW n \in 0..Len(windows[k]), PruneStopsAfter(k, n),
           NEW t \in now..MaxTime, Stamp(k, Kept(k, n), t)
    PROVE  Good(k)'
  <1> DEFINE gone == Gone(Len(log[k]), Len(windows[k]), n)
             K == Kept(k, n)
  <1>1. /\ gone \in 0..Len(log[k])
        /\ Len(windows[k]) - n = Len(log[k]) - gone
        /\ \A i \in 1..(Len(log[k]) - gone) : K[i] = log[k][gone + i]
        /\ \A i \in 1..gone : now - log[k][i] >= Period[k]
    BY PruneExact DEF Expired
  <1>2. K \in Seq(Times) /\ Len(K) = Len(log[k]) - gone
    BY <1>1, KeptEntries
  <1>3. /\ log'[k] = Append(log[k], t) /\ windows'[k] = Append(K, t) /\ now' = t
        /\ t \in Times /\ t \in Nat /\ t >= now
    BY LogFacts DEF Stamp, TypeOK, Times
  <1> HIDE DEF gone, K
  <1>4. /\ Len(log'[k]) = Len(log[k]) + 1
        /\ \A i \in 1..Len(log[k]) : log'[k][i] = log[k][i]
        /\ log'[k][Len(log[k]) + 1] = t
        /\ log'[k] \in Seq(Times)
    BY <1>3, LogFacts, Appended
  <1>5. /\ Len(windows'[k]) = Len(K) + 1
        /\ \A i \in 1..Len(K) : windows'[k][i] = K[i]
        /\ windows'[k][Len(K) + 1] = t
    BY <1>2, <1>3, Appended
  <1>6. \A i \in 1..Len(log[k]) : log[k][i] \in Nat /\ log[k][i] <= now
    BY LogFacts DEF NoLiveEntryForgotten, LogPast
  <1>7. now \in Nat /\ Len(log[k]) \in Nat /\ Period[k] \in Nat
    BY LogFacts, Limits
  <1>8. DOMAIN log'[k] = 1..(Len(log[k]) + 1)
    BY <1>4, LenProperties
  <1>9. LogPast(k)'
    <2> SUFFICES ASSUME NEW i \in 1..(Len(log[k]) + 1) PROVE log'[k][i] <= t
      BY <1>3, <1>8 DEF LogPast
    <2>1. CASE i \in 1..Len(log[k])
      BY <2>1, <1>3, <1>4, <1>6, <1>7
    <2>2. CASE i = Len(log[k]) + 1
      BY <2>2, <1>3, <1>4
    <2> QED
      BY <2>1, <2>2, <1>7
  <1>10. LogOrdered(k)'
    <2> SUFFICES ASSUME NEW i \in 1..(Len(log[k]) + 1),
                        NEW j \in 1..(Len(log[k]) + 1), i <= j
                 PROVE  log'[k][i] <= log'[k][j]
      BY <1>8 DEF LogOrdered
    <2>1. CASE j \in 1..Len(log[k])
      <3>1. i \in 1..Len(log[k])
        BY <2>1, <1>7
      <3>2. \A a, b \in 1..Len(log[k]) : a <= b => log[k][a] <= log[k][b]
        BY LogFacts DEF NoLiveEntryForgotten, LogOrdered
      <3> QED
        BY <2>1, <3>1, <3>2, <1>4
    <2>2. CASE j = Len(log[k]) + 1
      BY <2>2, <1>3, <1>4, <1>8, <1>9 DEF LogPast
    <2> QED
      BY <2>1, <2>2, <1>7
  <1>11. WindowIsSuffix(k)'
    <2>1. Len(log'[k]) - Len(windows'[k]) = gone /\ gone >= 0 /\ Len(K) \in Nat
      BY <1>1, <1>2, <1>4, <1>5, <1>7
    <2>2. ASSUME NEW i \in 1..Len(windows'[k])
          PROVE  windows'[k][i] = log'[k][gone + i]
      <3>1. CASE i \in 1..Len(K)
        <4>1. gone + i \in 1..Len(log[k]) /\ i \in 1..(Len(log[k]) - gone)
          BY <3>1, <1>1, <1>2, <1>7
        <4> QED
          BY <3>1, <4>1, <1>1, <1>4, <1>5
      <3>2. CASE i = Len(K) + 1
        <4>1. gone + i = Len(log[k]) + 1
          BY <3>2, <1>1, <1>2, <1>7
        <4> QED
          BY <3>2, <4>1, <1>4, <1>5
      <3> QED
        BY <3>1, <3>2, <2>1, <1>5
    <2>3. ASSUME NEW i \in 1..gone
          PROVE  now' - log'[k][i] >= Period[k]
      <3>1. i \in 1..Len(log[k]) /\ now - log[k][i] >= Period[k]
        BY <1>1, <1>7
      <3>2. log'[k][i] = log[k][i] /\ log[k][i] \in Nat
        BY <3>1, <1>4, <1>6
      <3> QED
        BY <3>1, <3>2, <1>3, <1>7
    <2> QED
      BY <2>1, <2>2, <2>3 DEF WindowIsSuffix, Expired
  <1> QED
    BY <1>9, <1>10, <1>11 DEF Good

Spaced(k) ==
    \A i \in DOMAIN log[k] :
        i + MaxCalls[k] \in DOMAIN log[k]
            => log[k][i + MaxCalls[k]] - log[k][i] >= Period[k]

(* A grant is made when the deque is not full: the entry MaxCalls before   *)
(* it has been pruned, and is at least a period old.                       *)
LEMMA GrantSpaced ==
    ASSUME TypeOK, NoLiveEntryForgotten, NEW k \in Keys, Spaced(k),
           NEW n \in 0..Len(windows[k]), PruneStopsAfter(k, n), ~Full(k, n),
           NEW t \in now..MaxTime, Stamp(k, Kept(k, n), t)
    PROVE  Spaced(k)'
  <1> DEFINE gone == Gone(Len(log[k]), Len(windows[k]), n)
  <1>1. /\ gone \in 0..Len(log[k])
        /\ Len(windows[k]) - n = Len(log[k]) - gone
        /\ \A i \in 1..gone : now - log[k][i] >= Period[k]
    BY PruneExact DEF Expired
  <1>2. /\ log'[k] = Append(log[k], t)
        /\ t \in Times /\ t \in Nat /\ t >= now
    BY LogFacts DEF Stamp, TypeOK, Times
  <1>3. /\ Len(log'[k]) = Len(log[k]) + 1
        /\ \A i \in 1..Len(log[k]) : log'[k][i] = log[k][i]
        /\ log'[k][Len(log[k]) + 1] = t
        /\ log'[k] \in Seq(Times)
    BY <1>2, LogFacts, Appended
  <1>4. DOMAIN log'[k] = 1..(Len(log[k]) + 1)
    BY <1>3, LenProperties
  <1>5. /\ Len(log[k]) \in Nat /\ now \in Nat /\ DOMAIN log[k] = 1..Len(log[k])
        /\ MaxCalls[k] \in Nat /\ MaxCalls[k] > 0 /\ Period[k] \in Nat
        /\ \A i \in 1..Len(log[k]) : log[k][i] \in Nat
    BY LogFacts, Limits
  <1>6. Len(log[k]) - gone < MaxCalls[k]
    BY <1>1, <1>5, LogFacts DEF Full
  <1> HIDE DEF gone
  <1> SUFFICES ASSUME NEW i \in 1..(Len(log[k]) + 1),
                      i + MaxCalls[k] \in 1..(Len(log[k]) + 1)
               PROVE  log'[k][i + MaxCalls[k]] - log'[k][i] >= Period[k]
    BY <1>4 DEF Spaced
  <1>7. i \in 1..Len(log[k]) /\ log'[k][i] = log[k][i] /\ log[k][i] \in Nat
    BY <1>3, <1>5
  <1>8. CASE i + MaxCalls[k] \in 1..Len(log[k])
    BY <1>7, <1>8, <1>3, <1>5 DEF Spaced
  <1>9. CASE i + MaxCalls[k] = Len(log[k]) + 1
    <2>1. i \in 1..gone
      BY <1>1, <1>5, <1>6, <1>9
    <2>2. now - log[k][i] >= Period[k]
      BY <2>1, <1>1
    <2> QED
      BY <2>2, <1>2, <1>3, <1>5, <1>7, <1>9
  <1>10. i + MaxCalls[k] \in 1..Len(log[k]) \/ i + MaxCalls[k] = Len(log[k]) + 1
    <2>1. i + MaxCalls[k] \in Int /\ Len(log[k]) \in Nat
      BY <1>5
    <2> QED
      BY <2>1
  <1> QED
    BY <1>8, <1>9, <1>10

--------------------------------------------------------------------------------

(* What an operation on a single key leaves alone.                         *)
LEMMA OneKey ==
    ASSUME NEW k \in Keys, IInv, now' \in Nat, now' >= now, Good(k)',
           \A j \in Keys \ {k} : log'[j] = log[j] /\ windows'[j] = windows[j],
           k \in QuotaKeys => Spaced(k)'
    PROVE  NoLiveEntryForgotten' /\ QuotaRespected'
  <1>1. ASSUME NEW j \in Keys PROVE Good(j)'
    <2>1. CASE j = k
      BY <2>1
    <2>2. CASE j # k
      <3>1. Good(j)
        BY DEF IInv, NoLiveEntryForgotten, Good
      <3> QED
        BY <2>2, <3>1, Untouched DEF IInv
    <2> QED
      BY <2>1, <2>2
  <1>2. ASSUME NEW j \in QuotaKeys PROVE Spaced(j)'
    <2>1. CASE j = k
      BY <2>1
    <2>2. CASE j # k
      BY <2>2 DEF IInv, QuotaRespected, Spaced, Keys
    <2> QED
      BY <2>1, <2>2
  <1>3. NoLiveEntryForgotten'
    BY <1>1 DEF Good, NoLiveEntryForgotten
  <1> QED
    BY <1>2, <1>3 DEF Spaced, QuotaRespected

(* What check and peek answer is a reply.                                  *)
LEMMA ReplyTyped ==
    ASSUME NEW k \in Keys, NEW ok \in BOOLEAN
    PROVE  <<k, ok>> \in Replies
  BY DEF Replies

(* Stamping preserves the types.                                           *)
LEMMA StampTyped ==
    ASSUME TypeOK, NEW k \in Keys, NEW n \in 0..Len(windows[k]),
           NEW t \in now..MaxTime, Stamp(k, Kept(k, n), t), reply' \in Replies
    PROVE  /\ TypeOK' /\ now' \in Nat /\ now' >= now
           /\ \A j \in Keys \ {k} : log'[j] = log[j] /\ windows'[j] = windows[j]
  <1>1. t \in Times /\ now \in Nat
    BY LogFacts DEF Times
  <1>2. Append(Kept(k, n), t) \in Seq(Times) /\ Append(log[k], t) \in Seq(Times)
    BY <1>1, KeptEntries, LogFacts, Appended
  <1>3. /\ now' = t
        /\ windows' = [windows EXCEPT ![k] = Append(Kept(k, n), t)]
        /\ log' = [log EXCEPT ![k] = Append(log[k], t)]
    BY DEF Stamp
  <1>4. windows \in [Keys -> Seq(Times)] /\ log \in [Keys -> Seq(Times)]
    BY DEF TypeOK, Times
  <1>5. windows' \in [Keys -> Seq(Times)] /\ log' \in [Keys -> Seq(Times)]
    BY <1>2, <1>3, <1>4
  <1>6. TypeOK'
    BY <1>1, <1>3, <1>5 DEF TypeOK, Times
  <1>7. now' \in Nat /\ now' >= now
    BY <1>1, <1>3
  <1>8. \A j \in Keys \ {k} : log'[j] = log[j] /\ windows'[j] = windows[j]
    BY <1>3, <1>4
  <1> QED
    BY <1>6, <1>7, <1>8

(* Pruning preserves the types.                                            *)
LEMMA PruneTyped ==
    ASSUME TypeOK, NEW k \in Keys, NEW n \in 0..Len(windows[k]),
           windows' = [windows EXCEPT ![k] = Kept(k, n)],
           UNCHANGED <<now, log>>, reply' \in Replies
    PROVE  /\ TypeOK' /\ now' \in Nat /\ now' >= now
           /\ windows'[k] = Kept(k, n) /\ log'[k] = log[k] /\ now' = now
           /\ \A j \in Keys \ {k} : log'[j] = log[j] /\ windows'[j] = windows[j]
  <1>1. Kept(k, n) \in Seq(Times) /\ now \in Nat
    BY KeptEntries, LogFacts
  <1> QED
    BY <1>1 DEF TypeOK, Times

(* The invariant holds initially.                                          *)
LEMMA InitInvariant == Init => IInv
  <1> SUFFICES ASSUME Init PROVE IInv
    OBVIOUS
  <1> USE DEF Init, AbsInit
  <1>1. \A k \in Keys : log[k] = <<>> /\ windows[k] = <<>>
    OBVIOUS
  <1>2. TypeOK
    <2>1. <<>> \in Seq(Times) /\ MaxTime \in Nat
      BY LimitAssumption
    <2> QED
      BY <2>1 DEF TypeOK, Times, Replies, NoReply
  <1>3. NoLiveEntryForgotten
    BY <1>1 DEF NoLiveEntryForgotten, WindowIsSuffix, LogOrdered, LogPast
  <1>4. QuotaRespected
    BY <1>1 DEF QuotaRespected, Keys
  <1> QED
    BY <1>2, <1>3, <1>4 DEF IInv

(* Every operation preserves the invariant.                                *)
LEMMA StepInvariant == IInv /\ [Next]_vars => IInv'
  <1> SUFFICES ASSUME IInv, [Next]_vars PROVE IInv'
    OBVIOUS
  <1>0. TypeOK /\ NoLiveEntryForgotten /\ QuotaRespected
    BY DEF IInv
  <1>1. ASSUME NEW k \in QuotaKeys, Check(k) PROVE IInv'
    <2>0. k \in Keys /\ Spaced(k)
      BY <1>0 DEF Keys, QuotaRespected, Spaced
    <2> PICK n \in 0..Len(windows[k]) :
          /\ PruneStopsAfter(k, n)
          /\ \/ /\ Full(k, n)
                /\ windows' = [windows EXCEPT ![k] = Kept(k, n)]
                /\ reply' = <<k, FALSE>>
                /\ UNCHANGED <<now, log>>
             \/ /\ ~Full(k, n)
                /\ \E t \in now..MaxTime : Stamp(k, Kept(k, n), t)
                /\ reply' = <<k, TRUE>>
      BY <1>1 DEF Check
    <2>1. reply' \in Replies
      <3>1. reply' = <<k, TRUE>> \/ reply' = <<k, FALSE>>
        OBVIOUS
      <3> QED
        BY <2>0, <3>1, ReplyTyped
    <2>2. CASE /\ windows' = [windows EXCEPT ![k] = Kept(k, n)]
               /\ UNCHANGED <<now, log>>
      <3>1. /\ TypeOK' /\ now' \in Nat /\ now' >= now
            /\ windows'[k] = Kept(k, n) /\ log'[k] = log[k] /\ now' = now
            /\ \A j \in Keys \ {k} : log'[j] = log[j] /\ windows'[j] = windows[j]
        BY <1>0, <2>0, <2>1, <2>2, PruneTyped
      <3>2. Good(k)'
        BY <1>0, <2>0, <3>1, Pruned
      <3>3. Spaced(k)'
        BY <2>0, <3>1 DEF Spaced
      <3> QED
        BY <2>0, <3>1, <3>2, <3>3, OneKey DEF IInv
    <2>3. CASE ~Full(k, n) /\ \E t \in now..MaxTime : Stamp(k, Kept(k, n), t)
      <3> PICK t \in now..MaxTime : Stamp(k, Kept(k, n), t)
        BY <2>3
      <3>1. /\ TypeOK' /\ now' \in Nat /\ now' >= now
            /\ \A j \in Keys \ {k} : log'[j] = log[j] /\ windows'[j] = windows[j]
        BY <1>0, <2>0, <2>1, StampTyped
      <3>2. Good(k)'
        BY <1>0, <2>0, Stamped
      <3>3. Spaced(k)'
        BY <1>0, <2>0, <2>3, GrantSpaced
      <3> QED
        BY <2>0, <3>1, <3>2, <3>3, OneKey DEF IInv
    <2> QED
      BY <2>2, <2>3
  <1>2. ASSUME NEW k \in LockoutKeys, Peek(k) PROVE IInv'
    <2>0. k \in Keys /\ k \notin QuotaKeys
      BY KeysAssumption DEF Keys
    <2> PICK n \in 0..Len(windows[k]) :
          /\ PruneStopsAfter(k, n)
          /\ windows' = [windows EXCEPT ![k] = Kept(k, n)]
          /\ reply' = <<k, ~Full(k, n)>>
          /\ UNCHANGED <<now, log>>
      BY <1>2 DEF Peek
    <2>1. reply' \in Replies
      BY <2>0 DEF Replies, Full
    <2>2. /\ TypeOK' /\ now' \in Nat /\ now' >= now
          /\ windows'[k] = Kept(k, n) /\ log'[k] = log[k] /\ now' = now
          /\ \A j \in Keys \ {k} : log'[j] = log[j] /\ windows'[j] = windows[j]
      BY <1>0, <2>0, <2>1, PruneTyped
    <2>3. Good(k)'
      BY <1>0, <2>0, <2>2, Pruned
    <2> QED
      BY <2>0, <2>2, <2>3, OneKey DEF IInv
  <1>3. ASSUME NEW k \in LockoutKeys, RecordFailure(k) PROVE IInv'
    <2>0. k \in Keys /\ k \notin QuotaKeys
      BY KeysAssumption DEF Keys
    <2> PICK n \in 0..Len(windows[k]) :
          /\ PruneStopsAfter(k, n)
          /\ \E t \in now..MaxTime : Stamp(k, Kept(k, n), t)
      BY <1>3 DEF RecordFailure
    <2> PICK t \in now..MaxTime : Stamp(k, Kept(k, n), t)
      OBVIOUS
    <2>1. reply' \in Replies
      BY <1>0, <1>3 DEF RecordFailure, TypeOK
    <2>2. /\ TypeOK' /\ now' \in Nat /\ now' >= now
          /\ \A j \in Keys \ {k} : log'[j] = log[j] /\ windows'[j] = windows[j]
      BY <1>0, <2>0, <2>1, StampTyped
    <2>3. Good(k)'
      BY <1>0, <2>0, Stamped
    <2> QED
      BY <2>0, <2>2, <2>3, OneKey DEF IInv
  <1>4. ASSUME NEW k \in LockoutKeys, Clear(k) PROVE IInv'
    <2>0. k \in Keys /\ k \notin QuotaKeys
      BY KeysAssumption DEF Keys
    <2>1. /\ windows' = [windows EXCEPT ![k] = <<>>]
          /\ log' = [log EXCEPT ![k] = <<>>]
          /\ now' = now /\ reply' = reply
      BY <1>4 DEF Clear
    <2>2. windows'[k] = <<>> /\ log'[k] = <<>>
      BY <1>0, <2>0, <2>1 DEF TypeOK
    <2>3. <<>> \in Seq(Times)
      OBVIOUS
    <2>4. TypeOK'
      BY <1>0, <2>1, <2>3 DEF TypeOK, Times
    <2>5. Good(k)'
      BY <2>2 DEF Good, WindowIsSuffix, LogOrdered, LogPast
    <2>6. \A j \in Keys \ {k} : log'[j] = log[j] /\ windows'[j] = windows[j]
      BY <1>0, <2>1 DEF TypeOK
    <2>7. now' \in Nat /\ now' >= now
      BY <1>0, <2>0, <2>1, LogFacts
    <2> QED
      BY <2>0, <2>4, <2>5, <2>6, <2>7, OneKey DEF IInv
  <1>5. CASE Tick \/ UNCHANGED vars
    <2>1. /\ log' = log /\ windows' = windows /\ reply' = reply
          /\ now \in Nat /\ now' \in Nat /\ now' >= now /\ now' <= MaxTime
      BY <1>0, <1>5, LimitAssumption DEF Tick, vars, TypeOK
    <2>2. TypeOK'
      BY <1>0, <2>1 DEF TypeOK
    <2>3. ASSUME NEW k \in Keys PROVE Good(k)'
      <3>1. Good(k)
        BY <1>0 DEF NoLiveEntryForgotten, Good
      <3> QED
        BY <1>0, <2>1, <3>1, Untouched
    <2>4. NoLiveEntryForgotten'
      BY <2>3 DEF Good, NoLiveEntryForgotten
    <2>5. QuotaRespected'
      BY <1>0, <2>1 DEF QuotaRespected
    <2> QED
      BY <2>2, <2>4, <2>5 DEF IInv
  <1> QED
    BY <1>1, <1>2, <1>3, <1>4, <1>5 DEF Next

(* IInv is an invariant of the rate limiter.                               *)
LEMMA Invariance == Spec => []IInv
  BY InitInvariant, StepInvariant, PTL DEF Spec

(* The deques, the logs and the clock always hold timestamps of the clock  *)
(* (the fields of InMemoryRateLimitBackend keep their types).              *)
THEOREM TypeCorrect == Spec => []TypeOK
  <1>1. IInv => TypeOK
    BY DEF IInv
  <1> QED
    BY <1>1, Invariance, PTL

(* check() never grants more than MaxCalls in any stretch of Period.       *)
THEOREM QuotaHolds == Spec => []QuotaRespected
  <1>1. IInv => QuotaRespected
    BY DEF IInv
  <1> QED
    BY <1>1, Invariance, PTL

(* _prune() never drops an entry that still counts.                        *)
THEOREM PruningIsSafe == Spec => []NoLiveEntryForgotten
  <1>1. IInv => NoLiveEntryForgotten
    BY DEF IInv
  <1> QED
    BY <1>1, Invariance, PTL

--------------------------------------------------------------------------------

(* A deque that is left with MaxCalls entries is a key at its limit.       *)
LEMMA FullIsLimit ==
    ASSUME TypeOK, NoLiveEntryForgotten,
           NEW k \in Keys, NEW n \in 0..Len(windows[k]), PruneStopsAfter(k, n)
    PROVE  Full(k, n) <=> ~UnderLimit(k)
  <1>1. Cardinality(Counting(k, now)) = Len(windows[k]) - n
    BY PruneExact
  <1>2. Len(windows[k]) \in Nat /\ MaxCalls[k] \in Nat
    BY LogFacts, Limits
  <1> QED
    BY <1>1, <1>2 DEF Full, UnderLimit

(* Every step is a step of the sliding window, or none at all.             *)
LEMMA StepRefines == IInv /\ [Next]_vars => [AbsNext]_absVars
  <1> SUFFICES ASSUME IInv, [Next]_vars PROVE [AbsNext]_absVars
    OBVIOUS
  <1>0. TypeOK /\ NoLiveEntryForgotten
    BY DEF IInv
  <1>1. ASSUME NEW k \in QuotaKeys, Check(k) PROVE Grant(k) \/ Refuse(k)
    <2>0. k \in Keys
      BY DEF Keys
    <2>1. PICK n \in 0..Len(windows[k]) :
          /\ PruneStopsAfter(k, n)
          /\ \/ /\ Full(k, n)
                /\ windows' = [windows EXCEPT ![k] = Kept(k, n)]
                /\ reply' = <<k, FALSE>>
                /\ UNCHANGED <<now, log>>
             \/ /\ ~Full(k, n)
                /\ \E t \in now..MaxTime : Stamp(k, Kept(k, n), t)
                /\ reply' = <<k, TRUE>>
      BY <1>1 DEF Check
    <2>2. Full(k, n) <=> ~UnderLimit(k)
      BY <1>0, <2>0, <2>1, FullIsLimit
    <2> QED
      BY <2>1, <2>2 DEF Grant, Refuse, Charge, Stamp
  <1>2. ASSUME NEW k \in LockoutKeys, Peek(k) PROVE Ask(k)
    <2>0. k \in Keys
      BY DEF Keys
    <2>1. PICK n \in 0..Len(windows[k]) :
          /\ PruneStopsAfter(k, n)
          /\ windows' = [windows EXCEPT ![k] = Kept(k, n)]
          /\ reply' = <<k, ~Full(k, n)>>
          /\ UNCHANGED <<now, log>>
      BY <1>2 DEF Peek
    <2>2. Full(k, n) <=> ~UnderLimit(k)
      BY <1>0, <2>0, <2>1, FullIsLimit
    <2>3. (~Full(k, n)) = UnderLimit(k)
      BY <2>2 DEF Full, UnderLimit
    <2> QED
      BY <2>1, <2>3 DEF Ask
  <1>3. ASSUME NEW k \in LockoutKeys, RecordFailure(k) PROVE Fail(k)
    BY <1>3 DEF RecordFailure, Stamp, Fail, Charge
  <1>4. ASSUME NEW k \in LockoutKeys, Clear(k) PROVE Forgive(k)
    BY <1>4 DEF Clear, Forgive
  <1>5. CASE Tick
    BY <1>5 DEF Tick, AbsNext, Pass
  <1>6. CASE UNCHANGED vars
    BY <1>6 DEF vars, absVars
  <1> QED
    BY <1>1, <1>2, <1>3, <1>4, <1>5, <1>6 DEF Next, AbsNext

(* The deques implement the promise of SlidingWindow: check(), peek(),     *)
(* record_failure() and clear() act on, and answer from, exactly the       *)
(* charges younger than the key's period.                                  *)
THEOREM Refinement == Spec => ImplementsSlidingWindow
  <1>1. Init => AbsInit
    BY DEF Init
  <1> QED
    BY <1>1, StepRefines, Invariance, PTL
       DEF Spec, AbsSpec, ImplementsSlidingWindow
================================================================================
