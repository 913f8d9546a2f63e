-------------------------- MODULE AuthenticationProofs --------------------------
(***************************************************************************)
(* Theorems about both parts of the authentication: Login, whose proofs    *)
(* come first, and Sessions.                                               *)
(***************************************************************************)
EXTENDS Login, Sessions, SequenceTheorems, FiniteSetTheorems, TLAPS

(***************************************************************************)
(* For all threads, addresses, emails, limits and windows: the types of    *)
(* Login, the bound on the guesses that can be made against an email, and  *)
(* the bound on the failures against all of them.  The inductive invariant *)
(* adds to the types that windows are ordered: the charges that end at a   *)
(* tick are then the first ones, and what ages keeps its type.  The first  *)
(* bound is kept limiter by limiter.  For the one in use, a request that   *)
(* passes the lock found less failures than the limit, whatever the other  *)
(* threads are up to, and trades its place among those that may fail for   *)
(* at most one failure (OneLimiter).  What was lost is no more than that   *)
(* for each of the limiters before it (LostBefore), and a limiter is made  *)
(* for one of the requests that found none (FewLimiters).  The second bound*)
(* is not inductive, since attempts end as well as failures: it is kept for*)
(* the charges since any moment (Sprayed), of which the tick only moves the*)
(* moment.                                                                 *)
(***************************************************************************)

Window(w, p) ==
    /\ w \in Seq(1..p)
    /\ \A i, j \in 1..Len(w) : i <= j => w[i] <= w[j]

Windows ==
    /\ \A ip \in Ips : Window(attempts[ip], LoginWindow)
    /\ \A e \in Emails : Window(failures[e], LockoutWindow)

(* The charges of one window were made before those of another.            *)
Older(u, w) == \A i \in 1..Len(u), j \in 1..Len(w) : u[i] <= w[j]

Chronological ==
    \A e \in Emails :
        Window(forgotten[e], LockoutWindow) /\ Older(forgotten[e], failures[e])

Limit == MaxFailures - 1 + Cardinality(Threads)

OneLimiter ==
    \A e \in Emails : Len(failures[e]) + Cardinality(Guessing(e)) <= Limit

LostBefore ==
    \A e \in Emails :
        /\ limiters = 0 => forgotten[e] = <<>> /\ failures[e] = <<>>
        /\ limiters # 0 => Len(forgotten[e]) <= (limiters - 1) * Limit

Building == {t \in Threads : pc[t] = "building"}

FewLimiters ==
    /\ backend <=> limiters # 0
    /\ ~backend => \A t \in Threads : pc[t] \in {"idle", "building"}
    /\ limiters + Cardinality(Building) <= Cardinality(Threads)

LoginInv ==
    LoginTypeOK /\ Windows /\ Chronological /\ OneLimiter /\ LostBefore /\ FewLimiters

(* No charges are a window.                                                *)
LEMMA EmptyWindow == ASSUME NEW p PROVE Window(<<>>, p) /\ Len(<<>>) = 0
  BY EmptySeq DEF Window

(* A charge that counts for a whole period goes to the end of a window.    *)
LEMMA ChargedWindow ==
    ASSUME NEW p \in Nat \ {0}, NEW w, Window(w, p)
    PROVE  Window(Append(w, p), p) /\ Len(Append(w, p)) = Len(w) + 1
  <1>1. w \in Seq(1..p) /\ p \in 1..p /\ Len(w) \in Nat
    BY LenProperties DEF Window
  <1>2. /\ Append(w, p) \in Seq(1..p)
        /\ Len(Append(w, p)) = Len(w) + 1
        /\ \A i \in 1..Len(w) : Append(w, p)[i] = w[i]
        /\ Append(w, p)[Len(w) + 1] = p
    BY <1>1, AppendProperties
  <1>3. \A i \in 1..Len(w) : w[i] \in 1..p
    BY <1>1, ElementOfSeq
  <1>4. ASSUME NEW i \in 1..(Len(w) + 1), NEW j \in 1..(Len(w) + 1), i <= j
        PROVE  Append(w, p)[i] <= Append(w, p)[j]
    <2>1. CASE j \in 1..Len(w)
      BY <1>1, <1>2, <1>4, <2>1 DEF Window
    <2>2. CASE j = Len(w) + 1
      BY <1>1, <1>2, <1>3, <1>4, <2>2
    <2> QED
      BY <1>1, <2>1, <2>2
  <1> QED
    BY <1>2, <1>4 DEF Window

(* The charges that end are as many as they are, and come first.           *)
LEMMA EndingFirst ==
    ASSUME NEW p \in Nat, NEW w, Window(w, p)
    PROVE  /\ Ending(w) \in Nat /\ Ending(w) <= Len(w) /\ Len(w) \in Nat
           /\ \A i \in 1..Len(w) : i > Ending(w) => w[i] \in 2..p
  <1> DEFINE ones == {i \in 1..Len(w) : w[i] = 1}
  <1>1. Len(w) \in Nat /\ \A i \in 1..Len(w) : w[i] \in 1..p
    BY LenProperties, ElementOfSeq DEF Window
  <1>2. IsFiniteSet(1..Len(w)) /\ Cardinality(1..Len(w)) = Len(w)
    <2>1. 1 \in Int /\ Len(w) \in Int
      BY <1>1
    <2>2. /\ IsFiniteSet(1..Len(w))
          /\ Cardinality(1..Len(w)) = IF 1 > Len(w) THEN 0 ELSE Len(w) - 1 + 1
      BY <2>1, FS_Interval
    <2> QED
      BY <1>1, <2>2
  <1>3. IsFiniteSet(ones) /\ Cardinality(ones) <= Len(w)
    BY <1>2, FS_Subset
  <1>4. Cardinality(ones) \in Nat
    BY <1>3, FS_CardinalityType
  <1>5. ASSUME NEW i \in 1..Len(w), i > Cardinality(ones), w[i] = 1
        PROVE  FALSE
    <2>1. \A j \in 1..i : j \in 1..Len(w) /\ w[j] = 1
      BY <1>1, <1>5 DEF Window
    <2>2. (1..i) \in SUBSET ones
      BY <2>1
    <2>3. Cardinality(1..i) <= Cardinality(ones)
      BY <1>3, <2>2, FS_Subset
    <2>4. Cardinality(1..i) = i
      BY <1>1, FS_Interval
    <2> QED
      BY <1>1, <1>4, <1>5, <2>3, <2>4
  <1>6. Ending(w) = Cardinality(ones)
    BY DEF Ending
  <1> QED
    BY <1>1, <1>3, <1>4, <1>5, <1>6

(* A tick later a window is a window, and no longer than it was.           *)
LEMMA AgedWindow ==
    ASSUME NEW p \in Nat, NEW w, Window(w, p)
    PROVE  /\ Window(Aged(w), p)
           /\ Len(Aged(w)) \in Nat /\ Len(Aged(w)) <= Len(w)
  <1> DEFINE k == Ending(w)
             n == Len(w) - k
  <1>1. /\ k \in Nat /\ k <= Len(w) /\ Len(w) \in Nat /\ n \in Nat
        /\ \A i \in 1..Len(w) : i > k => w[i] \in 2..p
    BY EndingFirst
  <1>2. \A i \in 1..n : i + k \in 1..Len(w) /\ i + k > k
    BY <1>1
  <1>3. \A i \in 1..n : w[i + k] - 1 \in 1..p
    BY <1>1, <1>2
  <1>4. Aged(w) = [i \in 1..n |-> w[i + k] - 1]
    BY DEF Aged
  <1> HIDE DEF n, k
  <1>5. Aged(w) \in [1..n -> 1..p]
    BY <1>3, <1>4
  <1>6. Aged(w) \in Seq(1..p) /\ Len(Aged(w)) = n
    BY <1>1, <1>5
  <1>7. ASSUME NEW i \in 1..n, NEW j \in 1..n, i <= j
        PROVE  Aged(w)[i] <= Aged(w)[j]
    <2>1. w[i + k] <= w[j + k]
      <3>1. i + k \in 1..Len(w) /\ j + k \in 1..Len(w)
        BY <1>2
      <3>2. i + k <= j + k
        BY <1>1, <1>7
      <3> QED
        BY <3>1, <3>2 DEF Window
    <2>2. w[i + k] \in 2..p /\ w[j + k] \in 2..p
      BY <1>1, <1>2
    <2> QED
      BY <1>4, <2>1, <2>2
  <1>8. n <= Len(w)
    BY <1>1 DEF n
  <1> QED
    BY <1>1, <1>6, <1>7, <1>8 DEF Window

(* The charges that end at a tick are those that come first, and no others.*)
LEMMA AgedShift ==
  ASSUME NEW p \in Nat, NEW w, Window(w, p)
  PROVE  /\ Ending(w) \in Nat
         /\ \A i \in 1..Len(Aged(w)) :
               i + Ending(w) \in 1..Len(w) /\ Aged(w)[i] = w[i + Ending(w)] - 1
         /\ \A i \in 1..Len(w) : w[i] > 1 =>
               /\ i - Ending(w) \in 1..Len(Aged(w))
               /\ Aged(w)[i - Ending(w)] = w[i] - 1
  <1> DEFINE k == Ending(w)
             n == Len(w) - k
             ones == {i \in 1..Len(w) : w[i] = 1}
  <1>1. /\ k \in Nat /\ k <= Len(w) /\ Len(w) \in Nat /\ n \in Nat
        /\ k = Cardinality(ones)
    BY EndingFirst DEF Ending
  <1>2. \A i \in 1..Len(w) : w[i] \in 1..p
    BY LenProperties, ElementOfSeq DEF Window
  <1>3. Aged(w) = [i \in 1..n |-> w[i + k] - 1]
    BY DEF Aged
  <1> HIDE DEF n, k
  <1>4. Len(Aged(w)) = n
    <2>1. \A i \in 1..n : i + k \in 1..Len(w)
      BY <1>1 DEF n
    <2>2. Aged(w) \in [1..n -> Int]
      BY <1>2, <1>3, <2>1
    <2> QED
      BY <1>1, <2>2
  <1>5. ASSUME NEW i \in 1..Len(w), w[i] > 1 PROVE i > k
    <2>1. ones \in SUBSET (1..(i - 1))
      BY <1>1, <1>2, <1>5 DEF Window
    <2>2. IsFiniteSet(1..(i - 1)) /\ Cardinality(1..(i - 1)) = i - 1
      <3>1. 1 \in Int /\ i - 1 \in Int /\ i - 1 >= 0
        BY <1>1
      <3>2. /\ IsFiniteSet(1..(i - 1))
            /\ Cardinality(1..(i - 1)) = IF 1 > i - 1 THEN 0 ELSE (i - 1) - 1 + 1
        BY <3>1, FS_Interval
      <3> QED
        BY <3>1, <3>2
    <2>3. Cardinality(ones) <= i - 1
      BY <2>1, <2>2, FS_Subset
    <2> QED
      BY <1>1, <2>3
  <1>6. \A i \in 1..Len(Aged(w)) : i + k \in 1..Len(w) /\ Aged(w)[i] = w[i + k] - 1
    BY <1>1, <1>3, <1>4 DEF n
  <1>7. ASSUME NEW i \in 1..Len(w), w[i] > 1
        PROVE  i - k \in 1..Len(Aged(w)) /\ Aged(w)[i - k] = w[i] - 1
    <2>1. i - k \in 1..n /\ (i - k) + k = i
      BY <1>1, <1>5, <1>7 DEF n
    <2> QED
      BY <1>3, <1>4, <2>1
  <1> QED
    BY <1>1, <1>6, <1>7 DEF k

(* So charges that were made before others still come before them.         *)
LEMMA AgedOlder ==
    ASSUME NEW p \in Nat, NEW u, Window(u, p), NEW w, Window(w, p), Older(u, w)
    PROVE  Older(Aged(u), Aged(w))
  <1> SUFFICES ASSUME NEW i \in 1..Len(Aged(u)), NEW j \in 1..Len(Aged(w))
               PROVE  Aged(u)[i] <= Aged(w)[j]
    BY DEF Older
  <1>1. i + Ending(u) \in 1..Len(u) /\ Aged(u)[i] = u[i + Ending(u)] - 1
    BY AgedShift
  <1>2. j + Ending(w) \in 1..Len(w) /\ Aged(w)[j] = w[j + Ending(w)] - 1
    BY AgedShift
  <1>3. u[i + Ending(u)] <= w[j + Ending(w)]
    BY <1>1, <1>2 DEF Older
  <1>4. u[i + Ending(u)] \in 1..p /\ w[j + Ending(w)] \in 1..p
    BY <1>1, <1>2, ElementOfSeq DEF Window
  <1> QED
    BY <1>1, <1>2, <1>3, <1>4

(* Charges and later ones are a window together.                           *)
LEMMA JoinedWindow ==
    ASSUME NEW p \in Nat, NEW u, Window(u, p), NEW w, Window(w, p), Older(u, w)
    PROVE  /\ Window(u \o w, p) /\ Len(u \o w) = Len(u) + Len(w)
           /\ Len(u) \in Nat /\ Len(w) \in Nat
  <1>1. /\ u \in Seq(1..p) /\ w \in Seq(1..p) /\ Len(u) \in Nat /\ Len(w) \in Nat
    BY LenProperties DEF Window
  <1>2. /\ u \o w \in Seq(1..p) /\ Len(u \o w) = Len(u) + Len(w)
        /\ \A i \in 1..Len(u \o w) :
              (u \o w)[i] = IF i <= Len(u) THEN u[i] ELSE w[i - Len(u)]
    BY <1>1, ConcatProperties
  <1>3. ASSUME NEW i \in 1..Len(u \o w), NEW j \in 1..Len(u \o w), i <= j
        PROVE  (u \o w)[i] <= (u \o w)[j]
    <2>1. CASE j <= Len(u)
      <3>1. i \in 1..Len(u) /\ j \in 1..Len(u)
        BY <1>1, <1>2, <1>3, <2>1
      <3> QED
        BY <1>2, <1>3, <2>1, <3>1 DEF Window
    <2>2. CASE i <= Len(u) /\ j > Len(u)
      <3>1. i \in 1..Len(u) /\ j - Len(u) \in 1..Len(w)
        BY <1>1, <1>2, <1>3, <2>2
      <3> QED
        BY <1>1, <1>2, <2>2, <3>1 DEF Older
    <2>3. CASE i > Len(u)
      <3>1. /\ i - Len(u) \in 1..Len(w) /\ j - Len(u) \in 1..Len(w)
            /\ i - Len(u) <= j - Len(u) /\ ~(i <= Len(u)) /\ ~(j <= Len(u))
        BY <1>1, <1>2, <1>3, <2>3
      <3> QED
        BY <1>2, <3>1 DEF Window
    <2> QED
      BY <1>1, <2>1, <2>2, <2>3
  <1> QED
    BY <1>1, <1>2, <1>3 DEF Window

--------------------------------------------------------------------------------

(* What the windows of a typed state are.                                  *)
LEMMA WindowsAreSequences ==
    ASSUME Windows
    PROVE  /\ \A ip \in Ips : attempts[ip] \in Seq(1..LoginWindow)
           /\ \A e \in Emails : failures[e] \in Seq(1..LockoutWindow)
           /\ \A e \in Emails : Len(failures[e]) \in Nat
  BY LenProperties DEF Windows, Window

(* The counts that GuessBound adds up.                                     *)
LEMMA GuessingCounts ==
    /\ Cardinality(Threads) \in Nat
    /\ \A e \in Emails :
         /\ IsFiniteSet(Guessing(e)) /\ Cardinality(Guessing(e)) \in Nat
         /\ Cardinality(Guessing(e)) <= Cardinality(Threads)
  <1>1. \A e \in Emails : Guessing(e) \in SUBSET Threads
    BY DEF Guessing
  <1>2. IsFiniteSet(Threads)
    BY LoginAssumption
  <1> QED
    BY <1>1, <1>2, FS_Subset, FS_CardinalityType

(* The invariant holds when the worker starts.                             *)
LEMMA LoginInitially == LoginInit => LoginInv
  <1> SUFFICES ASSUME LoginInit PROVE LoginInv
    OBVIOUS
  <1>1. /\ \A ip \in Ips : attempts[ip] = <<>>
        /\ \A e \in Emails : failures[e] = <<>>
    BY DEF LoginInit
  <1>2. Windows
    BY <1>1, EmptyWindow DEF Windows
  <1>3. Chronological
    BY EmptyWindow DEF Chronological, Older, LoginInit
  <1>4. LoginTypeOK
    <2>1. \A ip \in Ips : Len(attempts[ip]) <= MaxAttempts
      BY <1>1, EmptyWindow, LoginAssumption
    <2>2. \A e \in Emails : forgotten[e] \in Seq(1..LockoutWindow)
      BY <1>3 DEF Chronological, Window
    <2> QED
      BY <1>2, <2>1, <2>2, WindowsAreSequences DEF LoginInit, LoginTypeOK
  <1>5. OneLimiter
    <2> SUFFICES ASSUME NEW e \in Emails
                 PROVE  Len(failures[e]) + Cardinality(Guessing(e)) <= Limit
      BY DEF OneLimiter
    <2>1. Guessing(e) = {}
      BY DEF Guessing, LoginInit
    <2>2. Cardinality(Guessing(e)) = 0 /\ Len(failures[e]) = 0
      BY <1>1, <2>1, FS_EmptySet, EmptyWindow
    <2> QED
      BY <2>2, GuessingCounts, LoginAssumption DEF Limit
  <1>6. LostBefore
    BY DEF LostBefore, LoginInit
  <1>7. FewLimiters
    <2>1. Building = {}
      BY DEF Building, LoginInit
    <2>2. Cardinality(Building) = 0
      BY <2>1, FS_EmptySet
    <2> QED
      BY <2>2, GuessingCounts DEF FewLimiters, LoginInit
  <1> QED
    BY <1>2, <1>3, <1>4, <1>5, <1>6, <1>7 DEF LoginInv

--------------------------------------------------------------------------------

(* What was lost was charged before what counts, at every step.            *)
LEMMA StepChronological == LoginInv /\ [LoginNext]_loginVars => Chronological'
  <1> SUFFICES ASSUME LoginInv, [LoginNext]_loginVars, NEW e \in Emails
               PROVE  /\ Window(forgotten'[e], LockoutWindow)
                      /\ Older(forgotten'[e], failures'[e])
    BY DEF Chronological
  <1> DEFINE u == forgotten[e]
             w == failures[e]
             Goal == /\ Window(forgotten'[e], LockoutWindow)
                     /\ Older(forgotten'[e], failures'[e])
  <1>1. /\ Window(u, LockoutWindow) /\ Window(w, LockoutWindow) /\ Older(u, w)
        /\ LoginTypeOK /\ LockoutWindow \in Nat \ {0}
    BY LoginAssumption DEF LoginInv, Windows, Chronological
  <1>2. ASSUME NEW v, Window(v, LockoutWindow)
        PROVE  Older(v, <<>>) /\ Window(<<>>, LockoutWindow) /\ Older(<<>>, v)
    BY EmptyWindow DEF Older
  <1>3. CASE UNCHANGED <<failures, forgotten>>
    BY <1>1, <1>3
  <1>4. CASE LoginTick
    BY <1>1, <1>4, AgedWindow, AgedOlder DEF LoginTick
  <1>5. CASE Restart
    BY <1>2, <1>5, EmptyWindow DEF Restart, NoCharges
  <1>6. ASSUME NEW t \in Threads, Build(t) PROVE Goal
    <2>1. forgotten'[e] = u \o w /\ failures'[e] = <<>>
      BY <1>6 DEF Build, NoCharges
    <2>2. Window(u \o w, LockoutWindow)
      BY <1>1, JoinedWindow
    <2> QED
      BY <1>2, <2>1, <2>2
  <1>7. ASSUME NEW t \in Threads, RecordFailure(t) PROVE Goal
    <2>1. forgotten'[e] = u
      BY <1>7 DEF RecordFailure, history
    <2>2. CASE failures'[e] = w
      BY <1>1, <2>1, <2>2
    <2>3. CASE failures'[e] = Append(w, LockoutWindow)
      <3>1. /\ w \in Seq(1..LockoutWindow) /\ LockoutWindow \in 1..LockoutWindow
            /\ Len(w) \in Nat
        BY <1>1, LenProperties DEF Window
      <3>2. /\ Len(Append(w, LockoutWindow)) = Len(w) + 1
            /\ \A j \in 1..Len(w) : Append(w, LockoutWindow)[j] = w[j]
            /\ Append(w, LockoutWindow)[Len(w) + 1] = LockoutWindow
        BY <3>1, AppendProperties
      <3>3. \A i \in 1..Len(u) : u[i] \in 1..LockoutWindow
        BY <1>1, ElementOfSeq DEF Window
      <3>4. ASSUME NEW i \in 1..Len(u), NEW j \in 1..(Len(w) + 1)
            PROVE  u[i] <= Append(w, LockoutWindow)[j]
        <4>1. CASE j \in 1..Len(w)
          BY <1>1, <3>2, <4>1 DEF Older
        <4>2. CASE j = Len(w) + 1
          BY <3>2, <3>3, <4>2
        <4> QED
          BY <3>1, <4>1, <4>2
      <3> QED
        BY <1>1, <2>1, <2>3, <3>2, <3>4 DEF Older
    <2> QED
      BY <1>1, <1>7, <2>2, <2>3 DEF RecordFailure, LoginTypeOK
  <1>8. ASSUME NEW t \in Threads, Clear(t) PROVE Goal
    <2>1. \/ forgotten'[e] = u /\ failures'[e] = w
          \/ forgotten'[e] = <<>> /\ failures'[e] = <<>>
      BY <1>1, <1>8 DEF Clear, LoginTypeOK
    <2> QED
      BY <1>1, <1>2, <2>1
  <1> QED
    BY <1>3, <1>4, <1>5, <1>6, <1>7, <1>8
    DEF LoginNext, loginVars, history, Serve, Request, Peek, Verify, Check

(* Every action leaves the windows windows, and the attempts within bounds.*)
LEMMA StepWindows == LoginInv /\ [LoginNext]_loginVars => Windows' /\ LoginTypeOK'
  <1> SUFFICES ASSUME LoginInv, [LoginNext]_loginVars PROVE Windows' /\ LoginTypeOK'
    OBVIOUS
  <1> DEFINE Rest ==
        /\ backend' \in BOOLEAN
        /\ pc' \in [Threads -> {"idle", "building", "check", "peek", "verify",
                                "failing", "clearing"}]
        /\ email' \in [Threads -> Emails]
      Lost ==
        /\ limiters' \in Nat
        /\ DOMAIN forgotten' = Emails
        /\ forgotten' = [e \in Emails |-> forgotten'[e]]
      Shape ==
        /\ DOMAIN attempts' = Ips /\ attempts' = [ip \in Ips |-> attempts'[ip]]
        /\ DOMAIN failures' = Emails
        /\ failures' = [e \in Emails |-> failures'[e]]
      Few == \A ip \in Ips : Len(attempts'[ip]) <= MaxAttempts
      Attempts == \A ip \in Ips : Window(attempts'[ip], LoginWindow)
      Failures == \A e \in Emails : Window(failures'[e], LockoutWindow)
  <1>1. LoginTypeOK /\ Windows
    BY DEF LoginInv
  <1>2. /\ LoginWindow \in Nat \ {0} /\ LockoutWindow \in Nat \ {0}
        /\ MaxAttempts \in Nat \ {0}
    BY LoginAssumption
  <1>3. Rest /\ Shape
    BY <1>1 DEF LoginNext, loginVars, LoginTick, Restart, NoCharges, Serve, Request, Build, Check,
                Peek, Verify, RecordFailure, Clear, Step, LoginTypeOK
  <1> HIDE DEF Rest, Shape
  <1>8. Lost
    <2>1. CASE UNCHANGED history
      BY <1>1, <2>1 DEF history, LoginTypeOK
    <2>2. CASE LoginTick
      BY <1>1, <2>2 DEF LoginTick, LoginTypeOK
    <2>3. CASE Restart
      BY <2>3 DEF Restart
    <2>4. ASSUME NEW t \in Threads, Build(t) PROVE Lost
      BY <1>1, <2>4 DEF Build, LoginTypeOK
    <2>5. ASSUME NEW t \in Threads, Clear(t) PROVE Lost
      BY <1>1, <2>5 DEF Clear, LoginTypeOK
    <2> QED
      BY <2>1, <2>2, <2>3, <2>4, <2>5
      DEF LoginNext, loginVars, Serve, Request, Peek, Verify, RecordFailure, Check
  <1> HIDE DEF Lost
  <1>4. Attempts /\ Few
    <2>1. CASE UNCHANGED attempts
      BY <1>1, <2>1 DEF Windows, LoginTypeOK
    <2>2. CASE LoginTick
      <3> SUFFICES ASSUME NEW ip \in Ips
                   PROVE  /\ Window(attempts'[ip], LoginWindow)
                          /\ Len(attempts'[ip]) <= MaxAttempts
        OBVIOUS
      <3>1. attempts'[ip] = Aged(attempts[ip])
        BY <2>2 DEF LoginTick
      <3>2. Window(attempts[ip], LoginWindow) /\ Len(attempts[ip]) <= MaxAttempts
        BY <1>1 DEF Windows, LoginTypeOK
      <3>3. Len(attempts[ip]) \in Nat
        BY <3>2, LenProperties DEF Window
      <3>4. /\ Window(Aged(attempts[ip]), LoginWindow)
            /\ Len(Aged(attempts[ip])) \in Nat
            /\ Len(Aged(attempts[ip])) <= Len(attempts[ip])
        BY <1>2, <3>2, AgedWindow
      <3> QED
        BY <1>2, <3>1, <3>2, <3>3, <3>4
    <2>3. CASE NoCharges
      BY <1>2, <2>3, EmptyWindow DEF NoCharges
    <2>4. ASSUME NEW t \in Threads, NEW p \in Ips, Check(t, p)
          PROVE  Attempts /\ Few
      <3>1. CASE /\ Len(attempts[p]) < MaxAttempts
                 /\ attempts' = [attempts EXCEPT ![p] = Append(@, LoginWindow)]
        <4>1. Window(attempts[p], LoginWindow) /\ Len(attempts[p]) \in Nat
          BY <1>1, LenProperties DEF Windows, Window
        <4>2. /\ Window(Append(attempts[p], LoginWindow), LoginWindow)
              /\ Len(Append(attempts[p], LoginWindow)) = Len(attempts[p]) + 1
          BY <1>2, <4>1, ChargedWindow
        <4>3. \A ip \in Ips : attempts'[ip] =
                IF ip = p THEN Append(attempts[p], LoginWindow) ELSE attempts[ip]
          BY <1>1, <3>1 DEF LoginTypeOK
        <4>4. Len(Append(attempts[p], LoginWindow)) <= MaxAttempts
          BY <1>2, <3>1, <4>1, <4>2
        <4> QED
          BY <1>1, <4>2, <4>3, <4>4 DEF Windows, LoginTypeOK
      <3>2. CASE UNCHANGED attempts
        BY <2>1, <3>2
      <3> QED
        BY <2>4, <3>1, <3>2 DEF Check
    <2> QED
      BY <2>1, <2>2, <2>3, <2>4
      DEF LoginNext, loginVars, Restart, Serve, Request, Build, Peek, Verify, RecordFailure,
          Clear
  <1>5. Failures
    <2>1. CASE UNCHANGED failures
      BY <1>1, <2>1 DEF Windows
    <2>2. CASE LoginTick
      BY <1>1, <1>2, <2>2, AgedWindow DEF LoginTick, Windows
    <2>3. CASE NoCharges
      BY <2>3, EmptyWindow DEF NoCharges
    <2>4. ASSUME NEW t \in Threads, RecordFailure(t)
          PROVE  Failures
      <3>1. Window(Append(failures[email[t]], LockoutWindow), LockoutWindow)
        BY <1>1, <1>2, ChargedWindow DEF LoginTypeOK, Windows
      <3> QED
        BY <1>1, <2>4, <3>1 DEF RecordFailure, LoginTypeOK, Windows
    <2>5. ASSUME NEW t \in Threads, Clear(t)
          PROVE  Failures
      BY <1>1, <2>5, EmptyWindow DEF Clear, LoginTypeOK, Windows
    <2> QED
      BY <2>1, <2>2, <2>3, <2>4, <2>5
      DEF LoginNext, loginVars, Restart, Serve, Request, Build, Peek, Verify, Check
  <1>6. Windows'
    BY <1>4, <1>5 DEF Windows
  <1>7. /\ attempts' \in [Ips -> Seq(1..LoginWindow)]
        /\ failures' \in [Emails -> Seq(1..LockoutWindow)]
        /\ forgotten' \in [Emails -> Seq(1..LockoutWindow)]
    BY <1>3, <1>4, <1>5, <1>8, StepChronological DEF Window, Chronological, Shape, Lost
  <1> QED
    BY <1>3, <1>4, <1>6, <1>7, <1>8 DEF LoginTypeOK, Rest, Lost

(* Every action keeps the bound on the guesses that one limiter counts.    *)
LEMMA StepOneLimiter == LoginInv /\ [LoginNext]_loginVars => OneLimiter'
  <1> SUFFICES ASSUME LoginInv, [LoginNext]_loginVars, NEW e \in Emails
               PROVE  (Len(failures[e]) + Cardinality(Guessing(e))
                        <= MaxFailures - 1 + Cardinality(Threads))'
    BY DEF OneLimiter, Limit
  <1> DEFINE G == Guessing(e)
             N == Cardinality(Threads)
             Bound == (Len(failures[e]) + Cardinality(Guessing(e))
                        <= MaxFailures - 1 + Cardinality(Threads))'
  <1>1. LoginTypeOK /\ Windows /\ Windows'
    BY StepWindows DEF LoginInv
  <1>2. /\ Len(failures[e]) + Cardinality(G) <= MaxFailures - 1 + N
        /\ Len(failures[e]) \in Nat /\ Len(failures'[e]) \in Nat
        /\ IsFiniteSet(G) /\ Cardinality(G) \in Nat /\ Cardinality(G) <= N
        /\ N \in Nat /\ MaxFailures \in Nat \ {0}
    BY <1>1, WindowsAreSequences, GuessingCounts, LoginAssumption, LenProperties
    DEF LoginInv, OneLimiter, Limit, Windows, Window
  <1>3. /\ IsFiniteSet(G') /\ Cardinality(G') \in Nat /\ Cardinality(G') <= N
    <2>1. G' \in SUBSET Threads /\ IsFiniteSet(Threads)
      BY LoginAssumption DEF Guessing
    <2> QED
      BY <2>1, FS_Subset, FS_CardinalityType
  <1>4. ASSUME G' \subseteq G, Len(failures'[e]) <= Len(failures[e])
        PROVE  Bound
    <2>1. Cardinality(G') <= Cardinality(G)
      BY <1>2, <1>4, FS_Subset
    <2> QED
      BY <1>2, <1>3, <1>4, <2>1
  <1>5. CASE LoginTick
    <2>1. Window(failures[e], LockoutWindow) /\ LockoutWindow \in Nat
      BY <1>1, LoginAssumption DEF Windows
    <2>2. failures'[e] = Aged(failures[e]) /\ G' = G
      BY <1>5 DEF LoginTick, Guessing
    <2> QED
      BY <1>4, <2>1, <2>2, AgedWindow
  <1>6. CASE Restart
    <2>1. failures'[e] = <<>> /\ G' \subseteq G
      BY <1>6 DEF Restart, NoCharges, Guessing
    <2> QED
      BY <1>2, <1>4, <2>1, EmptyWindow
  <1>7. ASSUME NEW t \in Threads, Serve(t)
        PROVE  Bound
    <2>1. CASE Request(t)
      BY <1>1, <1>2, <1>4, <2>1 DEF Request, Step, Guessing, LoginTypeOK
    <2>2. CASE Build(t)
      <3>1. failures'[e] = <<>> /\ G' \subseteq G
        BY <1>1, <2>2 DEF Build, NoCharges, Step, Guessing, LoginTypeOK
      <3> QED
        BY <1>2, <1>4, <3>1, EmptyWindow
    <2>3. CASE \E ip \in Ips : Check(t, ip)
      <3>1. failures' = failures /\ G' \subseteq G
        BY <1>1, <2>3 DEF Check, Step, Guessing, LoginTypeOK
      <3> QED
        BY <1>2, <1>4, <3>1
    <2>4. CASE Peek(t)
      <3>1. CASE email[t] = e /\ ~Locked(e)
        <4>1. failures' = failures
          BY <2>4 DEF Peek
        <4>2. Len(failures[e]) < MaxFailures
          BY <1>2, <3>1 DEF Locked
        <4> QED
          BY <1>2, <1>3, <4>1, <4>2
      <3>2. CASE ~(email[t] = e /\ ~Locked(e))
        <4>1. failures' = failures /\ G' \subseteq G
          BY <1>1, <2>4, <3>2 DEF Peek, Step, Guessing, LoginTypeOK
        <4> QED
          BY <1>2, <1>4, <4>1
      <3> QED
        BY <3>1, <3>2
    <2>5. CASE Verify(t)
      <3>1. failures' = failures /\ G' \subseteq G
        BY <1>1, <2>5 DEF Verify, Step, Guessing, LoginTypeOK
      <3> QED
        BY <1>2, <1>4, <3>1
    <2>6. CASE RecordFailure(t)
      <3>1. CASE email[t] = e
        <4>1. t \in G /\ G' = G \ {t}
          BY <1>1, <2>6, <3>1 DEF RecordFailure, Step, Guessing, LoginTypeOK
        <4>2. Cardinality(G') = Cardinality(G) - 1
          BY <1>2, <4>1, FS_RemoveElement
        <4>3. failures'[e] = Append(failures[e], LockoutWindow)
          BY <1>1, <2>6, <3>1 DEF RecordFailure, LoginTypeOK
        <4>4. Window(failures[e], LockoutWindow) /\ LockoutWindow \in Nat \ {0}
          BY <1>1, LoginAssumption DEF Windows
        <4>5. Len(failures'[e]) = Len(failures[e]) + 1
          BY <4>3, <4>4, ChargedWindow
        <4> QED
          BY <1>2, <1>3, <4>2, <4>5
      <3>2. CASE email[t] # e
        <4>1. failures'[e] = failures[e] /\ G' \subseteq G
          BY <1>1, <2>6, <3>2 DEF RecordFailure, Step, Guessing, LoginTypeOK
        <4> QED
          BY <1>2, <1>4, <4>1
      <3> QED
        BY <3>1, <3>2
    <2>7. CASE Clear(t)
      <3>1. G' \subseteq G
        BY <1>1, <2>7 DEF Clear, Step, Guessing, LoginTypeOK
      <3>2. failures'[e] = IF email[t] = e THEN <<>> ELSE failures[e]
        BY <1>1, <2>7 DEF Clear, LoginTypeOK
      <3> QED
        BY <1>2, <1>4, <3>1, <3>2, EmptyWindow
    <2> QED
      BY <1>7, <2>1, <2>2, <2>3, <2>4, <2>5, <2>6, <2>7 DEF Serve
  <1>8. CASE UNCHANGED loginVars
    <2>1. failures' = failures /\ G' = G
      BY <1>8 DEF loginVars, Guessing
    <2> QED
      BY <1>2, <1>4, <2>1
  <1> QED
    BY <1>5, <1>6, <1>7, <1>8 DEF LoginNext

(* Bounds add up.                                                          *)
LEMMA BoundsAddUp ==
    \A a, b, c, m, n \in Nat :
        /\ a <= m /\ b <= n => a + b <= m + n
        /\ a <= m /\ b + c <= n => a + b + c <= m + n
  OBVIOUS

(* What a limiter takes with it when another one replaces it.              *)
LEMMA StepLostBefore == LoginInv /\ [LoginNext]_loginVars => LostBefore'
  <1> SUFFICES ASSUME LoginInv, [LoginNext]_loginVars, NEW e \in Emails
               PROVE  /\ limiters' = 0 => forgotten'[e] = <<>> /\ failures'[e] = <<>>
                      /\ limiters' # 0 => Len(forgotten'[e]) <= (limiters' - 1) * Limit
    BY DEF LostBefore
  <1> DEFINE u == forgotten[e]
             w == failures[e]
             Goal == /\ limiters' = 0 => forgotten'[e] = <<>> /\ failures'[e] = <<>>
                     /\ limiters' # 0 => Len(forgotten'[e]) <= (limiters' - 1) * Limit
  <1>1. /\ limiters = 0 => u = <<>> /\ w = <<>>
        /\ limiters # 0 => Len(u) <= (limiters - 1) * Limit
        /\ Window(u, LockoutWindow) /\ Window(w, LockoutWindow) /\ Older(u, w)
        /\ LoginTypeOK /\ LockoutWindow \in Nat \ {0} /\ limiters \in Nat
    BY LoginAssumption DEF LoginInv, LostBefore, Windows, Chronological, LoginTypeOK
  <1>2. Len(u) \in Nat /\ Len(w) \in Nat /\ Len(<<>>) = 0
    BY <1>1, LenProperties, EmptyWindow DEF Window
  <1>3. Limit \in Nat /\ Len(w) <= Limit
    <2>1. Len(w) + Cardinality(Guessing(e)) <= Limit
      BY DEF LoginInv, OneLimiter
    <2> QED
      BY <1>2, <2>1, GuessingCounts, LoginAssumption DEF Limit
  <1>4. \A n \in Nat : n * Limit \in Nat /\ (n + 1) * Limit = n * Limit + Limit
    BY <1>3
  <1>5. /\ limiters # 0 => (limiters - 1) * Limit \in Nat
        /\ limiters # 0 => limiters * Limit = (limiters - 1) * Limit + Limit
        /\ limiters * Limit \in Nat
    <2>1. limiters # 0 => limiters - 1 \in Nat /\ (limiters - 1) + 1 = limiters
      BY <1>1
    <2> QED
      BY <1>1, <1>4, <2>1
  <1>6. ASSUME limiters' = limiters, Len(forgotten'[e]) \in Nat,
               Len(forgotten'[e]) <= Len(u),
               limiters = 0 => forgotten'[e] = <<>> /\ failures'[e] = <<>>
        PROVE  Goal
    BY <1>1, <1>2, <1>5, <1>6
  <1>7. CASE UNCHANGED <<limiters, forgotten, failures>>
    BY <1>1, <1>2, <1>6, <1>7
  <1>8. CASE LoginTick
    <2>1. forgotten'[e] = Aged(u) /\ failures'[e] = Aged(w) /\ limiters' = limiters
      BY <1>8 DEF LoginTick
    <2>2. Len(Aged(u)) \in Nat /\ Len(Aged(u)) <= Len(u)
      BY <1>1, AgedWindow
    <2>3. Window(Aged(w), LockoutWindow) /\ Len(Aged(w)) \in Nat /\ Len(Aged(w)) <= Len(w)
      BY <1>1, AgedWindow
    <2>4. limiters = 0 => Aged(u) = <<>> /\ Aged(w) = <<>>
      <3> SUFFICES ASSUME limiters = 0 PROVE Aged(u) = <<>> /\ Aged(w) = <<>>
        OBVIOUS
      <3>1. Len(Aged(u)) = 0 /\ Len(Aged(w)) = 0
        BY <1>1, <1>2, <2>2, <2>3
      <3>2. Aged(u) \in Seq(1..LockoutWindow) /\ Aged(w) \in Seq(1..LockoutWindow)
        BY <1>1, AgedWindow DEF Window
      <3> QED
        BY <3>1, <3>2, EmptySeq
    <2> QED
      BY <1>6, <2>1, <2>2, <2>4
  <1>9. CASE Restart
    BY <1>9 DEF Restart, NoCharges
  <1>10. ASSUME NEW t \in Threads, Build(t) PROVE Goal
    <2>1. /\ forgotten'[e] = u \o w /\ limiters' = limiters + 1
      BY <1>10 DEF Build
    <2>2. Len(u \o w) = Len(u) + Len(w)
      BY <1>1, JoinedWindow
    <2>3. Len(u) + Len(w) <= limiters * Limit
      <3>1. PICK most \in Nat : most = limiters * Limit
        BY <1>5
      <3>2. CASE limiters = 0
        <4>1. Len(u) = 0 /\ Len(w) = 0
          BY <1>1, <3>2, EmptyWindow
        <4> QED
          BY <3>1, <4>1
      <3>3. CASE limiters # 0
        <4>1. PICK before \in Nat : before = (limiters - 1) * Limit
          BY <1>5, <3>3
        <4>2. most = before + Limit
          BY <1>5, <3>1, <3>3, <4>1
        <4>3. before \in Nat /\ Len(u) <= before
          BY <1>1, <3>3, <4>1
        <4>4. Len(u) \in Nat /\ Len(w) \in Nat /\ Len(w) <= Limit /\ Limit \in Nat
          BY <1>2, <1>3
        <4>5. Len(u) + Len(w) <= before + Limit
          BY <4>3, <4>4, BoundsAddUp
        <4> QED
          BY <3>1, <4>2, <4>5
      <3> QED
        BY <3>2, <3>3
    <2>4. limiters' # 0 /\ limiters' - 1 = limiters
      BY <1>1, <2>1
    <2> QED
      BY <2>1, <2>2, <2>3, <2>4
  <1>11. ASSUME NEW t \in Threads, RecordFailure(t) PROVE Goal
    <2>1. backend
      BY <1>11 DEF LoginInv, FewLimiters, RecordFailure, Step
    <2>2. limiters # 0
      BY <2>1 DEF LoginInv, FewLimiters
    <2> QED
      BY <1>1, <1>2, <1>6, <1>11, <2>2 DEF RecordFailure, history
  <1>12. ASSUME NEW t \in Threads, Clear(t) PROVE Goal
    <2>1. \/ forgotten'[e] = u /\ failures'[e] = w
          \/ forgotten'[e] = <<>> /\ failures'[e] = <<>>
      BY <1>1, <1>12 DEF Clear, LoginTypeOK
    <2>2. limiters' = limiters
      BY <1>12 DEF Clear
    <2> QED
      BY <1>1, <1>2, <1>6, <2>1, <2>2
  <1> QED
    BY <1>7, <1>8, <1>9, <1>10, <1>11, <1>12
    DEF LoginNext, loginVars, history, Serve, Request, Peek, Verify, Check

(* Requests that make limiters found none, and make one each.              *)
LEMMA StepFewLimiters == LoginInv /\ [LoginNext]_loginVars => FewLimiters'
  <1> SUFFICES ASSUME LoginInv, [LoginNext]_loginVars PROVE FewLimiters'
    OBVIOUS
  <1> DEFINE N == Cardinality(Threads)
  <1>1. LoginTypeOK /\ FewLimiters /\ limiters \in Nat /\ N \in Nat
    BY GuessingCounts DEF LoginInv, LoginTypeOK
  <1>2. /\ IsFiniteSet(Building) /\ Cardinality(Building) \in Nat
        /\ IsFiniteSet(Building') /\ Cardinality(Building') \in Nat
        /\ Cardinality(Building') <= N
    <2>1. Building \in SUBSET Threads /\ Building' \in SUBSET Threads
      BY DEF Building
    <2> QED
      BY <2>1, LoginAssumption, FS_Subset, FS_CardinalityType
  <1>3. ASSUME UNCHANGED <<backend, limiters>>, Building' \subseteq Building,
               ~backend => \A t \in Threads : pc'[t] \in {"idle", "building"}
        PROVE  FewLimiters'
    <2>1. Cardinality(Building') <= Cardinality(Building)
      BY <1>2, <1>3, FS_Subset
    <2> QED
      BY <1>1, <1>2, <1>3, <2>1 DEF FewLimiters
  <1>4. CASE UNCHANGED <<backend, limiters, pc>>
    BY <1>1, <1>3, <1>4 DEF Building, FewLimiters
  <1>5. CASE Restart
    <2>1. /\ ~backend' /\ limiters' = 0 /\ \A t \in Threads : pc'[t] = "idle"
      BY <1>5 DEF Restart
    <2> QED
      BY <1>1, <1>2, <2>1 DEF FewLimiters
  <1>6. ASSUME NEW t \in Threads, Serve(t) PROVE FewLimiters'
    <2>1. CASE Request(t)
      <3>1. CASE backend
        <4>1. Building' \subseteq Building
          BY <1>1, <2>1, <3>1 DEF Request, Step, Building, LoginTypeOK
        <4> QED
          BY <1>3, <2>1, <3>1, <4>1 DEF Request, history
      <3>2. CASE ~backend
        <4>1. ~backend' /\ limiters' = 0
          BY <1>1, <2>1, <3>2 DEF Request, FewLimiters, history
        <4>2. \A s \in Threads : pc'[s] \in {"idle", "building"}
          BY <1>1, <2>1, <3>2 DEF Request, Step, FewLimiters, LoginTypeOK
        <4> QED
          BY <1>1, <1>2, <4>1, <4>2 DEF FewLimiters
      <3> QED
        BY <3>1, <3>2
    <2>2. CASE Build(t)
      <3>1. t \in Building /\ Building' = Building \ {t}
        BY <1>1, <2>2 DEF Build, Step, Building, LoginTypeOK
      <3>2. Cardinality(Building') = Cardinality(Building) - 1
        BY <1>2, <3>1, FS_RemoveElement
      <3>3. backend' /\ limiters' = limiters + 1
        BY <2>2 DEF Build
      <3> QED
        BY <1>1, <1>2, <3>2, <3>3 DEF FewLimiters
    <2>3. CASE \/ Peek(t) \/ Verify(t) \/ RecordFailure(t) \/ Clear(t)
               \/ \E ip \in Ips : Check(t, ip)
      <3>1. UNCHANGED <<backend, limiters>> /\ pc[t] \notin {"idle", "building"}
        BY <2>3 DEF Peek, Verify, RecordFailure, Clear, Check, Step, history
      <3>2. Building' \subseteq Building
        BY <1>1, <2>3
        DEF Peek, Verify, RecordFailure, Clear, Check, Step, Building, LoginTypeOK
      <3>3. backend
        BY <1>1, <3>1 DEF FewLimiters
      <3> QED
        BY <1>3, <3>1, <3>2, <3>3
    <2> QED
      BY <1>6, <2>1, <2>2, <2>3 DEF Serve
  <1> QED
    BY <1>4, <1>5, <1>6 DEF LoginNext, loginVars, history, LoginTick

(* Limiter by limiter the guesses are within the bound.                    *)
LEMMA BoundedGuesses == LoginInv => GuessBound
  <1> SUFFICES ASSUME LoginInv PROVE GuessBound
    OBVIOUS
  <1>1. limiters \in Nat /\ Cardinality(Threads) \in Nat
    BY GuessingCounts DEF LoginInv, LoginTypeOK
  <1>2. limiters <= Cardinality(Threads)
    <2>1. Building \in SUBSET Threads
      BY DEF Building
    <2>2. Cardinality(Building) \in Nat
      BY <2>1, LoginAssumption, FS_Subset, FS_CardinalityType
    <2> QED
      BY <1>1, <2>2 DEF LoginInv, FewLimiters
  <1>3. ASSUME NEW e \in Emails
        PROVE  Len(forgotten[e]) + Len(failures[e]) + Cardinality(Guessing(e))
                 <= limiters * Limit
    <2>1. /\ Len(forgotten[e]) \in Nat /\ Len(failures[e]) \in Nat
          /\ Cardinality(Guessing(e)) \in Nat
      BY GuessingCounts, LenProperties DEF LoginInv, Windows, Chronological, Window
    <2>2. Limit \in Nat /\ Len(failures[e]) + Cardinality(Guessing(e)) <= Limit
      BY <1>1, LoginAssumption DEF LoginInv, OneLimiter, Limit
    <2>3. CASE limiters = 0
      <3>1. Len(forgotten[e]) = 0 /\ Len(failures[e]) = 0
        BY <2>3, EmptyWindow DEF LoginInv, LostBefore
      <3>2. Guessing(e) = {}
        BY <2>3 DEF LoginInv, FewLimiters, Guessing
      <3>3. Cardinality(Guessing(e)) = 0
        BY <3>2, FS_EmptySet
      <3>4. limiters * Limit = 0
        BY <2>2, <2>3
      <3> QED
        BY <3>1, <3>3, <3>4
    <2>4. CASE limiters # 0
      <3>1. PICK n \in Nat : limiters = n + 1
        <4>1. limiters - 1 \in Nat /\ limiters = (limiters - 1) + 1
          BY <1>1, <2>4
        <4> QED
          BY <4>1
      <3>2. n * Limit \in Nat /\ (n + 1) * Limit = n * Limit + Limit /\ limiters - 1 = n
        BY <2>2, <3>1
      <3>3. PICK before \in Nat : before = n * Limit
        BY <3>2
      <3>4. before \in Nat /\ Len(forgotten[e]) <= before
        BY <2>4, <3>2, <3>3 DEF LoginInv, LostBefore
      <3>5. limiters * Limit = before + Limit
        BY <3>1, <3>2, <3>3
      <3>6. Len(forgotten[e]) + Len(failures[e]) + Cardinality(Guessing(e)) <= before + Limit
        BY <2>1, <2>2, <3>4, BoundsAddUp
      <3> QED
        BY <3>5, <3>6
    <2> QED
      BY <2>3, <2>4
  <1> QED
    BY <1>2, <1>3 DEF GuessBound, Limit

--------------------------------------------------------------------------------

(* LoginInv is an invariant of the login.                                      *)
LEMMA LoginInvariance == LoginSpec => []LoginInv
  <1>1. LoginInv /\ [LoginNext]_loginVars => LoginInv'
    BY StepWindows, StepChronological, StepOneLimiter, StepLostBefore, StepFewLimiters
    DEF LoginInv
  <1> QED
    BY <1>1, LoginInitially, PTL DEF LoginSpec

(* The windows, the limiter and the requests keep their types, and no      *)
(* address has more attempts in its window than the limit.                 *)
THEOREM LoginTypeCorrect == LoginSpec => []LoginTypeOK
  <1>1. LoginInv => LoginTypeOK
    BY DEF LoginInv
  <1> QED
    BY <1>1, LoginInvariance, PTL

(* The lock of auth_routes.py:43-52 is looked at before the password is    *)
(* verified and charged after it, and a limiter can be replaced by another *)
(* with all its charges (rate_limiter.py:128-130).  All the same, while a  *)
(* worker runs and nobody logs in to an account, the guesses made against  *)
(* it within a period, those that were lost included, and those under way  *)
(* are at most the limit and one for every thread but the first, for each  *)
(* limiter that was made; and these are no more than the threads.          *)
THEOREM GuessesBounded == LoginSpec => []GuessBound
  BY LoginInvariance, BoundedGuesses, PTL

--------------------------------------------------------------------------------

(* The charges of all keys that count for longer than v.                   *)
Over(windows, keys, v) ==
    {x \in keys \X Nat : x[2] \in 1..Len(windows[x[1]]) /\ windows[x[1]][x[2]] > v}

(* Requests whose attempt was granted, and which may yet fail.             *)
UnderWay == {t \in Threads : pc[t] \in {"peek", "verify", "failing", "clearing"}}

(* A failure that was charged since some moment is of a request that was   *)
(* under way then, or was granted since; the attempts granted since then   *)
(* still count, as their window is no shorter. A moment is given by what   *)
(* remains of the failures that were charged at it.                        *)
Paid(v) ==
    Cardinality(Over(failures, Emails, v)) + Cardinality(UnderWay)
        <= Cardinality(Over(attempts, Ips, LoginWindow - LockoutWindow + v))
             + Cardinality(Threads)

Sprayed ==
    LoginWindow >= LockoutWindow =>
        /\ IsFiniteSet(Over(failures, Emails, 0))
        /\ \A v \in 0..(LockoutWindow - 1) : Paid(v)

(* What counts for longer than v after a tick counted for longer than v + 1*)
(* before it, and the other way around.                                    *)
LEMMA AgedOver ==
  ASSUME NEW keys, NEW p \in Nat, NEW old, NEW new, NEW v \in Nat,
         \A key \in keys : Window(old[key], p) /\ new[key] = Aged(old[key])
  PROVE  /\ \E f : f \in Injection(Over(new, keys, v), Over(old, keys, v + 1))
         /\ \E g : g \in Injection(Over(old, keys, v + 1), Over(new, keys, v))
  <1> DEFINE A == Over(new, keys, v)
             B == Over(old, keys, v + 1)
             f == [x \in A |-> <<x[1], x[2] + Ending(old[x[1]])>>]
             g == [x \in B |-> <<x[1], x[2] - Ending(old[x[1]])>>]
  <1>1. ASSUME NEW key \in keys
        PROVE  /\ Ending(old[key]) \in Nat /\ Len(old[key]) \in Nat /\ Len(new[key]) \in Nat
               /\ \A i \in 1..Len(old[key]) : old[key][i] \in Nat
               /\ \A i \in 1..Len(new[key]) :
                     /\ i + Ending(old[key]) \in 1..Len(old[key])
                     /\ new[key][i] = old[key][i + Ending(old[key])] - 1
               /\ \A i \in 1..Len(old[key]) : old[key][i] > 1 =>
                     /\ i - Ending(old[key]) \in 1..Len(new[key])
                     /\ new[key][i - Ending(old[key])] = old[key][i] - 1
    <2>1. Window(old[key], p) /\ new[key] = Aged(old[key])
      OBVIOUS
    <2>2. Len(old[key]) \in Nat /\ \A i \in 1..Len(old[key]) : old[key][i] \in Nat
      BY <2>1, LenProperties, ElementOfSeq DEF Window
    <2>3. Len(new[key]) \in Nat
      BY <2>1, AgedWindow
    <2> QED
      BY <2>1, <2>2, <2>3, AgedShift
  <1>2. \A x \in A : /\ x[1] \in keys /\ x[2] \in 1..Len(new[x[1]]) /\ x = <<x[1], x[2]>>
                     /\ new[x[1]][x[2]] > v
    BY DEF Over
  <1>3. \A x \in B : /\ x[1] \in keys /\ x[2] \in 1..Len(old[x[1]]) /\ x = <<x[1], x[2]>>
                     /\ old[x[1]][x[2]] > v + 1
    BY DEF Over
  <1>4. ASSUME NEW x \in A PROVE f[x] \in B
    <2>1. PICK key \in keys, i \in Nat : i \in 1..Len(new[key]) /\ x = <<key, i>> /\ new[key][i] > v
      BY <1>2
    <2>2. f[x] = <<key, i + Ending(old[key])>>
      BY <2>1
    <2>3. /\ Len(old[key]) \in Nat
          /\ i + Ending(old[key]) \in 1..Len(old[key])
          /\ old[key][i + Ending(old[key])] \in Nat
          /\ new[key][i] = old[key][i + Ending(old[key])] - 1
      BY <1>1, <2>1
    <2>4. i + Ending(old[key]) \in Nat
      BY <2>3
    <2>5. old[key][i + Ending(old[key])] > v + 1
      BY <2>1, <2>3
    <2> QED
      BY <2>2, <2>3, <2>4, <2>5 DEF Over
  <1>5. ASSUME NEW x \in B PROVE g[x] \in A
    <2>1. PICK key \in keys, i \in Nat : i \in 1..Len(old[key]) /\ x = <<key, i>> /\ old[key][i] > v + 1
      BY <1>3
    <2>2. g[x] = <<key, i - Ending(old[key])>>
      BY <2>1
    <2>3. /\ Len(new[key]) \in Nat /\ old[key][i] \in Nat
          /\ i - Ending(old[key]) \in 1..Len(new[key])
          /\ new[key][i - Ending(old[key])] = old[key][i] - 1
      <3>1. i \in 1..Len(old[key]) /\ old[key][i] \in Nat
        BY <1>1, <2>1
      <3>2. old[key][i] > 1
        BY <2>1, <3>1
      <3> QED
        BY <1>1, <3>1, <3>2
    <2>4. i - Ending(old[key]) \in Nat
      BY <2>3
    <2>5. new[key][i - Ending(old[key])] > v
      BY <2>1, <2>3
    <2> QED
      BY <2>2, <2>3, <2>4, <2>5 DEF Over
  <1>6. ASSUME NEW x \in A, NEW y \in A, f[x] = f[y] PROVE x = y
    <2>1. PICK key \in keys, i \in Nat : i \in 1..Len(new[key]) /\ x = <<key, i>>
      BY <1>2
    <2>2. PICK other \in keys, k \in Nat : k \in 1..Len(new[other]) /\ y = <<other, k>>
      BY <1>2
    <2>3. key = other /\ i + Ending(old[key]) = k + Ending(old[key])
      BY <1>6, <2>1, <2>2
    <2> QED
      BY <1>1, <2>1, <2>2, <2>3
  <1>7. ASSUME NEW x \in B, NEW y \in B, g[x] = g[y] PROVE x = y
    <2>1. PICK key \in keys, i \in Nat : i \in 1..Len(old[key]) /\ x = <<key, i>>
      BY <1>3
    <2>2. PICK other \in keys, k \in Nat : k \in 1..Len(old[other]) /\ y = <<other, k>>
      BY <1>3
    <2>3. key = other /\ i - Ending(old[key]) = k - Ending(old[key])
      BY <1>7, <2>1, <2>2
    <2> QED
      BY <1>1, <2>1, <2>2, <2>3
  <1> HIDE DEF A, B
  <1>8. f \in Injection(A, B)
    BY <1>4, <1>6 DEF Injection, IsInjective
  <1>9. g \in Injection(B, A)
    BY <1>5, <1>7 DEF Injection, IsInjective
  <1> QED
    BY <1>8, <1>9 DEF A, B

(* A charge more.                                                          *)
LEMMA ChargedOver ==
  ASSUME NEW keys, NEW p \in Nat \ {0}, NEW old, NEW key \in keys, NEW v \in Nat,
         DOMAIN old = keys, Window(old[key], p)
  PROVE  LET new == [old EXCEPT ![key] = Append(@, p)]
             charge == <<key, Len(old[key]) + 1>>
         IN  /\ Over(new, keys, v) \subseteq Over(old, keys, v) \cup {charge}
             /\ p > v => Over(new, keys, v) = Over(old, keys, v) \cup {charge}
             /\ charge \notin Over(old, keys, v)
  <1> DEFINE new == [old EXCEPT ![key] = Append(@, p)]
             charge == <<key, Len(old[key]) + 1>>
  <1>1. /\ \A k \in keys : k # key => new[k] = old[k]
        /\ new[key] = Append(old[key], p)
    OBVIOUS
  <1>2. /\ Len(old[key]) \in Nat /\ Len(new[key]) = Len(old[key]) + 1
        /\ \A i \in 1..Len(old[key]) : new[key][i] = old[key][i]
        /\ new[key][Len(old[key]) + 1] = p
    <2>1. old[key] \in Seq(1..p) /\ p \in 1..p
      BY DEF Window
    <2> QED
      BY <1>1, <2>1, AppendProperties, LenProperties
  <1> HIDE DEF new
  <1>3. ASSUME NEW x \in Over(new, keys, v) PROVE x \in Over(old, keys, v) \cup {charge}
    <2>1. PICK k \in keys, i \in Nat :
             x = <<k, i>> /\ i \in 1..Len(new[k]) /\ new[k][i] > v
      BY <1>3 DEF Over
    <2>2. CASE k = key /\ i = Len(old[key]) + 1
      BY <2>1, <2>2
    <2>3. CASE ~(k = key /\ i = Len(old[key]) + 1)
      <3>1. i \in 1..Len(old[k]) /\ old[k][i] > v
        BY <1>1, <1>2, <2>1, <2>3
      <3> QED
        BY <2>1, <3>1 DEF Over
    <2> QED
      BY <2>2, <2>3
  <1>4. ASSUME NEW x \in Over(old, keys, v) PROVE x \in Over(new, keys, v)
    <2>1. PICK k \in keys, i \in Nat :
             x = <<k, i>> /\ i \in 1..Len(old[k]) /\ old[k][i] > v
      BY <1>4 DEF Over
    <2>2. i \in 1..Len(new[k]) /\ new[k][i] > v
      BY <1>1, <1>2, <2>1
    <2> QED
      BY <2>1, <2>2 DEF Over
  <1>5. p > v => charge \in Over(new, keys, v)
    <2>1. /\ Len(old[key]) + 1 \in Nat /\ Len(old[key]) + 1 \in 1..Len(new[key])
      BY <1>2
    <2> QED
      BY <1>2, <2>1 DEF Over
  <1>6. charge \notin Over(old, keys, v)
    BY <1>2 DEF Over
  <1> QED
    BY <1>3, <1>4, <1>5, <1>6 DEF new

(* The attempts that count are finitely many, and at most the limit for    *)
(* every address.                                                          *)
LEMMA ChargesAreFew ==
  ASSUME NEW windows, NEW v,
         \A ip \in Ips : windows[ip] \in Seq(1..LoginWindow) /\ Len(windows[ip]) <= MaxAttempts
  PROVE  /\ IsFiniteSet(Over(windows, Ips, v))
         /\ Cardinality(Over(windows, Ips, v)) \in Nat
         /\ Cardinality(Over(windows, Ips, v)) <= Cardinality(Ips) * MaxAttempts
  <1>1. /\ IsFiniteSet(Ips) /\ IsFiniteSet(1..MaxAttempts)
        /\ Cardinality(1..MaxAttempts) = MaxAttempts
    BY LoginAssumption, FS_Interval
  <1>2. /\ IsFiniteSet(Ips \X (1..MaxAttempts))
        /\ Cardinality(Ips \X (1..MaxAttempts)) = Cardinality(Ips) * MaxAttempts
    BY <1>1, FS_Product
  <1>3. ASSUME NEW x \in Over(windows, Ips, v) PROVE x \in Ips \X (1..MaxAttempts)
    <2>1. PICK ip \in Ips, i \in Nat : x = <<ip, i>> /\ i \in 1..Len(windows[ip])
      BY DEF Over
    <2>2. Len(windows[ip]) \in Nat /\ Len(windows[ip]) <= MaxAttempts /\ MaxAttempts \in Nat
      BY LenProperties, LoginAssumption
    <2>3. i \in 1..MaxAttempts
      BY <2>1, <2>2
    <2> QED
      BY <2>1, <2>3
  <1>4. Over(windows, Ips, v) \in SUBSET (Ips \X (1..MaxAttempts))
    BY <1>3
  <1> QED
    BY <1>2, <1>4, FS_Subset, FS_CardinalityType

(* So are those of every state.                                            *)
LEMMA AttemptsAreFew ==
  ASSUME LoginTypeOK, NEW v
  PROVE  /\ IsFiniteSet(Over(attempts, Ips, v))
         /\ Cardinality(Over(attempts, Ips, v)) \in Nat
         /\ Cardinality(Over(attempts, Ips, v)) <= Cardinality(Ips) * MaxAttempts
  <1>1. \A ip \in Ips : attempts[ip] \in Seq(1..LoginWindow) /\ Len(attempts[ip]) <= MaxAttempts
    BY DEF LoginTypeOK
  <1> QED
    BY <1>1, ChargesAreFew

(* The requests under way are some of the threads.                         *)
LEMMA UnderWayIsFew ==
  /\ IsFiniteSet(UnderWay) /\ Cardinality(UnderWay) \in Nat
  /\ Cardinality(Threads) \in Nat /\ Cardinality(UnderWay) <= Cardinality(Threads)
  <1>1. UnderWay \in SUBSET Threads
    BY DEF UnderWay
  <1> QED
    BY <1>1, LoginAssumption, FS_Subset, FS_CardinalityType

(* The failures since a moment are some of all that count, and none are so *)
(* recent that they count for longer than the window.                      *)
LEMMA FailuresAreFew ==
  ASSUME IsFiniteSet(Over(failures, Emails, 0)), Windows, NEW v \in Nat
  PROVE  /\ IsFiniteSet(Over(failures, Emails, v))
         /\ Cardinality(Over(failures, Emails, v)) \in Nat
         /\ v >= LockoutWindow => Over(failures, Emails, v) = {}
  <1>1. \A e \in Emails : \A i \in 1..Len(failures[e]) : failures[e][i] \in 1..LockoutWindow
    BY WindowsAreSequences, ElementOfSeq
  <1>2. Over(failures, Emails, v) \in SUBSET Over(failures, Emails, 0)
    BY <1>1, LoginAssumption DEF Over
  <1>3. v >= LockoutWindow => Over(failures, Emails, v) = {}
    BY <1>1, LoginAssumption DEF Over
  <1> QED
    BY <1>2, <1>3, FS_Subset, FS_CardinalityType

(* With no failure there is nothing to pay.                                *)
LEMMA NothingToPay ==
  ASSUME NEW windows, \A e \in Emails : windows[e] = <<>>, NEW v
  PROVE  /\ Over(windows, Emails, v) = {}
         /\ IsFiniteSet(Over(windows, Emails, v)) /\ Cardinality(Over(windows, Emails, v)) = 0
  <1>1. Over(windows, Emails, v) = {}
    BY EmptySeq DEF Over
  <1> QED
    BY <1>1, FS_EmptySet

(* What is owed does not grow.                                             *)
LEMMA StillPaid ==
  ASSUME LoginTypeOK, Windows, Sprayed, UnderWay' \subseteq UnderWay, UNCHANGED attempts,
         \A v \in Nat : Over(failures', Emails, v) \subseteq Over(failures, Emails, v)
  PROVE  Sprayed'
  <1> SUFFICES ASSUME LoginWindow >= LockoutWindow
               PROVE  /\ IsFiniteSet(Over(failures', Emails, 0))
                      /\ \A v \in 0..(LockoutWindow - 1) : Paid(v)'
    BY DEF Sprayed
  <1>1. IsFiniteSet(Over(failures, Emails, 0))
    BY DEF Sprayed
  <1>2. ASSUME NEW v \in Nat
        PROVE  /\ IsFiniteSet(Over(failures', Emails, v))
               /\ Cardinality(Over(failures', Emails, v)) \in Nat
               /\ Cardinality(Over(failures, Emails, v)) \in Nat
               /\ Cardinality(Over(failures', Emails, v)) <= Cardinality(Over(failures, Emails, v))
    BY <1>1, FailuresAreFew, FS_Subset, FS_CardinalityType
  <1>3. /\ Cardinality(UnderWay) \in Nat /\ Cardinality(UnderWay') \in Nat
        /\ Cardinality(UnderWay') <= Cardinality(UnderWay) /\ Cardinality(Threads) \in Nat
    BY UnderWayIsFew, FS_Subset, FS_CardinalityType
  <1>4. ASSUME NEW v \in 0..(LockoutWindow - 1) PROVE Paid(v)'
    <2>1. Paid(v)
      BY DEF Sprayed
    <2>2. Cardinality(Over(attempts, Ips, LoginWindow - LockoutWindow + v)) \in Nat
      BY AttemptsAreFew
    <2> QED
      BY <1>2, <1>3, <2>1, <2>2 DEF Paid
  <1> QED
    BY <1>2, <1>4

(* A tick later the failures and the attempts since a moment are those     *)
(* since the same moment.                                                  *)
LEMMA TickPaid ==
  ASSUME LoginTypeOK, LoginTypeOK', Windows, Windows', Sprayed, LoginTick
  PROVE  Sprayed'
  <1> SUFFICES ASSUME LoginWindow >= LockoutWindow
               PROVE  /\ IsFiniteSet(Over(failures', Emails, 0))
                      /\ \A v \in 0..(LockoutWindow - 1) : Paid(v)'
    BY DEF Sprayed
  <1>1. LoginWindow \in Nat /\ LockoutWindow \in Nat /\ LoginWindow - LockoutWindow \in Nat
    BY LoginAssumption
  <1>2. IsFiniteSet(Over(failures, Emails, 0))
    BY DEF Sprayed
  <1>3. ASSUME NEW v \in Nat
        PROVE  /\ IsFiniteSet(Over(failures', Emails, v))
               /\ Cardinality(Over(failures', Emails, v)) \in Nat
               /\ Cardinality(Over(failures, Emails, v + 1)) \in Nat
               /\ Cardinality(Over(failures', Emails, v))
                     <= Cardinality(Over(failures, Emails, v + 1))
    <2>1. \A e \in Emails : Window(failures[e], LockoutWindow) /\ failures'[e] = Aged(failures[e])
      BY DEF Windows, LoginTick
    <2>2. PICK f : f \in Injection(Over(failures', Emails, v), Over(failures, Emails, v + 1))
      BY <1>1, <2>1, AgedOver
    <2>3. IsFiniteSet(Over(failures, Emails, v + 1))
      BY <1>2, FailuresAreFew
    <2> QED
      BY <2>2, <2>3, FS_Injection, FS_CardinalityType
  <1>4. ASSUME NEW v \in Nat
        PROVE  /\ Cardinality(Over(attempts', Ips, v)) \in Nat
               /\ Cardinality(Over(attempts, Ips, v + 1)) \in Nat
               /\ Cardinality(Over(attempts, Ips, v + 1)) <= Cardinality(Over(attempts', Ips, v))
    <2>1. \A ip \in Ips : Window(attempts[ip], LoginWindow) /\ attempts'[ip] = Aged(attempts[ip])
      BY DEF Windows, LoginTick
    <2>2. PICK g : g \in Injection(Over(attempts, Ips, v + 1), Over(attempts', Ips, v))
      BY <1>1, <2>1, AgedOver
    <2>3. IsFiniteSet(Over(attempts', Ips, v))
      <3>1. \A ip \in Ips : /\ attempts'[ip] \in Seq(1..LoginWindow)
                            /\ Len(attempts'[ip]) <= MaxAttempts
        BY DEF LoginTypeOK
      <3> QED
        BY <3>1, ChargesAreFew
    <2> QED
      BY <2>2, <2>3, FS_Injection, FS_CardinalityType
  <1>5. /\ UnderWay' = UnderWay /\ Cardinality(UnderWay) \in Nat
        /\ Cardinality(Threads) \in Nat /\ Cardinality(UnderWay) <= Cardinality(Threads)
    BY UnderWayIsFew DEF LoginTick, UnderWay
  <1>6. ASSUME NEW v \in 0..(LockoutWindow - 1) PROVE Paid(v)'
    <2> DEFINE gap == LoginWindow - LockoutWindow
    <2>1. v \in Nat /\ gap \in Nat /\ gap + v \in Nat /\ gap + (v + 1) = (gap + v) + 1
      BY <1>1
    <2>2. PICK F \in Nat, G \in Nat :
             /\ F = Cardinality(Over(failures', Emails, v))
             /\ G = Cardinality(Over(failures, Emails, v + 1)) /\ F <= G
      BY <1>3, <2>1
    <2>3. PICK A \in Nat, B \in Nat :
             /\ A = Cardinality(Over(attempts', Ips, gap + v))
             /\ B = Cardinality(Over(attempts, Ips, gap + (v + 1))) /\ B <= A
      BY <1>4, <2>1
    <2>4. G + Cardinality(UnderWay) <= B + Cardinality(Threads)
      <3>1. CASE v + 1 \in 0..(LockoutWindow - 1)
        <4>1. Paid(v + 1)
          BY <3>1 DEF Sprayed
        <4> QED
          BY <2>2, <2>3, <4>1 DEF Paid
      <3>2. CASE v + 1 >= LockoutWindow
        <4>1. Over(failures, Emails, v + 1) = {}
          BY <1>2, <2>1, <3>2, FailuresAreFew
        <4>2. G = 0
          BY <2>2, <4>1, FS_EmptySet
        <4> QED
          BY <1>5, <2>3, <4>2
      <3> QED
        BY <1>1, <3>1, <3>2
    <2>5. F + Cardinality(UnderWay) <= A + Cardinality(Threads)
      BY <1>5, <2>2, <2>3, <2>4
    <2> QED
      BY <1>5, <2>2, <2>3, <2>5 DEF Paid
  <1>7. IsFiniteSet(Over(failures', Emails, 0))
    BY <1>3
  <1> QED
    BY <1>6, <1>7

(* An attempt that is granted pays for the failure that it may become ...  *)
LEMMA GrantPaid ==
  ASSUME LoginTypeOK, LoginTypeOK', Windows, Sprayed, NEW t \in Threads, NEW ip \in Ips,
         pc[t] = "check", pc' = [pc EXCEPT ![t] = "peek"], UNCHANGED failures,
         attempts' = [attempts EXCEPT ![ip] = Append(@, LoginWindow)]
  PROVE  Sprayed'
  <1> SUFFICES ASSUME LoginWindow >= LockoutWindow,
                      NEW v \in 0..(LockoutWindow - 1)
               PROVE  Paid(v)'
    BY DEF Sprayed
  <1> DEFINE u == LoginWindow - LockoutWindow + v
             charge == <<ip, Len(attempts[ip]) + 1>>
  <1>1. u \in Nat /\ LoginWindow \in Nat \ {0} /\ LoginWindow > u /\ v \in Nat
    BY LoginAssumption
  <1>2. DOMAIN attempts = Ips /\ Window(attempts[ip], LoginWindow)
    BY DEF LoginTypeOK, Windows
  <1> HIDE DEF u
  <1>3. /\ Over(attempts', Ips, u) = Over(attempts, Ips, u) \cup {charge}
        /\ charge \notin Over(attempts, Ips, u)
    BY <1>1, <1>2, ChargedOver
  <1>4. IsFiniteSet(Over(attempts, Ips, u)) /\ Cardinality(Over(attempts, Ips, u)) \in Nat
    BY AttemptsAreFew
  <1> HIDE DEF charge
  <1>5. Cardinality(Over(attempts', Ips, u)) = Cardinality(Over(attempts, Ips, u)) + 1
    BY <1>3, <1>4, FS_AddElement
  <1>6. UnderWay' = UnderWay \cup {t} /\ t \notin UnderWay
    BY DEF UnderWay, LoginTypeOK
  <1>7. Cardinality(UnderWay') = Cardinality(UnderWay) + 1
    BY <1>6, UnderWayIsFew, FS_AddElement
  <1>8. Cardinality(Over(failures, Emails, v)) \in Nat
    BY <1>1, FailuresAreFew DEF Sprayed
  <1>9. /\ Cardinality(Over(failures, Emails, v)) + Cardinality(UnderWay)
              <= Cardinality(Over(attempts, Ips, u)) + Cardinality(Threads)
    BY DEF Sprayed, Paid, u
  <1>10. /\ Cardinality(Over(failures', Emails, v)) + Cardinality(UnderWay')
              <= Cardinality(Over(attempts', Ips, u)) + Cardinality(Threads)
    BY <1>4, <1>5, <1>7, <1>8, <1>9, UnderWayIsFew
  <1> QED
    BY <1>10 DEF Paid, u

(* ... and the failure that is charged was under way.                      *)
LEMMA FailurePaid ==
  ASSUME LoginTypeOK, LoginTypeOK', Windows, Sprayed, NEW t \in Threads, RecordFailure(t)
  PROVE  Sprayed'
  <1> SUFFICES ASSUME LoginWindow >= LockoutWindow
               PROVE  /\ IsFiniteSet(Over(failures', Emails, 0))
                      /\ \A v \in 0..(LockoutWindow - 1) : Paid(v)'
    BY DEF Sprayed
  <1>1. PICK e \in Emails : e = email[t]
    BY DEF LoginTypeOK
  <1>2. /\ failures' = [failures EXCEPT ![e] = Append(@, LockoutWindow)]
        /\ UNCHANGED attempts /\ pc[t] = "failing" /\ pc' = [pc EXCEPT ![t] = "idle"]
    BY <1>1 DEF RecordFailure, Step
  <1>3. UnderWay' = UnderWay \ {t} /\ t \in UnderWay
    BY <1>2 DEF UnderWay, LoginTypeOK
  <1>4. Cardinality(UnderWay') = Cardinality(UnderWay) - 1
    BY <1>3, UnderWayIsFew, FS_RemoveElement
  <1>5. DOMAIN failures = Emails /\ Window(failures[e], LockoutWindow)
        /\ LockoutWindow \in Nat \ {0}
    BY LoginAssumption DEF LoginTypeOK, Windows
  <1>6. ASSUME NEW v \in Nat
        PROVE  /\ IsFiniteSet(Over(failures', Emails, v))
               /\ Cardinality(Over(failures', Emails, v)) \in Nat
               /\ Cardinality(Over(failures, Emails, v)) \in Nat
               /\ Cardinality(Over(failures', Emails, v))
                     <= Cardinality(Over(failures, Emails, v)) + 1
    <2> DEFINE charge == <<e, Len(failures[e]) + 1>>
               old == Over(failures, Emails, v)
    <2>1. Over(failures', Emails, v) \in SUBSET (old \cup {charge})
      BY <1>2, <1>5, ChargedOver
    <2>2. IsFiniteSet(old) /\ Cardinality(old) \in Nat
      BY FailuresAreFew DEF Sprayed
    <2> HIDE DEF charge, old
    <2>3. IsFiniteSet(old \cup {charge}) /\ Cardinality(old \cup {charge}) <= Cardinality(old) + 1
      BY <2>2, FS_AddElement
    <2>4. /\ IsFiniteSet(Over(failures', Emails, v))
          /\ Cardinality(Over(failures', Emails, v)) <= Cardinality(old \cup {charge})
          /\ Cardinality(Over(failures', Emails, v)) \in Nat
          /\ Cardinality(old \cup {charge}) \in Nat
      BY <2>1, <2>3, FS_Subset, FS_CardinalityType
    <2>5. Cardinality(Over(failures', Emails, v)) <= Cardinality(old) + 1
      BY <2>2, <2>3, <2>4
    <2> QED
      BY <2>2, <2>4, <2>5 DEF old
  <1>7. ASSUME NEW v \in 0..(LockoutWindow - 1) PROVE Paid(v)'
    <2>1. v \in Nat
      BY <1>5
    <2>2. Paid(v)
      BY DEF Sprayed
    <2>3. Cardinality(Over(attempts, Ips, LoginWindow - LockoutWindow + v)) \in Nat
      BY AttemptsAreFew
    <2>4. Cardinality(Over(failures', Emails, v)) + Cardinality(UnderWay')
            <= Cardinality(Over(attempts, Ips, LoginWindow - LockoutWindow + v))
                 + Cardinality(Threads)
      BY <1>4, <1>6, <2>1, <2>2, <2>3, UnderWayIsFew DEF Paid
    <2> QED
      BY <1>2, <2>4 DEF Paid
  <1> QED
    BY <1>6, <1>7

(* No step leaves more to pay.                                             *)
LEMMA StepSprayed == LoginInv /\ Sprayed /\ [LoginNext]_loginVars => Sprayed'
  <1> SUFFICES ASSUME LoginInv, Sprayed, [LoginNext]_loginVars PROVE Sprayed'
    OBVIOUS
  <1>1. LoginTypeOK /\ LoginTypeOK' /\ Windows /\ Windows'
    BY StepWindows DEF LoginInv
  <1>2. ASSUME NoCharges PROVE Sprayed'
    <2>1. \A e \in Emails : failures'[e] = <<>>
      BY <1>2 DEF NoCharges
    <2>2. ASSUME NEW v \in 0..(LockoutWindow - 1) PROVE Paid(v)'
      <3>1. Cardinality(Over(failures', Emails, v)) = 0
        BY <2>1, NothingToPay
      <3>2. \A ip \in Ips : /\ attempts'[ip] \in Seq(1..LoginWindow)
                            /\ Len(attempts'[ip]) <= MaxAttempts
        BY <1>1 DEF LoginTypeOK
      <3>3. Cardinality(Over(attempts', Ips, LoginWindow - LockoutWindow + v)) \in Nat
        BY <3>2, ChargesAreFew
      <3>4. UnderWay' \in SUBSET Threads
        BY DEF UnderWay
      <3>5. /\ Cardinality(UnderWay') \in Nat /\ Cardinality(Threads) \in Nat
            /\ Cardinality(UnderWay') <= Cardinality(Threads)
        BY <3>4, LoginAssumption, FS_Subset, FS_CardinalityType
      <3> QED
        BY <3>1, <3>3, <3>5 DEF Paid
    <2>3. IsFiniteSet(Over(failures', Emails, 0))
      BY <2>1, NothingToPay
    <2> QED
      BY <2>2, <2>3 DEF Sprayed
  <1>3. ASSUME UNCHANGED <<attempts, failures>>, UnderWay' \subseteq UnderWay PROVE Sprayed'
    BY <1>1, <1>3, StillPaid
  <1>4. CASE LoginTick
    BY <1>1, <1>4, TickPaid
  <1>5. CASE Restart
    BY <1>2, <1>5 DEF Restart
  <1>6. ASSUME NEW t \in Threads, Serve(t) PROVE Sprayed'
    <2>1. CASE Request(t) \/ Peek(t) \/ Verify(t)
      <3>1. UNCHANGED <<attempts, failures>>
        BY <2>1 DEF Request, Peek, Verify
      <3>2. UnderWay' \subseteq UnderWay
        BY <1>1, <2>1 DEF Request, Peek, Verify, Step, UnderWay, LoginTypeOK
      <3> QED
        BY <1>3, <3>1, <3>2
    <2>2. CASE Build(t)
      BY <1>2, <2>2 DEF Build
    <2>3. ASSUME NEW ip \in Ips, Check(t, ip) PROVE Sprayed'
      <3>1. CASE Step(t, "check", "peek")
                 /\ attempts' = [attempts EXCEPT ![ip] = Append(@, LoginWindow)]
        BY <1>1, <2>3, <3>1, GrantPaid DEF Check, Step
      <3>2. CASE Step(t, "check", "idle") /\ UNCHANGED attempts
        <4>1. UNCHANGED <<attempts, failures>> /\ UnderWay' \subseteq UnderWay
          BY <1>1, <2>3, <3>2 DEF Check, Step, UnderWay, LoginTypeOK
        <4> QED
          BY <1>3, <4>1
      <3> QED
        BY <2>3, <3>1, <3>2 DEF Check
    <2>4. CASE RecordFailure(t)
      BY <1>1, <2>4, FailurePaid
    <2>5. CASE Clear(t)
      <3>1. UNCHANGED attempts /\ UnderWay' \subseteq UnderWay
        BY <1>1, <2>5 DEF Clear, Step, UnderWay, LoginTypeOK
      <3>2. \A e \in Emails : failures'[e] = <<>> \/ failures'[e] = failures[e]
        BY <1>1, <2>5 DEF Clear, LoginTypeOK
      <3>3. \A v \in Nat : Over(failures', Emails, v) \subseteq Over(failures, Emails, v)
        BY <3>2, EmptySeq DEF Over
      <3> QED
        BY <1>1, <3>1, <3>3, StillPaid
    <2> QED
      BY <1>6, <2>1, <2>2, <2>3, <2>4, <2>5 DEF Serve
  <1>7. CASE UNCHANGED loginVars
    BY <1>3, <1>7 DEF loginVars, UnderWay
  <1> QED
    BY <1>4, <1>5, <1>6, <1>7 DEF LoginNext

(* Whichever emails are tried, the failures that count are no more than the*)
(* attempts that the addresses were granted in a window, and the requests  *)
(* under way when it began: check() charges the address before anything    *)
(* else (auth_routes.py), and what it charged still counts when the failure*)
(* does.                                                                   *)
THEOREM SpraysBounded == LoginSpec => []SprayBound
  <1>1. LoginInit => Sprayed
    <2> SUFFICES ASSUME LoginInit PROVE Sprayed
      OBVIOUS
    <2>1. LoginTypeOK /\ \A e \in Emails : failures[e] = <<>>
      BY LoginInitially DEF LoginInv, LoginInit
    <2>2. ASSUME NEW v \in 0..(LockoutWindow - 1) PROVE Paid(v)
      <3>1. Cardinality(Over(failures, Emails, v)) = 0
        BY <2>1, NothingToPay
      <3>2. Cardinality(Over(attempts, Ips, LoginWindow - LockoutWindow + v)) \in Nat
        BY <2>1, AttemptsAreFew
      <3> QED
        BY <3>1, <3>2, UnderWayIsFew DEF Paid
    <2>3. IsFiniteSet(Over(failures, Emails, 0))
      BY <2>1, NothingToPay
    <2> QED
      BY <2>2, <2>3 DEF Sprayed
  <1>2. LoginInit /\ [][LoginNext]_loginVars => [](LoginInv /\ Sprayed)
    <2>1. LoginInv /\ [LoginNext]_loginVars => LoginInv'
      BY StepWindows, StepChronological, StepOneLimiter, StepLostBefore, StepFewLimiters
      DEF LoginInv
    <2> QED
      BY <1>1, <2>1, LoginInitially, StepSprayed, PTL
  <1>3. LoginInv /\ Sprayed => SprayBound
    <2> SUFFICES ASSUME LoginInv, Sprayed, LoginWindow >= LockoutWindow
                 PROVE  Cardinality(AllFailures)
                          <= Cardinality(Ips) * MaxAttempts + Cardinality(Threads)
      BY DEF SprayBound
    <2>1. LoginTypeOK /\ Windows /\ LockoutWindow \in Nat \ {0} /\ LoginWindow \in Nat
      BY LoginAssumption DEF LoginInv
    <2>2. Paid(0) /\ IsFiniteSet(Over(failures, Emails, 0))
      BY <2>1 DEF Sprayed
    <2>3. ASSUME NEW x \in AllFailures PROVE x \in Over(failures, Emails, 0)
      <3>1. PICK e \in Emails : x \in {e} \X (1..Len(failures[e]))
        BY DEF AllFailures
      <3>2. PICK i \in 1..Len(failures[e]) : x = <<e, i>>
        BY <3>1
      <3>3. Len(failures[e]) \in Nat /\ failures[e][i] \in 1..LockoutWindow
        BY <2>1, <3>2, WindowsAreSequences, ElementOfSeq
      <3>4. i \in Nat /\ failures[e][i] > 0
        BY <3>3
      <3> QED
        BY <3>2, <3>4 DEF Over
    <2>4. AllFailures \in SUBSET Over(failures, Emails, 0)
      BY <2>3
    <2>5. /\ Cardinality(AllFailures) <= Cardinality(Over(failures, Emails, 0))
          /\ Cardinality(AllFailures) \in Nat
          /\ Cardinality(Over(failures, Emails, 0)) \in Nat
      BY <2>2, <2>4, FS_Subset, FS_CardinalityType
    <2>6. /\ Cardinality(Over(attempts, Ips, LoginWindow - LockoutWindow + 0)) \in Nat
          /\ Cardinality(Over(attempts, Ips, LoginWindow - LockoutWindow + 0))
                <= Cardinality(Ips) * MaxAttempts
      BY <2>1, AttemptsAreFew
    <2>7. Cardinality(Ips) * MaxAttempts \in Nat
      BY LoginAssumption, FS_CardinalityType
    <2> QED
      BY <2>2, <2>5, <2>6, <2>7, UnderWayIsFew DEF Paid
  <1> QED
    BY <1>2, <1>3, PTL DEF LoginSpec

--------------------------------------------------------------------------------

(***************************************************************************)
(* For all clients, users, workers, orders and tokens: only admins change  *)
(* roles and policies, and the demo admin's email is seeded before anyone  *)
(* can register it.  The inductive invariant says what a request knows at  *)
(* each of its steps.  Until its user is loaded, the user's present role   *)
(* is among those seen, as every change of a role is noted by the requests *)
(* under way; from then on, admin is.  And whoever is served is served     *)
(* after a startup that left the demo admin registered, which stays.  That *)
(* a revoked token stays refused rests on an invariant of its own, about   *)
(* the keys in Redis.                                                      *)
(***************************************************************************)

(* A request with a token.                                                 *)
Asks(c) == request[c].step \in {"revocation", "load", "handle", "commit"}

(* A token that was handed out to a user who is registered.                *)
Owned(i) == i \in 1..Len(tokens) /\ Registered(tokens[i].user)

Types ==
    /\ role \in [Users -> Roles \cup {NoUser}]
    /\ worker \in [Workers -> {"down", "insert", "serving"}]
    /\ clock \in 0..MaxTime
    /\ tokens \in Seq([user : Users, role : Roles, exp : Nat])
    /\ Len(tokens) <= MaxTokens
    /\ session \in [Clients -> Nat]
    /\ request \in [Clients -> Requests]

Holders == \A c \in Clients : session[c] # 0 => Owned(session[c])

(* What a request knows.                                                   *)
Knows(c) ==
    /\ Asks(c) => Owned(request[c].token)
    /\ request[c].step \in {"revocation", "load"} => role[User(c)] \in request[c].held
    /\ request[c].step \in {"handle", "commit"} => "admin" \in request[c].held
    /\ request[c].step = "commit" => request[c].order \in RoleOrders

ServedAfterSeeding ==
    (\E w \in Workers : worker[w] = "serving") \/ (\E c \in Clients : request[c] # Idle)
        => Registered(Seeded)

IInv == Types /\ Holders /\ (\A c \in Clients : Knows(c)) /\ ServedAfterSeeding

(* The key of a revoked token lasts, whenever the logout was, until half a *)
(* second before the token's.                                              *)
KeysLast ==
    /\ revoked \in [1..MaxTokens -> Nat]
    /\ \A i \in loggedOut : i \in 1..Len(tokens) /\ revoked[i] >= 2 * tokens[i].exp - 1

--------------------------------------------------------------------------------

(* The shapes that a request can have.                                     *)
Signing == [step : {"register"}, worker : Workers, user : Users]

Asking ==
    [step : {"revocation", "load", "handle", "commit"}, worker : Workers,
     token : 1..MaxTokens, order : Orders,
     loaded : Roles \cup {NoUser}, held : SUBSET Roles]

(* What the shapes say of the step and of the token.                       *)
LEMMA Forms ==
    /\ Idle.step = "idle" /\ "token" \notin DOMAIN Idle
    /\ \A r \in Signing : r.step = "register" /\ r.user \in Users /\ "token" \notin DOMAIN r
    /\ \A r \in Asking :
         /\ r.step \in {"revocation", "load", "handle", "commit"}
         /\ "token" \in DOMAIN r
  <1>1. Idle.step = "idle" /\ "token" \notin DOMAIN Idle
    BY DEF Idle
  <1>2. ASSUME NEW r \in Signing
        PROVE  r.step = "register" /\ r.user \in Users /\ "token" \notin DOMAIN r
    <2>1. DOMAIN r = {"step", "worker", "user"}
      BY DEF Signing
    <2> QED
      BY <2>1 DEF Signing
  <1>3. ASSUME NEW r \in Asking
        PROVE  /\ r.step \in {"revocation", "load", "handle", "commit"}
               /\ "token" \in DOMAIN r
    BY DEF Asking
  <1> QED
    BY <1>1, <1>2, <1>3

(* A request has one of the shapes, and its step tells which.              *)
LEMMA Shapes ==
  ASSUME Types, NEW c \in Clients
  PROVE  /\ Asks(c) => request[c] \in Asking /\ "token" \in DOMAIN request[c]
         /\ ~Asks(c) => "token" \notin DOMAIN request[c]
         /\ request[c].step = "register" => request[c] \in Signing
         /\ request[c] # Idle => request[c].step # "idle"
  <1>1. Requests = {Idle} \cup Signing \cup Asking
    BY DEF Requests, Signing, Asking
  <1>2. request[c] = Idle \/ request[c] \in Signing \/ request[c] \in Asking
    BY <1>1 DEF Types
  <1> QED
    BY <1>2, Forms DEF Asks

(* A commit is of a role order, whose role is one.                         *)
LEMMA RoleOrdered ==
  ASSUME Types, NEW c \in Clients, Knows(c), request[c].step = "commit"
  PROVE  request[c].order.user \in Users /\ request[c].order.to \in Roles
  BY DEF Knows, RoleOrders

(* What steps change at most: who is registered stays so, and, but for the *)
(* change of a role, keeps its role; tokens are added at the end.          *)
RolesGrow ==
    /\ role' \in [Users -> Roles \cup {NoUser}]
    /\ \A u \in Users : Registered(u) => Registered(u)'

RolesKept == RolesGrow /\ \A u \in Users : Registered(u) => role'[u] = role[u]

TokensGrow ==
    /\ tokens' \in Seq([user : Users, role : Roles, exp : Nat])
    /\ Len(tokens') <= MaxTokens
    /\ Len(tokens) \in Nat /\ Len(tokens') \in Nat /\ Len(tokens) <= Len(tokens')
    /\ \A i \in 1..Len(tokens) : tokens'[i] = tokens[i]

(* An insert takes no role from anybody who has one.                       *)
LEMMA InsertGrows ==
  ASSUME Types, NEW u \in Users, NEW r \in Roles, Insert(u, r)
  PROVE  RolesKept /\ Registered(u)'
  BY AccountsAssumption DEF Types, Insert, RolesGrow, RolesKept, Registered

(* Nothing is lost where nothing changes.                                  *)
LEMMA SameRolesGrow == ASSUME Types, UNCHANGED role PROVE RolesKept
  BY DEF Types, RolesGrow, RolesKept, Registered

(* No token is handed out.                                                 *)
LEMMA SameTokensGrow == ASSUME Types, UNCHANGED tokens PROVE TokensGrow
  BY LenProperties DEF Types, TokensGrow

(* A token that is handed out goes to the end, and to the client.          *)
LEMMA HandOutGrows ==
  ASSUME Types, NEW c \in Clients, NEW u \in Users, NEW r \in Roles, HandOut(c, u, r)
  PROVE  /\ TokensGrow
         /\ Len(tokens) + 1 = Len(tokens')
         /\ tokens'[Len(tokens')].user = u
         /\ session' \in [Clients -> Nat]
         /\ session'[c] = Len(tokens')
         /\ \A d \in Clients : d # c => session'[d] = session[d]
  <1> DEFINE T == [user : Users, role : Roles, exp : Nat]
  <1>1. tokens \in Seq(T) /\ Len(tokens) \in Nat
    BY LenProperties DEF Types
  <1>2. Token(u, r) \in T /\ Token(u, r).user = u
    BY SessionsAssumption DEF Types, Token
  <1>3. tokens' = Append(tokens, Token(u, r)) /\ Len(tokens) < MaxTokens
    BY DEF HandOut
  <1>4. /\ Append(tokens, Token(u, r)) \in Seq(T)
        /\ Len(Append(tokens, Token(u, r))) = Len(tokens) + 1
        /\ \A i \in 1..Len(tokens) : Append(tokens, Token(u, r))[i] = tokens[i]
        /\ Append(tokens, Token(u, r))[Len(tokens) + 1] = Token(u, r)
    BY <1>1, <1>2, AppendProperties
  <1>5. TokensGrow /\ Len(tokens') = Len(tokens) + 1 /\ tokens'[Len(tokens')].user = u
    BY <1>1, <1>2, <1>3, <1>4, SessionsAssumption DEF TokensGrow
  <1>6. session' = [session EXCEPT ![c] = Len(tokens) + 1]
    BY DEF HandOut
  <1> QED
    BY <1>1, <1>5, <1>6 DEF Types

(* Who owns a token is a user, with a role.                                *)
LEMMA OwnersAreUsers ==
  ASSUME Types, NEW i, Owned(i)
  PROVE  tokens[i].user \in Users /\ Registered(tokens[i].user)
  <1>1. tokens[i] \in [user : Users, role : Roles, exp : Nat]
    BY ElementOfSeq DEF Owned, Types
  <1> QED
    BY <1>1 DEF Owned

(* A token that is owned stays owned, by the same user.                    *)
LEMMA OwnedStays ==
  ASSUME Types, RolesGrow, TokensGrow, NEW i, Owned(i)
  PROVE  Owned(i)' /\ tokens'[i].user = tokens[i].user /\ tokens[i].user \in Users
  <1>1. i \in 1..Len(tokens) /\ Registered(tokens[i].user)
    BY DEF Owned
  <1>2. tokens[i] \in [user : Users, role : Roles, exp : Nat]
    BY <1>1, ElementOfSeq DEF Types
  <1>3. tokens'[i] = tokens[i] /\ i \in 1..Len(tokens')
    BY <1>1 DEF TokensGrow
  <1>4. Registered(tokens[i].user)'
    BY <1>1, <1>2, <1>3 DEF RolesGrow, Registered
  <1> QED
    BY <1>2, <1>3, <1>4 DEF Owned

(* A request that is not there, or has no token yet, has nothing to know.  *)
LEMMA NothingKnown ==
  ASSUME NEW d \in Clients, request'[d] = Idle \/ request'[d] \in Signing
  PROVE  Knows(d)'
  <1>1. request'[d].step \in {"idle", "register"}
    BY Forms
  <1> QED
    BY <1>1 DEF Knows, Asks

(* A request that stays where it is knows what it knew.                    *)
LEMMA KnowsStill ==
  ASSUME Types, RolesKept, TokensGrow, NEW d \in Clients, Knows(d),
         request'[d] = request[d]
  PROVE  Knows(d)'
  <1>1. CASE ~Asks(d)
    BY <1>1 DEF Knows, Asks
  <1>2. CASE Asks(d)
    <2> DEFINE i == request[d].token
    <2>1. Owned(i)
      BY <1>2 DEF Knows
    <2>2. Owned(i)' /\ tokens'[i].user = tokens[i].user /\ tokens[i].user \in Users
      BY <2>1, OwnedStays DEF RolesKept
    <2>3. role'[tokens[i].user] = role[tokens[i].user]
      BY <2>1, <2>2 DEF Owned, RolesKept
    <2> QED
      BY <2>1, <2>2, <2>3 DEF Knows, Asks, User, Owned
  <1> QED
    BY <1>1, <1>2

(* A client keeps its token, or drops it.                                  *)
LEMMA HoldersStill ==
  ASSUME Types, Holders, RolesGrow, TokensGrow,
         \A d \in Clients : session'[d] \in {0, session[d]}
  PROVE  Holders'
  <1>1. ASSUME NEW i, Owned(i)
        PROVE  i \in 1..Len(tokens') /\ role'[tokens'[i].user] # NoUser
    BY <1>1, OwnedStays DEF Owned, Registered
  <1>2. \A i \in 1..Len(tokens) :
          Registered(tokens[i].user)
            => i \in 1..Len(tokens') /\ role'[tokens'[i].user] # NoUser
    BY <1>1 DEF Owned
  <1>3. ASSUME NEW d \in Clients, session'[d] # 0
        PROVE  session'[d] \in 1..Len(tokens') /\ role'[tokens'[session'[d]].user] # NoUser
    <2>1. session'[d] = session[d] /\ Owned(session[d])
      BY <1>3 DEF Holders
    <2> QED
      BY <1>2, <2>1 DEF Owned
  <1> QED
    BY <1>3 DEF Holders, Owned, Registered

(* Once the admin is seeded, whoever is served is served after it.         *)
LEMMA StillSeeded == ASSUME RolesGrow, Registered(Seeded) PROVE ServedAfterSeeding'
  BY AccountsAssumption DEF RolesGrow, ServedAfterSeeding, Registered

(* What most steps have in common: one request moves, and the rest stays.  *)
Calm ==
    /\ RolesKept /\ TokensGrow
    /\ worker' \in [Workers -> {"down", "insert", "serving"}]
    /\ clock' \in 0..MaxTime
    /\ session' \in [Clients -> Nat]
    /\ request' \in [Clients -> Requests]
    /\ \A d \in Clients : request'[d] = request[d] \/ Knows(d)'

(* Requests know what they need to after a step of that kind.              *)
LEMMA CalmStep ==
  ASSUME IInv, Calm, Holders', ServedAfterSeeding'
  PROVE  IInv'
  <1>1. Types'
    BY DEF Calm, TokensGrow, RolesKept, RolesGrow, Types
  <1>2. ASSUME NEW d \in Clients PROVE Knows(d)'
    BY <1>2, KnowsStill DEF Calm, IInv
  <1> QED
    BY <1>1, <1>2 DEF IInv

(* A client's request moves, for a worker that serves.                     *)
LEMMA RequestMoves ==
  ASSUME IInv, UNCHANGED <<role, worker, clock, tokens, session>>, Registered(Seeded),
         NEW c \in Clients, NEW r \in Requests,
         request' = [request EXCEPT ![c] = r], Knows(c)'
  PROVE  IInv'
  <1>1. RolesKept /\ TokensGrow
    BY SameRolesGrow, SameTokensGrow DEF IInv
  <1>2. request' \in [Clients -> Requests] /\ \A d \in Clients \ {c} : request'[d] = request[d]
    BY DEF IInv, Types
  <1>3. Calm
    BY <1>1, <1>2 DEF Calm, IInv, Types
  <1>4. Holders'
    BY <1>1, HoldersStill DEF RolesKept, IInv
  <1>5. ServedAfterSeeding'
    BY <1>1, StillSeeded DEF RolesKept
  <1> QED
    BY <1>3, <1>4, <1>5, CalmStep

(* A request ends.                                                         *)
LEMMA RequestEnds ==
  ASSUME IInv, UNCHANGED <<role, worker, clock, tokens, session>>, Registered(Seeded),
         NEW c \in Clients, Ends(c)
  PROVE  IInv'
  <1>1. Idle \in Requests
    BY DEF Requests
  <1>2. request' = [request EXCEPT ![c] = Idle] /\ request'[c] = Idle
    BY DEF Ends, IInv, Types
  <1> QED
    BY <1>1, <1>2, NothingKnown, RequestMoves

(* Whoever is served is served after the seeding.                          *)
LEMMA SeededBefore ==
  ASSUME IInv,
         \/ \E c \in Clients : request[c] # Idle
         \/ \E w \in Workers : worker[w] = "serving"
  PROVE  Registered(Seeded)
  BY DEF IInv, ServedAfterSeeding

--------------------------------------------------------------------------------

(* One lemma for each step of a request.                                   *)
LEMMA RegisterStep == ASSUME IInv, NEW c \in Clients, Register(c) PROVE IInv'
  <1>1. PICK w \in Workers, u \in Users :
          /\ worker[w] = "serving"
          /\ request' = [request EXCEPT ![c] =
                            [step |-> "register", worker |-> w, user |-> u]]
    BY DEF Register
  <1> DEFINE r == [step |-> "register", worker |-> w, user |-> u]
  <1>2. r \in Signing /\ r \in Requests
    BY DEF Signing, Requests
  <1>3. Registered(Seeded)
    BY <1>1, SeededBefore
  <1>4. request'[c] = r
    BY <1>1 DEF IInv, Types
  <1>5. Knows(c)'
    BY <1>2, <1>4, NothingKnown
  <1>6. UNCHANGED <<role, worker, clock, tokens, session>>
    BY DEF Register, tables, startup
  <1> QED
    BY <1>1, <1>2, <1>3, <1>5, <1>6, RequestMoves

(* A request arrives with a token that was handed out.                     *)
LEMMA ArriveStep == ASSUME IInv, NEW c \in Clients, Arrive(c) PROVE IInv'
  <1>1. PICK w \in Workers, o \in Orders :
          /\ worker[w] = "serving"
          /\ request' = [request EXCEPT ![c] =
                          [step |-> "revocation", worker |-> w,
                           token |-> session[c], order |-> o, loaded |-> NoUser,
                           held |-> {role[tokens[session[c]].user]}]]
    BY DEF Arrive
  <1> DEFINE r == [step |-> "revocation", worker |-> w,
                   token |-> session[c], order |-> o, loaded |-> NoUser,
                   held |-> {role[tokens[session[c]].user]}]
  <1>2. UNCHANGED <<role, worker, clock, tokens, session>>
    BY DEF Arrive, tables, startup
  <1>3. Registered(Seeded)
    BY <1>1, SeededBefore
  <1>4. Owned(session[c])
    BY DEF Arrive, IInv, Holders
  <1>5. session[c] \in 1..MaxTokens
    <2>1. Len(tokens) \in Nat /\ Len(tokens) <= MaxTokens /\ MaxTokens \in Nat
      BY LenProperties, SessionsAssumption DEF IInv, Types
    <2> QED
      BY <1>4, <2>1 DEF Owned
  <1>6. role[tokens[session[c]].user] \in Roles
    <2>1. tokens[session[c]].user \in Users /\ Registered(tokens[session[c]].user)
      BY <1>4, OwnersAreUsers DEF IInv
    <2> QED
      BY <2>1 DEF Registered, IInv, Types
  <1>7. r \in Requests
    BY <1>5, <1>6 DEF Requests
  <1>8. request'[c] = r
    BY <1>1 DEF IInv, Types
  <1>9. Knows(c)'
    BY <1>2, <1>4, <1>8 DEF Knows, Asks, Owned, User, Registered
  <1> QED
    BY <1>1, <1>2, <1>3, <1>7, <1>9, RequestMoves

(* What is common to the requests that have a token.                       *)
LEMMA AskingNow ==
  ASSUME IInv, NEW c \in Clients, Asks(c)
  PROVE  /\ request[c] \in Asking /\ Knows(c) /\ Registered(Seeded)
         /\ Owned(request[c].token) /\ User(c) \in Users /\ Registered(User(c))
  <1>1. request[c] \in Asking /\ Knows(c)
    BY Shapes DEF IInv
  <1>2. request[c] # Idle
    BY Forms DEF Asks
  <1>3. Owned(request[c].token)
    BY <1>1 DEF Knows
  <1>4. User(c) \in Users /\ Registered(User(c))
    BY <1>3, OwnersAreUsers DEF User, IInv
  <1> QED
    BY <1>1, <1>2, <1>3, <1>4, SeededBefore

(* get_current_user() asks whether the token is revoked.                   *)
LEMMA CheckRevokedStep == ASSUME IInv, NEW c \in Clients, CheckRevoked(c) PROVE IInv'
  <1>1. Asks(c) /\ request[c].step = "revocation"
    BY DEF CheckRevoked, Asks
  <1>2. /\ request[c] \in Asking /\ Knows(c) /\ Registered(Seeded)
        /\ Owned(request[c].token)
    BY <1>1, AskingNow
  <1>3. UNCHANGED <<role, worker, clock, tokens, session>>
    BY DEF CheckRevoked, tables, startup
  <1>4. CASE Ends(c)
    BY <1>2, <1>3, <1>4, RequestEnds
  <1>5. CASE Goes(c, "load")
    <2> DEFINE q == [request[c] EXCEPT !.step = "load"]
    <2>1. /\ q \in Requests /\ q.step = "load"
          /\ q.token = request[c].token /\ q.held = request[c].held
      BY <1>2 DEF Asking, Requests
    <2>2. request' = [request EXCEPT ![c] = q] /\ request'[c] = q
      BY <1>5 DEF Goes, IInv, Types
    <2>3. Knows(c)'
      BY <1>1, <1>2, <1>3, <2>1, <2>2 DEF Knows, Asks, Owned, User, Registered
    <2> QED
      BY <1>2, <1>3, <2>1, <2>2, <2>3, RequestMoves
  <1> QED
    BY <1>4, <1>5 DEF CheckRevoked

(* get_current_user() loads the token's user.                              *)
LEMMA LoadUserStep == ASSUME IInv, NEW c \in Clients, LoadUser(c) PROVE IInv'
  <1>1. Asks(c) /\ request[c].step = "load"
    BY DEF LoadUser, Asks
  <1>2. /\ request[c] \in Asking /\ Knows(c) /\ Registered(Seeded)
        /\ Owned(request[c].token)
    BY <1>1, AskingNow
  <1>3. UNCHANGED <<role, worker, clock, tokens, session>>
    BY DEF LoadUser, tables, startup
  <1>4. CASE Ends(c)
    BY <1>2, <1>3, <1>4, RequestEnds
  <1>5. CASE /\ LoadedRole(c) = "admin"
             /\ request' = [request EXCEPT ![c].step = "handle",
                                           ![c].loaded = LoadedRole(c)]
    <2> DEFINE q == [request[c] EXCEPT !.step = "handle", !.loaded = "admin"]
    <2>1. /\ q \in Requests /\ q.step = "handle"
          /\ q.token = request[c].token /\ q.held = request[c].held
      BY <1>2 DEF Asking, Requests, Roles
    <2>2. request' = [request EXCEPT ![c] = q] /\ request'[c] = q
      BY <1>5 DEF IInv, Types
    <2>3. "admin" \in request[c].held
      BY <1>1, <1>2, <1>5 DEF Knows, LoadedRole
    <2>4. Knows(c)'
      BY <1>1, <1>2, <1>3, <2>1, <2>2, <2>3 DEF Knows, Asks, Owned, Registered
    <2> QED
      BY <1>2, <1>3, <2>1, <2>2, <2>4, RequestMoves
  <1> QED
    BY <1>4, <1>5 DEF LoadUser

(* The user whose role is to change is loaded; it may be the caller, whom  *)
(* the session has.                                                        *)
LEMMA LoadTargetStep == ASSUME IInv, NEW c \in Clients, LoadTarget(c) PROVE IInv'
  <1> DEFINE t == request[c].order.user
             l == IF t = User(c) THEN request[c].loaded ELSE role[t]
  <1>1. Asks(c) /\ request[c].step = "handle" /\ request[c].order.kind = "role"
    BY DEF LoadTarget, Asks
  <1>2. /\ request[c] \in Asking /\ Knows(c) /\ Registered(Seeded)
        /\ Owned(request[c].token)
    BY <1>1, AskingNow
  <1>3. UNCHANGED <<role, worker, clock, tokens, session>>
    BY DEF LoadTarget, tables, startup
  <1>4. CASE Ends(c)
    BY <1>2, <1>3, <1>4, RequestEnds
  <1>5. CASE request' = [request EXCEPT ![c].step = "commit",
                                        ![c].loaded = IF t = User(c) THEN @ ELSE role[t]]
    <2>1. request[c].order \in RoleOrders
      <3>1. request[c].order \in RoleOrders \cup PolicyOrders
        BY <1>2, SessionsAssumption DEF Asking
      <3>2. request[c].order \notin PolicyOrders
        BY <1>1 DEF PolicyOrders
      <3> QED
        BY <3>1, <3>2
    <2>2. l \in Roles \cup {NoUser}
      BY <1>2, <2>1 DEF RoleOrders, Asking, IInv, Types
    <2> DEFINE q == [request[c] EXCEPT !.step = "commit", !.loaded = l]
    <2>3. /\ q \in Requests /\ q.step = "commit" /\ q.order = request[c].order
          /\ q.token = request[c].token /\ q.held = request[c].held
      BY <1>2, <2>2 DEF Asking, Requests
    <2>4. request' = [request EXCEPT ![c] = q] /\ request'[c] = q
      BY <1>2, <1>5 DEF IInv, Types, Asking
    <2>5. Knows(c)'
      BY <1>1, <1>2, <1>3, <2>1, <2>3, <2>4 DEF Knows, Asks, Owned, Registered
    <2> QED
      BY <1>2, <1>3, <2>3, <2>4, <2>5, RequestMoves
  <1> QED
    BY <1>4, <1>5 DEF LoadTarget

(* A handler that leaves users and tokens alone.                           *)
LEMMA CreatePolicyStep == ASSUME IInv, NEW c \in Clients, CreatePolicy(c) PROVE IInv'
  <1>1. Asks(c) /\ Ends(c) /\ UNCHANGED <<role, worker, clock, tokens, session>>
    BY DEF CreatePolicy, Asks, startup
  <1> QED
    BY <1>1, AskingNow, RequestEnds

(* A token is handed out to a user who is registered.                      *)
LEMMA HandOutStep ==
  ASSUME IInv, RolesKept, Registered(Seeded), UNCHANGED <<worker, clock>>,
         NEW c \in Clients, NEW u \in Users, NEW r \in Roles, HandOut(c, u, r),
         Registered(u)', request' \in [Clients -> Requests],
         \A d \in Clients : request'[d] = request[d] \/ Knows(d)'
  PROVE  IInv'
  <1>1. /\ TokensGrow
        /\ Len(tokens) + 1 = Len(tokens')
        /\ tokens'[Len(tokens')].user = u
        /\ session' \in [Clients -> Nat]
        /\ session'[c] = Len(tokens')
        /\ \A d \in Clients : d # c => session'[d] = session[d]
    BY HandOutGrows DEF IInv
  <1>2. Calm
    BY <1>1 DEF Calm, IInv, Types
  <1>3. ASSUME NEW i, Owned(i)
        PROVE  i \in 1..Len(tokens') /\ role'[tokens'[i].user] # NoUser
    BY <1>1, <1>3, OwnedStays DEF Owned, Registered, IInv, RolesKept
  <1>4. \A i \in 1..Len(tokens) :
          Registered(tokens[i].user)
            => i \in 1..Len(tokens') /\ role'[tokens'[i].user] # NoUser
    BY <1>3 DEF Owned
  <1>5. ASSUME NEW d \in Clients, session'[d] # 0
        PROVE  session'[d] \in 1..Len(tokens') /\ role'[tokens'[session'[d]].user] # NoUser
    <2>1. CASE d = c
      <3>1. Len(tokens') \in 1..Len(tokens')
        BY <1>1 DEF TokensGrow
      <3> QED
        BY <1>1, <2>1, <3>1 DEF Registered
    <2>2. CASE d # c
      BY <1>1, <1>4, <1>5, <2>2 DEF Owned, IInv, Holders
    <2> QED
      BY <2>1, <2>2
  <1>6. Holders'
    BY <1>5 DEF Holders, Owned, Registered
  <1> QED
    BY <1>2, <1>6, CalmStep, StillSeeded DEF RolesKept

(* A login hands out a token of a user who is registered.                  *)
LEMMA LogInStep == ASSUME IInv, NEW c \in Clients, LogIn(c) PROVE IInv'
  <1>1. PICK u \in Users : Registered(u) /\ HandOut(c, u, role[u])
    BY DEF LogIn
  <1>2. UNCHANGED <<role, worker, clock, request>> /\ Registered(Seeded)
    BY SeededBefore DEF LogIn, tables, startup
  <1>3. role[u] \in Roles /\ Registered(u)' /\ RolesKept
    BY <1>1, <1>2, SameRolesGrow DEF Registered, IInv, Types
  <1>4. request' \in [Clients -> Requests]
    BY <1>2 DEF IInv, Types
  <1> QED
    BY <1>1, <1>2, <1>3, <1>4, HandOutStep

(* The registration is committed, and hands out a token.                   *)
LEMMA RegisterCommitStep ==
  ASSUME IInv, NEW c \in Clients, RegisterCommit(c) PROVE IInv'
  <1>1. request[c] \in Signing /\ request[c].user \in Users /\ request[c] # Idle
    BY Shapes, Forms DEF RegisterCommit, IInv
  <1>2. PICK u \in Users : u = request[c].user
    BY <1>1
  <1>3. UNCHANGED <<worker, clock>> /\ Ends(c) /\ Registered(Seeded)
    BY <1>1, SeededBefore DEF RegisterCommit, startup
  <1>4. CASE Registered(u) /\ UNCHANGED <<role, tokens, session>>
    BY <1>3, <1>4, RequestEnds
  <1>5. CASE Insert(u, "viewer") /\ HandOut(c, u, "viewer")
    <2>1. "viewer" \in Roles
      BY DEF Roles
    <2>2. RolesKept /\ Registered(u)'
      BY <1>5, <2>1, InsertGrows DEF IInv
    <2>3. /\ request' \in [Clients -> Requests] /\ request'[c] = Idle
          /\ \A d \in Clients : d # c => request'[d] = request[d]
      BY <1>3 DEF Ends, IInv, Types, Requests
    <2>4. \A d \in Clients : request'[d] = request[d] \/ Knows(d)'
      BY <2>3, NothingKnown
    <2> QED
      BY <1>3, <1>5, <2>1, <2>2, <2>3, <2>4, HandOutStep
  <1> QED
    BY <1>2, <1>4, <1>5 DEF RegisterCommit

(* Steps that leave roles, tokens and requests alone, or stop requests.    *)
LEMMA QuietStep ==
  ASSUME IInv, UNCHANGED <<role, tokens>>, clock' \in 0..MaxTime,
         session' \in [Clients -> Nat],
         \A d \in Clients : session'[d] \in {0, session[d]},
         worker' \in [Workers -> {"down", "insert", "serving"}],
         \A w \in Workers : worker'[w] = "serving" =>
            worker[w] = "serving" \/ Registered(Seeded),
         request' \in [Clients -> Requests],
         \A d \in Clients : request'[d] \in {Idle, request[d]}
  PROVE  IInv'
  <1>1. RolesKept /\ TokensGrow
    BY SameRolesGrow, SameTokensGrow DEF IInv
  <1>2. \A d \in Clients : request'[d] = request[d] \/ Knows(d)'
    BY NothingKnown
  <1>3. Calm
    BY <1>1, <1>2 DEF Calm
  <1>4. Holders'
    BY <1>1, HoldersStill DEF RolesKept, IInv
  <1>5. ServedAfterSeeding'
    BY DEF IInv, ServedAfterSeeding, Registered
  <1> QED
    BY <1>3, <1>4, <1>5, CalmStep

(* A token is dropped.                                                     *)
LEMMA DropStep == ASSUME IInv, NEW c \in Clients, Drop(c) PROVE IInv'
  <1>1. UNCHANGED <<role, tokens, clock, worker, request>>
    BY DEF Drop, tables, startup
  <1>2. session' \in [Clients -> Nat] /\ \A d \in Clients : session'[d] \in {0, session[d]}
    BY DEF Drop, IInv, Types
  <1> QED
    BY <1>1, <1>2, QuietStep DEF IInv, Types

(* Only the clock, Redis or the script moves.                              *)
LEMMA ClockStep ==
  ASSUME IInv, UNCHANGED <<role, tokens, session, worker, request>>, clock' \in 0..MaxTime
  PROVE  IInv'
  <1>1. \A d \in Clients : session'[d] \in {0, session[d]} /\ request'[d] \in {Idle, request[d]}
    OBVIOUS
  <1> QED
    BY <1>1, QuietStep DEF IInv, Types

(* A worker stops, and its requests with it.                               *)
LEMMA StopStep == ASSUME IInv, NEW w \in Workers, Stop(w) PROVE IInv'
  <1>1. UNCHANGED <<role, tokens, clock, session>>
    BY DEF Stop, tables
  <1>2. /\ worker' \in [Workers -> {"down", "insert", "serving"}]
        /\ \A x \in Workers : worker'[x] = "serving" => worker[x] = "serving"
    BY DEF Stop, Become, IInv, Types
  <1>3. /\ request' \in [Clients -> Requests]
        /\ \A d \in Clients : request'[d] \in {Idle, request[d]}
    BY DEF Stop, IInv, Types, Requests
  <1>4. session \in [Clients -> Nat] /\ \A d \in Clients : session'[d] \in {0, session[d]}
    BY <1>1 DEF IInv, Types
  <1> QED
    BY <1>1, <1>2, <1>3, <1>4, QuietStep DEF IInv, Types

(* The admin is inserted while nobody may be served yet.                   *)
LEMMA InsertStep ==
  ASSUME IInv, Insert(Seeded, "admin"), UNCHANGED <<clock, tokens, session, request>>,
         worker' \in [Workers -> {"down", "insert", "serving"}]
  PROVE  IInv'
  <1>1. "admin" \in Roles /\ Seeded \in Users
    BY AccountsAssumption DEF Roles
  <1>2. RolesKept /\ Registered(Seeded)' /\ TokensGrow
    BY <1>1, InsertGrows, SameTokensGrow DEF IInv
  <1>3. Calm
    BY <1>2 DEF Calm, IInv, Types
  <1>4. Holders'
    BY <1>2, HoldersStill DEF RolesKept, IInv
  <1>5. ServedAfterSeeding'
    BY <1>2 DEF ServedAfterSeeding
  <1> QED
    BY <1>3, <1>4, <1>5, CalmStep

(* The workers' startups and the script.                                   *)
LEMMA StartingStep == ASSUME IInv, Starting PROVE IInv'
  <1>1. UNCHANGED <<clock, tokens, session, request>>
    BY DEF Starting
  <1>2. CASE Seed
    <2>1. UNCHANGED worker /\ (UNCHANGED role \/ Insert(Seeded, "admin"))
      BY <1>2 DEF Seed, SeedLook, SeedPolicies, SeedAdminLook, SeedAdmin, tables
    <2> QED
      BY <1>1, <2>1, ClockStep, InsertStep DEF IInv, Types
  <1>3. ASSUME NEW w \in Workers, Start(w)
        PROVE  IInv'
    <2>1. UNCHANGED role
      BY <1>3 DEF Start, tables
    <2>2. /\ worker' \in [Workers -> {"down", "insert", "serving"}]
          /\ \A x \in Workers : worker'[x] = "serving" =>
                worker[x] = "serving" \/ Registered(Seeded)
      BY <1>3 DEF Start, Become, IInv, Types
    <2>3. \A d \in Clients : session'[d] \in {0, session[d]} /\ request'[d] \in {Idle, request[d]}
      BY <1>1
    <2> QED
      BY <1>1, <2>1, <2>2, <2>3, QuietStep DEF IInv, Types
  <1>4. ASSUME NEW w \in Workers, StartInsert(w)
        PROVE  IInv'
    <2>1. CASE Insert(Seeded, "admin") /\ Become(w, "serving")
      <3>1. worker' \in [Workers -> {"down", "insert", "serving"}]
        BY <2>1 DEF Become, IInv, Types
      <3> QED
        BY <1>1, <2>1, <3>1, InsertStep
    <2>2. CASE Registered(Seeded) /\ Become(w, "down") /\ UNCHANGED role
      <3>1. /\ worker' \in [Workers -> {"down", "insert", "serving"}]
            /\ \A x \in Workers : worker'[x] = "serving" => worker[x] = "serving"
        BY <2>2 DEF Become, IInv, Types
      <3>2. \A d \in Clients : session'[d] \in {0, session[d]} /\ request'[d] \in {Idle, request[d]}
        BY <1>1
      <3> QED
        BY <1>1, <2>2, <3>1, <3>2, QuietStep DEF IInv, Types
    <2> QED
      BY <1>4, <2>1, <2>2 DEF StartInsert
  <1> QED
    BY <1>2, <1>3, <1>4 DEF Starting

(* A role changes: the requests of that user which are under way note it.  *)
LEMMA SetRoleStep == ASSUME IInv, NEW c \in Clients, SetRole(c) PROVE IInv'
  <1>1. Asks(c) /\ request[c].step = "commit"
    BY DEF SetRole, Asks
  <1>2. /\ request[c] \in Asking /\ Knows(c) /\ Registered(Seeded)
    BY <1>1, AskingNow
  <1>3. UNCHANGED <<worker, clock, tokens, session>>
    BY DEF SetRole, startup
  <1>4. PICK u \in Users, r \in Roles :
          u = request[c].order.user /\ r = request[c].order.to
    BY <1>1, <1>2, RoleOrdered DEF IInv
  <1>5. CASE UNCHANGED role /\ Ends(c)
    BY <1>2, <1>3, <1>5, RequestEnds
  <1>6. CASE role' = [role EXCEPT ![u] = r] /\ request' = Noting(u, r, c)
    <2>1. RolesGrow /\ TokensGrow
      BY <1>3, <1>6, SameTokensGrow, AccountsAssumption
      DEF RolesGrow, Registered, IInv, Types
    <2>2. ASSUME NEW d \in Clients, d # c, Asks(d), User(d) = u
          PROVE  request'[d] \in Requests /\ Knows(d)'
      <3> DEFINE q == [request[d] EXCEPT !.held = @ \cup {r}]
      <3>1. /\ request[d] \in Asking /\ Knows(d) /\ Owned(request[d].token)
            /\ "token" \in DOMAIN request[d]
        BY <2>2, AskingNow, Shapes DEF IInv
      <3>2. request'[d] = q
        BY <1>6, <2>2, <3>1 DEF Noting
      <3>3. /\ q \in Requests /\ q.step = request[d].step
            /\ q.token = request[d].token /\ q.order = request[d].order
            /\ q.held = request[d].held \cup {r}
        BY <3>1 DEF Asking, Requests
      <3>4. role'[u] = r
        BY <1>6 DEF IInv, Types
      <3>5. request'[d].token \in 1..Len(tokens') /\ role'[tokens'[request'[d].token].user] # NoUser
        BY <1>3, <2>2, <3>1, <3>2, <3>3, <3>4, AccountsAssumption DEF Owned, User
      <3> QED
        BY <1>3, <2>2, <3>1, <3>2, <3>3, <3>4, <3>5
        DEF Knows, Asks, User, Owned, Registered
    <2>3. ASSUME NEW d \in Clients, d # c, Asks(d), User(d) # u
          PROVE  request'[d] = request[d] /\ Knows(d)'
      <3>1. /\ Knows(d) /\ Owned(request[d].token) /\ User(d) \in Users
            /\ Registered(User(d))
        BY <2>3, AskingNow
      <3>2. request'[d] = request[d]
        BY <1>6, <2>3 DEF Noting
      <3>3. role'[User(d)] = role[User(d)]
        BY <1>6, <2>3, <3>1 DEF IInv, Types
      <3> QED
        BY <1>3, <2>3, <3>1, <3>2, <3>3 DEF Knows, Asks, User, Owned, Registered
    <2>4. ASSUME NEW d \in Clients, d # c, ~Asks(d)
          PROVE  request'[d] = request[d] /\ Knows(d)'
      <3>1. request'[d] = request[d]
        BY <1>6, <2>4, Shapes DEF Noting, IInv
      <3> QED
        BY <2>4, <3>1 DEF Knows, Asks
    <2>5. request'[c] = Idle /\ Idle \in Requests /\ Knows(c)'
      <3>1. request'[c] = Idle /\ Idle \in Requests
        BY <1>6 DEF Noting, Requests
      <3> QED
        BY <3>1, NothingKnown
    <2>6. \A d \in Clients : request'[d] \in Requests /\ Knows(d)'
      BY <2>2, <2>3, <2>4, <2>5 DEF IInv, Types
    <2>7. request' \in [Clients -> Requests]
      BY <1>6, <2>6 DEF Noting
    <2>8. Types'
      BY <1>3, <2>1, <2>7 DEF RolesGrow, IInv, Types
    <2>9. Holders'
      BY <1>3, <2>1, HoldersStill DEF IInv
    <2> QED
      BY <1>2, <2>1, <2>6, <2>8, <2>9, StillSeeded DEF IInv
  <1> QED
    BY <1>4, <1>5, <1>6 DEF SetRole

--------------------------------------------------------------------------------

(* The invariant holds before anybody is served ...                        *)
LEMMA InitInvariant == Init => IInv
  <1> SUFFICES ASSUME Init PROVE IInv
    OBVIOUS
  <1>1. tokens = <<>> /\ Len(tokens) = 0
    BY EmptySeq DEF Init
  <1>2. Types
    BY <1>1, SessionsAssumption, EmptySeq DEF Init, AccountsInit, Types, Requests
  <1>3. Holders /\ ServedAfterSeeding
    BY DEF Init, AccountsInit, Holders, ServedAfterSeeding
  <1>4. ASSUME NEW c \in Clients PROVE Knows(c)
    BY Forms DEF Init, Knows, Asks
  <1> QED
    BY <1>2, <1>3, <1>4 DEF IInv

(* ... every step keeps it ...                                             *)
LEMMA StepInvariant == IInv /\ [Next]_vars => IInv'
  <1> SUFFICES ASSUME IInv, [Next]_vars PROVE IInv'
    OBVIOUS
  <1>1. ASSUME NEW c \in Clients, Served(c) PROVE IInv'
    <2>1. CASE LogOut(c)
      <3>1. UNCHANGED <<role, tokens, session, worker, request, clock>>
        BY <2>1 DEF LogOut, tables, startup
      <3> QED
        BY <3>1, ClockStep DEF IInv, Types
    <2> QED
      BY <1>1, <2>1, RegisterStep, RegisterCommitStep, LogInStep, DropStep, ArriveStep,
         CheckRevokedStep, LoadUserStep, LoadTargetStep, SetRoleStep, CreatePolicyStep
      DEF Served
  <1>2. CASE Tick
    <2>1. UNCHANGED <<role, tokens, session, worker, request>> /\ clock' \in 0..MaxTime
      BY <1>2, SessionsAssumption DEF Tick, tables, startup, IInv, Types
    <2> QED
      BY <2>1, ClockStep
  <1>3. CASE GoDown \/ ComeUp \/ UNCHANGED vars
    <2>1. UNCHANGED <<role, tokens, session, worker, request, clock>>
      BY <1>3 DEF GoDown, ComeUp, vars, tables, startup
    <2> QED
      BY <2>1, ClockStep DEF IInv, Types
  <1> QED
    BY <1>1, <1>2, <1>3, StartingStep, StopStep DEF Next

(* ... and so it always holds.                                             *)
LEMMA Invariance == Spec => []IInv
  BY InitInvariant, StepInvariant, PTL DEF Spec

--------------------------------------------------------------------------------

(* Whose steps change roles and policies.                                  *)
LEMMA Writers ==
  ASSUME IInv, [Next]_vars
  PROVE  \/ UNCHANGED <<role, policies>>
         \/ \E c \in Clients : RegisterCommit(c) \/ SetRole(c) \/ CreatePolicy(c)
         \/ \E w \in Workers : StartInsert(w)
         \/ SeedPolicies \/ SeedAdmin
  BY DEF Next, Served, Starting, Seed, Register, LogIn, Drop, LogOut, Arrive,
         CheckRevoked, LoadUser, LoadTarget, Start, Stop, SeedLook, SeedAdminLook,
         Tick, GoDown, ComeUp, vars, tables

(* An insert changes the role of nobody who is registered.                 *)
LEMMA InsertSpares ==
  ASSUME IInv, NEW u, NEW r, Insert(u, r), NEW v \in Users, Registered(v)
  PROVE  role'[v] = role[v]
  BY DEF Insert, Registered, IInv, Types

(* Only a request of an admin changes the role of a registered user or adds*)
(* a policy, and so does the script: require_role("admin") is asked once,  *)
(* and yet what is committed after it had an admin's leave.                *)
THEOREM AdminsChange == Spec => ChangedByAdmins
  <1> DEFINE Change ==
        /\ \A u \in Users : Registered(u) /\ role'[u] # role[u] => ByAdmin
        /\ policies' # policies => script = "policies" \/ ByAdmin
  <1>1. ASSUME IInv, [Next]_vars PROVE Change
    <2>1. CASE UNCHANGED <<role, policies>>
      BY <2>1
    <2>2. ASSUME NEW c \in Clients, RegisterCommit(c) PROVE Change
      <3>1. UNCHANGED policies
        BY <2>2 DEF RegisterCommit
      <3>2. UNCHANGED role \/ Insert(request[c].user, "viewer")
        BY <2>2 DEF RegisterCommit
      <3> QED
        BY <1>1, <3>1, <3>2, InsertSpares
    <2>3. ASSUME NEW c \in Clients, SetRole(c) \/ CreatePolicy(c) PROVE Change
      <3>1. request[c].step \in {"handle", "commit"}
        BY <2>3 DEF SetRole, CreatePolicy
      <3>2. "admin" \in request[c].held
        BY <1>1, <3>1 DEF IInv, Knows
      <3>3. request'[c] = Idle
        BY <1>1, <2>3 DEF SetRole, CreatePolicy, Ends, Noting, IInv, Types
      <3>4. ByAdmin
        BY <3>1, <3>2, <3>3 DEF ByAdmin
      <3> QED
        BY <3>4
    <2>4. ASSUME NEW w \in Workers, StartInsert(w) PROVE Change
      <3>1. UNCHANGED policies /\ (UNCHANGED role \/ Insert(Seeded, "admin"))
        BY <2>4 DEF StartInsert
      <3> QED
        BY <1>1, <3>1, InsertSpares
    <2>5. CASE SeedPolicies
      BY <2>5 DEF SeedPolicies
    <2>6. CASE SeedAdmin
      <3>1. UNCHANGED policies /\ (UNCHANGED role \/ Insert(Seeded, "admin"))
        BY <2>6 DEF SeedAdmin
      <3> QED
        BY <1>1, <3>1, InsertSpares
    <2> QED
      BY <1>1, <2>1, <2>2, <2>3, <2>4, <2>5, <2>6, Writers
  <1>2. IInv /\ [Next]_vars => [Change]_<<role, policies>>
    BY <1>1
  <1> QED
    BY <1>2, Invariance, PTL DEF Spec, ChangedByAdmins

(* The first to hold the demo admin's email holds it as an admin: nobody   *)
(* is served, and so nobody registers, before a startup or the script has  *)
(* inserted it (seed_admin_if_empty(), app/main.py).                       *)
THEOREM AdminIsSeeded == Spec => SeededAsAdmin
  <1> DEFINE Change == ~Registered(Seeded) => role'[Seeded] = "admin"
  <1>1. ASSUME IInv, [Next]_vars, role' # role PROVE Change
    <2> SUFFICES ASSUME ~Registered(Seeded) PROVE role'[Seeded] = "admin"
      OBVIOUS
    <2>1. ASSUME NEW c \in Clients PROVE ~RegisterCommit(c) /\ ~SetRole(c) /\ ~CreatePolicy(c)
      <3>1. request[c] = Idle
        BY <1>1, SeededBefore
      <3> QED
        BY <3>1, Forms DEF RegisterCommit, SetRole, CreatePolicy
    <2>2. Insert(Seeded, "admin")
      BY <1>1, <2>1, Writers DEF StartInsert, SeedPolicies, SeedAdmin
    <2> QED
      BY <1>1, <2>2, AccountsAssumption DEF Insert, IInv, Types
  <1>2. IInv /\ [Next]_vars => [Change]_role
    BY <1>1
  <1> QED
    BY <1>2, Invariance, PTL DEF Spec, SeededAsAdmin

--------------------------------------------------------------------------------

(* Tokens are handed out, and never taken back or changed.                 *)
LEMMA TokensOnlyGrow ==
  ASSUME IInv, [Next]_vars
  PROVE  TokensGrow
  <1>1. UNCHANGED tokens \/ \E c \in Clients : RegisterCommit(c) \/ LogIn(c)
    BY DEF Next, Served, Starting, Register, Drop, LogOut, Arrive, CheckRevoked, LoadUser,
           LoadTarget, SetRole, CreatePolicy, Stop, Tick, GoDown, ComeUp, vars
  <1>2. ASSUME NEW c \in Clients, RegisterCommit(c) PROVE TokensGrow
    <2>1. CASE UNCHANGED tokens
      BY <2>1, SameTokensGrow DEF IInv
    <2>2. CASE HandOut(c, request[c].user, "viewer")
      <3>1. request[c].user \in Users
        BY <1>2, Shapes, Forms DEF RegisterCommit, IInv
      <3> QED
        BY <2>2, <3>1, HandOutGrows DEF IInv, Roles
    <2> QED
      BY <1>2, <2>1, <2>2 DEF RegisterCommit
  <1>3. ASSUME NEW c \in Clients, LogIn(c) PROVE TokensGrow
    <2>1. PICK u \in Users : Registered(u) /\ HandOut(c, u, role[u])
      BY <1>3 DEF LogIn
    <2>2. role[u] \in Roles
      BY <2>1 DEF Registered, IInv, Types
    <2> QED
      BY <2>1, <2>2, HandOutGrows DEF IInv
  <1> QED
    BY <1>1, <1>2, <1>3, SameTokensGrow DEF IInv

(* revoke_token() rounds what is left of the token down to whole seconds,  *)
(* and up to one at least.                                                 *)
LEMMA KeyLasts ==
  ASSUME IInv, NEW i \in 1..Len(tokens), ~Expired(i)
  PROVE  KeyEnds(i) \in Nat /\ KeyEnds(i) >= 2 * tokens[i].exp - 1
  <1>1. tokens[i] \in [user : Users, role : Roles, exp : Nat]
    BY ElementOfSeq DEF IInv, Types
  <1>2. PICK now \in Nat, end \in Nat : now = clock /\ end = tokens[i].exp
    <2>1. clock \in Nat
      BY SessionsAssumption DEF IInv, Types
    <2>2. tokens[i].exp \in Nat
      BY <1>1
    <2> QED
      BY <2>1, <2>2
  <1>3. now \div 2 <= end
    BY <1>2 DEF Expired
  <1>4. KeyEnds(i) = now + 2 * AtLeast((2 * end - now) \div 2, 1)
    BY <1>2 DEF KeyEnds
  <1>5. /\ now + 2 * AtLeast((2 * end - now) \div 2, 1) \in Nat
        /\ now + 2 * AtLeast((2 * end - now) \div 2, 1) >= 2 * end - 1
    BY <1>3 DEF AtLeast
  <1> QED
    BY <1>2, <1>4, <1>5

(* Keys last at first ...                                                  *)
LEMMA InitKeys == Init => KeysLast
  BY DEF Init, KeysLast

(* ... and at every step: a logout adds one that does, and what Redis      *)
(* forgets is no longer in loggedOut.                                      *)
LEMMA StepKeys == IInv /\ KeysLast /\ [Next]_vars => KeysLast'
  <1> SUFFICES ASSUME IInv, KeysLast, [Next]_vars PROVE KeysLast'
    OBVIOUS
  <1>1. TokensGrow
    BY TokensOnlyGrow
  <1>2. CASE UNCHANGED <<revoked, loggedOut>>
    <2>1. \A i \in 1..Len(tokens) : i \in 1..Len(tokens') /\ tokens'[i] = tokens[i]
      BY <1>1 DEF TokensGrow
    <2>2. revoked' \in [1..MaxTokens -> Nat]
      BY <1>2 DEF KeysLast
    <2>3. \A i \in loggedOut' : i \in 1..Len(tokens') /\ revoked'[i] >= 2 * tokens'[i].exp - 1
      BY <1>2, <2>1 DEF KeysLast
    <2> QED
      BY <2>2, <2>3 DEF KeysLast
  <1>3. ASSUME NEW c \in Clients, LogOut(c), up PROVE KeysLast'
    <2>1. PICK i : i = session[c]
      OBVIOUS
    <2>2. /\ ~Expired(i) /\ revoked' = [revoked EXCEPT ![i] = KeyEnds(i)]
          /\ loggedOut' = loggedOut \cup {i} /\ tokens' = tokens
      BY <1>3, <2>1 DEF LogOut
    <2>3. i \in 1..Len(tokens)
      BY <1>3, <2>1 DEF LogOut, IInv, Holders, Owned
    <2>4. i \in 1..MaxTokens
      <3>1. Len(tokens) \in Nat /\ Len(tokens) <= MaxTokens /\ MaxTokens \in Nat
        BY LenProperties, SessionsAssumption DEF IInv, Types
      <3> QED
        BY <2>3, <3>1
    <2>5. KeyEnds(i) \in Nat /\ KeyEnds(i) >= 2 * tokens[i].exp - 1
      BY <2>2, <2>3, KeyLasts
    <2> QED
      BY <2>2, <2>3, <2>4, <2>5 DEF KeysLast
  <1>4. CASE revoked' = [i \in 1..MaxTokens |-> 0] /\ loggedOut' = {}
    BY <1>4 DEF KeysLast
  <1>5. \/ UNCHANGED <<revoked, loggedOut>>
        \/ revoked' = [i \in 1..MaxTokens |-> 0] /\ loggedOut' = {}
        \/ \E c \in Clients : LogOut(c) /\ up
    BY DEF Next, Served, Starting, Register, RegisterCommit, LogIn, Drop, LogOut, Arrive,
           CheckRevoked, LoadUser, LoadTarget, SetRole, CreatePolicy, Stop, Tick, GoDown,
           ComeUp, vars, redis
  <1> QED
    BY <1>2, <1>3, <1>4, <1>5

(* A request that is to ask Redis moves on only when it has, and not past  *)
(* a key that is there.                                                    *)
LEMMA PastRevocation ==
  ASSUME IInv, [Next]_vars, NEW c \in Clients, request[c].step = "revocation",
         request'[c].step = "load"
  PROVE  ~(up /\ revoked[request[c].token] > clock)
  <1>0. clock \in Nat /\ Idle.step # "load" /\ request \in [Clients -> Requests]
    BY SessionsAssumption DEF IInv, Types, Idle
  <1>1. request[c] # Idle /\ request'[c] # request[c] /\ request'[c] # Idle
    BY Forms
  <1>2. CASE CheckRevoked(c)
    BY <1>0, <1>1, <1>2 DEF CheckRevoked, Ends
  <1>3. CASE ~CheckRevoked(c)
    <2>1. ASSUME NEW d \in Clients, d # c, SetRole(d) PROVE FALSE
      <3>1. CASE Ends(d)
        BY <1>0, <1>1, <2>1, <3>1 DEF Ends
      <3>2. CASE request' = Noting(request[d].order.user, request[d].order.to, d)
        <4>1. \/ request'[c] = request[c]
              \/ request'[c] = [request[c] EXCEPT !.held = @ \cup {request[d].order.to}]
          BY <2>1, <3>2 DEF Noting
        <4>2. request[c] \in Asking
          BY Shapes DEF IInv, Asks
        <4>3. request'[c].step = request[c].step
          BY <4>1, <4>2 DEF Asking
        <4> QED
          BY <4>3
      <3> QED
        BY <2>1, <3>1, <3>2 DEF SetRole
    <2>2. ASSUME NEW d \in Clients, d # c, Served(d), ~SetRole(d) PROVE FALSE
      BY <1>0, <1>1, <2>2 DEF Served, Register, RegisterCommit, LogIn, Drop, LogOut, Arrive,
             CheckRevoked, LoadUser, LoadTarget, CreatePolicy, Ends, Goes
    <2>3. ~Served(c)
      BY <1>1, <1>3 DEF Served, Register, RegisterCommit, LogIn, Drop, LogOut, Arrive,
             LoadUser, LoadTarget, SetRole, CreatePolicy
    <2>4. ASSUME NEW w \in Workers, Stop(w) PROVE FALSE
      BY <1>1, <2>4 DEF Stop
    <2>5. ~UNCHANGED request
      BY <1>1
    <2> QED
      BY <2>1, <2>2, <2>3, <2>4, <2>5 DEF Next, Starting, Tick, GoDown, ComeUp, vars
  <1> QED
    BY <1>2, <1>3

(* A request with a revoked token gets no further than is_token_revoked(), *)
(* up to the last second of the token: the key that the logout wrote,      *)
(* though its life was rounded to whole seconds, has not ended by then, as *)
(* long as Redis answers and has kept its data (app/auth.py).              *)
THEOREM RevokedAreRefused == Spec => RevokedStaysRefused
  <1> DEFINE Change ==
        \A c \in Clients :
            /\ request[c].step = "revocation"
            /\ request[c].token \in loggedOut
            /\ up
            /\ clock <= 2 * tokens[request[c].token].exp - 2
            => request'[c].step # "load"
  <1>1. ASSUME IInv, KeysLast, [Next]_vars PROVE Change
    <2> SUFFICES ASSUME NEW c \in Clients, request[c].step = "revocation",
                        request[c].token \in loggedOut, up,
                        clock <= 2 * tokens[request[c].token].exp - 2,
                        request'[c].step = "load"
                 PROVE  FALSE
      OBVIOUS
    <2>1. PICK i \in 1..Len(tokens) : i = request[c].token /\ revoked[i] >= 2 * tokens[i].exp - 1
      BY <1>1 DEF KeysLast
    <2>2. tokens[i] \in [user : Users, role : Roles, exp : Nat]
      BY <1>1, ElementOfSeq DEF IInv, Types
    <2>3. i \in 1..MaxTokens
      <3>1. Len(tokens) \in Nat /\ Len(tokens) <= MaxTokens /\ MaxTokens \in Nat
        BY <1>1, LenProperties, SessionsAssumption DEF IInv, Types
      <3> QED
        BY <3>1
    <2>4. revoked[i] \in Nat /\ clock \in Nat /\ tokens[i].exp \in Nat
      BY <1>1, <2>2, <2>3, SessionsAssumption DEF KeysLast, IInv, Types
    <2>5. revoked[i] <= clock
      BY <1>1, <2>1, <2>4, PastRevocation
    <2> QED
      BY <2>1, <2>4, <2>5
  <1>2. IInv /\ KeysLast /\ [Next]_vars => [Change]_request
    BY <1>1
  <1>3. Init /\ [][Next]_vars => [](IInv /\ KeysLast)
    BY InitInvariant, StepInvariant, InitKeys, StepKeys, PTL
  <1> QED
    BY <1>2, <1>3, PTL DEF Spec, RevokedStaysRefused
================================================================================
