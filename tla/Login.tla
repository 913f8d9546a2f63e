--------------------------------- MODULE Login ---------------------------------
(***************************************************************************)
(* POST /auth/login of app/api/auth_routes.py: requests served by several  *)
(* threads of one worker, each of which asks the rate limiter of           *)
(* app/rate_limiter.py up to three times, and takes its time to verify a   *)
(* password in between.  The limit of failures is looked at before the     *)
(* password is verified and charged after it, by calls of their own.       *)
(*                                                                         *)
(* The limiter is what SlidingWindow promises.  A window is the list of    *)
(* the charges that still count, oldest first, each as the time for which  *)
(* it will: the clock needs no end.  A key of the lockout is an email in   *)
(* lower case; whether a password is right is left open.                   *)
(***************************************************************************)
EXTENDS Naturals, Sequences, FiniteSets

CONSTANTS
    Threads,
    Ips,           \* clients' addresses
    Emails,        \* lower-case emails
    MaxAttempts,   \* LOGIN_MAX_ATTEMPTS
    LoginWindow,   \* LOGIN_WINDOW_SECONDS
    MaxFailures,   \* LOCKOUT_MAX_FAILURES
    LockoutWindow  \* LOCKOUT_WINDOW_SECONDS

ASSUME LoginAssumption ==
    /\ IsFiniteSet(Threads) /\ IsFiniteSet(Ips)
    /\ MaxAttempts \in Nat \ {0} /\ LoginWindow \in Nat \ {0}
    /\ MaxFailures \in Nat \ {0} /\ LockoutWindow \in Nat \ {0}

VARIABLES
    backend,    \* _backend has been made
    attempts,   \* ip -> window of its attempts
    failures,   \* email -> window of the failures against it
    pc,         \* thread -> where its request is
    email,      \* thread -> the email that its request is about
    (* history *)
    limiters,   \* how many limiters the worker has made
    forgotten   \* email -> what would still count of the failures against it
                \* that went with a limiter, since its last successful login

history == <<limiters, forgotten>>
loginVars == <<backend, attempts, failures, pc, email, history>>

LoginTypeOK ==
    /\ backend \in BOOLEAN
    /\ attempts \in [Ips -> Seq(1..LoginWindow)]
    /\ failures \in [Emails -> Seq(1..LockoutWindow)]
    /\ pc \in [Threads -> {"idle", "building", "check", "peek", "verify",
                           "failing", "clearing"}]
    /\ email \in [Threads -> Emails]
    /\ \A ip \in Ips : Len(attempts[ip]) <= MaxAttempts
    /\ limiters \in Nat
    /\ forgotten \in [Emails -> Seq(1..LockoutWindow)]

NoCharges ==
    /\ attempts' = [ip \in Ips |-> <<>>]
    /\ failures' = [e \in Emails |-> <<>>]

LoginInit ==
    /\ backend = FALSE
    /\ attempts = [ip \in Ips |-> <<>>]
    /\ failures = [e \in Emails |-> <<>>]
    /\ pc = [t \in Threads |-> "idle"]
    /\ email \in [Threads -> Emails]
    /\ limiters = 0
    /\ forgotten = [e \in Emails |-> <<>>]

--------------------------------------------------------------------------------

Step(t, from, to) == pc[t] = from /\ pc' = [pc EXCEPT ![t] = to]

(* A request comes in, and get_rate_limiter() finds a limiter or none.     *)
Request(t) ==
    /\ Step(t, "idle", IF backend THEN "check" ELSE "building")
    /\ \E e \in Emails : email' = [email EXCEPT ![t] = e]
    /\ UNCHANGED <<backend, attempts, failures, history>>

(* It found none and makes one, in place of any that was made meanwhile.   *)
Build(t) ==
    /\ Step(t, "building", "check")
    /\ backend' = TRUE
    /\ NoCharges
    /\ limiters' = limiters + 1
    /\ forgotten' = [e \in Emails |-> forgotten[e] \o failures[e]]
    /\ UNCHANGED email

(* Mutant of Check: the attempt is not charged.                            *)
CheckUncharged(t, ip) ==
    /\ \/ Step(t, "check", "peek") /\ Len(attempts[ip]) < MaxAttempts
       \/ Step(t, "check", "idle") /\ Len(attempts[ip]) >= MaxAttempts
    /\ UNCHANGED <<backend, attempts, failures, email, history>>

(* Mutant of Check: > for >=.                                              *)
CheckTooLate(t, ip) ==
    /\ \/ /\ Len(attempts[ip]) <= MaxAttempts
          /\ Step(t, "check", "peek")
          /\ attempts' = [attempts EXCEPT ![ip] = Append(@, LoginWindow)]
       \/ /\ Len(attempts[ip]) > MaxAttempts
          /\ Step(t, "check", "idle")
          /\ UNCHANGED attempts
    /\ UNCHANGED <<backend, failures, email, history>>

(* check(): the attempt is charged to the client's address, or refused.    *)
Check(t, ip) ==
    /\ \/ /\ Len(attempts[ip]) < MaxAttempts
          /\ Step(t, "check", "peek")
          /\ attempts' = [attempts EXCEPT ![ip] = Append(@, LoginWindow)]
       \/ /\ Len(attempts[ip]) >= MaxAttempts
          /\ Step(t, "check", "idle")
          /\ UNCHANGED attempts
    /\ UNCHANGED <<backend, failures, email, history>>

Locked(e) == Len(failures[e]) >= MaxFailures

(* Mutant of Peek: a refused request starts the lockout anew.              *)
PeekRestarts(t) ==
    /\ IF Locked(email[t])
       THEN /\ Step(t, "peek", "idle")
            /\ failures' = [failures EXCEPT ![email[t]] =
                                [i \in DOMAIN @ |-> LockoutWindow]]
       ELSE Step(t, "peek", "verify") /\ UNCHANGED failures
    /\ UNCHANGED <<backend, attempts, email, history>>

(* Mutant of Peek: the lock holds back only what is above the limit.       *)
PeekTooLate(t) ==
    /\ Step(t, "peek", IF Len(failures[email[t]]) > MaxFailures
                       THEN "idle" ELSE "verify")
    /\ UNCHANGED <<backend, attempts, failures, email, history>>

(* peek(): a locked account is refused, and not charged for it.            *)
Peek(t) ==
    /\ Step(t, "peek", IF Locked(email[t]) THEN "idle" ELSE "verify")
    /\ UNCHANGED <<backend, attempts, failures, email, history>>

(* The account is looked up and the password verified.                     *)
Verify(t) ==
    /\ Step(t, "verify", "clearing") \/ Step(t, "verify", "failing")
    /\ UNCHANGED <<backend, attempts, failures, email, history>>

(* record_failure(), and the answer 401.                                   *)
RecordFailure(t) ==
    /\ Step(t, "failing", "idle")
    /\ failures' = [failures EXCEPT ![email[t]] = Append(@, LockoutWindow)]
    /\ UNCHANGED <<backend, attempts, email, history>>

(* clear(), and the answer with a token.                                   *)
Clear(t) ==
    /\ Step(t, "clearing", "idle")
    /\ failures' = [failures EXCEPT ![email[t]] = <<>>]
    /\ forgotten' = [forgotten EXCEPT ![email[t]] = <<>>]
    /\ UNCHANGED <<backend, attempts, email, limiters>>

(* The charges that still count a unit of time later.                      *)
Ending(window) == Cardinality({i \in 1..Len(window) : window[i] = 1})

Aged(window) ==
    [i \in 1..(Len(window) - Ending(window)) |-> window[i + Ending(window)] - 1]

LoginTick ==
    /\ attempts' = [ip \in Ips |-> Aged(attempts[ip])]
    /\ failures' = [e \in Emails |-> Aged(failures[e])]
    /\ forgotten' = [e \in Emails |-> Aged(forgotten[e])]
    /\ UNCHANGED <<backend, pc, email, limiters>>

(* The limiter lives in the memory of the worker.                          *)
Restart ==
    /\ backend' = FALSE
    /\ NoCharges
    /\ pc' = [t \in Threads |-> "idle"]
    /\ limiters' = 0
    /\ forgotten' = [e \in Emails |-> <<>>]
    /\ UNCHANGED email

Serve(t) ==
    \/ Request(t) \/ Build(t) \/ Peek(t) \/ Verify(t)
    \/ RecordFailure(t) \/ Clear(t)
    \/ \E ip \in Ips : Check(t, ip)

LoginNext == LoginTick \/ Restart \/ \E t \in Threads : Serve(t)

(* Time passes, whatever the requests do.                                  *)
LoginSpec == LoginInit /\ [][LoginNext]_loginVars /\ WF_loginVars(LoginTick)

--------------------------------------------------------------------------------

(* Requests that have passed the lock and may yet fail.                    *)
Guessing(e) ==
    {t \in Threads : email[t] = e /\ pc[t] \in {"verify", "failing", "clearing"}}

(* The lock is looked at before the password is verified, and the failure  *)
(* charged after it; and first requests that race make a limiter each, of  *)
(* which every one but the last is lost with its charges.  Still, while a  *)
(* worker runs and nobody logs in to the account, the guesses made against *)
(* it within a period, counted or lost, and those under way are at most    *)
(* one less than the limit of auth_routes.py:21 and one for every thread,  *)
(* for each of the limiters; and of these there is one for each thread at  *)
(* most.                                                                   *)
GuessBound ==
    /\ limiters <= Cardinality(Threads)
    /\ \A e \in Emails :
        Len(forgotten[e]) + Len(failures[e]) + Cardinality(Guessing(e))
            <= limiters * (MaxFailures - 1 + Cardinality(Threads))

(* Sum of the failures that count against any email.                       *)
AllFailures == UNION {{e} \X (1..Len(failures[e])) : e \in Emails}

(* Whichever emails are tried, the failures that count at a time are no    *)
(* more than the attempts granted to all addresses in a window, and those  *)
(* under way when the window began.                                        *)
SprayBound ==
    LoginWindow >= LockoutWindow =>
        Cardinality(AllFailures)
            <= Cardinality(Ips) * MaxAttempts + Cardinality(Threads)

(* "Temporarily locked" (auth_routes.py:47): the lock is lifted, even if   *)
(* requests for the account keep coming in while it is locked.             *)
LockEnds == \A e \in Emails : Locked(e) ~> ~Locked(e)
================================================================================
