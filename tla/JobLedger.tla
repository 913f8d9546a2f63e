------------------------------- MODULE JobLedger -------------------------------
(***************************************************************************)
(* What the background jobs promise to those who upload circulars and read *)
(* assessments, without transactions, indexes, LLM calls or crashes: a job *)
(* publishes all the assessments it makes in one step, while it is         *)
(* processing; it then says how many they are; and a job that failed has   *)
(* published nothing and never will.                                       *)
(***************************************************************************)
EXTENDS Naturals, FiniteSets

CONSTANT Jobs

VARIABLES status,       \* job -> what GET /jobs/{id} says
          impactsFound, \* job -> how many assessments it says it made
          rows          \* job -> its assessments that others can read

ledger == <<status, impactsFound, rows>>

Init ==
    /\ status = [j \in Jobs |-> "none"]
    /\ impactsFound = [j \in Jobs |-> 0]
    /\ rows = [j \in Jobs |-> {}]

Turn(j, from, to) ==
    /\ status[j] = from
    /\ status' = [status EXCEPT ![j] = to]

Accept(j) == Turn(j, "none", "queued") /\ UNCHANGED <<impactsFound, rows>>

Begin(j) == Turn(j, "queued", "processing") /\ UNCHANGED <<impactsFound, rows>>

(* All of a job's assessments, of which there may be any, at once.         *)
Publish(j) ==
    /\ status[j] = "processing" /\ rows[j] = {}
    /\ rows' = [rows EXCEPT ![j] = rows'[j]]
    /\ UNCHANGED <<status, impactsFound>>

Complete(j) ==
    /\ Turn(j, "processing", "completed")
    /\ impactsFound' = [impactsFound EXCEPT ![j] = Cardinality(rows[j])]
    /\ UNCHANGED rows

Fail(j) ==
    /\ rows[j] = {}
    /\ Turn(j, "processing", "failed")
    /\ UNCHANGED <<impactsFound, rows>>

Next ==
    \E j \in Jobs : Accept(j) \/ Begin(j) \/ Publish(j) \/ Complete(j) \/ Fail(j)

Spec == Init /\ [][Next]_ledger
================================================================================
