-------------------------------- MODULE JobStore --------------------------------
(***************************************************************************)
(* app/job_store.py: the record of one job, which its thread updates and   *)
(* clients poll.  The record is kept in Redis, shared by all workers, or,  *)
(* while Redis cannot be reached, in a dictionary of the worker.  Jobs do  *)
(* not interact, so one of them is enough.                                 *)
(*                                                                         *)
(* A record is the set of the updates merged into it; what is in it of the *)
(* latest one is the status.  Reading and writing a record are steps of    *)
(* their own: update_job() is a read-modify-write, and Redis may come and  *)
(* go between any two steps.                                               *)
(***************************************************************************)
EXTENDS Naturals

CONSTANTS
    Workers,
    Home,         \* the worker that took the upload, and runs the job
    Clients,      \* threads that serve GET /jobs/{job_id}, one poll at a time
    Nothing,      \* no record; no write
    MaxOutages    \* bound: how often Redis is lost

(* set_job() of the upload, and update_job() of each stage of the job: it  *)
(* is processing, the id of its circular, and completed or failed.         *)
Updates == {"queued", "processing", "ingested", "ended"}
Records == ((SUBSET Updates) \ {{}}) \cup {Nothing}

ASSUME JobStoreAssumption ==
    /\ Home \in Workers /\ MaxOutages \in Nat
    /\ \A record \in SUBSET Updates : Nothing # record
    /\ \A n \in 0..MaxOutages : Nothing # n

VARIABLES
    up,          \* Redis answers
    redis,       \* the record in Redis
    memory,      \* worker -> the record in its _fallback_jobs
    pc,          \* where the job's thread is
    doing,       \* the update it makes
    current,     \* the record it has read and merged
    at,          \* client -> where it is in get_job()
    asked,       \* client -> the worker that it asks
    reply,       \* client -> the record that it got
    (* history *)
    outages,     \* how often Redis was lost
    expired,     \* the record in Redis has outlived _JOB_TTL_SECONDS
    known,       \* updates that have returned, or that a client has seen
    expected,    \* client -> what was known when its poll began
    settled,     \* the value of outages when the end was written to Redis
    promised     \* client -> the value of settled when its poll began

store == <<up, redis, memory>>
job == <<pc, doing, current>>
clients == <<at, asked, reply, expected, promised>>
history == <<outages, expired, settled>>
vars == <<store, job, clients, history, known>>

TypeOK ==
    /\ up \in BOOLEAN /\ expired \in BOOLEAN
    /\ redis \in Records
    /\ memory \in [Workers -> Records]
    /\ pc \in {"new", "between", "read", "recall", "write", "keep", "over"}
    /\ doing \in Updates
    /\ current \in Records
    /\ at \in [Clients -> {"idle", "ask", "recall"}]
    /\ asked \in [Clients -> Workers]
    /\ reply \in [Clients -> Records]
    /\ outages \in 0..MaxOutages
    /\ known \subseteq Updates
    /\ expected \in [Clients -> SUBSET Updates]
    /\ settled \in (0..MaxOutages) \cup {Nothing}
    /\ promised \in [Clients -> (0..MaxOutages) \cup {Nothing}]

Init ==
    /\ up \in BOOLEAN
    /\ redis = Nothing
    /\ memory = [w \in Workers |-> Nothing]
    /\ pc = "new" /\ doing = "queued" /\ current = Nothing
    /\ at = [c \in Clients |-> "idle"]
    /\ asked = [c \in Clients |-> Home]
    /\ reply = [c \in Clients |-> Nothing]
    /\ outages = 0 /\ expired = FALSE
    /\ known = {} /\ expected = [c \in Clients |-> {}]
    /\ settled = Nothing
    /\ promised = [c \in Clients |-> Nothing]

--------------------------------------------------------------------------------

(* set_job() of the upload: nothing is read.                               *)
Submit ==
    /\ pc = "new"
    /\ current' = {"queued"}
    /\ pc' = "write"
    /\ UNCHANGED <<store, doing, clients, history, known>>

(* The updates of _process_circular_job, in their order.  A job that fails *)
(* may skip the circular's id.                                             *)
Follows(u) ==
    CASE u = "queued"     -> {"processing"}
      [] u = "processing" -> {"ingested", "ended"}
      [] OTHER            -> {"ended"}

Update ==
    /\ pc = "between"
    /\ doing' \in Follows(doing)
    /\ pc' = "read"
    /\ UNCHANGED <<store, current, clients, history, known>>

(* update_job() reads with get_job(): Redis, ...                           *)
Read ==
    /\ pc = "read"
    /\ IF up /\ redis # Nothing
       THEN current' = redis \cup {doing} /\ pc' = "write"
       ELSE pc' = "recall" /\ UNCHANGED current
    /\ UNCHANGED <<store, doing, clients, history, known>>

(* ... or the worker's dictionary, which then holds the very object that   *)
(* current.update(fields) changes, wherever it is written to next.         *)
Recall ==
    /\ pc = "recall"
    /\ IF memory[Home] = Nothing
       THEN current' = {doing} /\ UNCHANGED memory
       ELSE /\ current' = memory[Home] \cup {doing}
            /\ memory' = [memory EXCEPT ![Home] = current']
    /\ pc' = "write"
    /\ UNCHANGED <<up, redis, doing, clients, history, known>>

Done ==
    /\ pc' = IF doing = "ended" THEN "over" ELSE "between"
    /\ known' = known \cup {doing}

(* Mutant of Write: it does not replace a record that is there.            *)
WriteIfNew ==
    /\ pc = "write" /\ up
    /\ redis' = IF redis = Nothing THEN current ELSE redis
    /\ settled' = IF doing = "ended" THEN outages ELSE settled
    /\ Done
    /\ UNCHANGED <<up, memory, doing, current, clients, outages, expired>>

(* set_job(): setex, ...                                                   *)
Write ==
    /\ pc = "write" /\ up
    /\ redis' = current
    /\ settled' = IF doing = "ended" THEN outages ELSE settled
    /\ Done
    /\ UNCHANGED <<up, memory, doing, current, clients, outages, expired>>

(* ... which may fail before it has an effect, or after, ...               *)
WriteFails ==
    /\ pc = "write" /\ ~up
    /\ pc' = "keep"
    /\ UNCHANGED <<store, doing, current, clients, history, known>>

WriteCutOff ==
    /\ pc = "write" /\ up /\ outages < MaxOutages
    /\ redis' = current
    /\ up' = FALSE
    /\ outages' = outages + 1
    /\ pc' = "keep"
    /\ UNCHANGED <<memory, doing, current, clients, expired, settled, known>>

(* ... and then the dictionary.                                            *)
Keep ==
    /\ pc = "keep"
    /\ memory' = [memory EXCEPT ![Home] = current]
    /\ Done
    /\ UNCHANGED <<up, redis, doing, current, clients, history>>

--------------------------------------------------------------------------------

(* GET /jobs/{job_id}, at any worker: get_job().                           *)
Poll(c, w) ==
    /\ at[c] = "idle"
    /\ at' = [at EXCEPT ![c] = "ask"]
    /\ asked' = [asked EXCEPT ![c] = w]
    /\ expected' = [expected EXCEPT ![c] = known]
    /\ promised' = [promised EXCEPT ![c] = settled]
    /\ UNCHANGED <<store, job, reply, history, known>>

Answer(c, record) ==
    /\ reply' = [reply EXCEPT ![c] = record]
    /\ known' = known \cup (IF record = Nothing THEN {} ELSE record)
    /\ at' = [at EXCEPT ![c] = "idle"]

(* Mutant of Ask: the dictionary is asked first.                           *)
AskMemoryFirst(c) ==
    /\ at[c] = "ask"
    /\ \/ memory[asked[c]] # Nothing /\ Answer(c, memory[asked[c]])
       \/ memory[asked[c]] = Nothing /\ up /\ redis # Nothing /\ Answer(c, redis)
       \/ /\ memory[asked[c]] = Nothing /\ ~(up /\ redis # Nothing)
          /\ at' = [at EXCEPT ![c] = "recall"]
          /\ UNCHANGED <<reply, known>>
    /\ UNCHANGED <<store, job, asked, expected, promised, history>>

Ask(c) ==
    /\ at[c] = "ask"
    /\ IF up /\ redis # Nothing
       THEN Answer(c, redis)
       ELSE at' = [at EXCEPT ![c] = "recall"] /\ UNCHANGED <<reply, known>>
    /\ UNCHANGED <<store, job, asked, expected, promised, history>>

(* No record in the end is the answer 404, "Job not found".                *)
AskMemory(c) ==
    /\ at[c] = "recall"
    /\ Answer(c, memory[asked[c]])
    /\ UNCHANGED <<store, job, asked, expected, promised, history>>

--------------------------------------------------------------------------------

(* Redis, or the way to it, fails and comes back; as a new Redis, it may   *)
(* have lost the record.                                                   *)
GoDown ==
    /\ up /\ outages < MaxOutages
    /\ up' = FALSE
    /\ outages' = outages + 1
    /\ UNCHANGED <<redis, memory, job, clients, expired, settled, known>>

ComeUp ==
    /\ ~up
    /\ up' = TRUE
    /\ redis' \in {redis, Nothing}
    /\ UNCHANGED <<memory, job, clients, history, known>>

(* The time to live is long: it runs out when the job is over.             *)
Expire ==
    /\ pc = "over" /\ redis # Nothing
    /\ redis' = Nothing
    /\ expired' = TRUE
    /\ UNCHANGED <<up, memory, job, clients, outages, settled, known>>

Next ==
    \/ Submit \/ Update \/ Read \/ Recall \/ Write \/ WriteFails \/ WriteCutOff
    \/ Keep
    \/ \E c \in Clients :
        (\E w \in Workers : Poll(c, w)) \/ Ask(c) \/ AskMemory(c)
    \/ GoDown \/ ComeUp \/ Expire

Spec == Init /\ [][Next]_vars

--------------------------------------------------------------------------------

Got(c) == IF reply[c] = Nothing THEN {} ELSE reply[c]
Answered(c) == at[c] = "idle"

(* The record behaves like one register as long as Redis, once it answers, *)
(* is not lost: a poll of the job's own worker sees every update that has  *)
(* returned or has been seen before the poll began, though Redis may have  *)
(* been out of reach when the job was created and the record moves from    *)
(* the dictionary to Redis later.  A poll of any worker does, if no record *)
(* ever went to a dictionary.                                              *)
NeverKept == \A w \in Workers : memory[w] = Nothing
ReadsAreFresh ==
    outages = 0 /\ ~expired =>
        \A c \in Clients : Answered(c) /\ (asked[c] = Home \/ NeverKept) =>
            expected[c] \subseteq Got(c)

(* Whatever Redis did before: once it has taken the last update, every     *)
(* worker reports that the job has ended, until Redis is lost again.       *)
EndIsSeen ==
    ~expired => \A c \in Clients :
        Answered(c) /\ promised[c] = outages => "ended" \in Got(c)
================================================================================
