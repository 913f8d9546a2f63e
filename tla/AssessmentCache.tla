---------------------------- MODULE AssessmentCache ----------------------------
(***************************************************************************)
(* app/cache.py around assess_impact() of app/reasoning/impact_reasoner.py: *)
(* answers are kept in Redis, and in the dictionary of the process while   *)
(* Redis cannot be reached. The callers are jobs of the server, which give *)
(* the LLM examples of reviews, and the evaluation script, which clears    *)
(* the cache first. The reviews that go on meanwhile are those of Feedback. *)
(*                                                                         *)
(* A result is represented by what it was made from: the text, the policy, *)
(* the prompt version, the rows that were its examples; and, for the       *)
(* script, by the run of the script that made it.                          *)
(***************************************************************************)
EXTENDS Feedback, Functions

CONSTANTS
    Jobs,         \* threads of the server that assess clauses
    Script,       \* eval/evaluate.py, a process of its own
    Asked,        \* the clauses and policies that are asked about
    Versions,     \* settings.prompt_version, 1 at first, changed by a restart
    MaxSize,      \* _CACHE_MAX_SIZE
    MaxAsked, MaxRuns, MaxOutages, MaxRestarts   \* bounds

ASSUME CacheAssumption ==
    /\ Script \notin Jobs
    /\ \A ask \in Asked : ask.policy \in {PolicyOf[a] : a \in Rows}
    /\ Versions \subseteq Nat \ {0} /\ 1 \in Versions
    /\ MaxSize \in Nat \ {0}
    /\ MaxAsked \in Nat /\ MaxRuns \in Nat /\ MaxOutages \in Nat /\ MaxRestarts \in Nat

Callers == Jobs \cup {Script}
Processes == {"server", "evaluation"}
ProcessOf(c) == IF c = Script THEN "evaluation" ELSE "server"

NoExamples == [positive |-> {}, negative |-> {}]
NoExtra == <<>>             \* cache_key_extra's default, not a signature
EvalVersion == 0            \* the script's prompt_version

VARIABLES
    redisUp, redis,   \* can be reached; key -> result
    memory,           \* process -> its _fallback_cache, oldest first
    version,          \* the server's prompt version
    calls,            \* caller -> its call, or Idle
    run, forgot,      \* the script's runs; whether its last clear reached Redis
    asked, outages, restarts

cache == <<redisUp, redis, memory, version, calls, run, forgot, asked, outages, restarts>>
vars == <<feedback, cache>>

(* Mutant of KeyOf: without cache_key_extra.                               *)
KeyWithoutExtra(ask, ver, extra) == <<ask, ver, NoExtra>>

(* _make_key(): of the clause's text, the policy's id, the version and     *)
(* cache_key_extra. Distinct texts have distinct hashes.                   *)
KeyOf(ask, ver, extra) == <<ask, ver, extra>>

AtMost(n) == {rows \in SUBSET Rows : Cardinality(rows) <= n}
ExampleSets == [positive : AtMost(MaxPositive), negative : AtMost(MaxNegative)]
AllVersions == Versions \cup {EvalVersion}
Keys == {KeyOf(ask, ver, extra) : ask \in Asked, ver \in AllVersions,
            extra \in {Signature(e) : e \in ExampleSets} \cup {NoExtra}}

Results == [ask : Asked, version : AllVersions, examples : ExampleSets, run : 0..MaxRuns]
Entries == [key : Keys, result : Results]

(* A call learns its examples, looks up its key, and has an answer that it *)
(* stores and returns.                                                     *)
Learning == [at : {"negative"}, ask : Asked, positive : AtMost(MaxPositive)]
Looking == [at : {"redis", "memory", "compute"}, ask : Asked, version : AllVersions,
            examples : ExampleSets, key : Keys]
Answering == [at : {"store", "keep", "served"}, ask : Asked, version : AllVersions,
              examples : ExampleSets, key : Keys, result : Results]
Clearing == [at : {"delete"}, keys : SUBSET Keys] \cup [at : {"forget", "cleared"}]

(* The state's type; the dictionary has at most MaxSize entries, of as     *)
(* many keys.                                                              *)
TypeOK ==
    /\ FeedbackTypeOK
    /\ redisUp \in BOOLEAN /\ forgot \in BOOLEAN
    /\ DOMAIN redis \subseteq Keys /\ redis \in [DOMAIN redis -> Results]
    /\ memory \in [Processes -> Seq(Entries)]
    /\ \A p \in Processes :
        /\ Len(memory[p]) <= MaxSize
        /\ \A i, k \in DOMAIN memory[p] : memory[p][i].key = memory[p][k].key => i = k
    /\ version \in Versions
    /\ calls \in [Callers -> Learning \cup Looking \cup Answering \cup Clearing \cup {Idle}]
    /\ run \in 0..MaxRuns
    /\ asked \in 0..MaxAsked /\ outages \in 0..MaxOutages /\ restarts \in 0..MaxRestarts

Init ==
    /\ FeedbackInit
    /\ redisUp \in BOOLEAN
    /\ redis = <<>>
    /\ memory = [p \in Processes |-> <<>>]
    /\ version = 1
    /\ calls = [c \in Callers |-> Idle]
    /\ run = 0 /\ forgot = FALSE
    /\ asked = 0 /\ outages = 0 /\ restarts = 0

--------------------------------------------------------------------------------

At(c, where) == calls[c] # Idle /\ calls[c].at = where
Free(c) == calls[c] = Idle \/ At(c, "served")
Go(c, where) == calls' = [calls EXCEPT ![c].at = where]
Answer(c, where, result) ==
    calls' = [calls EXCEPT ![c] = [at |-> where, ask |-> @.ask, version |-> @.version,
        examples |-> @.examples, key |-> @.key, result |-> result]]
Return(c, result) == Answer(c, "served", result)
Uncounted == UNCHANGED <<asked, outages, restarts>>

(* The lookup starts, with everything that the call and its key are made   *)
(* from.                                                                   *)
Lookup(c, ask, ver, examples, extra) ==
    calls' = [calls EXCEPT ![c] = [at |-> "redis", ask |-> ask, version |-> ver,
        examples |-> examples, key |-> KeyOf(ask, ver, extra)]]

(* run_impact_assessment() asks for the policy's examples: two queries,    *)
(* between which a review may be committed.                                *)
QueryConfirmed(c) ==
    /\ c \in Jobs /\ Free(c) /\ asked < MaxAsked
    /\ \E ask \in Asked :
        calls' = [calls EXCEPT ![c] = [at |-> "negative", ask |-> ask,
            positive |-> Newest(ask.policy, "confirmed", MaxPositive)]]
    /\ asked' = asked + 1
    /\ UNCHANGED <<feedback, redisUp, redis, memory, version, run, forgot,
                   outages, restarts>>

QueryRejected(c) ==
    /\ At(c, "negative")
    /\ LET examples == [positive |-> calls[c].positive,
               negative |-> Newest(calls[c].ask.policy, "rejected", MaxNegative)]
       IN  Lookup(c, calls[c].ask, version, examples, Signature(examples))
    /\ Uncounted /\ UNCHANGED <<feedback, redisUp, redis, memory, version, run, forgot>>

(* A case of run_evaluation(), once it has cleared the cache: without      *)
(* examples, under a version of its own.                                   *)
Evaluate ==
    /\ At(Script, "cleared") \/ At(Script, "served")
    /\ asked < MaxAsked
    /\ \E ask \in Asked : Lookup(Script, ask, EvalVersion, NoExamples, NoExtra)
    /\ asked' = asked + 1
    /\ UNCHANGED <<feedback, redisUp, redis, memory, version, run, forgot,
                   outages, restarts>>

(* _redis_get(): a hit is returned, None and an error go on to memory.     *)
GetRedis(c) ==
    /\ At(c, "redis")
    /\ IF redisUp /\ calls[c].key \in DOMAIN redis
       THEN Return(c, redis[calls[c].key])
       ELSE Go(c, "memory")
    /\ Uncounted
    /\ UNCHANGED <<feedback, redisUp, redis, memory, version, run, forgot>>

(* The dictionary has an entry for each key.                               *)
IsKept(entries, key) == \E i \in DOMAIN entries : entries[i].key = key
PlaceOf(entries, key) == CHOOSE i \in DOMAIN entries : entries[i].key = key
Without(entries, key) ==
    IF IsKept(entries, key) THEN RemoveAt(entries, PlaceOf(entries, key)) ELSE entries

(* _fallback_get(): a hit becomes the most recent entry.                   *)
GetMemory(c) ==
    /\ At(c, "memory")
    /\ LET p == ProcessOf(c)
           key == calls[c].key
           hit == memory[p][PlaceOf(memory[p], key)]
       IN  IF IsKept(memory[p], key)
           THEN /\ Return(c, hit.result)
                /\ memory' = [memory EXCEPT ![p] = Append(Without(@, key), hit)]
           ELSE Go(c, "compute") /\ UNCHANGED memory
    /\ Uncounted /\ UNCHANGED <<feedback, redisUp, redis, version, run, forgot>>

(* assess_impact(), under no lock, for seconds: it returns the answer of   *)
(* the LLM or of the fallback; or raises, and the job ends, as does the    *)
(* script's process (Restart).                                             *)
Compute(c) ==
    /\ At(c, "compute")
    /\ LET made == [ask |-> calls[c].ask, version |-> calls[c].version,
                    examples |-> calls[c].examples, run |-> IF c = Script THEN run ELSE 0]
       IN  \/ Answer(c, "store", made)
           \/ c \in Jobs /\ calls' = [calls EXCEPT ![c] = Idle]
    /\ Uncounted
    /\ UNCHANGED <<feedback, redisUp, redis, memory, version, run, forgot>>

(* _redis_set(): the write arrives and is answered; or arrives, and the    *)
(* connection is lost before the answer; or Redis cannot be reached.       *)
SetRedis(c) ==
    /\ At(c, "store")
    /\ LET key == calls[c].key
           written == [k \in DOMAIN redis \cup {key} |->
                        IF k = key THEN calls[c].result ELSE redis[k]] IN
        \/ /\ redisUp
           /\ redis' = written
           /\ Return(c, calls[c].result)
           /\ UNCHANGED <<redisUp, outages>>
        \/ /\ redisUp /\ outages < MaxOutages
           /\ redis' = written
           /\ redisUp' = FALSE /\ outages' = outages + 1
           /\ Go(c, "keep")
        \/ /\ ~redisUp
           /\ Go(c, "keep")
           /\ UNCHANGED <<redisUp, redis, outages>>
    /\ UNCHANGED <<feedback, memory, version, run, forgot, asked, restarts>>

(* Mutant of Evicted: one entry too many is kept.                          *)
EvictedTooLate(entries) ==
    IF Len(entries) > MaxSize + 1 THEN Tail(entries) ELSE entries

(* popitem(last=False), once the size is exceeded.                         *)
Evicted(entries) == IF Len(entries) > MaxSize THEN Tail(entries) ELSE entries

(* _fallback_set().                                                        *)
Keep(c) ==
    /\ At(c, "keep")
    /\ LET p == ProcessOf(c)
           entry == [key |-> calls[c].key, result |-> calls[c].result]
       IN  memory' = [memory EXCEPT ![p] = Evicted(Append(Without(@, calls[c].key), entry))]
    /\ Return(c, calls[c].result)
    /\ Uncounted /\ UNCHANGED <<feedback, redisUp, redis, version, run, forgot>>

--------------------------------------------------------------------------------

(* clear_cache(), which a run of the script begins with: it lists the keys *)
(* in Redis, deletes them, and empties the dictionary of its own process.  *)
(* Redis may go away at each of the two, and is then passed over.          *)
ClearScan ==
    /\ Free(Script) \/ At(Script, "cleared")
    /\ run < MaxRuns
    /\ calls' = [calls EXCEPT ![Script] =
            IF redisUp /\ DOMAIN redis # {}
            THEN [at |-> "delete", keys |-> DOMAIN redis] ELSE [at |-> "forget"]]
    /\ run' = run + 1
    /\ forgot' = (redisUp /\ DOMAIN redis = {})
    /\ UNCHANGED <<feedback, redisUp, redis, memory, version, asked,
                   outages, restarts>>

(* Mutant of ClearDelete: the keys are deleted without their prefix, which *)
(* deletes nothing.                                                        *)
ClearDeleteNothing ==
    /\ At(Script, "delete")
    /\ forgot' = redisUp
    /\ calls' = [calls EXCEPT ![Script] = [at |-> "forget"]]
    /\ Uncounted /\ UNCHANGED <<feedback, redisUp, redis, memory, version, run>>

ClearDelete ==
    /\ At(Script, "delete")
    /\ redis' = IF redisUp THEN Restrict(redis, DOMAIN redis \ calls[Script].keys) ELSE redis
    /\ forgot' = redisUp
    /\ calls' = [calls EXCEPT ![Script] = [at |-> "forget"]]
    /\ Uncounted /\ UNCHANGED <<feedback, redisUp, memory, version, run>>

ClearMemory ==
    /\ At(Script, "forget")
    /\ memory' = [memory EXCEPT !["evaluation"] = <<>>]
    /\ calls' = [calls EXCEPT ![Script] = [at |-> "cleared"]]
    /\ Uncounted
    /\ UNCHANGED <<feedback, redisUp, redis, version, run, forgot>>

--------------------------------------------------------------------------------

GoDown ==
    /\ redisUp /\ outages < MaxOutages
    /\ redisUp' = FALSE
    /\ outages' = outages + 1
    /\ UNCHANGED <<feedback, redis, memory, version, calls, run, forgot, asked, restarts>>

(* Redis is back, with its data or without.                                *)
ComeUp ==
    /\ ~redisUp
    /\ redisUp' = TRUE
    /\ redis' \in {redis, <<>>}
    /\ Uncounted /\ UNCHANGED <<feedback, memory, version, calls, run, forgot>>

(* _CACHE_TTL_SECONDS after the write; the dictionary has no such limit.   *)
Expire ==
    /\ \E key \in DOMAIN redis : redis' = Restrict(redis, DOMAIN redis \ {key})
    /\ Uncounted
    /\ UNCHANGED <<feedback, redisUp, memory, version, calls, run, forgot>>

(* A process ends, with its calls and its dictionary; the server may come  *)
(* back with another prompt version, the script must clear again.          *)
Restart(p) ==
    /\ restarts < MaxRestarts
    /\ restarts' = restarts + 1
    /\ memory' = [memory EXCEPT ![p] = <<>>]
    /\ calls' = [c \in Callers |-> IF ProcessOf(c) = p THEN Idle ELSE calls[c]]
    /\ IF p = "server" THEN version' \in Versions ELSE UNCHANGED version
    /\ UNCHANGED <<feedback, redisUp, redis, run, forgot, asked, outages>>

Call(c) ==
    \/ QueryConfirmed(c) \/ QueryRejected(c) \/ GetRedis(c) \/ GetMemory(c)
    \/ Compute(c) \/ SetRedis(c) \/ Keep(c)

Next ==
    \/ \E c \in Callers : Call(c)
    \/ Evaluate \/ ClearScan \/ ClearDelete \/ ClearMemory
    \/ Review /\ UNCHANGED cache
    \/ GoDown \/ ComeUp \/ Expire
    \/ \E p \in Processes : Restart(p)

Spec == Init /\ [][Next]_vars

--------------------------------------------------------------------------------

(* Whichever store answers, and whoever filled it: the answer was made for *)
(* the clause, the policy and the prompt version that the caller asked     *)
(* about, and under examples of the same clauses. A review that changes    *)
(* these is never answered by what was thought before it.                  *)
ServedFits ==
    \A c \in Callers : At(c, "served") =>
        /\ calls[c].result.ask = calls[c].ask
        /\ calls[c].result.version = calls[c].version
        /\ Signature(calls[c].result.examples) = Signature(calls[c].examples)

(* evaluate.py:25: a run of the evaluation whose clear reached Redis is    *)
(* not answered by a run before, though the server's answers come and go   *)
(* in the same Redis, and Redis itself, while it clears and evaluates.     *)
FreshlyAssessed ==
    At(Script, "served") /\ forgot => calls[Script].result.run = run
================================================================================
