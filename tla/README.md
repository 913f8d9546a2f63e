# RegWatch: models, checks and proofs

RegWatch ingests regulatory circulars, splits them into chunks, indexes the
chunks, finds for every internal policy the clauses that affect it, has an LLM
assess and a second LLM call verify each finding, alerts subscribers, and keeps
the assessments for human review. It is a FastAPI program with synchronous
handlers: requests and background jobs run in one thread pool and share a
database, two search indexes, an LLM client with a circuit breaker, a rate
limiter, a job store and a cache. Most of what can go wrong is in the order in
which those threads touch what they share, and in what a failure or a crash
leaves behind. This directory models that in TLA+, checks it with TLC, and
proves the safety properties of its finished parts with TLAPS.

All paths below are relative to `src/app/` unless they say otherwise. The
modules follow Python 3.11 as the repository's Dockerfile fixes it.

## The system and its parts

| component | state | operations | what makes it correct | hard because |
|---|---|---|---|---|
| **Rate limiter** `rate_limiter.py` | one deque of timestamps per key, one lock | `check`, `peek`, `record_failure`, `clear`, `wait_and_check` | at most N grants in any window; pruning never changes an answer | two clock readings per operation, boundary of a period |
| **LLM client** `reasoning/llm_client.py` | `failure_count`, `opened_at` of a breaker without a lock | `is_open`, `record_success`, `record_failure`, `_call_llm` with retries, `call_llm_json` | a trip is never lost, an open breaker lets nobody through, every call returns, only `LLMUnavailableError` comes out | threads switch between a test and its use; success and failure of one call; late answers |
| **Pipeline and jobs** `pipeline.py`, `api/routes.py` | per job: status, session, progress; shared: tables, write lock, indexes | upload, then ingest, link, diff, retrieve, assess, verify, commit, report | reports, citations, index and database agree; every job ends | failure at any step, two commits, one writer, crash, competition in the index |
| **FAISS store** `vectorstore/faiss_store.py` | index, id map, lock, two files, a lazy singleton | `add`, `search`, `_persist`, load, `get_faiss_store` | positions resolve to the right chunk ids; nothing stored is lost | id map read outside the lock, two files written in place, unlocked singleton |
| **BM25 store** `vectorstore/bm25_store.py` | corpus, ids, index object, in memory only, a lazy singleton | `add`, `search`, `get_bm25_store` | as above | references read under the lock, used after it; empty after a restart; unlocked singleton |
| **Hybrid retrieval, reranker** `vectorstore/hybrid_retriever.py`, `reranker.py` | none | reciprocal rank fusion, cut, rerank | the fused order | cut before the filter by circular |
| **Amendments** `amendment/*.py` | `supersedes_id`, circular status, diff summary | link, diff, chain, graph | links form a history | concurrent uploads link each other |
| **Reasoner, verifier, extractor** `reasoning/impact_reasoner.py`, `verifier.py`, `ingestion/structured_extractor.py` | none | LLM call, else fallback | fallbacks reach a reviewer | malformed answers raise |
| **Alerts** `alerts.py` | none | send on urgent severity | alerts are about real rows | sent before the commit |
| **Job store** `job_store.py`, `redis_client.py` | Redis or a dictionary | `set_job`, `update_job`, `get_job` | a client sees the latest status | Redis comes and goes |
| **Cache** `cache.py` | Redis or a dictionary, TTL, eviction | decorator, `clear_cache` | what is served was made for what is asked | two stores, two processes, outages between any two calls |
| **Feedback and review** `reasoning/feedback.py`, `review_impact` | review status and note of each row | few-shot examples, signature, review | the signature separates what differs | two queries, sessions that write only changed columns |
| **Authentication** `auth.py`, `api/auth_routes.py` | users' roles, tokens, revoked tokens, lockouts | register, login, logout, `require_role`, role changes | only admins change roles; revoked stays revoked; lockout bounds guesses | peek, check, record, load and commit in separate steps |
| **Startup, seeding** `main.py`, `scripts/seed.py` | users, policies | demo admin, policies | the demo admin's email is an admin's | every worker and the script look, then insert |
| **Chunker** `ingestion/chunker.py` | none | section and paragraph strategies | spans cut the chunk's text out of the document | equal paragraphs, short fragments |
| **Parser, embedder, evaluation, front end** | none or constant | | | |

Who calls whom: an upload stores the file, sets the job to queued and hands the
job to the thread pool. The job (pipeline) calls the LLM client for extraction,
assessment, verification and diff; the client asks the rate limiter for quota
(`wait_and_check("gemini")`), as login asks it for its own keys. The pipeline
adds to both indexes between its flush, which takes the database's write lock,
and its first commit. It searches both indexes through the hybrid retriever. It
writes the job store at each of its stages; clients poll that.

## Modules

| module | models | state and actions against the code |
|---|---|---|
| `SlidingWindow` | what the rate limiter promises | a log of charges per key; those younger than a period count. An abstract specification. |
| `RateLimiter` | `InMemoryRateLimitBackend` | `windows` is the dictionary of deques. Each method is one action (it holds the lock throughout); each prunes first. `log` is a history variable. The time at which an entry is stamped may be later than the one it was pruned at. |
| `LLMClient` | breaker, throttle, retries, `call_llm_json` | `failureCount`, `openedAt` are the breaker's fields, `pc` the point a thread has reached. A step ends where the interpreter may switch threads: after a call has returned. So `is_open` is `Enter` (test, read clock) and `Compare` (read again, compare); `record_failure` is `RecordFailure` and `Open`. |
| `LLMClaims` | a docstring of the client | |
| `JobLedger` | what jobs promise to those outside | status, count and readable rows of each job; rows appear at once. An abstract specification. |
| `Pipeline` | `_process_circular_job`, `ingest_circular`, `run_impact_assessment`, `link_amendment`, `generate_diff` | one action per transaction, index update or LLM call; every action has the failure it can meet (`Fail`, `Raise`), which sets the status and leads to `Close`, the `finally` clause. `writer` is SQLite's write lock. The FAISS stores are here with their singleton (`FindNoStore`, `ReadIndex`, `ReadIds`, `Adopt`), index, id map, lock and both files, which `AddDense`, `WriteIndex`, `OpenIds`, `WriteIds` write in place; a crash keeps the files as they are. `FindNoSparse`, `MakeSparse` are the BM25 singleton. `spoilt` is history. |
| `PipelineClaims` | a docstring of the alerts | |
| `VectorIndex` | `FaissStore` and its singleton | `index` and `idMap` per store object, two files, the lock. An add is seven steps, a search two, making the singleton up to four. |
| `JobStore` | `job_store.py` for one job | `redis` and `memory` are the two stores. `update_job` is read (`Read`, `Recall`), merge and write (`Write`, or `WriteFails` and `Keep`); a poll is `Poll`, `Ask`, `AskMemory`. Redis is lost and comes back between any two. A record is the set of updates merged into it. `Recall` changes the dictionary's own object, as `current.update(fields)` does. |
| `Feedback` | `review_impact`, `feedback.py` | `verdict` is a row's two review columns. A review loads the row (`OpenReview`) and commits (`CommitReview`), which writes the columns that differ from what was loaded. `Newest`, `Examples`, `Prompt`, `Signature` are the functions of `feedback.py`; a list of examples is the set of its rows, which are ordered by their creation, and is a list again where it is rendered (`NewestFirst`). |
| `AssessmentCache` | `cache.py` around `assess_impact`, its calls from jobs and from `evaluate.py` | `redis` and `memory` (one `_fallback_cache` per process, least recent first) hold results, which are named by what they were made from. The wrapper is `Lookup`, `GetRedis`, `GetMemory`, `Compute`, `SetRedis`, `Keep`; `clear_cache` is `ClearScan`, `ClearDelete`, `ClearMemory`. Extends `Feedback`, whose reviews go on meanwhile. |
| `CacheClaims` | a docstring of `feedback.py` | |
| `Chunker` | `chunker.py` | operators: a document is a sequence of lines, each a kind, a length and what it says; `SectionChunks`, `ParagraphChunks` with their spans. |
| `RankFusion` | `hybrid_retriever.py` | operators: a score is a fraction of naturals; `Fuse` is the stable descending sort, cut. |
| `Amendments` | `amendment/graph.py` | operators: `Superseding`, `Chain`. |
| `SparseIndex` | `bm25_store.py` | ids, texts, index and lock; `add` is `ExtendIds`, `ExtendCorpus`, `Rebuild`; `search` is `Take` under the lock and `Rank` without it. |
| `Corpus` | the data of `ingest_circular`, `link_amendment`, `hybrid_search` | composes the four above: jobs cut, index, commit, look and link, while searches and a crash go on. |
| `Login` | `login`, `get_rate_limiter` | one action per call of the limiter; a window is the list of charges that count, each as the time it still will. `Build` is the unlocked creation of the limiter. `limiters` and `forgotten` are history: how many were made, and the failures that went with one. |
| `Accounts` | users and policies, `seed_admin_if_empty`, `scripts/seed.py` | each look and each commit is a step; emails are unique. |
| `Sessions` | `auth.py`, `register`, `logout`, `update_user_role`, `create_policy`, the front end's token | a request is `Arrive`, `CheckRevoked`, `LoadUser`, then `LoadTarget` and `SetRole`, or `CreatePolicy`. Extends `Accounts`. Time is in half seconds, for what truncation to whole ones does. |
| `RateLimiterProofs`, `LLMClientProofs`, `PipelineProofs`, `VectorIndexProofs`, `JobStoreProofs`, `AssessmentCacheProofs`, `CorpusProofs`, `AuthenticationProofs` | | theorems about the module each is named for, the last about `Login` and `Sessions` |
| `MC...` | | values of the constants for TLC |

How the modules fit together. `RateLimiter` implements `SlidingWindow` (checked
and proved), and `LLMClient` uses the throttle as `SlidingWindow` promises it: a
grant takes one unit of quota for a period. `Pipeline` uses `LLMClient` as its
outcomes: a call ends in a value, in `LLMUnavailableError`, which selects the
fallback, or in another error, which fails the job. `Pipeline` has the FAISS
store with what ingestion can tell apart: sets of chunks in index, id map and
files, one step for each write of a file. `VectorIndex` has the same store with
positions, and an add and a search taken apart where they leave the lock.
`Pipeline`'s `status` is the record of a
`JobStore` whose Redis is always reachable; what outages do to it is
`JobStore`'s. Seen from outside, `Pipeline` implements `JobLedger` (checked and
proved). `Corpus` is the other half of ingestion: where `Pipeline` has
transactions, failures and assessments and treats chunks as names, `Corpus` has
the documents, the lists that searches return and the links, and treats the
database as what is committed. `AssessmentCache` stands where `Pipeline` has
the step `Assess`. `Login` uses the limiter as `SlidingWindow` promises it, and
`Sessions` takes a login as one step, whose limits `Login` has.

Data are reduced to what the properties tell apart. A chunk is an id; a vector
is the chunk it was made from; an assessment is circular, policy, chunk, who
made it, and whether it is flagged. Which chunks a search ranks first is a free
choice of the right number among those indexed, and so are the LLM's verdicts.

Readings of the environment, made once and used throughout:

* The database is SQLite with one writer. Who finds it locked fails after the
  driver's timeout. A job waits inside `Insert`, `Link`, `Diff` and `Finish`;
  the model lets it wait (nothing happens) or time out.
* A deferred transaction that only reads takes no write lock, so that a job
  without assessments commits without it (`Finish`).
* The thread pool runs each job to its end; nothing restarts a job.
* SQLAlchemy writes, at a commit, the columns in which an object differs from
  what its session loaded, and does not load again a row it has. So a review, or
  a change of a role, to what was loaded writes nothing.
* Distinct texts have distinct hashes; tokens cannot be forged.

## What is checked

Runs that pass:

| run | module | what it shows |
|---|---|---|
| `rate_limiter` | `MCRateLimiter` | `QuotaRespected`: over any stretch of a period at most `MaxCalls` grants. `NoLiveEntryForgotten`: a deque is the log without an expired head. `ImplementsSlidingWindow`: every answer is that of the abstract window. |
| `llm_client` | `MCLLMClient` | `TripNotLost`: at the threshold, the breaker is open or a thread is about to open it. `AdmissionWaitsForCooldown`: nobody passes the gate during a cooldown. `EveryCallReturns`. |
| `pipeline` | `MCPipeline` | `ReportedIsCommitted`, `CitationsResolve`, `LockHolderWillRelease`, and `JobsEnd`: every job ends unless the server dies. `CommittedIsSearchable`: a committed chunk is in the FAISS store, or in both files if there is none, unless a store was put in place of another or a server died while its files did not match (`spoilt`). Both do happen, against what the repository says (below); the run and the theorem say that nothing else loses a chunk. `ImplementsJobLedger`: rows appear at once, are what the status counts, and are none for a failed job. |
| `vector_index` | `MCVectorIndex` | `Aligned`, `SearchFaithful`, `ReturnedIsStored` for a process that has its store; `NoDuplicateIds` and `EveryCallEnds` also for a cold one and over a crash. |
| `job_store` | `MCJobStore` | `ReadsAreFresh`: while Redis, once it answers, is not lost, the job's worker reads the record like one register, and so does every worker if no dictionary was used. `EndIsSeen`: after any outages, an end that Redis has taken is seen everywhere until the next. |
| `assessment_cache` | `MCAssessmentCache` | `ServedFits`: whichever store answers, the answer was made for that clause, policy, version, and for examples of the same clauses. `FreshlyAssessed`: an evaluation whose clear reached Redis is never answered by an earlier run. |
| `corpus` | `MCCorpus` | `SpansPointAtText`: spans cut the chunk's text out of the document, in order, and nothing long enough is left out. `ScoredByOwnText`: ids and scores that a search takes at different times belong together. `AgreementFirst`: what both lists have comes first. `AmendedIffSuperseded`, `HistoriesAreWhole`, `OneOfTwoLinks`: statuses, chains and links under concurrent ingestion. |
| `login` | `MCLogin` | `GuessBound`: while a worker runs and nobody logs in to the account, the guesses made against an email within a period, those whose charge was lost included, exceed the limit by at most the other threads, for each limiter that the worker has made, which are at most one per thread. `SprayBound`: failures against all emails are at most the attempts granted to all addresses, and those under way. `LockEnds`: a lock is lifted, whatever comes in meanwhile. |
| `sessions` | `MCSessions` | `ChangedByAdmins`: roles and policies change only through a request whose user was an admin at some moment of it, or through seeding. `SeededAsAdmin`: nobody takes the demo admin's email first. `RevokedStaysRefused`: to the last second of the token. |

(`TypeOK` of `VectorIndex`, `JobStore` and `Sessions` says what their state is
made of; the runs of these modules check the properties named here.)

Every property above has a mutant of the code that breaks it (`mutants` in
`PROJECT.json`; the mutated operators stand beside the ones they change, and are
used by nothing else).

Runs that find a violation; each puts one sentence of the repository to the
model:

| run | the sentence | what happens |
|---|---|---|
| `llm_type_error` | `llm_client.py:101`: raises `LLMUnavailableError` ... instead of crashing | another thread closes the breaker between the two readings of `opened_at`: `float - None` |
| `alert_before_commit` | `alerts.py:55`: called after each assessment is persisted | the only commit is after all alerts, and may not come |
| `stale_examples` | `feedback.py:58`: the cache correctly invalidates when feedback changes what would be injected | the signature has the clauses only; the reasoning of another assessment of the same clause is injected, and the old answer served |

### Bounds, and why they are enough

* `rate_limiter`: a quota key with 2 per 3 time units, a lockout key with 2 per
  2, a clock to 6 (two periods and more), at most 3 recorded failures between
  clears (one more than the limit). Every entry that can matter to an answer is
  younger than a period; two periods hold every combination of an expired head, a
  live tail and a new entry. The clock may jump from pruning to stamping by any
  amount.
* `llm_client`: 2 threads with 3 calls each, threshold 2, cooldown 2, 2
  attempts, quota 2 per 3, a preemption of at most 1 tick at a clock reading
  (`MaxLag`). Two threads are the two sides of every race of the breaker; 3 calls
  each trip it, let it cool, and use it again. Times are ages and remainders, so
  the clock needs no end: ages that cannot be told apart any more stay at
  `OldestOpening`.
* `pipeline`: 2 jobs that refer to each other, one whose circular has no chunk,
  one or two and one with one chunk, 1 policy, `TopK` 2 of 3 chunks so that a
  circular can be crowded out, 1 crash at any point. Two jobs are the two
  threads of a race for a singleton, and one crash is what it takes to read the
  files that a job has left. A failure is possible at every step that can fail. One policy: policies do not interact
  but through the session, and two hits of one policy already make two rows. The
  run stops when all jobs are over: `CHECK_DEADLOCK FALSE`.
* `vector_index`: 2 adds (of two chunks and of one), 1 search, 1 error of the
  disk, 1 crash; all three start warm or cold. Two adds and a search are all
  the pairs that can race. The threads end: `CHECK_DEADLOCK FALSE`. In
  `rate_limiter` the clock ends, with the same setting.
* `job_store`: 2 workers, 2 clients that may poll either again and again, a Redis
  that is up or down at first, is lost up to twice, and may come back without the
  record. Two outages are what it takes to write to each store in turn and come
  back to the first. Clients are interchangeable (`SYMMETRY`); the run has no
  liveness property.

* `assessment_cache`: 2 jobs and the script, 1 clause and policy, 1 row, 2
  reviewers who make 2 reviews, 2 assessments, 2 runs of the script, a
  dictionary of 1 entry, 1 outage, 1 restart with another prompt version. Keys
  are compared and never ordered, so that two of them (the row confirmed or
  rejected) are what the stores can confuse; a dictionary of 1 evicts at the
  second. Jobs and reviewers are interchangeable (`SYMMETRY`). `stale_examples`
  has 2 rows of a clause and no outages. The assessments end:
  `CHECK_DEADLOCK FALSE`.
* `corpus`: 2 jobs whose circulars refer to each other or to a number that two
  older circulars have, 1 search, 1 crash. One document is any of up to 3 lines
  of 6 (heads, texts and blanks, longer and shorter than `MinChunk` = 2), or a
  paragraph twice around a third: all that can stand between two occurrences of
  a text. `RRF_K` = 2 and `top_k` = 2 keep `top_k <= RRF_K + 1`, on which
  `AgreementFirst` rests; the code has 15 and 60. The jobs end:
  `CHECK_DEADLOCK FALSE`.
* `login`: 2 threads, 2 addresses, 2 emails, 1 attempt per window of 2 time
  units, 2 failures per window of 2. Two addresses are needed to reach the limit
  of failures at all, with limits in the code's proportion to each other. Both
  threads can make a limiter, and the charges of the first are then lost. Charges
  are remaining times, so the clock needs no end.
* `sessions`: 1 worker, the script, 2 clients, 2 users, 2 tokens of 2 seconds, 1
  policy of which there is at most 1 row, 1 second in half-second steps: enough
  for revocations half a second apart and for a key that is a second short to be
  gone; that tokens expire at all is not reached. Clients are interchangeable
  (`SYMMETRY`). The clock ends: `CHECK_DEADLOCK FALSE`.

### Fairness

* `LLMClient`: every thread that can step does in the end (the operating
  system's scheduler), the clock runs, and the API answers or fails in the end;
  the last is an assumption about the world, as the client sets no timeout of
  its own. No fairness is put on a thread making another call. The throttle is
  fair only because the calls are finitely many; it has no queue.
* `Pipeline`: weak fairness of a job's steps, which is the thread pool. No
  fairness of uploads, crashes, or of success against failure.
* `VectorIndex`: weak fairness of a thread's steps after it has started. A
  waiting add is weakly fair only, which suffices since the others end.
* `Login`: weak fairness of the clock alone. Requests may come in for ever, or
  stop anywhere.

## What is proved

The theorems hold for every value of the constants that satisfies the
assumptions stated with them (each is what the code's types or configuration
give): any number of threads, jobs, policies and chunks, any limits and periods.

**`RateLimiterProofs`**: `TypeCorrect`, `QuotaHolds`, `PruningIsSafe`,
`Refinement`. The inductive invariant is `TypeOK /\ NoLiveEntryForgotten /\
QuotaRespected`. The quota alone is not inductive: a deque could have lost an
entry that still counts. With `NoLiveEntryForgotten` the deque is the log
without an expired head, so that after pruning its length is the number of
charges that count (`PruneExact`, a bijection between the deque and the live
entries of the log). A grant then finds the entry `MaxCalls` before it outside
of the deque, hence at least a period old (`GrantSpaced`), and the answers agree
with `SlidingWindow` (`StepRefines`).

**`LLMClientProofs`**: `TypeCorrect`, `TripHolds`, `AdmissionHolds`. Invariant:
`TypeOK /\ TripNotLost`; `TypeOK` holds the bound on the age of a clock reading.
Only `RecordFailure` brings the count to the threshold, and moves to `opening`;
only `Open` leaves `opening`, and sets `opened_at`; whatever clears `opened_at`
clears the count. That last fact is why the unlocked breaker is right, and what
the proof turns on. The action property needs that `Compare` lets a thread
through only if the cooldown is over by a clock reading that is not newer than
now.

**`PipelineProofs`**: `TypeCorrect`, `ReportsHold`, `CitationsHold`,
`SearchableHolds`, `LockHolds`. The inductive invariant `IInv` adds to the
properties what one job may rely on at its label: its chunks are in the
database once its circular is (`IngestOK`); whatever it has
retrieved, found or added to its session is citable (`HitsOK`, `FindingOK`,
`PendingOK`); and its rows appear when it is about to report, and are then those
of its session (`ReportOK`). None of the properties is inductive without it: a
commit says nothing of the index, a count nothing of the rows. The argument
goes one job at a time. A job's step leaves the other jobs' fields alone
(`FrameOfJob`) and lets the shared sets only grow (`GrowthOfShared`), so that
what others rely on stays (`OtherJobs`); the job that moves is
treated part by part; a crash takes nothing committed back (`CrashPreserves`).

For `SearchableHolds` the stores have an invariant of their own (`StoresOK`, under
`~spoilt`): while there is no store, the files match and hold what is committed,
and a job that is making one has read them whole (`Cold`); once there is one,
index and id map of the one in use are equal and hold what is committed, the
files hold it whenever they match, and a job that has not committed yet has its
chunks in the store, and in files that match, as soon as it has left `add`
(`Warm`). Steps of a job in the stores and its other steps are taken apart
(`StoreSteps`, `ElsewhereSteps`). `spoilt` is assumed away nowhere else: types, reports,
citations and the lock hold whatever became of the stores.

`Refinement` maps the ledger's rows to the committed assessments of each job.
Every step of a job is one of six kinds as seen from outside (`KindsOfStep`),
five of which are actions of the ledger and one a stutter; that a job's status
follows its label (`StatusInductive`) and `ReportOK` give the guards.

**`VectorIndexProofs`**: `TypeCorrect`, `StaysAligned`, `SearchesAreFaithful`,
`ReturnedStays`, `IdsStayUnique`. `Aligned` speaks of the moments at which the
lock is free, so the invariant says what its holder has done at each step of its
add. In a process that has its store, all threads have that one, and who is
between `add`'s first step and its last has the lock (`OneStore`). Then the id
map is the index, or lacks just the batch of the one thread that is between the
two (`HalfAdded`). A search stays right as positions keep their meaning: an add
only appends, to the one and then to the other, and an add whose write fails
takes nothing back from either (`NearestTrue`). What has returned is in the id map
(`InIdMap`) and in both files (`OnDisk`). `NoDuplicateIds` holds without a word
of the lock, for any number of stores: whatever ids a map or a file has are of
adds that have extended a map, which no thread does twice (`IdsOnce`). It rests
on `FreshChunkIds`: a chunk's id is a uuid that is made when it is stored, and
one job adds it.

**`JobStoreProofs`**: `TypeCorrect`, `ReadsHold`, `EndHolds`. The properties rest
on different invariants. Until Redis is lost (`Unbroken`), whatever is known is
in Redis or in the job's own dictionary, Redis has all that the dictionary has,
and what the job is about to write is all that both have (`StoredOnce`); this is
where `update_job`'s merge into what it has read matters. Once Redis has the last
update, it keeps it until it is lost, and no poll that began since is past Redis
(`EndStays`). `JobStoreAssumption` says that no record at all is none of the
records.

**`AssessmentCacheProofs`**: `TypeCorrect`, `ServedFit`, `EvaluatedAfresh`.
For answers, the invariant is that in both stores, and in every
call, a result is under the key that its own question makes (`RedisFits`,
`MemoryFits`, `CallsFit`). Equal keys are then equal questions but for the
examples, of which they have the clauses (`FitsAgree`). For the evaluation it
says what is left of earlier runs at each of its steps. The list of keys and the
deletion are two calls, between which jobs go on storing; but jobs never ask
under the evaluation's version (`Roles`), so nothing of it can appear that was
not listed (`Listed`); and what it calls for afterwards it makes itself
(`RunInRedis`, `RunInMemory`, `RunInCall`). The proof of
`TypeCorrect` has the bound of the dictionary, which rests on its keys being
distinct (`PutLast`), and that the newest `n` rows are at most `n`
(`NewestIsBounded`). Assumed are `FeedbackAssumption` and `CacheAssumption`: rows
are ordered and finitely many, and no prompt version is the evaluation's.

**`AuthenticationProofs`**, of `Login`: `LoginTypeCorrect`, `GuessesBounded`,
`SpraysBounded`. The invariant adds to the types that windows are
ordered (`Windows`): what ends at a tick are then the oldest charges
(`EndingFirst`), and what is left are charges with time to run, which the type
alone does not give. `GuessBound` is a sum over limiters and not inductive. For
the limiter in use, a thread that passes the lock has found fewer failures than
the limit, and of the threads that may fail there are at most as many as there
are threads; a failure recorded trades one for the other (`OneLimiter`). When it
is replaced, its failures join the forgotten ones, which are no more than as much
for each limiter before it (`LostBefore`) and remain ordered, as all of them were
charged earlier (`Chronological`). A limiter is made for each of the requests that
found none, of which there is one per thread (`FewLimiters`).
`SprayBound` is not inductive, as attempts end like failures
do. It is generalised to every moment in the window (`Sprayed`): the failures
charged since then, and the requests under way, are no more than the attempts
granted since then and the threads. A grant adds to both sides (`GrantPaid`), a
failure trades a request for a charge (`FailurePaid`), and a tick only turns one
moment into another, which an injection of the charges shows (`AgedOver`). It is
here that the window of attempts must be no shorter than that of failures, and
that addresses must be finitely many.

Of `Sessions`: `AdminsChange`, `AdminIsSeeded`, `RevokedAreRefused`. None
of them says anything of a state, and the invariant says what a request relies on
at each of its steps (`Knows`). Until its user is loaded, the user's present role
is among those that the request has seen, since the change of a role is noted by
every request under way (`SetRoleStep`); from the check on, admin is. The token of a request, like
that of a client, was handed out to a user who is registered (`Holders`), as
tokens are only added and nobody is unregistered. And if anyone is served, the
demo admin is registered (`ServedAfterSeeding`): a worker serves after it has
seen the admin or inserted it, and the admin stays. So the first to take that
email is one of the two inserts of an admin. `RevokedAreRefused` has an invariant
of its own (`KeysLast`): whenever a logout was and however its clock reading was
cut to whole seconds, the key that it left in Redis lasts at least until half a
second before the token's `exp`, and the property is about requests before that.

**`CorpusProofs`**: `TypeCorrect`, `SpansHold`, `ScoresHold`, `AgreementHolds`,
`StatusesHold`, `HistoriesHold`, `LinksHold`: all of `Corpus`. The proof has two
halves.

The first is about steps. `RowsInv` is what a job may rely on of the database: at
`link` its target is committed and its own row has no link yet, and of two jobs
that are unlinked at most one has looked up the other (`MissesOK`). `OneOfTwoLinks`
alone is not inductive, as it speaks of jobs that have ended. `StoreInv` says what
the holder of the sparse store's lock has done: of three lists that are equal while
nobody holds it, first one and then two are longer, by the job's ids; a job's ids
are in none before its turn (`OnceIndexed`). `SearchInv` says that the index a
search has taken is how the list of ids begins, and will begin, as ids are only
appended (`IdsOnlyGrow`); that is why reading them later gives each score its own
text. `DocumentsOK` ties the chunks of a job to its document.

The second is about data of any size. Induction is for the members of a set
(`SetInduction`, from the well-foundedness of the natural numbers), as theorems
with an operator for a parameter are out of the provers' reach; and a recursive
definition means what it says once a function that satisfies it is shown to exist
(`Recursion`). With these: a walk of the amendment graph visits nothing twice, so
it has ended when it has taken as many steps as there are circulars, in any graph
(`ChainsFit`), and what it has visited is the least set closed under
`supersedes_id` (`EndedWalkIsWhole`). Scores, and the order of insertion where
they are equal, order the ids (`BeforeInOrder`); a finite ordered set can be listed
in its order (`SortedList`), so the sort has a result; and `1/a + 1/b > 1/c` for
ranks within twice the constant (`AgreementBeats`). Lines begin one after another
(`Starts`), so a span holds exactly the lines it was made of (`SpanOfLines`). For
paragraphs the proof is an induction over the loop (`ParagraphsAdded`) that turns
on `text.find()`: an occurrence before the paragraph itself would lie inside an
earlier paragraph, which then is at least as long, so it is a chunk, and the search
begins after it (`FoundFits`). Assumed is `CorpusAssumption`: jobs and older
circulars are finitely many and distinct, older links are among them, and `top_k` is
no more than one above `RRF_K` (15 and 60 in the code), without which agreement
need not win.

Only model-checked:

* The liveness properties `EveryCallReturns`, `JobsEnd`, `EveryCallEnds` and
  `LockEnds`: liveness under fairness is out of the prover's reach.
* The claims, whose runs end in a violation.

## Modelled, and left without a verdict

The models reach these behaviours, or show them at a glance, and no run states a
verdict on them. The first ones differ from what the repository says.

* An answer that is not JSON is first a success, which resets the count, and
  then a failure: such answers never trip the breaker (`llm_client.py:113`; line
  37 says it trips after N consecutive failures).
* The 15 best chunks of all circulars are taken before those of the circular at
  hand are kept: older circulars can crowd it out (`pipeline.py:111`; line 94
  says clauses are retrieved from this circular).
* A fallback that finds no impact leaves no row, and nothing to review
  (`pipeline.py:133`; `impact_reasoner.py:7` says it always gets routed to human
  review).
* A crash within `_persist`, or a restart after a failed one, leaves two files
  that do not match, or one that cannot be read, and committed chunks are no
  longer found (`faiss_store.py:59`; line 2 says the index survives restarts).
  `CommittedIsSearchable` excepts it by name, as it does the next one.
* Two threads that find no FAISS store each make one, and what was added to the
  first is lost (`faiss_store.py:69`;
  `manual_verification/concurrency_test.py:108` compares the counts). Two
  ingesting jobs are serialised by the database's lock; the other thread is one
  that searches without it. The BM25 store is made the same way
  (`bm25_store.py:47`), and no property is about it.
* A review overwrites status and note of the row it reviews (`routes.py:160`;
  `models/impact.py:23` says that rows are immutable and corrections linked
  records, and line 147 of `routes.py` that the row is never overwritten), and of
  two reviews at once the status may be the one's and the note the other's. No
  property is about reviews as such.
* Corrections never become examples, only confirmations and rejections do
  (`feedback.py:21`; the repository's `README.md:11` says every correction does).
* `clear_cache` passes over a Redis that is down, whose entries return with it.
* A revoked token is accepted while Redis is down or has lost its data, and for
  up to two seconds around its end, as the key's life is cut to whole seconds
  and the token is good through its last one. The front end's "Log out" tells
  nobody. `log_auth_event` is never called.
* A role that is set to what its session loaded is not written, though another
  admin changed it meanwhile; the last admin can be demoted.
* The limiter is each worker's own and forgets at a restart; failures are
  counted by lower-cased email, accounts are found by the exact one.
* The evaluation and the metrics count the tokens of a cached answer again.
* An answer to a request sent before the trip closes the breaker at once.
* A thread that was preempted between the clock and the store of `opened_at`
  opens the breaker with an older time, and shortens the cooldown.
* Requests of calls that are past the gate go out while the breaker is open;
  retries are not metered by the throttle.
* A job that a crash killed stays `processing` for ever.
* A job that fails after its first commit leaves a circular that is in database
  and index, without assessments.
* Two concurrent uploads that refer to each other each supersede the other; the
  one is then the last of its own history.
* After a restart the BM25 index is empty; old chunks are found by vectors only.
* After an outage of Redis a poll may read an older record: one that was left in
  the dictionary, or that Redis kept while the dictionary took the newer one. A
  job that ended during the outage is then `processing` to its clients for good.
  When a record expires in Redis, an old one in the dictionary reappears.
* Chunks of a rolled-back ingest stay in the indexes; they take places among
  the best 15, and are filtered out afterwards.

## Not modelled

Prompts, embeddings, the scores themselves, parsing of PDFs and the wording of
alerts and diffs: data that no property tells apart, or calls into libraries
without state of their own. The list and metrics endpoints only read; so do
`cache_stats` and the evaluation's confusion matrix. The front end's pages show
what the endpoints answer. Configuration is the constants. The table of
authentication events is never written. A Redis backend of the rate limiter,
which the header of `rate_limiter.py` speaks of, does not exist yet.

## Plan

Next, in this order:

1. That `Pipeline`'s steps of the FAISS store are those of `VectorIndex` with the
   positions forgotten, as a refinement rather than as two models that agree.
2. The front end's polling of a job as a client of `JobStore`, and what two
   metrics queries may disagree about.
