-------------------------------- MODULE Pipeline --------------------------------
(***************************************************************************)
(* The background jobs of app/api/routes.py, each of which takes one       *)
(* uploaded circular through app/pipeline.py: extract, persist, index,     *)
(* link, and then, for every policy, retrieve, assess, verify and persist. *)
(* Jobs run concurrently in the server's thread pool and share the         *)
(* database, which has one write lock (SQLite), the two search indexes and *)
(* the job statuses.                                                       *)
(*                                                                         *)
(* A step is what a job does between two points at which another job or a  *)
(* crash can be noticed: a database transaction, an index update, an LLM   *)
(* call.  What an LLM call may do to its caller is LLMClient's outcomes.   *)
(***************************************************************************)
EXTENDS Naturals, FiniteSets

CONSTANTS
    Jobs,           \* one per upload: the job and the circular it ingests
    Policies,
    Chunk,          \* the ids of circular chunks
    Documents,      \* job -> the sets of chunks its circular may turn out to have
    References,     \* job -> the circulars its text refers to by number
    TopK,           \* hybrid_search(query, top_k=15)
    RerankK,        \* settings.rerank_top_k
    NoOne,          \* no job, no circular, no assessment, no store
    Absent, Torn,   \* a file that does not exist, or is half written
    MaxCrashes      \* bound: crashes of the server

ASSUME PipelineAssumption ==
    /\ Documents \in [Jobs -> SUBSET SUBSET Chunk]
    /\ \A i, j \in Jobs : i # j =>
            \A C \in Documents[i], D \in Documents[j] : C \cap D = {}
    /\ \A j \in Jobs : \A D \in Documents[j] : IsFiniteSet(D)
    /\ References \in [Jobs -> SUBSET Jobs]
    /\ TopK \in Nat /\ RerankK \in Nat /\ MaxCrashes \in Nat
    /\ NoOne \notin Jobs
    /\ \A C \in SUBSET Chunk : C \notin {Absent, Torn}
    /\ Absent # Torn

VARIABLES
    (* the job store *)
    status,       \* job -> what GET /jobs/{id} says
    impactsFound, \* job -> the impacts_found it reports
    (* the database *)
    writer,       \* the job whose transaction holds the write lock
    circulars,    \* committed circulars
    chunkRows,    \* committed rows of circular_chunks
    assessments,  \* committed impact assessments
    supersedes,   \* circular -> the circular its supersedes_id points to
    (* the FAISS stores, each of which is named after the job that made it *)
    singleton,    \* _store of faiss_store.py, or NoOne
    index,        \* store -> the chunks that have a vector in its index
    idMap,        \* store -> the chunks in its id_map
    locked,       \* job -> the store whose lock it holds, or NoOne
    indexFile,    \* the chunks in index.faiss
    idsFile,      \* the chunks in ids.json
    spoilt,       \* history: a store was put in place of another, or a server
                  \* died while its two files did not match
    (* the BM25 store, in memory only *)
    sparseMade,   \* _store of bm25_store.py was made
    sparse,       \* the chunks in it
    (* the threads of the jobs *)
    chunksOf,     \* the chunks of its circular; {} if none
    pc,
    todo,         \* policies not yet looked at
    hits,         \* <<policy, chunk>> pairs retrieved and reranked
    finding,      \* the impact being verified, or NoOne
    pending,      \* assessments added to the session, not committed
    (* the world *)
    alerts,       \* assessments that subscribers were alerted of
    crashes

store == <<status, impactsFound>>
database == <<writer, circulars, chunkRows, assessments, supersedes>>
dense == <<singleton, index, idMap, locked, indexFile, idsFile, spoilt>>
indexes == <<dense, sparseMade, sparse>>
work == <<chunksOf, todo, hits, finding, pending>>
world == <<alerts, crashes>>
vars == <<store, database, indexes, pc, work, world>>

(* Who can make an assessment: the LLM, or the keyword heuristic.          *)
Methods == {"llm", "fallback"}

Impact == [circular : Jobs, policy : Policies, chunk : Chunk, method : Methods]
Assessment == [circular : Jobs, policy : Policies, chunk : Chunk,
               method : Methods, flagged : BOOLEAN]

Labels == {"none", "queued", "extract", "insert", "chunk", "add_dense",
           "read_index", "read_ids", "adopt", "write_index", "open_ids",
           "write_ids", "add_sparse", "make_sparse", "commit", "link", "diff",
           "policies", "verify", "report", "close", "ended", "killed"}

DenseTypeOK ==
    /\ singleton \in Jobs \cup {NoOne}
    /\ index \in [Jobs -> SUBSET Chunk] /\ idMap \in [Jobs -> SUBSET Chunk]
    /\ locked \in [Jobs -> Jobs \cup {NoOne}]
    /\ indexFile \in {Absent, Torn} \cup SUBSET Chunk
    /\ idsFile \in {Absent, Torn} \cup SUBSET Chunk
    /\ spoilt \in BOOLEAN

TypeOK ==
    /\ status \in [Jobs -> {"none", "queued", "processing", "completed", "failed"}]
    /\ impactsFound \in [Jobs -> Nat]
    /\ writer \in Jobs \cup {NoOne}
    /\ circulars \subseteq Jobs
    /\ chunkRows \subseteq Chunk
    /\ assessments \subseteq Assessment
    /\ supersedes \in [Jobs -> Jobs \cup {NoOne}]
    /\ DenseTypeOK
    /\ sparseMade \in BOOLEAN /\ sparse \subseteq Chunk
    /\ chunksOf \in [Jobs -> SUBSET Chunk]
    /\ pc \in [Jobs -> Labels]
    /\ todo \in [Jobs -> SUBSET Policies]
    /\ hits \in [Jobs -> SUBSET (Policies \X Chunk)]
    /\ finding \in [Jobs -> Impact \cup {NoOne}]
    /\ pending \in [Jobs -> SUBSET Assessment]
    /\ alerts \subseteq Assessment
    /\ crashes \in 0..MaxCrashes

Init ==
    /\ status = [j \in Jobs |-> "none"]
    /\ impactsFound = [j \in Jobs |-> 0]
    /\ writer = NoOne
    /\ circulars = {} /\ chunkRows = {} /\ assessments = {}
    /\ supersedes = [j \in Jobs |-> NoOne]
    /\ singleton = NoOne
    /\ index = [s \in Jobs |-> {}] /\ idMap = [s \in Jobs |-> {}]
    /\ locked = [j \in Jobs |-> NoOne]
    /\ sparseMade = FALSE /\ sparse = {}
    /\ indexFile = Absent /\ idsFile = Absent /\ spoilt = FALSE
    /\ chunksOf = [j \in Jobs |-> {}]
    /\ pc = [j \in Jobs |-> "none"]
    /\ todo = [j \in Jobs |-> {}]
    /\ hits = [j \in Jobs |-> {}]
    /\ finding = [j \in Jobs |-> NoOne]
    /\ pending = [j \in Jobs |-> {}]
    /\ alerts = {}
    /\ crashes = 0

--------------------------------------------------------------------------------

At(j, label) == pc[j] = label
Goto(j, label) == pc' = [pc EXCEPT ![j] = label]

Report(j, what) == status' = [status EXCEPT ![j] = what]

(* Mutant of Raise: no finally clause closes the session.                  *)
RaiseWithoutClose(j) ==
    /\ Report(j, "failed")
    /\ Goto(j, "ended")
    /\ UNCHANGED impactsFound

(* The except clause of _process_circular_job: the status is failed before *)
(* the finally clause closes, and so rolls back, the session.              *)
Raise(j) ==
    /\ Report(j, "failed")
    /\ Goto(j, "close")
    /\ UNCHANGED impactsFound

Fail(j) == Raise(j) /\ UNCHANGED <<database, indexes, work, world>>

(* The one writer SQLite allows.  Who finds the lock taken waits, and      *)
(* after the driver's timeout fails with "database is locked".             *)
LockFree == writer = NoOne

(* POST /circulars/upload, of a file that will be cut into these chunks    *)
Upload(j) ==
    /\ At(j, "none")
    /\ \E D \in Documents[j] : chunksOf' = [chunksOf EXCEPT ![j] = D]
    /\ Report(j, "queued")
    /\ Goto(j, "queued")
    /\ UNCHANGED <<impactsFound, database, indexes, todo, hits, finding, pending, world>>

(* Mutant of Start: a status that no client knows.                         *)
StartAsRunning(j) ==
    /\ At(j, "queued")
    /\ Report(j, "running")
    /\ Goto(j, "extract")
    /\ UNCHANGED <<impactsFound, database, indexes, work, world>>

Start(j) ==
    /\ At(j, "queued")
    /\ Report(j, "processing")
    /\ Goto(j, "extract")
    /\ UNCHANGED <<impactsFound, database, indexes, work, world>>

(* Parsing, and structure extraction by the LLM or its fallback.           *)
Extract(j) ==
    /\ At(j, "extract")
    /\ \/ /\ Goto(j, "insert")
          /\ UNCHANGED <<store, database, indexes, work, world>>
       \/ Fail(j)

(* db.add(circular); db.flush(): the transaction takes the write lock.     *)
Insert(j) ==
    /\ At(j, "insert")
    /\ \/ /\ LockFree
          /\ writer' = j
          /\ Goto(j, "chunk")
          /\ UNCHANGED <<store, circulars, chunkRows, assessments, supersedes,
                         indexes, work, world>>
       \/ ~LockFree /\ Fail(j)

Loop(j) ==
    /\ Goto(j, "policies")
    /\ todo' = [todo EXCEPT ![j] = Policies]
    /\ UNCHANGED <<chunksOf, hits, finding, pending>>

(* Chunking and embedding.  A circular without chunks is committed and     *)
(* returned at once: it is never linked.                                   *)
MakeChunks(j) ==
    /\ At(j, "chunk")
    /\ \/ /\ chunksOf[j] = {}
          /\ circulars' = circulars \cup {j}
          /\ writer' = NoOne
          /\ Loop(j)
          /\ UNCHANGED <<store, chunkRows, assessments, supersedes, indexes, world>>
       \/ /\ chunksOf[j] # {}
          /\ Goto(j, "add_dense")
          /\ UNCHANGED <<store, database, indexes, work, world>>
       \/ Fail(j)

(* For every policy hybrid_search() asks first the one store, then the     *)
(* other.                                                                  *)
Searching(j) == At(j, "policies") /\ hits[j] = {} /\ todo[j] # {}

(* Where a call for a store returns to: to an ingest that adds, or, once   *)
(* the circular is committed, to a search.                                 *)
Caller(j, adding) == IF j \in circulars THEN "policies" ELSE adding

(* get_faiss_store(), which takes no lock, finds no store ...              *)
FindNoStore(j) ==
    /\ At(j, "add_dense") \/ Searching(j)
    /\ singleton = NoOne
    /\ Goto(j, "read_index")
    /\ UNCHANGED <<store, database, indexes, work, world>>

(* ... makes one, which reads its two files and raises when one that       *)
(* should be there cannot be read ...                                      *)
ReadIndex(j) ==
    /\ At(j, "read_index")
    /\ \/ /\ indexFile = Absent
          /\ index' = [index EXCEPT ![j] = {}]
          /\ idMap' = [idMap EXCEPT ![j] = {}]
          /\ Goto(j, "adopt")
          /\ UNCHANGED store
       \/ /\ indexFile \notin {Absent, Torn}
          /\ index' = [index EXCEPT ![j] = indexFile]
          /\ Goto(j, "read_ids")
          /\ UNCHANGED <<store, idMap>>
       \/ /\ indexFile = Torn
          /\ Raise(j)
          /\ UNCHANGED <<index, idMap>>
    /\ UNCHANGED <<database, singleton, locked, indexFile, idsFile, spoilt,
                   sparseMade, sparse, work, world>>

ReadIds(j) ==
    /\ At(j, "read_ids")
    /\ \/ /\ idsFile \notin {Absent, Torn}
          /\ idMap' = [idMap EXCEPT ![j] = idsFile]
          /\ Goto(j, "adopt")
          /\ UNCHANGED store
       \/ /\ idsFile \in {Absent, Torn}
          /\ Raise(j)
          /\ UNCHANGED idMap
    /\ UNCHANGED <<database, singleton, index, locked, indexFile, idsFile, spoilt,
                   sparseMade, sparse, work, world>>

(* ... and puts it in the place of any that was made meanwhile.            *)
Adopt(j) ==
    /\ At(j, "adopt")
    /\ singleton' = j
    /\ spoilt' = (spoilt \/ singleton # NoOne)
    /\ Goto(j, Caller(j, "add_dense"))
    /\ UNCHANGED <<store, database, index, idMap, locked, indexFile, idsFile,
                   sparseMade, sparse, work, world>>

Locked(s) == \E j \in Jobs : locked[j] = s
Unlock(j) == locked' = [locked EXCEPT ![j] = NoOne]

(* Mutant of AddDense: the files are not written.                          *)
AddDenseInMemory(j) ==
    /\ At(j, "add_dense") /\ singleton # NoOne /\ ~Locked(singleton)
    /\ index' = [index EXCEPT ![singleton] = @ \cup chunksOf[j]]
    /\ idMap' = [idMap EXCEPT ![singleton] = @ \cup chunksOf[j]]
    /\ Goto(j, "add_sparse")
    /\ UNCHANGED <<store, database, singleton, locked, indexFile, idsFile, spoilt,
                   sparseMade, sparse, work, world>>

(* get_faiss_store().add(), under the store's lock: index and id map, and  *)
(* _persist(), which truncates and writes each file in place.  When the    *)
(* disk fails, the chunks are already in memory.                           *)
AddDense(j) ==
    /\ At(j, "add_dense") /\ singleton # NoOne /\ ~Locked(singleton)
    /\ index' = [index EXCEPT ![singleton] = @ \cup chunksOf[j]]
    /\ idMap' = [idMap EXCEPT ![singleton] = @ \cup chunksOf[j]]
    /\ \/ /\ locked' = [locked EXCEPT ![j] = singleton]
          /\ indexFile' = Torn
          /\ Goto(j, "write_index")
          /\ UNCHANGED store
       \/ Raise(j) /\ UNCHANGED <<locked, indexFile>>
    /\ UNCHANGED <<database, singleton, idsFile, spoilt, sparseMade, sparse, work, world>>

WriteIndex(j) ==
    /\ At(j, "write_index")
    /\ \/ /\ indexFile' = index[locked[j]]
          /\ Goto(j, "open_ids")
          /\ UNCHANGED <<store, locked>>
       \/ Raise(j) /\ Unlock(j) /\ UNCHANGED indexFile
    /\ UNCHANGED <<database, singleton, index, idMap, idsFile, spoilt,
                   sparseMade, sparse, work, world>>

OpenIds(j) ==
    /\ At(j, "open_ids")
    /\ \/ /\ idsFile' = Torn
          /\ Goto(j, "write_ids")
          /\ UNCHANGED <<store, locked>>
       \/ Raise(j) /\ Unlock(j) /\ UNCHANGED idsFile
    /\ UNCHANGED <<database, singleton, index, idMap, indexFile, spoilt,
                   sparseMade, sparse, work, world>>

WriteIds(j) ==
    /\ At(j, "write_ids")
    /\ Unlock(j)
    /\ \/ /\ idsFile' = idMap[locked[j]]
          /\ Goto(j, "add_sparse")
          /\ UNCHANGED store
       \/ Raise(j) /\ UNCHANGED idsFile
    /\ UNCHANGED <<database, singleton, index, idMap, indexFile, spoilt,
                   sparseMade, sparse, work, world>>

(* get_bm25_store() finds no store, and makes an empty one in the place of *)
(* any that was made meanwhile.                                            *)
FindNoSparse(j) ==
    /\ At(j, "add_sparse") \/ (Searching(j) /\ singleton # NoOne)
    /\ ~sparseMade
    /\ Goto(j, "make_sparse")
    /\ UNCHANGED <<store, database, indexes, work, world>>

MakeSparse(j) ==
    /\ At(j, "make_sparse")
    /\ sparseMade' = TRUE /\ sparse' = {}
    /\ Goto(j, Caller(j, "add_sparse"))
    /\ UNCHANGED <<store, database, dense, work, world>>

AddSparse(j) ==
    /\ At(j, "add_sparse") /\ sparseMade
    /\ sparse' = sparse \cup chunksOf[j]
    /\ Goto(j, "commit")
    /\ UNCHANGED <<store, database, dense, sparseMade, work, world>>

(* The first commit: circular and chunks.                                  *)
Commit(j) ==
    /\ At(j, "commit")
    /\ \/ /\ circulars' = circulars \cup {j}
          /\ chunkRows' = chunkRows \cup chunksOf[j]
          /\ writer' = NoOne
          /\ Goto(j, "link")
          /\ UNCHANGED <<store, assessments, supersedes, indexes, work, world>>
       \/ Fail(j)

(* link_amendment(): to the first of the referenced circulars that is in   *)
(* the database, which becomes AMENDED in the same commit.  A reference    *)
(* that is no number, or the lock, makes it fail.                          *)
Referenced(j) == (References[j] \cap circulars) \ {j}

Link(j) ==
    /\ At(j, "link")
    /\ \/ /\ Referenced(j) = {}
          /\ Loop(j)
          /\ UNCHANGED <<store, database, indexes, world>>
       \/ /\ LockFree
          /\ \E old \in Referenced(j) :
                supersedes' = [supersedes EXCEPT ![j] = old]
          /\ Goto(j, "diff")
          /\ UNCHANGED <<store, writer, circulars, chunkRows, assessments,
                         indexes, work, world>>
       \/ Fail(j)

(* generate_diff() and the commit of the summary.  An answer that is no    *)
(* object, or the lock, makes it fail: the link stays.                     *)
Diff(j) ==
    /\ At(j, "diff")
    /\ \/ /\ LockFree
          /\ Loop(j)
          /\ UNCHANGED <<store, database, indexes, world>>
       \/ Fail(j)

Smaller(m, n) == IF m < n THEN m ELSE n

Best(k, chunks) ==
    {B \in SUBSET chunks : Cardinality(B) = Smaller(k, Cardinality(chunks))}

(* FaissStore.search(): the nearest vectors' positions, looked up in the   *)
(* id map.  One that is beyond its end raises; one that is not, in a store *)
(* whose parts do not match, is another chunk's.                           *)
DenseHits ==
    {D \in SUBSET idMap[singleton] :
        Cardinality(D) = Smaller(TopK, Cardinality(index[singleton]))}

(* hybrid_search() over the chunks of ALL circulars, cut to top_k; then    *)
(* the chunks of this circular; then the reranker's best.                  *)
Fused == UNION {Best(TopK, D \cup S) : D \in DenseHits, S \in Best(TopK, sparse)}

(* Mutant of Own: the chunks of other circulars are not left out.          *)
OwnUnfiltered(j, F) == F

Own(j, F) == F \cap (chunkRows \cap chunksOf[j])

Reranked(own) == Best(RerankK, own)

Retrieve(j) ==
    /\ Searching(j)
    /\ \/ /\ singleton # NoOne /\ ~Locked(singleton) /\ sparseMade
          /\ \E p \in todo[j] :
                /\ todo' = [todo EXCEPT ![j] = @ \ {p}]
                /\ \E F \in Fused : \E R \in Reranked(Own(j, F)) :
                        hits' = [hits EXCEPT ![j] = {p} \X R]
          /\ UNCHANGED <<store, database, indexes, chunksOf, pc, finding, pending, world>>
       \/ Fail(j)

(* Mutant of Assess: a hit that has impact is assessed again and again.    *)
AssessAgain(j) ==
    /\ At(j, "policies") /\ hits[j] # {}
    /\ \E h \in hits[j], m \in Methods :
            finding' = [finding EXCEPT ![j] =
                [circular |-> j, policy |-> h[1], chunk |-> h[2], method |-> m]]
    /\ Goto(j, "verify")
    /\ UNCHANGED <<store, database, indexes, chunksOf, todo, hits, pending, world>>

(* The threshold on the rerank score, then assess_impact() by the LLM, or  *)
(* by keyword overlap when the LLM is unavailable.                         *)
Assess(j) ==
    /\ At(j, "policies") /\ hits[j] # {}
    /\ \/ \E h \in hits[j] :
            /\ hits' = [hits EXCEPT ![j] = @ \ {h}]
            /\ \/ UNCHANGED <<pc, finding>>    \* below threshold, or no impact
               \/ /\ \E m \in Methods :
                        finding' = [finding EXCEPT ![j] =
                            [circular |-> j, policy |-> h[1], chunk |-> h[2],
                             method |-> m]]
                  /\ Goto(j, "verify")
            /\ UNCHANGED <<store, database, indexes, chunksOf, todo, pending, world>>
       \/ Fail(j)

(* The row that is added to the session.  It is not ok when the critic was *)
(* unavailable or scored low.                                              *)
Row(impact, ok) ==
    [circular |-> impact.circular, policy |-> impact.policy,
     chunk |-> impact.chunk, method |-> impact.method,
     flagged |-> ~ok \/ impact.method = "fallback"]

(* Mutant of Verify: every assessment is committed at once.                *)
VerifyAndCommit(j) ==
    /\ At(j, "verify")
    /\ \/ \E ok \in BOOLEAN :
            /\ pending' = [pending EXCEPT ![j] = @ \cup {Row(finding[j], ok)}]
            /\ assessments' = assessments \cup pending'[j]
            /\ finding' = [finding EXCEPT ![j] = NoOne]
            /\ Goto(j, "policies")
            /\ UNCHANGED <<store, writer, circulars, chunkRows, supersedes,
                           indexes, chunksOf, todo, hits, world>>
       \/ Fail(j)

(* An alert goes out when the severity is urgent, which the fallback's     *)
(* never is.                                                               *)
MayAlert(row) == row.method = "llm"

(* verify_assessment(), db.add() and the alert.  A malformed score or      *)
(* severity raises.                                                        *)
Verify(j) ==
    /\ At(j, "verify")
    /\ \/ \E ok \in BOOLEAN :
            LET row == Row(finding[j], ok) IN
            /\ pending' = [pending EXCEPT ![j] = @ \cup {row}]
            /\ \/ UNCHANGED alerts
               \/ MayAlert(row) /\ alerts' = alerts \cup {row}
            /\ finding' = [finding EXCEPT ![j] = NoOne]
            /\ Goto(j, "policies")
            /\ UNCHANGED <<store, database, indexes, chunksOf, todo, hits, crashes>>
       \/ Fail(j)

(* The single commit of all assessments, and the final status.             *)
Finish(j) ==
    /\ At(j, "policies") /\ todo[j] = {} /\ hits[j] = {}
    /\ \/ /\ pending[j] = {} \/ LockFree
          /\ assessments' = assessments \cup pending[j]
          /\ Goto(j, "report")
          /\ UNCHANGED <<store, writer, circulars, chunkRows, supersedes,
                         indexes, work, world>>
       \/ pending[j] # {} /\ Fail(j)

(* Mutant of Complete: the assessments of all jobs are counted.            *)
CompleteCountsAll(j) ==
    /\ At(j, "report")
    /\ Report(j, "completed")
    /\ impactsFound' = [impactsFound EXCEPT ![j] = Cardinality(assessments)]
    /\ Goto(j, "close")
    /\ UNCHANGED <<database, indexes, work, world>>

Complete(j) ==
    /\ At(j, "report")
    /\ Report(j, "completed")
    /\ impactsFound' = [impactsFound EXCEPT ![j] = Cardinality(pending[j])]
    /\ Goto(j, "close")
    /\ UNCHANGED <<database, indexes, work, world>>

(* db.close(): what is left of the session's transaction is rolled back.   *)
Close(j) ==
    /\ At(j, "close")
    /\ writer' = IF writer = j THEN NoOne ELSE writer
    /\ pending' = [pending EXCEPT ![j] = {}]
    /\ todo' = [todo EXCEPT ![j] = {}]
    /\ hits' = [hits EXCEPT ![j] = {}]
    /\ finding' = [finding EXCEPT ![j] = NoOne]
    /\ Goto(j, "ended")
    /\ UNCHANGED <<store, circulars, chunkRows, assessments, supersedes,
                   indexes, chunksOf, world>>

FilesMatch == indexFile = idsFile /\ indexFile # Torn

(* The server dies and is started again: the jobs are gone with their      *)
(* sessions and the stores; the files are as they were left.               *)
Alive(j) == pc[j] \notin {"none", "ended", "killed"}

Crash ==
    /\ crashes < MaxCrashes
    /\ crashes' = crashes + 1
    /\ writer' = NoOne
    /\ singleton' = NoOne
    /\ index' = [s \in Jobs |-> {}] /\ idMap' = [s \in Jobs |-> {}]
    /\ locked' = [j \in Jobs |-> NoOne]
    /\ sparseMade' = FALSE /\ sparse' = {}
    /\ spoilt' = (spoilt \/ ~FilesMatch)
    /\ pc' = [j \in Jobs |-> IF Alive(j) THEN "killed" ELSE pc[j]]
    /\ todo' = [j \in Jobs |-> {}]
    /\ hits' = [j \in Jobs |-> {}]
    /\ finding' = [j \in Jobs |-> NoOne]
    /\ pending' = [j \in Jobs |-> {}]
    /\ UNCHANGED <<store, circulars, chunkRows, assessments, supersedes, indexFile,
                   idsFile, chunksOf, alerts>>

Work(j) ==
    \/ Start(j) \/ Extract(j) \/ Insert(j) \/ MakeChunks(j)
    \/ FindNoStore(j) \/ ReadIndex(j) \/ ReadIds(j) \/ Adopt(j)
    \/ AddDense(j) \/ WriteIndex(j) \/ OpenIds(j) \/ WriteIds(j)
    \/ FindNoSparse(j) \/ MakeSparse(j) \/ AddSparse(j) \/ Commit(j)
    \/ Link(j) \/ Diff(j) \/ Retrieve(j) \/ Assess(j) \/ Verify(j)
    \/ Finish(j) \/ Complete(j) \/ Close(j)

Next == (\E j \in Jobs : Upload(j) \/ Work(j)) \/ Crash

(* The thread pool runs every task it was given, to its end.               *)
Fairness == \A j \in Jobs : WF_vars(Work(j))

Spec == Init /\ [][Next]_vars /\ Fairness

--------------------------------------------------------------------------------

RowsOf(j) == {a \in assessments : a.circular = j}

(* What a job reports is what the database holds: all of a completed job's *)
(* circular, chunks and assessments are committed and counted, a failed    *)
(* job has no assessment, and no partial set of assessments is ever seen.  *)
ReportedIsCommitted ==
    \A j \in Jobs :
        /\ status[j] = "completed" =>
            /\ j \in circulars
            /\ chunksOf[j] \subseteq chunkRows
            /\ Cardinality(RowsOf(j)) = impactsFound[j]
        /\ status[j] = "failed" => RowsOf(j) = {}

(* A committed assessment cites a committed chunk of its own circular, in  *)
(* spite of an index that holds the chunks of all circulars and ids of     *)
(* chunks that were rolled back (the filter on chunk_lookup, and the order *)
(* of the two commits).                                                    *)
CitationsResolve ==
    \A a \in assessments :
        /\ a.circular \in circulars
        /\ a.chunk \in chunkRows \cap chunksOf[a.circular]

(* A chunk in the database can be found in the FAISS index, by the server  *)
(* as it runs or as it will be started again, whatever failed, timed out   *)
(* or crashed between the steps: pipeline.py adds to index and files       *)
(* before it commits.  Just two things break this: a store that is put in  *)
(* place of another, and a death that leaves files that do not match.      *)
Within(chunks, file) == IF file = Absent THEN chunks = {} ELSE chunks \subseteq file

CommittedIsSearchable ==
    ~spoilt =>
        IF singleton # NoOne
        THEN /\ index[singleton] = idMap[singleton]
             /\ chunkRows \subseteq idMap[singleton]
        ELSE FilesMatch /\ Within(chunkRows, idsFile)

(* The write lock is held only by a live job that is inside its ingest     *)
(* transaction or on its way to close the session: no failure leaks it.    *)
Ingesting == {"chunk", "add_dense", "read_index", "read_ids", "adopt",
              "write_index", "open_ids", "write_ids", "add_sparse",
              "make_sparse", "commit"}

LockHolderWillRelease ==
    writer # NoOne => pc[writer] \in Ingesting \cup {"close"}

(* Unless the server dies, every uploaded circular ends completed or       *)
(* failed, and jobs that wait for the write lock do not wait for ever.     *)
JobsEnd ==
    \A j \in Jobs : At(j, "queued") ~>
        (status[j] \in {"completed", "failed"} \/ At(j, "killed"))

(* Seen from outside, jobs behave like a ledger: whatever fails, overlaps  *)
(* or crashes in between, a job's assessments appear in one step, are then *)
(* counted in its status, and none appears of a job that failed.           *)
Ledger == INSTANCE JobLedger WITH rows <- [j \in Jobs |-> RowsOf(j)]

ImplementsJobLedger == Ledger!Spec
================================================================================
