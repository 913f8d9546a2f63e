----------------------------- MODULE PipelineProofs -----------------------------
(***************************************************************************)
(* Proofs about the background jobs.  IInv is the inductive invariant.  It *)
(* adds to the properties what each job may rely on at each of its steps;  *)
(* Next is treated one job at a time: a step of a job changes nothing of   *)
(* another job, and what they commit is not taken back.                    *)
(***************************************************************************)
EXTENDS Pipeline, FiniteSetTheorems, TLAPS

Ingested == {"link", "diff", "policies", "verify", "report"}
Over == {"close", "ended", "killed"}

(* The calls for a store, and where the steps of add() are.                *)
Making == {"read_index", "read_ids", "adopt"}
Writing == {"write_index", "open_ids", "write_ids"}
Added == {"add_sparse", "make_sparse", "commit"}

(* Where a job is that has not committed its circular.  At the other       *)
(* labels of the stores it may be an ingest or a search.                   *)
Before == {"none", "queued", "extract", "insert", "chunk", "add_dense",
           "add_sparse", "commit"} \cup Writing

(* After its commit, a job's chunks are in the database together with the  *)
(* circular.  While it writes the files, it holds a store's lock.          *)
IngestOK(j) ==
    /\ j \in circulars => pc[j] \notin Before /\ chunksOf[j] \subseteq chunkRows
    /\ pc[j] \in Ingested => j \in circulars
    /\ pc[j] \in Writing => locked[j] \in Jobs

(* Whatever a job is about to cite is in the database.                     *)
Citable(j, c) == j \in circulars /\ c \in chunkRows \cap chunksOf[j]

HitsOK(j) == \A h \in hits[j] : Citable(j, h[2])
FindingOK(j) ==
    pc[j] = "verify" =>
        /\ finding[j] \in Impact
        /\ finding[j].circular = j /\ Citable(j, finding[j].chunk)
PendingOK(j) ==
    /\ IsFiniteSet(pending[j])
    /\ \A a \in pending[j] : a.circular = j /\ Citable(j, a.chunk)

(* A job's assessments appear all at once, when it is about to report.     *)
ReportOK(j) ==
    /\ RowsOf(j) # {} => pc[j] \in Over \cup {"report"}
    /\ pc[j] = "report" => RowsOf(j) = pending[j]
    /\ status[j] \in {"completed", "failed"} => pc[j] \in Over

JobOK(j) ==
    IngestOK(j) /\ HitsOK(j) /\ FindingOK(j) /\ PendingOK(j) /\ ReportOK(j)

(* What a job that makes a store has read, as long as there is none.       *)
Cold(j) ==
    /\ pc[j] \notin Writing \cup Added
    /\ pc[j] = "read_ids" => indexFile # Absent /\ index[j] = indexFile
    /\ pc[j] = "adopt" =>
        \/ indexFile = Absent /\ index[j] = {} /\ idMap[j] = {}
        \/ indexFile # Absent /\ index[j] = indexFile /\ idMap[j] = idsFile

(* Once there is one, a job's chunks are in it before they are committed,  *)
(* and in the files if those match.                                        *)
Warm(j) ==
    /\ pc[j] \in Writing => locked[j] = singleton
    /\ pc[j] \in Writing \cup Added /\ j \notin circulars =>
            chunksOf[j] \subseteq idMap[singleton]
    /\ pc[j] \in Added /\ j \notin circulars /\ FilesMatch =>
            Within(chunksOf[j], idsFile)

StoresOK ==
    ~spoilt =>
        IF singleton = NoOne
        THEN /\ FilesMatch /\ Within(chunkRows, idsFile)
             /\ \A j \in Jobs : Cold(j)
        ELSE /\ index[singleton] = idMap[singleton]
             /\ chunkRows \subseteq idMap[singleton]
             /\ FilesMatch => Within(chunkRows, idsFile)
             /\ pc[singleton] \notin Making
             /\ \A j \in Jobs : Warm(j)

(* Whoever holds the write lock has not committed its circular.            *)
LockOK ==
    /\ LockHolderWillRelease
    /\ writer # NoOne /\ pc[writer] # "close" => writer \notin circulars

IInv ==
    /\ TypeOK
    /\ \A j \in Jobs : JobOK(j)
    /\ CitationsResolve
    /\ StoresOK
    /\ LockOK
    /\ ReportedIsCommitted

--------------------------------------------------------------------------------

(* What a step of a job leaves alone.                                      *)
OnlyJob(j) ==
    \A i \in Jobs \ {j} :
        /\ status'[i] = status[i] /\ impactsFound'[i] = impactsFound[i]
        /\ chunksOf'[i] = chunksOf[i] /\ pc'[i] = pc[i]
        /\ hits'[i] = hits[i] /\ finding'[i] = finding[i]
        /\ pending'[i] = pending[i] /\ locked'[i] = locked[i]

Move(j) == Upload(j) \/ Work(j)

(* The steps in the stores, of an ingest or of a search.                   *)
StoreStep(j) ==
    \/ FindNoStore(j) \/ ReadIndex(j) \/ ReadIds(j) \/ Adopt(j)
    \/ AddDense(j) \/ WriteIndex(j) \/ OpenIds(j) \/ WriteIds(j)
    \/ FindNoSparse(j) \/ MakeSparse(j) \/ AddSparse(j)

Storing == {"add_dense", "add_sparse", "make_sparse"} \cup Making \cup Writing

(* They change nothing but the stores, the label and, raising, the status; *)
(* a search comes back to its circular's policies, an ingest goes on.      *)
LEMMA StoreSteps ==
  ASSUME NEW j \in Jobs, StoreStep(j)
  PROVE  /\ UNCHANGED <<impactsFound, database, work, world>>
         /\ pc[j] \in Storing \cup {"policies"}
         /\ \/ Raise(j)
            \/ /\ UNCHANGED status
               /\ \E label \in Storing \cup {"commit", "policies"} :
                    /\ Goto(j, label)
                    /\ label = "policies" => j \in circulars
                    /\ label \in Before => pc[j] \in Before \/ j \notin circulars
<1> USE DEF At, Storing, Making, Writing, Before, Searching, Caller, store, Raise
<1>1. CASE FindNoStore(j) \/ FindNoSparse(j)
  BY <1>1 DEF FindNoStore, FindNoSparse
<1>2. CASE ReadIndex(j) \/ ReadIds(j)
  BY <1>2 DEF ReadIndex, ReadIds
<1>3. CASE Adopt(j) \/ MakeSparse(j)
  BY <1>3 DEF Adopt, MakeSparse
<1>4. CASE AddDense(j) \/ AddSparse(j)
  BY <1>4 DEF AddDense, AddSparse
<1>5. CASE WriteIndex(j) \/ OpenIds(j) \/ WriteIds(j)
  BY <1>5 DEF WriteIndex, OpenIds, WriteIds
<1> QED
  BY <1>1, <1>2, <1>3, <1>4, <1>5 DEF StoreStep

(* Taking and releasing the lock of a store.                               *)
LEMMA LockedSteps ==
  ASSUME TypeOK, NEW j \in Jobs, StoreStep(j)
  PROVE  /\ \A i \in Jobs \ {j} : locked'[i] = locked[i]
         /\ pc'[j] \in Writing =>
                \/ locked'[j] \in Jobs
                \/ pc[j] \in Writing /\ locked'[j] = locked[j]
<1> USE DEF TypeOK, DenseTypeOK, At, Goto, Raise, Writing
<1>1. CASE FindNoStore(j) \/ FindNoSparse(j) \/ ReadIndex(j) \/ ReadIds(j)
  BY <1>1 DEF FindNoStore, FindNoSparse, ReadIndex, ReadIds, indexes, dense
<1>2. CASE Adopt(j) \/ MakeSparse(j) \/ AddSparse(j)
  BY <1>2 DEF Adopt, MakeSparse, AddSparse, Caller, dense
<1>3. CASE AddDense(j)
  BY <1>3 DEF AddDense
<1>4. CASE WriteIndex(j) \/ OpenIds(j) \/ WriteIds(j)
  BY <1>4 DEF WriteIndex, OpenIds, WriteIds, Unlock
<1> QED
  BY <1>1, <1>2, <1>3, <1>4 DEF StoreStep

(* A step of a job changes nothing that is another job's.                  *)
LEMMA FrameOfJob ==
  ASSUME TypeOK, NEW j \in Jobs, Move(j)
  PROVE  OnlyJob(j)
<1> USE DEF TypeOK, OnlyJob, Goto, Report, Raise, store, work, indexes, dense
<1>1. CASE Upload(j)
  BY <1>1 DEF Upload
<1>2. CASE Start(j)
  BY <1>2 DEF Start
<1>3. CASE Extract(j)
  BY <1>3 DEF Extract, Fail
<1>4. CASE Insert(j)
  BY <1>4 DEF Insert, Fail
<1>5. CASE MakeChunks(j)
  BY <1>5 DEF MakeChunks, Loop, Fail
<1>6. CASE StoreStep(j)
  BY <1>6, StoreSteps, LockedSteps
<1>8. CASE Commit(j)
  BY <1>8 DEF Commit, Fail
<1>9. CASE Link(j)
  BY <1>9 DEF Link, Loop, Fail
<1>10. CASE Diff(j)
  BY <1>10 DEF Diff, Loop, Fail
<1>11. CASE Retrieve(j)
  BY <1>11 DEF Retrieve, Searching, Fail
<1>12. CASE Assess(j)
  BY <1>12 DEF Assess, Fail
<1>13. CASE Verify(j)
  BY <1>13 DEF Verify, Fail
<1>14. CASE Finish(j)
  BY <1>14 DEF Finish, Fail
<1>15. CASE Complete(j)
  BY <1>15 DEF Complete
<1>16. CASE Close(j)
  BY <1>16 DEF Close
<1> QED
  BY <1>1, <1>2, <1>3, <1>4, <1>5, <1>6, <1>8, <1>9, <1>10, <1>11, <1>12,
     <1>13, <1>14, <1>15, <1>16 DEF Move, Work, StoreStep

(* What the jobs share only grows, and by what is the job's own.           *)
Growth(j) ==
    /\ circulars' \in {circulars, circulars \cup {j}}
    /\ chunkRows \subseteq chunkRows'
    /\ assessments' \in {assessments, assessments \cup pending[j]}

(* Every step of a job obeys Growth.                                       *)
LEMMA GrowthOfShared ==
  ASSUME NEW j \in Jobs, Move(j)
  PROVE  Growth(j)
<1> USE DEF Growth, database, indexes
<1>1. CASE Upload(j) \/ Start(j) \/ Extract(j) \/ Insert(j)
  BY <1>1 DEF Upload, Start, Extract, Insert, Fail
<1>2. CASE MakeChunks(j) \/ Commit(j)
  BY <1>2 DEF MakeChunks, Commit, Fail
<1>6. CASE StoreStep(j)
  BY <1>6, StoreSteps
<1>3. CASE Link(j) \/ Diff(j) \/ Retrieve(j) \/ Assess(j)
  BY <1>3 DEF Link, Diff, Retrieve, Assess, Fail
<1>4. CASE Verify(j) \/ Finish(j) \/ Complete(j) \/ Close(j)
  BY <1>4 DEF Verify, Finish, Complete, Close, Fail
<1> QED
  BY <1>1, <1>2, <1>3, <1>4, <1>6 DEF Move, Work, StoreStep


(* The row made of an impact is an assessment.                             *)
LEMMA RowIsAssessment ==
  ASSUME NEW impact \in Impact, NEW ok \in BOOLEAN
  PROVE  Row(impact, ok) \in Assessment
BY DEF Row, Impact, Assessment

(* The stores and their files keep their types.                            *)
LEMMA DenseTypeOfJob ==
  ASSUME TypeOK, NEW j \in Jobs, IngestOK(j), StoreStep(j)
  PROVE  DenseTypeOK'
<1> USE DEF TypeOK, DenseTypeOK
<1>1. CASE FindNoStore(j) \/ FindNoSparse(j) \/ MakeSparse(j) \/ AddSparse(j)
  BY <1>1 DEF FindNoStore, FindNoSparse, MakeSparse, AddSparse, indexes, dense
<1>2. CASE Adopt(j)
  <2>1. spoilt' \in BOOLEAN
    BY <1>2, Zenon DEF Adopt
  <2> QED
    BY <1>2, <2>1 DEF Adopt
<1>3. CASE ReadIndex(j) \/ ReadIds(j)
  BY <1>3 DEF ReadIndex, ReadIds
<1>4. CASE AddDense(j)
  BY <1>4 DEF AddDense
<1>5. CASE WriteIndex(j) \/ OpenIds(j) \/ WriteIds(j)
  <2>1. locked[j] \in Jobs
    BY <1>5 DEF WriteIndex, OpenIds, WriteIds, At, IngestOK, Writing
  <2>2. locked' \in [Jobs -> Jobs \cup {NoOne}]
    BY <1>5 DEF WriteIndex, OpenIds, WriteIds, Unlock
  <2> QED
    BY <1>5, <2>1, <2>2 DEF WriteIndex, OpenIds, WriteIds
<1> QED
  BY <1>1, <1>2, <1>3, <1>4, <1>5 DEF StoreStep

(* A step of a job preserves the types; the writes need the lock, Verify   *)
(* and Complete the job's finding and its session's rows.                  *)
LEMMA TypeOfJob ==
  ASSUME TypeOK, NEW j \in Jobs, IngestOK(j), FindingOK(j), PendingOK(j), Move(j)
  PROVE  TypeOK'
<1> USE DEF TypeOK, Goto, At, Report, Raise, store, database, indexes, work, world,
            Labels
<1>0. UNCHANGED dense => DenseTypeOK'
  BY DEF DenseTypeOK, dense
<1> USE <1>0
<1>1. CASE Upload(j)
  <2>1. PICK D \in Documents[j] : chunksOf' = [chunksOf EXCEPT ![j] = D]
    BY <1>1 DEF Upload
  <2>2. D \subseteq Chunk
    BY PipelineAssumption DEF PipelineAssumption
  <2>3. chunksOf' \in [Jobs -> SUBSET Chunk]
    BY <2>1, <2>2
  <2> QED
    BY <1>1, <2>3 DEF Upload
<1>2. CASE Start(j)
  BY <1>2 DEF Start
<1>3. CASE Extract(j)
  BY <1>3 DEF Extract, Fail
<1>4. CASE Insert(j)
  BY <1>4 DEF Insert, Fail
<1>5. CASE MakeChunks(j)
  BY <1>5 DEF MakeChunks, Loop, Fail
<1>6. CASE StoreStep(j)
  <2>1. DenseTypeOK'
    BY <1>6, DenseTypeOfJob
  <2>2. sparseMade' \in BOOLEAN /\ sparse' \subseteq Chunk
    BY <1>6 DEF StoreStep, FindNoStore, ReadIndex, ReadIds, Adopt, AddDense,
       WriteIndex, OpenIds, WriteIds, FindNoSparse, MakeSparse, AddSparse
  <2> QED
    BY <1>6, <2>1, <2>2, StoreSteps DEF Storing, Making, Writing
<1>8. CASE Commit(j)
  BY <1>8 DEF Commit, Fail
<1>9. CASE Link(j)
  BY <1>9 DEF Link, Loop, Fail, Referenced
<1>10. CASE Diff(j)
  BY <1>10 DEF Diff, Loop, Fail
<1>11. CASE Retrieve(j)
  <2>1. CASE Fail(j)
    BY <2>1 DEF Fail
  <2>2. CASE ~Fail(j)
    <3>1. PICK p \in todo[j], F \in Fused : \E R \in Reranked(Own(j, F)) :
            hits' = [hits EXCEPT ![j] = {p} \X R]
      BY <1>11, <2>2 DEF Retrieve
    <3>2. PICK R \in Reranked(Own(j, F)) : hits' = [hits EXCEPT ![j] = {p} \X R]
      BY <3>1
    <3>3. {p} \X R \subseteq Policies \X Chunk
      BY DEF Reranked, Best, Own
    <3>4. hits' \in [Jobs -> SUBSET (Policies \X Chunk)]
      BY <3>2, <3>3
    <3>5. todo' \in [Jobs -> SUBSET Policies]
      BY <1>11, <2>2 DEF Retrieve
    <3> QED
      BY <1>11, <2>2, <3>4, <3>5 DEF Retrieve
  <2> QED
    BY <2>1, <2>2
<1>12. CASE Assess(j)
  BY <1>12 DEF Assess, Fail, Impact
<1>13. CASE Verify(j)
  <2>1. finding[j] \in Impact
    BY <1>13 DEF Verify, FindingOK
  <2> QED
    BY <1>13, <2>1, RowIsAssessment DEF Verify, Fail
<1>14. CASE Finish(j)
  BY <1>14 DEF Finish, Fail
<1>15. CASE Complete(j)
  <2>1. Cardinality(pending[j]) \in Nat
    BY FS_CardinalityType DEF PendingOK
  <2> QED
    BY <1>15, <2>1 DEF Complete
<1>16. CASE Close(j)
  BY <1>16 DEF Close
<1> QED
  BY <1>1, <1>2, <1>3, <1>4, <1>5, <1>6, <1>8, <1>9, <1>10, <1>11, <1>12,
     <1>13, <1>14, <1>15, <1>16 DEF Move, Work, StoreStep

(* A crash preserves the types.                                            *)
LEMMA TypeOfCrash ==
  ASSUME TypeOK, Crash
  PROVE  TypeOK'
<1>1. spoilt' \in BOOLEAN
  BY Zenon DEF Crash, TypeOK, DenseTypeOK
<1>2. DenseTypeOK'
  BY <1>1 DEF DenseTypeOK, TypeOK, Crash
<1>3. crashes' \in 0..MaxCrashes
  BY PipelineAssumption DEF PipelineAssumption, TypeOK, Crash
<1> QED
  BY <1>2, <1>3 DEF TypeOK, Crash, store, Labels


--------------------------------------------------------------------------------

(* Another job's rows are not touched, because a job's pending rows are    *)
(* its own.                                                                *)
LEMMA RowsOfOthers ==
  ASSUME NEW j \in Jobs, NEW i \in Jobs \ {j}, PendingOK(j), Growth(j)
  PROVE  RowsOf(i)' = RowsOf(i)
BY DEF RowsOf, PendingOK, Growth

(* What a job may rely on is not taken away by another job's step.         *)
LEMMA OtherJobs ==
  ASSUME NEW j \in Jobs, NEW i \in Jobs \ {j}, JobOK(i), PendingOK(j),
         OnlyJob(j), Growth(j)
  PROVE  JobOK(i)'
<1>1. RowsOf(i)' = RowsOf(i)
  BY RowsOfOthers
<1>2. /\ status'[i] = status[i] /\ chunksOf'[i] = chunksOf[i] /\ pc'[i] = pc[i]
      /\ hits'[i] = hits[i] /\ finding'[i] = finding[i]
      /\ pending'[i] = pending[i] /\ locked'[i] = locked[i]
  BY DEF OnlyJob
<1>3. \A c : Citable(i, c) => Citable(i, c)'
  BY <1>2 DEF Citable, Growth
<1>4. IngestOK(i)'
  <2>1. (i \in circulars => pc[i] \notin Before /\ chunksOf[i] \subseteq chunkRows)'
    BY <1>2 DEF JobOK, IngestOK, Growth
  <2>2. (pc[i] \in Ingested => i \in circulars)'
    BY <1>2 DEF JobOK, IngestOK, Growth
  <2>3. (pc[i] \in Writing => locked[i] \in Jobs)'
    BY <1>2 DEF JobOK, IngestOK
  <2> QED
    BY <2>1, <2>2, <2>3 DEF IngestOK
<1>5. HitsOK(i)'
  BY <1>2, <1>3 DEF JobOK, HitsOK
<1>6. FindingOK(i)'
  BY <1>2, <1>3 DEF JobOK, FindingOK
<1>7. PendingOK(i)'
  BY <1>2, <1>3 DEF JobOK, PendingOK
<1>8. ReportOK(i)'
  BY <1>1, <1>2 DEF JobOK, ReportOK
<1> QED
  BY <1>4, <1>5, <1>6, <1>7, <1>8 DEF JobOK


(* The job that moves: its circular is committed with its chunks.          *)
LEMMA IngestOfJob ==
  ASSUME TypeOK, NEW j \in Jobs, IngestOK(j), Move(j)
  PROVE  IngestOK(j)'
<1> USE DEF TypeOK, IngestOK, Ingested, Before, Writing, Goto, At, Raise, database, indexes, work
<1>1. CASE Upload(j)
  BY <1>1 DEF Upload
<1>2. CASE Start(j)
  BY <1>2 DEF Start
<1>3. CASE Extract(j)
  BY <1>3 DEF Extract, Fail
<1>4. CASE Insert(j)
  BY <1>4 DEF Insert, Fail
<1>5. CASE MakeChunks(j)
  BY <1>5 DEF MakeChunks, Loop, Fail
<1>6. CASE StoreStep(j)
  BY <1>6, StoreSteps, LockedSteps DEF Storing, Making
<1>8. CASE Commit(j)
  BY <1>8 DEF Commit, Fail
<1>9. CASE Link(j)
  BY <1>9 DEF Link, Loop, Fail
<1>10. CASE Diff(j)
  BY <1>10 DEF Diff, Loop, Fail
<1>11. CASE Retrieve(j)
  BY <1>11 DEF Retrieve, Searching, Fail
<1>12. CASE Assess(j)
  BY <1>12 DEF Assess, Fail
<1>13. CASE Verify(j)
  BY <1>13 DEF Verify, Fail
<1>14. CASE Finish(j)
  BY <1>14 DEF Finish, Fail
<1>15. CASE Complete(j)
  BY <1>15 DEF Complete
<1>16. CASE Close(j)
  BY <1>16 DEF Close
<1> QED
  BY <1>1, <1>2, <1>3, <1>4, <1>5, <1>6, <1>8, <1>9, <1>10, <1>11, <1>12,
     <1>13, <1>14, <1>15, <1>16 DEF Move, Work, StoreStep

(* hits, finding and pending change in four actions only.                  *)
Citing(j) == Retrieve(j) \/ Assess(j) \/ Verify(j) \/ Close(j)

(* All other steps leave them alone.                                       *)
LEMMA NotCiting ==
  ASSUME NEW j \in Jobs, Move(j), ~Citing(j)
  PROVE  hits' = hits /\ finding' = finding /\ pending' = pending
<1> USE DEF work
<1>1. CASE Upload(j) \/ Start(j) \/ Extract(j) \/ Insert(j)
  BY <1>1 DEF Upload, Start, Extract, Insert, Fail
<1>2. CASE MakeChunks(j) \/ Commit(j)
  BY <1>2 DEF MakeChunks, Commit, Fail, Loop
<1>4. CASE StoreStep(j)
  BY <1>4, StoreSteps
<1>3. CASE Link(j) \/ Diff(j) \/ Finish(j) \/ Complete(j)
  BY <1>3 DEF Link, Diff, Finish, Complete, Fail, Loop
<1> QED
  BY <1>1, <1>2, <1>3, <1>4 DEF Move, Work, StoreStep, Citing

(* Only an upload gives a job its chunks, before anything cites them.      *)
LEMMA CitableStays ==
  ASSUME TypeOK, NEW j \in Jobs, IngestOK(j), Growth(j), Move(j)
  PROVE  \A c : Citable(j, c) => Citable(j, c)'
<1>1. CASE Upload(j)
  BY <1>1 DEF Upload, At, IngestOK, Before, Citable
<1>2. CASE ~Upload(j)
  <2>1. chunksOf' = chunksOf
    BY <1>2, StoreSteps DEF Move, Work, StoreStep, work, Start, Extract, Insert,
          MakeChunks, Commit, Link, Diff, Retrieve, Assess, Verify, Finish,
          Complete, Close, Fail, Loop
  <2> QED
    BY <2>1 DEF Citable, Growth
<1> QED
  BY <1>1, <1>2

(* Retrieve takes chunks of the job's own committed circular only.         *)
LEMMA HitsOfJob ==
  ASSUME TypeOK, NEW j \in Jobs, IngestOK(j), HitsOK(j), Growth(j), Move(j)
  PROVE  HitsOK(j)'
<1>1. \A c : Citable(j, c) => Citable(j, c)'
  BY CitableStays
<1>2. CASE hits'[j] \subseteq hits[j]
  BY <1>1, <1>2 DEF HitsOK
<1>3. CASE ~(hits'[j] \subseteq hits[j])
  <2>1. Retrieve(j) /\ ~Fail(j)
    <3>1. Citing(j)
      BY <1>3, NotCiting
    <3>2. ~Assess(j) /\ ~Verify(j) /\ ~Close(j) /\ ~Fail(j)
      BY <1>3 DEF Assess, Verify, Close, Fail, work, TypeOK
    <3> QED
      BY <3>1, <3>2 DEF Citing
  <2>2. PICK p \in todo[j], F \in Fused : \E R \in Reranked(Own(j, F)) :
          hits' = [hits EXCEPT ![j] = {p} \X R]
    BY <2>1 DEF Retrieve
  <2>3. PICK R \in Reranked(Own(j, F)) : hits' = [hits EXCEPT ![j] = {p} \X R]
    BY <2>2
  <2>4. hits'[j] = {p} \X R
    BY <2>3 DEF TypeOK
  <2>5. j \in circulars
    BY <2>1 DEF Retrieve, Searching, At, IngestOK, Ingested
  <2>6. \A c \in R : Citable(j, c)
    BY <2>5 DEF Reranked, Best, Own, Citable
  <2> QED
    BY <1>1, <2>4, <2>6 DEF HitsOK
<1> QED
  BY <1>2, <1>3

(* The finding that a job verifies is made of one of its hits.             *)
LEMMA FindingOfJob ==
  ASSUME TypeOK, NEW j \in Jobs, IngestOK(j), HitsOK(j), Growth(j), Move(j)
  PROVE  FindingOK(j)'
<1>1. \A c : Citable(j, c) => Citable(j, c)'
  BY CitableStays
<1>2. CASE pc'[j] # "verify"
  BY <1>2 DEF FindingOK
<1>3. CASE pc'[j] = "verify"
  <2>1. Assess(j) /\ ~Fail(j)
    <3> USE <1>3 DEF TypeOK, Goto, At, Raise
    <3>1. ~Upload(j) /\ ~Start(j) /\ ~Extract(j) /\ ~Insert(j) /\ ~MakeChunks(j)
      BY DEF Upload, Start, Extract, Insert, MakeChunks, Loop, Fail
    <3>2. ~StoreStep(j) /\ ~Commit(j) /\ ~Link(j) /\ ~Diff(j)
      BY StoreSteps DEF Storing, Making, Writing, Commit, Link, Diff, Loop, Fail
    <3>3. ~Retrieve(j) /\ ~Verify(j) /\ ~Finish(j) /\ ~Complete(j) /\ ~Close(j)
      BY DEF Retrieve, Searching, Verify, Finish, Complete, Close, Fail
    <3>4. ~Fail(j)
      BY DEF Fail
    <3> QED
      BY <3>1, <3>2, <3>3, <3>4 DEF Move, Work, StoreStep
  <2>2. PICK h \in hits[j], m \in Methods :
          finding' = [finding EXCEPT ![j] =
              [circular |-> j, policy |-> h[1], chunk |-> h[2], method |-> m]]
    BY <2>1, <1>3 DEF Assess, At, TypeOK
  <2>3. finding'[j] =
          [circular |-> j, policy |-> h[1], chunk |-> h[2], method |-> m]
    BY <2>2 DEF TypeOK
  <2>4. finding'[j] \in Impact
    BY <2>3 DEF TypeOK, Impact
  <2>5. Citable(j, h[2])'
    BY <1>1 DEF HitsOK
  <2>6. finding'[j].circular = j /\ finding'[j].chunk = h[2]
    BY <2>3
  <2> QED
    BY <2>4, <2>5, <2>6 DEF FindingOK, Citable
<1> QED
  BY <1>2, <1>3

(* Verify adds the finding it was given to the session.                    *)
LEMMA PendingOfJob ==
  ASSUME TypeOK, NEW j \in Jobs, IngestOK(j), FindingOK(j), PendingOK(j),
         Growth(j), Move(j)
  PROVE  PendingOK(j)'
<1>1. \A c : Citable(j, c) => Citable(j, c)'
  BY CitableStays
<1>2. CASE pending'[j] = pending[j]
  BY <1>1, <1>2 DEF PendingOK
<1>3. CASE Close(j)
  BY <1>3, FS_EmptySet DEF Close, PendingOK, TypeOK
<1>4. CASE pending'[j] # pending[j] /\ ~Close(j)
  <2>1. Verify(j) /\ ~Fail(j)
    <3>1. Citing(j)
      BY <1>4, NotCiting
    <3>2. ~Retrieve(j) /\ ~Assess(j) /\ ~Fail(j)
      BY <1>4 DEF Retrieve, Assess, Fail, work
    <3> QED
      BY <1>4, <3>1, <3>2 DEF Citing
  <2>2. PICK ok \in BOOLEAN :
          pending' = [pending EXCEPT ![j] = @ \cup {Row(finding[j], ok)}]
    BY <2>1 DEF Verify
  <2>3. pending'[j] = pending[j] \cup {Row(finding[j], ok)}
    BY <2>2 DEF TypeOK
  <2>4. IsFiniteSet(pending'[j])
    BY <2>3, FS_AddElement DEF PendingOK
  <2>5. /\ Row(finding[j], ok).circular = j
        /\ Citable(j, Row(finding[j], ok).chunk)
    BY <2>1 DEF Verify, At, FindingOK, Row
  <2> QED
    BY <1>1, <2>3, <2>4, <2>5 DEF PendingOK
<1> QED
  BY <1>2, <1>3, <1>4

(* The rows of a job are unchanged but at its Finish.                      *)
LEMMA OnlyFinishAdds ==
  ASSUME TypeOK, NEW j \in Jobs, Move(j), ~(Finish(j) /\ pc'[j] = "report")
  PROVE  assessments' = assessments
<1> USE DEF database, indexes
<1>1. CASE Upload(j) \/ Start(j) \/ Extract(j) \/ Insert(j)
  BY <1>1 DEF Upload, Start, Extract, Insert, Fail
<1>2. CASE MakeChunks(j) \/ Commit(j)
  BY <1>2 DEF MakeChunks, Commit, Fail
<1>6. CASE StoreStep(j)
  BY <1>6, StoreSteps
<1>3. CASE Link(j) \/ Diff(j) \/ Retrieve(j) \/ Assess(j)
  BY <1>3 DEF Link, Diff, Retrieve, Assess, Fail
<1>4. CASE Verify(j) \/ Complete(j) \/ Close(j)
  BY <1>4 DEF Verify, Complete, Close, Fail
<1>5. CASE Finish(j) /\ pc'[j] # "report"
  BY <1>5 DEF Finish, Fail, Goto, TypeOK
<1> QED
  BY <1>1, <1>2, <1>3, <1>4, <1>5, <1>6 DEF Move, Work, StoreStep

(* Where a job's label and status go in one step, as far as its report is  *)
(* concerned.                                                              *)
LEMMA LabelsOfJob ==
  ASSUME TypeOK, NEW j \in Jobs, Move(j)
  PROVE  /\ pc[j] = "report" <=> Complete(j)
         /\ pc[j] \in Over <=> Close(j)
         /\ pc'[j] = "report" => Finish(j)
         /\ status'[j] = "completed" => Complete(j) \/ status'[j] = status[j]
         /\ status'[j] = "failed" => pc'[j] = "close" \/ status'[j] = status[j]
         /\ ~Complete(j) => impactsFound' = impactsFound
         /\ pc'[j] \notin Over => status'[j] \in {status[j], "queued", "processing"}
         /\ Close(j) => pc'[j] \in Over /\ status' = status
         /\ Complete(j) => pc'[j] \in Over
<1> USE DEF TypeOK, Over, Goto, At, Report, Raise, store
<1>1. CASE Upload(j)
  BY <1>1 DEF Upload, Complete, Close
<1>2. CASE Start(j)
  BY <1>2 DEF Start, Complete, Close
<1>3. CASE Extract(j)
  BY <1>3 DEF Extract, Fail, Complete, Close
<1>4. CASE Insert(j)
  BY <1>4 DEF Insert, Fail, Complete, Close
<1>5. CASE MakeChunks(j)
  BY <1>5 DEF MakeChunks, Loop, Fail, Complete, Close
<1>6. CASE StoreStep(j)
  BY <1>6, StoreSteps DEF Storing, Making, Writing, Complete, Close
<1>8. CASE Commit(j)
  BY <1>8 DEF Commit, Fail, Complete, Close
<1>9. CASE Link(j)
  BY <1>9 DEF Link, Loop, Fail, Complete, Close
<1>10. CASE Diff(j)
  BY <1>10 DEF Diff, Loop, Fail, Complete, Close
<1>11. CASE Retrieve(j)
  BY <1>11 DEF Retrieve, Searching, Fail, Complete, Close
<1>12. CASE Assess(j)
  BY <1>12 DEF Assess, Fail, Complete, Close
<1>13. CASE Verify(j)
  BY <1>13 DEF Verify, Fail, Complete, Close
<1>14. CASE Finish(j)
  BY <1>14 DEF Finish, Fail, Complete, Close
<1>15. CASE Complete(j)
  BY <1>15 DEF Complete, Close
<1>16. CASE Close(j)
  BY <1>16 DEF Complete, Close
<1> QED
  BY <1>1, <1>2, <1>3, <1>4, <1>5, <1>6, <1>8, <1>9, <1>10, <1>11, <1>12,
     <1>13, <1>14, <1>15, <1>16 DEF Move, Work, StoreStep

(* A job's rows appear when it finishes, and are what it then reports.     *)
LEMMA ReportOfJob ==
  ASSUME TypeOK, NEW j \in Jobs, PendingOK(j), ReportOK(j), Move(j)
  PROVE  ReportOK(j)'
<1>1. CASE Finish(j) /\ pc'[j] = "report"
  <2>1. RowsOf(j) = {}
    BY <1>1 DEF Finish, At, ReportOK, Over
  <2>2. /\ assessments' = assessments \cup pending[j]
        /\ pending' = pending /\ status' = status
    BY <1>1 DEF Finish, Fail, Raise, Goto, TypeOK, work, store
  <2>3. RowsOf(j)' = pending'[j]
    BY <2>1, <2>2 DEF RowsOf, PendingOK
  <2>4. status[j] \notin {"completed", "failed"}
    BY <1>1 DEF Finish, At, ReportOK, Over
  <2> QED
    BY <1>1, <2>2, <2>3, <2>4 DEF ReportOK
<1>2. CASE ~(Finish(j) /\ pc'[j] = "report")
  <2>1. RowsOf(j)' = RowsOf(j)
    BY <1>2, OnlyFinishAdds DEF RowsOf
  <2>2. pc'[j] # "report"
    BY <1>2, LabelsOfJob
  <2>3. (RowsOf(j) # {} => pc[j] \in Over)'
    BY <2>1, LabelsOfJob DEF ReportOK
  <2>4. (status[j] \in {"completed", "failed"} => pc[j] \in Over)'
    BY LabelsOfJob DEF ReportOK
  <2> QED
    BY <2>2, <2>3, <2>4 DEF ReportOK
<1> QED
  BY <1>1, <1>2

--------------------------------------------------------------------------------

(* What is committed at Finish is citable, and no citation is taken back.  *)
LEMMA CitationsOfStep ==
  ASSUME TypeOK, NEW j \in Jobs, \A i \in Jobs : IngestOK(i), PendingOK(j),
         CitationsResolve, OnlyJob(j), Growth(j), Move(j)
  PROVE  CitationsResolve'
<1> SUFFICES ASSUME NEW a \in assessments'
             PROVE  Citable(a.circular, a.chunk)'
  BY DEF CitationsResolve, Citable
<1>1. Citable(a.circular, a.chunk)
  BY DEF Growth, PendingOK, CitationsResolve, Citable
<1>2. a.circular \in Jobs
  BY <1>1 DEF Citable, TypeOK
<1>3. CASE a.circular = j
  BY <1>1, <1>3, CitableStays
<1>4. CASE a.circular # j
  <2>1. chunksOf'[a.circular] = chunksOf[a.circular]
    BY <1>2, <1>4 DEF OnlyJob
  <2> QED
    BY <1>1, <2>1 DEF Citable, Growth
<1> QED
  BY <1>3, <1>4

(* A job that is in no store and does not commit is of no matter to them.  *)
Elsewhere(j) ==
    /\ UNCHANGED <<indexes, chunkRows>>
    /\ pc'[j] \notin Making \cup Writing \cup Added

(* All steps but those in the stores and the commit are elsewhere.         *)
LEMMA ElsewhereSteps ==
  ASSUME TypeOK, NEW j \in Jobs, Move(j), ~StoreStep(j), ~Commit(j)
  PROVE  Elsewhere(j)
<1> USE DEF Elsewhere, TypeOK, Goto, Raise, database, Making, Writing, Added
<1>1. CASE Upload(j) \/ Start(j) \/ Extract(j) \/ Insert(j)
  BY <1>1 DEF Upload, Start, Extract, Insert, Fail
<1>2. CASE MakeChunks(j)
  BY <1>2 DEF MakeChunks, Loop, Fail
<1>3. CASE Link(j) \/ Diff(j) \/ Finish(j)
  BY <1>3 DEF Link, Diff, Finish, Loop, Fail
<1>4. CASE Retrieve(j)
  BY <1>4 DEF Retrieve, Searching, At, Fail
<1>5. CASE Assess(j) \/ Verify(j)
  BY <1>5 DEF Assess, Verify, At, Fail
<1>6. CASE Complete(j) \/ Close(j)
  BY <1>6 DEF Complete, Close
<1> QED
  BY <1>1, <1>2, <1>3, <1>4, <1>5, <1>6 DEF Move, Work, StoreStep

(* As long as there is no store, the files match, and a store that is made *)
(* of them holds what is committed.                                        *)
LEMMA ColdSteps ==
  ASSUME TypeOK, NEW j \in Jobs, StoresOK, ~spoilt, singleton = NoOne,
         OnlyJob(j), StoreStep(j)
  PROVE  StoresOK'
<1>1. /\ FilesMatch /\ Within(chunkRows, idsFile)
      /\ \A i \in Jobs : Cold(i)
  BY DEF StoresOK
<1>2. chunkRows' = chunkRows
  BY StoreSteps DEF database
<1>3. \A i \in Jobs \ {j} : pc'[i] = pc[i]
  BY DEF OnlyJob
<1>4. Cold(j) /\ j # NoOne
  BY <1>1, PipelineAssumption DEF PipelineAssumption
<1> USE DEF At, Goto, Raise, TypeOK, DenseTypeOK
<1>5. CASE FindNoStore(j)
  <2>1. UNCHANGED indexes /\ pc'[j] = "read_index"
    BY <1>5 DEF FindNoStore
  <2>2. Cold(j)'
    BY <2>1 DEF Cold, Writing, Added
  <2>3. \A i \in Jobs \ {j} : Cold(i)'
    BY <1>1, <1>3, <2>1 DEF Cold, indexes, dense
  <2> QED
    BY <1>1, <1>2, <2>1, <2>2, <2>3 DEF StoresOK, FilesMatch, indexes, dense
<1>6. CASE ReadIndex(j) \/ ReadIds(j)
  <2>1. /\ UNCHANGED <<singleton, indexFile, idsFile, spoilt>>
        /\ \A i \in Jobs \ {j} : index'[i] = index[i] /\ idMap'[i] = idMap[i]
    BY <1>6 DEF ReadIndex, ReadIds
  <2>2. ASSUME ReadIndex(j) PROVE Cold(j)'
    <3>1. indexFile # Torn
      BY <1>1 DEF FilesMatch
    <3>2. \/ /\ pc'[j] = "adopt" /\ indexFile = Absent
             /\ index'[j] = {} /\ idMap'[j] = {}
          \/ pc'[j] = "read_ids" /\ indexFile # Absent /\ index'[j] = indexFile
      BY <2>2, <3>1 DEF ReadIndex
    <3> QED
      BY <2>1, <3>2 DEF Cold, Writing, Added
  <2>3. ASSUME ReadIds(j) PROVE Cold(j)'
    <3>1. index'[j] = indexFile /\ indexFile # Absent
      BY <1>4, <2>3 DEF ReadIds, Cold
    <3>2. (pc'[j] = "adopt" /\ idMap'[j] = idsFile) \/ pc'[j] = "close"
      BY <2>3 DEF ReadIds
    <3> QED
      BY <2>1, <3>1, <3>2 DEF Cold, Writing, Added
  <2>4. Cold(j)'
    BY <1>6, <2>2, <2>3
  <2>5. \A i \in Jobs \ {j} : Cold(i)'
    BY <1>1, <1>3, <2>1 DEF Cold
  <2> QED
    BY <1>1, <1>2, <2>1, <2>4, <2>5 DEF StoresOK, FilesMatch
<1>7. CASE Adopt(j)
  <2>1. /\ UNCHANGED <<index, idMap, indexFile, idsFile>> /\ singleton' = j
        /\ pc'[j] \in {"policies", "add_dense"}
    BY <1>7 DEF Adopt, Caller
  <2>2. index[j] = idMap[j] /\ chunkRows \subseteq idMap[j]
    BY <1>1, <1>4, <1>7 DEF Adopt, Cold, FilesMatch, Within
  <2>3. \A i \in Jobs : pc'[i] \notin Writing \cup Added
    BY <1>1, <1>3, <2>1 DEF Cold, Writing, Added
  <2>4. \A i \in Jobs : Warm(i)'
    BY <2>3 DEF Warm
  <2>5. (FilesMatch => Within(chunkRows, idsFile))'
    BY <1>1, <1>2, <2>1 DEF Within
  <2>6. pc'[j] \notin Making
    BY <2>1 DEF Making
  <2> QED
    BY <1>2, <1>4, <2>1, <2>2, <2>4, <2>5, <2>6 DEF StoresOK
<1>8. ~AddDense(j) /\ ~WriteIndex(j) /\ ~OpenIds(j) /\ ~WriteIds(j)
  BY <1>4 DEF AddDense, WriteIndex, OpenIds, WriteIds, Cold, Writing
<1>9. ~FindNoSparse(j) /\ ~MakeSparse(j) /\ ~AddSparse(j)
  BY <1>4 DEF FindNoSparse, MakeSparse, AddSparse, Cold, Added
<1> QED
  BY <1>5, <1>6, <1>7, <1>8, <1>9 DEF StoreStep

(* Once there is a store, add() puts a job's chunks into it, and writes to *)
(* the files what is in it.                                                *)
LEMMA WarmSteps ==
  ASSUME TypeOK, TypeOK', NEW j \in Jobs, \A i \in Jobs : IngestOK(i), StoresOK,
         ~spoilt, singleton # NoOne, OnlyJob(j), StoreStep(j)
  PROVE  StoresOK'
<1> DEFINE ids == idMap[singleton]
<1>1. /\ index[singleton] = ids /\ chunkRows \subseteq ids
      /\ FilesMatch => Within(chunkRows, idsFile)
      /\ pc[singleton] \notin Making
      /\ \A i \in Jobs : Warm(i)
  BY DEF StoresOK
<1>2. UNCHANGED <<chunkRows, circulars, chunksOf>>
  BY StoreSteps DEF database, work
<1>3. \A i \in Jobs \ {j} : pc'[i] = pc[i]
  BY DEF OnlyJob
<1>4. singleton \in Jobs /\ ids \in SUBSET Chunk /\ ids \notin {Absent, Torn}
  <2>1. singleton \in Jobs
    BY DEF TypeOK, DenseTypeOK
  <2>2. ids \in SUBSET Chunk
    BY <2>1 DEF TypeOK, DenseTypeOK
  <2> QED
    BY <2>1, <2>2, PipelineAssumption DEF PipelineAssumption
<1>5. \A C : C \subseteq ids => Within(C, ids)
  BY <1>4 DEF Within
<1> USE DEF At, Goto, TypeOK, DenseTypeOK, Raise, Making, Writing, Added
<1>6. CASE ReadIndex(j) \/ ReadIds(j)
  <2>1. singleton # j
    BY <1>1, <1>6 DEF ReadIndex, ReadIds
  <2>2. /\ UNCHANGED <<singleton, locked, indexFile, idsFile, spoilt>>
        /\ index'[singleton] = index[singleton] /\ idMap'[singleton] = ids
        /\ pc'[j] \in {"read_ids", "adopt", "close"}
    BY <1>4, <1>6, <2>1 DEF ReadIndex, ReadIds
  <2>3. Warm(j)'
    BY <2>2 DEF Warm
  <2>4. \A i \in Jobs \ {j} : Warm(i)'
    BY <1>1, <1>2, <1>3, <2>2 DEF Warm, FilesMatch
  <2> QED
    BY <1>1, <1>2, <1>3, <1>4, <2>1, <2>2, <2>3, <2>4 DEF StoresOK, FilesMatch
<1>7. CASE Adopt(j)
  BY <1>7 DEF Adopt, StoresOK
<1>8. CASE AddDense(j)
  <2>1. /\ UNCHANGED <<singleton, idsFile, spoilt>>
        /\ idMap'[singleton] = ids \cup chunksOf[j]
        /\ index'[singleton] = index[singleton] \cup chunksOf[j]
    BY <1>4, <1>8 DEF AddDense
  <2>2. FilesMatch' => FilesMatch /\ indexFile' = indexFile
    BY <1>8, <2>1 DEF AddDense, FilesMatch
  <2>3. \A i \in Jobs \ {j} : locked'[i] = locked[i]
    BY <1>8 DEF AddDense
  <2>4. Warm(j)'
    <3>1. pc'[j] \in {"write_index", "close"}
      BY <1>8 DEF AddDense
    <3>2. pc'[j] = "write_index" => locked'[j] = singleton
      BY <1>8 DEF AddDense
    <3> QED
      BY <1>2, <2>1, <3>1, <3>2 DEF Warm
  <2>5. \A i \in Jobs \ {j} : Warm(i)'
    BY <1>1, <1>2, <1>3, <2>1, <2>2, <2>3 DEF Warm
  <2>6. pc'[singleton] \notin Making
    BY <1>1, <1>3, <1>8 DEF AddDense
  <2> QED
    BY <1>1, <1>2, <1>4, <2>1, <2>2, <2>4, <2>5, <2>6 DEF StoresOK
<1>9. CASE WriteIndex(j) \/ OpenIds(j) \/ WriteIds(j)
  <2>1. UNCHANGED <<singleton, index, idMap, spoilt>> /\ locked[j] = singleton
    BY <1>1, <1>9 DEF WriteIndex, OpenIds, WriteIds, Warm
  <2>2. pc'[j] \in {"open_ids", "write_ids", "add_sparse", "close"}
    BY <1>9 DEF WriteIndex, OpenIds, WriteIds
  <2>3. pc'[j] \in Writing => locked' = locked
    BY <1>9, <2>2 DEF WriteIndex, OpenIds, WriteIds
  <2>4. \A i \in Jobs \ {j} : locked'[i] = locked[i]
    BY <1>9 DEF WriteIndex, OpenIds, WriteIds, Unlock
  <2>5. pc'[j] = "add_sparse" => idsFile' = ids
    BY <1>9, <2>1, <2>2 DEF WriteIndex, OpenIds, WriteIds
  <2>6. FilesMatch' => (FilesMatch /\ idsFile' = idsFile) \/ idsFile' = ids
    BY <1>1, <1>9, <2>1 DEF WriteIndex, OpenIds, WriteIds, FilesMatch
  <2>7. Warm(j)'
    <3>1. chunksOf[j] \subseteq ids \/ j \in circulars
      BY <1>1, <1>9 DEF Warm, WriteIndex, OpenIds, WriteIds
    <3> QED
      BY <1>2, <1>5, <2>1, <2>2, <2>3, <2>5, <3>1 DEF Warm
  <2>8. \A i \in Jobs \ {j} : Warm(i)'
    BY <1>1, <1>2, <1>3, <1>5, <2>1, <2>4, <2>6 DEF Warm
  <2>9. (FilesMatch => Within(chunkRows, idsFile))'
    BY <1>1, <1>2, <1>5, <2>6
  <2>10. pc'[singleton] \notin Making
    BY <1>1, <1>3, <2>2
  <2> QED
    BY <1>1, <1>2, <1>4, <2>1, <2>7, <2>8, <2>9, <2>10 DEF StoresOK
<1>10. CASE FindNoSparse(j) \/ MakeSparse(j) \/ AddSparse(j)
  <2>1. UNCHANGED dense
    BY <1>10 DEF FindNoSparse, MakeSparse, AddSparse, indexes
  <2>2. pc'[j] \in Added \cup {"policies"} /\ (pc[j] \in Added \/ j \in circulars)
    BY <1>10 DEF FindNoSparse, MakeSparse, AddSparse, Caller, Searching, IngestOK,
                 Ingested
  <2>3. Warm(j)'
    BY <1>1, <1>2, <2>1, <2>2 DEF Warm, FilesMatch, dense
  <2>4. \A i \in Jobs \ {j} : Warm(i)'
    BY <1>1, <1>2, <1>3, <2>1 DEF Warm, FilesMatch, dense
  <2>5. pc'[singleton] \notin Making
    BY <1>1, <1>3, <2>2
  <2> QED
    BY <1>1, <1>2, <2>1, <2>3, <2>4, <2>5 DEF StoresOK, FilesMatch, dense
<1>11. ~FindNoStore(j)
  BY DEF FindNoStore
<1> QED
  BY <1>6, <1>7, <1>8, <1>9, <1>10, <1>11 DEF StoreStep

(* Every step of a job leaves the stores in order: the commit, because its *)
(* job has added its chunks before.                                        *)
LEMMA StoresAfterStep ==
  ASSUME TypeOK, TypeOK', NEW j \in Jobs, \A i \in Jobs : IngestOK(i), StoresOK,
         OnlyJob(j), Growth(j), Move(j)
  PROVE  StoresOK'
<1>1. \A i \in Jobs \ {j} : pc'[i] = pc[i] /\ chunksOf'[i] = chunksOf[i]
  BY DEF OnlyJob
<1>2. CASE StoreStep(j)
  <2>1. CASE spoilt
    <3>1. spoilt'
      BY <1>2, <2>1 DEF StoreStep, FindNoStore, ReadIndex, ReadIds, Adopt, AddDense,
         WriteIndex, OpenIds, WriteIds, FindNoSparse, MakeSparse, AddSparse,
         indexes, dense
    <3> QED
      BY <3>1 DEF StoresOK
  <2> QED
    BY <1>2, <2>1, ColdSteps, WarmSteps
<1>3. CASE Elsewhere(j)
  <2>1. UNCHANGED dense /\ chunkRows' = chunkRows
    BY <1>3 DEF Elsewhere, indexes
  <2>2. pc'[j] \notin Making \cup Writing \cup Added
    BY <1>3 DEF Elsewhere
  <2>3. \A i \in Jobs : Cold(i) => Cold(i)'
    BY <1>1, <2>1, <2>2 DEF Cold, dense, Making
  <2>4. \A i \in Jobs : Warm(i) => Warm(i)'
    BY <1>1, <2>1, <2>2 DEF Warm, dense, FilesMatch, Growth
  <2>5. singleton # NoOne /\ pc[singleton] \notin Making => pc'[singleton] \notin Making
    BY <1>1, <2>2 DEF TypeOK, DenseTypeOK
  <2> QED
    BY <2>1, <2>3, <2>4, <2>5 DEF StoresOK, FilesMatch, dense
<1>4. CASE Commit(j) /\ ~Elsewhere(j)
  <2>1. /\ UNCHANGED indexes /\ chunkRows' = chunkRows \cup chunksOf[j]
        /\ pc[j] = "commit" /\ pc'[j] = "link" /\ j \notin circulars
        /\ chunksOf' = chunksOf
    BY <1>4 DEF Commit, Fail, Raise, database, At, Goto, TypeOK, Elsewhere, Making,
       Writing, Added, IngestOK, Before, work
  <2>2. UNCHANGED dense
    BY <2>1 DEF indexes
  <2>3. singleton = NoOne => spoilt
    BY <2>1 DEF StoresOK, Cold, Added
  <2>4. \A i \in Jobs : Warm(i) => Warm(i)'
    BY <1>1, <2>1, <2>2 DEF Warm, dense, FilesMatch, Growth, Writing, Added
  <2>5. Warm(j) => /\ chunksOf[j] \subseteq idMap[singleton]
                   /\ FilesMatch => Within(chunksOf[j], idsFile)
    BY <2>1 DEF Warm, Added
  <2>6. Within(chunkRows, idsFile) /\ Within(chunksOf[j], idsFile)
          => Within(chunkRows', idsFile)
    BY <2>1 DEF Within
  <2>7. pc[singleton] \notin Making => pc'[singleton] \notin Making \/ singleton = NoOne
    BY <1>1, <2>1 DEF TypeOK, DenseTypeOK, Making
  <2> QED
    BY <2>1, <2>2, <2>3, <2>4, <2>5, <2>6, <2>7 DEF StoresOK, FilesMatch, dense
<1> QED
  BY <1>2, <1>3, <1>4, ElsewhereSteps

(* Files and stores in order are what searching needs.                     *)
LEMMA StoresSearchable ==
  ASSUME StoresOK
  PROVE  CommittedIsSearchable
BY DEF StoresOK, CommittedIsSearchable

(* The lock is taken at Insert when it is free; until the holder lets go,  *)
(* it moves only towards its commit or towards close.                      *)
LEMMA LockAfterStep ==
  ASSUME TypeOK, NEW j \in Jobs, IngestOK(j), LockOK, OnlyJob(j), Growth(j), Move(j)
  PROVE  LockOK'
<1> USE DEF LockOK
<1>1. CASE writer' = writer /\ writer # j
  BY <1>1 DEF LockHolderWillRelease, OnlyJob, Growth, TypeOK
<1>2. CASE writer' = NoOne
  BY <1>2 DEF LockHolderWillRelease
<1>3. CASE writer' # NoOne /\ ~(writer' = writer /\ writer # j)
  <2> USE <1>3, PipelineAssumption
      DEF PipelineAssumption, TypeOK, LockHolderWillRelease, At, Goto, Raise, LockFree,
          database, Ingesting
  <2>1. CASE Upload(j) \/ Start(j) \/ Extract(j)
    BY <2>1 DEF Upload, Start, Extract, Fail
  <2>2. CASE Insert(j)
    BY <2>2 DEF Insert, Fail, IngestOK, Before
  <2>3. CASE MakeChunks(j)
    BY <2>3 DEF MakeChunks, Fail
  <2>4. CASE StoreStep(j)
    BY <2>4, StoreSteps DEF Storing, Making, Writing
  <2>6. CASE Commit(j)
    BY <2>6 DEF Commit, Fail
  <2>7. CASE Link(j) \/ Diff(j) \/ Retrieve(j) \/ Assess(j)
    BY <2>7 DEF Link, Diff, Retrieve, Searching, Assess, Fail
  <2>8. CASE Verify(j) \/ Finish(j) \/ Complete(j) \/ Close(j)
    BY <2>8 DEF Verify, Finish, Complete, Close, Fail
  <2> QED
    BY <2>1, <2>2, <2>3, <2>4, <2>6, <2>7, <2>8 DEF Move, Work, StoreStep
<1> QED
  BY <1>1, <1>2, <1>3

(* A report is made in Complete, when the rows are those of the session,   *)
(* or in Raise, when there are none; afterwards only Close is left.        *)
LEMMA ReportedAfterStep ==
  ASSUME TypeOK, NEW j \in Jobs, IngestOK(j), PendingOK(j), ReportOK(j),
         ReportedIsCommitted, OnlyJob(j), Growth(j), Move(j)
  PROVE  ReportedIsCommitted'
<1> SUFFICES ASSUME NEW i \in Jobs
             PROVE  ( /\ status[i] = "completed" =>
                          /\ i \in circulars
                          /\ chunksOf[i] \subseteq chunkRows
                          /\ Cardinality(RowsOf(i)) = impactsFound[i]
                      /\ status[i] = "failed" => RowsOf(i) = {} )'
  BY DEF ReportedIsCommitted
<1>1. CASE i # j
  <2>1. RowsOf(i)' = RowsOf(i)
    BY <1>1, RowsOfOthers
  <2>2. /\ status'[i] = status[i] /\ chunksOf'[i] = chunksOf[i]
        /\ impactsFound'[i] = impactsFound[i]
    BY <1>1 DEF OnlyJob
  <2> QED
    BY <2>1, <2>2 DEF ReportedIsCommitted, Growth
<1>2. CASE i = j /\ Complete(j)
  <2>1. j \in circulars /\ chunksOf[j] \subseteq chunkRows
    BY <1>2 DEF Complete, At, IngestOK, Ingested
  <2>2. RowsOf(j) = pending[j]
    BY <1>2 DEF Complete, At, ReportOK
  <2>3. RowsOf(j)' = RowsOf(j)
    BY <1>2 DEF Complete, database, RowsOf
  <2>4. /\ status'[j] = "completed" /\ chunksOf' = chunksOf
        /\ circulars' = circulars /\ chunkRows' = chunkRows
    BY <1>2 DEF Complete, Report, TypeOK, work, database
  <2>5. impactsFound'[j] = Cardinality(pending[j])
    BY <1>2 DEF Complete, TypeOK
  <2> QED
    BY <1>2, <2>1, <2>2, <2>3, <2>4, <2>5
<1>3. CASE i = j /\ ~Complete(j) /\ status'[j] = status[j]
  <2>1. CASE status[j] \in {"completed", "failed"}
    <3>1. Close(j)
      BY <2>1, LabelsOfJob DEF ReportOK
    <3>2. /\ RowsOf(j)' = RowsOf(j) /\ chunksOf' = chunksOf
          /\ circulars' = circulars /\ chunkRows' = chunkRows
          /\ impactsFound' = impactsFound
      BY <3>1 DEF Close, store, RowsOf
    <3> QED
      BY <1>3, <3>2 DEF ReportedIsCommitted
  <2>2. CASE status[j] \notin {"completed", "failed"}
    BY <1>3, <2>2
  <2> QED
    BY <2>1, <2>2
<1>4. CASE i = j /\ ~Complete(j) /\ status'[j] # status[j]
  <2>1. CASE status'[j] = "failed"
    <3>1. pc'[j] = "close" /\ ~Close(j) /\ ~Complete(j)
      BY <1>4, <2>1, LabelsOfJob
    <3>2. RowsOf(j) = {}
      BY <3>1, LabelsOfJob DEF ReportOK
    <3>3. RowsOf(j)' = RowsOf(j)
      BY <3>1, OnlyFinishAdds DEF RowsOf
    <3> QED
      BY <1>4, <2>1, <3>2, <3>3
  <2>2. CASE status'[j] # "failed"
    BY <1>4, <2>2, LabelsOfJob
  <2> QED
    BY <2>1, <2>2
<1> QED
  BY <1>1, <1>2, <1>3, <1>4

--------------------------------------------------------------------------------

(* The initial states satisfy the invariant.                               *)
LEMMA InitEstablishes ==
  ASSUME Init
  PROVE  IInv
<1>1. TypeOK
  <2>1. DenseTypeOK
    BY DEF Init, DenseTypeOK
  <2>2. MaxCrashes \in Nat
    BY PipelineAssumption DEF PipelineAssumption
  <2>3. /\ status \in [Jobs -> {"none", "queued", "processing", "completed", "failed"}]
        /\ impactsFound \in [Jobs -> Nat]
        /\ writer \in Jobs \cup {NoOne}
        /\ circulars \subseteq Jobs /\ chunkRows \subseteq Chunk
        /\ assessments \subseteq Assessment
        /\ supersedes \in [Jobs -> Jobs \cup {NoOne}]
        /\ sparseMade \in BOOLEAN /\ sparse \subseteq Chunk
    BY DEF Init
  <2>4. /\ chunksOf \in [Jobs -> SUBSET Chunk]
        /\ pc \in [Jobs -> Labels]
        /\ todo \in [Jobs -> SUBSET Policies]
        /\ hits \in [Jobs -> SUBSET (Policies \X Chunk)]
        /\ finding \in [Jobs -> Impact \cup {NoOne}]
        /\ pending \in [Jobs -> SUBSET Assessment]
        /\ alerts \subseteq Assessment /\ crashes \in 0..MaxCrashes
    BY <2>2 DEF Init, Labels
  <2> QED
    BY <2>1, <2>3, <2>4 DEF TypeOK
<1>2. ASSUME NEW j \in Jobs PROVE JobOK(j)
  BY FS_EmptySet DEF Init, JobOK, IngestOK, HitsOK, FindingOK, PendingOK,
     ReportOK, RowsOf, Ingested, Before, Writing, Over
<1>3. CitationsResolve /\ LockOK
  BY DEF Init, CitationsResolve, LockOK, LockHolderWillRelease
<1>5. StoresOK
  BY PipelineAssumption DEF PipelineAssumption, Init, StoresOK, Cold, FilesMatch,
     Within, Writing, Added
<1>4. ReportedIsCommitted
  BY DEF Init, ReportedIsCommitted
<1> QED
  BY <1>1, <1>2, <1>3, <1>4, <1>5 DEF IInv

(* A step of a job preserves the invariant.                                *)
LEMMA JobPreserves ==
  ASSUME IInv, NEW j \in Jobs, Move(j)
  PROVE  IInv'
<1>1. /\ TypeOK /\ IngestOK(j) /\ HitsOK(j) /\ FindingOK(j) /\ PendingOK(j)
      /\ ReportOK(j) /\ \A i \in Jobs : JobOK(i) /\ IngestOK(i)
  BY DEF IInv, JobOK
<1>2. OnlyJob(j) /\ Growth(j)
  BY <1>1, FrameOfJob, GrowthOfShared
<1>3. TypeOK'
  BY <1>1, TypeOfJob
<1>4. JobOK(j)'
  <2>1. IngestOK(j)'
    BY <1>1, IngestOfJob
  <2>2. HitsOK(j)'
    BY <1>1, <1>2, HitsOfJob
  <2>3. FindingOK(j)'
    BY <1>1, <1>2, FindingOfJob
  <2>4. PendingOK(j)'
    BY <1>1, <1>2, PendingOfJob
  <2>5. ReportOK(j)'
    BY <1>1, ReportOfJob
  <2> QED
    BY <2>1, <2>2, <2>3, <2>4, <2>5 DEF JobOK
<1>5. \A i \in Jobs \ {j} : JobOK(i)'
  BY <1>1, <1>2, OtherJobs
<1>6. CitationsResolve'
  BY <1>1, <1>2, CitationsOfStep DEF IInv
<1>7. StoresOK'
  BY <1>1, <1>2, <1>3, StoresAfterStep DEF IInv
<1>8. LockOK'
  BY <1>1, <1>2, LockAfterStep DEF IInv
<1>9. ReportedIsCommitted'
  BY <1>1, <1>2, ReportedAfterStep DEF IInv
<1>10. \A i \in Jobs : JobOK(i)'
  BY <1>4, <1>5
<1> QED
  BY <1>3, <1>6, <1>7, <1>8, <1>9, <1>10 DEF IInv

(* A crash takes nothing back that is committed, and what it leaves of a   *)
(* job claims nothing.                                                     *)
LEMMA CrashPreserves ==
  ASSUME IInv, Crash
  PROVE  IInv'
<1> USE DEF IInv
<1>1. TypeOK'
  BY TypeOfCrash
<1>2. /\ UNCHANGED <<status, impactsFound, circulars, chunkRows, assessments,
                     indexFile, idsFile, chunksOf>>
      /\ writer' = NoOne
      /\ pc' = [j \in Jobs |-> IF Alive(j) THEN "killed" ELSE pc[j]]
      /\ hits' = [j \in Jobs |-> {}] /\ pending' = [j \in Jobs |-> {}]
  BY DEF Crash, store
<1>3. ASSUME NEW j \in Jobs PROVE JobOK(j)'
  <2>1. pc'[j] \in {"none", "ended", "killed"} /\ (pc'[j] = "none" <=> pc[j] = "none")
    BY <1>2 DEF Alive
  <2>2. RowsOf(j)' = RowsOf(j)
    BY <1>2 DEF RowsOf
  <2>3. IngestOK(j)'
    BY <1>2, <2>1 DEF JobOK, IngestOK, Ingested, Before, Writing
  <2>4. HitsOK(j)' /\ FindingOK(j)' /\ PendingOK(j)'
    BY <1>2, <2>1, FS_EmptySet DEF HitsOK, FindingOK, PendingOK
  <2>5. ReportOK(j)'
    BY <1>2, <2>1, <2>2 DEF JobOK, ReportOK, Over
  <2> QED
    BY <2>3, <2>4, <2>5 DEF JobOK
<1>4. CitationsResolve' /\ LockOK'
  BY <1>2 DEF CitationsResolve, LockOK, LockHolderWillRelease
<1>5. ReportedIsCommitted'
  BY <1>2 DEF ReportedIsCommitted, RowsOf
<1>6. StoresOK'
  <2> SUFFICES ASSUME ~spoilt' PROVE StoresOK'
    BY DEF StoresOK
  <2>1. ~spoilt /\ FilesMatch /\ singleton' = NoOne
    BY DEF Crash
  <2>2. Within(chunkRows, idsFile)
    BY <2>1 DEF StoresOK
  <2>3. \A j \in Jobs : Cold(j)'
    BY <1>2 DEF Cold, Alive, Writing, Added
  <2> QED
    BY <1>2, <2>1, <2>2, <2>3 DEF StoresOK, FilesMatch
<1> QED
  BY <1>1, <1>3, <1>4, <1>5, <1>6

(* A step that changes nothing preserves the invariant.                    *)
LEMMA StutterPreserves ==
  ASSUME IInv, UNCHANGED vars
  PROVE  IInv'
BY DEF vars, store, database, indexes, work, world, IInv, TypeOK, DenseTypeOK, JobOK, IngestOK,
   HitsOK, FindingOK, PendingOK, ReportOK, RowsOf, Citable, CitationsResolve,
   StoresOK, dense, Cold, Warm, FilesMatch, LockOK, LockHolderWillRelease,
   ReportedIsCommitted

(* IInv is an invariant of the jobs.                                       *)
LEMMA Inductive == Spec => []IInv
<1>1. Init => IInv
  BY InitEstablishes
<1>2. IInv /\ [Next]_vars => IInv'
  <2> SUFFICES ASSUME IInv, [Next]_vars PROVE IInv'
    OBVIOUS
  <2>1. CASE \E j \in Jobs : Upload(j) \/ Work(j)
    BY <2>1, JobPreserves DEF Move
  <2>2. CASE Crash
    BY <2>2, CrashPreserves
  <2>3. CASE UNCHANGED vars
    BY <2>3, StutterPreserves
  <2> QED
    BY <2>1, <2>2, <2>3 DEF Next
<1> QED
  BY <1>1, <1>2, PTL DEF Spec

(* The jobs' state keeps its type, whatever the number of circulars,       *)
(* policies and chunks.                                                    *)
THEOREM TypeCorrect == Spec => []TypeOK
BY Inductive, PTL DEF IInv

(* What a job reports is what the database holds: a completed job's rows   *)
(* are all committed and counted, a failed job has none.                   *)
THEOREM ReportsHold == Spec => []ReportedIsCommitted
BY Inductive, PTL DEF IInv

(* A committed assessment cites a committed chunk of its own circular.     *)
THEOREM CitationsHold == Spec => []CitationsResolve
BY Inductive, PTL DEF IInv

(* A chunk in the database can be found by the server, and by the one that *)
(* is started next, whatever raised or died, unless a store was put in the *)
(* place of another or a server died with files that did not match.        *)
THEOREM SearchableHolds == Spec => []CommittedIsSearchable
BY Inductive, StoresSearchable, PTL DEF IInv

(* The write lock is never held by a job that will not release it.         *)
THEOREM LockHolds == Spec => []LockHolderWillRelease
BY Inductive, PTL DEF IInv, LockOK

--------------------------------------------------------------------------------

Working(j) == pc[j] \notin {"none", "queued"} \cup Over

(* What clients are told while the job is on its way.                      *)
StatusOK(j) ==
    /\ pc[j] = "none" => status[j] = "none"
    /\ pc[j] = "queued" => status[j] = "queued"
    /\ Working(j) => status[j] = "processing"

(* The four ways in which a step can be seen from outside: it raises, it   *)
(* finishes, it is Upload, Start or Complete, or it cannot be seen.        *)
Raises(j) == Raise(j) /\ Working(j) /\ pc[j] # "report" /\ UNCHANGED assessments
Hidden(j) ==
    /\ UNCHANGED <<status, impactsFound, assessments>>
    /\ pc'[j] \in Over \/ (Working(j) /\ Working(j)')
Finishes(j) == Finish(j) /\ pc'[j] = "report" /\ UNCHANGED <<status, impactsFound>>

(* Every step of a job is of one of these kinds.                           *)
LEMMA KindsOfStep ==
  ASSUME TypeOK, NEW j \in Jobs, Move(j)
  PROVE  Upload(j) \/ Start(j) \/ Complete(j) \/ Raises(j) \/ Finishes(j) \/ Hidden(j)
<1> USE DEF TypeOK, Goto, At, Raises, Hidden, Finishes, Working, Over, store,
            database, indexes
<1>1. CASE Extract(j)
  BY <1>1 DEF Extract, Fail
<1>2. CASE Insert(j)
  BY <1>2 DEF Insert, Fail
<1>3. CASE MakeChunks(j)
  BY <1>3 DEF MakeChunks, Loop, Fail
<1>4. CASE StoreStep(j)
  BY <1>4, StoreSteps DEF Storing, Making, Writing
<1>6. CASE Commit(j)
  BY <1>6 DEF Commit, Fail
<1>7. CASE Link(j)
  BY <1>7 DEF Link, Loop, Fail
<1>8. CASE Diff(j)
  BY <1>8 DEF Diff, Loop, Fail
<1>9. CASE Retrieve(j)
  BY <1>9 DEF Retrieve, Searching, Fail
<1>10. CASE Assess(j)
  BY <1>10 DEF Assess, Fail
<1>11. CASE Verify(j)
  BY <1>11 DEF Verify, Fail
<1>12. CASE Finish(j)
  BY <1>12 DEF Finish, Fail
<1>13. CASE Close(j)
  BY <1>13 DEF Close
<1> QED
  BY <1>1, <1>2, <1>3, <1>4, <1>6, <1>7, <1>8, <1>9, <1>10, <1>11, <1>12,
     <1>13 DEF Move, Work, StoreStep

(* A job's status follows its labels.                                      *)
LEMMA StatusOfJob ==
  ASSUME TypeOK, NEW j \in Jobs, StatusOK(j), Move(j)
  PROVE  StatusOK(j)'
<1> USE DEF TypeOK, StatusOK, Working, Over, Goto, At, Report, Raise, store
<1>1. CASE Upload(j)
  BY <1>1 DEF Upload
<1>2. CASE Start(j)
  BY <1>2 DEF Start
<1>3. CASE Complete(j)
  BY <1>3 DEF Complete
<1>4. CASE Raises(j)
  BY <1>4 DEF Raises
<1>5. CASE Finishes(j)
  BY <1>5 DEF Finishes, Finish, Fail
<1>6. CASE Hidden(j)
  BY <1>6 DEF Hidden
<1> QED
  BY <1>1, <1>2, <1>3, <1>4, <1>5, <1>6, KindsOfStep

(* The other jobs keep theirs, and a crash makes no job work.              *)
LEMMA StatusInductive ==
  ASSUME TypeOK, \A j \in Jobs : StatusOK(j), [Next]_vars
  PROVE  \A j \in Jobs : StatusOK(j)'
<1>1. ASSUME NEW j \in Jobs, Move(j), NEW i \in Jobs PROVE StatusOK(i)'
  <2>1. CASE i = j
    BY <1>1, <2>1, StatusOfJob
  <2>2. CASE i # j
    BY <1>1, <2>2, FrameOfJob DEF OnlyJob, StatusOK, Working
  <2> QED
    BY <2>1, <2>2
<1>2. CASE Crash
  BY <1>2 DEF Crash, store, StatusOK, Working, Over, Alive, TypeOK
<1>3. CASE UNCHANGED vars
  BY <1>3 DEF vars, store, StatusOK, Working
<1> QED
  BY <1>1, <1>2, <1>3 DEF Next, Move

(* Where the rows stay, the ledger's rows stay.                            *)
LEMMA RowsStay ==
  ASSUME UNCHANGED assessments
  PROVE  [j \in Jobs |-> RowsOf(j)]' = [j \in Jobs |-> RowsOf(j)]
BY DEF RowsOf

(* The instance counts as FiniteSets does.                                 *)
LEMMA SameCount == \A S : Ledger!Cardinality(S) = Cardinality(S)
BY DEF Cardinality, Ledger!Cardinality, IsFiniteSet, Ledger!IsFiniteSet

(* A job's step is a step of the ledger, or leaves it unchanged.           *)
LEMMA JobImplements ==
  ASSUME IInv, NEW j \in Jobs, StatusOK(j), Move(j)
  PROVE  [Ledger!Next]_(Ledger!ledger)
<1>0. TypeOK /\ JobOK(j) /\ PendingOK(j) /\ ReportOK(j)
  BY DEF IInv, JobOK
<1>1. CASE Upload(j)
  <2>1. Ledger!Accept(j)
    BY <1>1, RowsStay DEF Upload, Ledger!Accept, Ledger!Turn, StatusOK, At, Report, database
  <2> QED
    BY <2>1 DEF Ledger!Next
<1>2. CASE Start(j)
  <2>1. Ledger!Begin(j)
    BY <1>2, RowsStay DEF Start, Ledger!Begin, Ledger!Turn, StatusOK, At, Report, database
  <2> QED
    BY <2>1 DEF Ledger!Next
<1>3. CASE Complete(j)
  <2>1. RowsOf(j) = pending[j] /\ status[j] = "processing"
    BY <1>0, <1>3 DEF Complete, At, ReportOK, StatusOK, Working, Over
  <2>2. Ledger!Complete(j)
    BY <1>3, <2>1, RowsStay, SameCount DEF Complete, Ledger!Complete, Ledger!Turn, Report, database
  <2> QED
    BY <2>2 DEF Ledger!Next
<1>4. CASE Raises(j)
  <2>1. RowsOf(j) = {} /\ status[j] = "processing"
    BY <1>0, <1>4 DEF Raises, ReportOK, StatusOK, Working
  <2>2. Ledger!Fail(j)
    BY <1>4, <2>1, RowsStay DEF Raises, Raise, Report, Ledger!Fail, Ledger!Turn
  <2> QED
    BY <2>2 DEF Ledger!Next
<1>5. CASE Finishes(j)
  <2>1. RowsOf(j) = {} /\ status[j] = "processing"
    BY <1>0, <1>5 DEF Finishes, Finish, At, ReportOK, StatusOK, Working, Over
  <2>2. \A i \in Jobs \ {j} : RowsOf(i)' = RowsOf(i)
    BY <1>0, GrowthOfShared, RowsOfOthers
  <2>3. Ledger!Publish(j)
    BY <1>5, <2>1, <2>2 DEF Finishes, Ledger!Publish
  <2> QED
    BY <2>3 DEF Ledger!Next
<1>6. CASE Hidden(j)
  BY <1>6, RowsStay DEF Hidden, Ledger!ledger
<1> QED
  BY <1>0, <1>1, <1>2, <1>3, <1>4, <1>5, <1>6, KindsOfStep

(* The jobs implement the ledger: with any number of circulars, policies   *)
(* and chunks, and any failures and crashes, a job's assessments appear    *)
(* all at once, are what its status counts, and none is a failed job's.    *)
THEOREM Refinement == Spec => ImplementsJobLedger
<1>1. Init => Ledger!Init /\ \A j \in Jobs : StatusOK(j)
  BY DEF Init, Ledger!Init, RowsOf, StatusOK, Working
<1>2. IInv /\ (\A j \in Jobs : StatusOK(j)) /\ [Next]_vars => (\A j \in Jobs : StatusOK(j))'
  BY StatusInductive DEF IInv
<1>3. IInv /\ (\A j \in Jobs : StatusOK(j)) /\ [Next]_vars => [Ledger!Next]_(Ledger!ledger)
  <2> SUFFICES ASSUME IInv, \A j \in Jobs : StatusOK(j), [Next]_vars
               PROVE  [Ledger!Next]_(Ledger!ledger)
    OBVIOUS
  <2>1. CASE \E j \in Jobs : Upload(j) \/ Work(j)
    BY <2>1, JobImplements DEF Move
  <2>2. CASE Crash
    BY <2>2, RowsStay DEF Crash, store, Ledger!ledger
  <2>3. CASE UNCHANGED vars
    BY <2>3, RowsStay DEF vars, store, database, Ledger!ledger
  <2> QED
    BY <2>1, <2>2, <2>3 DEF Next
<1> QED
  BY <1>1, <1>2, <1>3, Inductive, PTL DEF Spec, ImplementsJobLedger, Ledger!Spec

================================================================================
