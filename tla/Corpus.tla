--------------------------------- MODULE Corpus ---------------------------------
(***************************************************************************)
(* What ingest_circular() of app/pipeline.py makes of several circulars at *)
(* once: it cuts each into chunks (Chunker), adds these to both indexes    *)
(* (SparseIndex), commits, and links the circular to one it refers to      *)
(* (Amendments); and what others read of it meanwhile: hybrid_search()     *)
(* (RankFusion) and the history of a circular. Pipeline has the database's *)
(* transactions and the assessments, and none of the data that is here.    *)
(***************************************************************************)
EXTENDS SparseIndex, Amendments, Chunker, RankFusion

CONSTANTS
    Jobs,         \* each ingests one circular, which has its name
    Older,        \* circulars that were there before
    Texts,        \* job -> what its document may turn out to be
    NumberOf,     \* circular -> its circular_number
    References,   \* job -> what its references_other_circulars may turn out to be
    OlderLinks,   \* older circular -> the one it supersedes, or None
    MaxCrashes    \* bound

Circulars == Jobs \cup Older

ASSUME CorpusAssumption ==
    /\ IsFiniteSet(Jobs) /\ IsFiniteSet(Older)
    /\ Jobs \cap Older = {} /\ None \notin Circulars /\ Nobody \notin Jobs
    /\ \A j \in Jobs : Texts[j] \subseteq Seq(Lines) /\ References[j] \subseteq Seq(STRING)
    /\ OlderLinks \in [Older -> Older \cup {None}]
    /\ SearchTopK <= RRF_K + 1
    /\ MaxCrashes \in Nat

VARIABLES
    pc,
    text, chunks,    \* the job's document and its chunks, until they are indexed
    dense,           \* the chunk ids in the FAISS index
    target,          \* the circular that a job found and will link to
    refs, looked,    \* the numbers its text refers to; how many it has looked up
    supersedes,      \* committed circular -> its supersedes_id
    amended,         \* circulars whose status is AMENDED
    nearest, fused,  \* searcher -> what dense search, what hybrid_search() returned
    crashes

ingest == <<pc, text, chunks, dense, target, refs, looked>>
history == <<supersedes, amended>>
retrieval == <<nearest, fused>>
vars == <<sparse, searching, ingest, history, retrieval, crashes>>

IdsOf(j) == [n \in DOMAIN chunks[j] |-> <<j, n>>]
Ids == Jobs \X (Nat \ {0})

(* The state's type; an id is indexed once, and no index is taken of texts *)
(* that are not in the store.                                              *)
TypeOK ==
    /\ ToSet(chunkIds) \subseteq Ids /\ IsInjective(chunkIds)
    /\ IsPrefix(corpus, chunkIds) /\ IsPrefix(bm25, corpus)
    /\ lock \in Jobs \cup {Nobody}
    /\ pc \in [Jobs -> {"chunk", "dense", "ids", "corpus", "rebuild", "commit",
                        "look", "link", "ended", "failed"}]
    /\ dense \subseteq Ids
    /\ target \in [Jobs -> Circulars \cup {None}]
    /\ DOMAIN supersedes \subseteq Circulars /\ Older \subseteq DOMAIN supersedes
    /\ \A c \in DOMAIN supersedes : supersedes[c] \in DOMAIN supersedes \cup {None}
    /\ amended \subseteq DOMAIN supersedes
    /\ crashes \in 0..MaxCrashes

Init ==
    /\ SparseInit
    /\ pc = [j \in Jobs |-> "chunk"]
    /\ text = [j \in Jobs |-> <<>>]
    /\ chunks = [j \in Jobs |-> <<>>]
    /\ dense = {}
    /\ target = [j \in Jobs |-> None]
    /\ refs = [j \in Jobs |-> <<>>]
    /\ looked = [j \in Jobs |-> 0]
    /\ supersedes = [c \in Older |-> OlderLinks[c]]
    /\ amended = {c \in Older : Superseding(OlderLinks, c) # {}}
    /\ nearest = [s \in Searchers |-> <<>>]
    /\ fused = [s \in Searchers |-> <<>>]
    /\ crashes = 0

--------------------------------------------------------------------------------

At(j, label) == pc[j] = label
Goto(j, label) == pc' = [pc EXCEPT ![j] = label]

Committed(c) == c \in DOMAIN supersedes
Insert(j) ==
    supersedes' = [c \in DOMAIN supersedes \cup {j} |->
                      IF Committed(c) THEN supersedes[c] ELSE None]

(* Parsing, the LLM's extraction of references, and chunking. A circular   *)
(* without chunks is committed and returned as it is.                      *)
Cut(j) ==
    /\ At(j, "chunk")
    /\ \E t \in Texts[j] :
        /\ text' = [text EXCEPT ![j] = t]
        /\ chunks' = [chunks EXCEPT ![j] = ChunksOf(t)]
    /\ \E r \in References[j] : refs' = [refs EXCEPT ![j] = r]
    /\ IF chunks'[j] = <<>>
       THEN Insert(j) /\ Goto(j, "ended")
       ELSE Goto(j, "dense") /\ UNCHANGED supersedes
    /\ UNCHANGED <<sparse, searching, dense, target, looked, amended, retrieval, crashes>>

(* get_faiss_store().add(), whole: VectorIndex has its steps. From here on *)
(* the document counts by its chunks' ids.                                 *)
AddDense(j) ==
    /\ At(j, "dense")
    /\ dense' = dense \cup ToSet(IdsOf(j))
    /\ text' = [text EXCEPT ![j] = <<>>]
    /\ chunks' = [chunks EXCEPT ![j] = [n \in DOMAIN @ |-> None]]
    /\ Goto(j, "ids")
    /\ UNCHANGED <<sparse, searching, target, refs, looked, history, retrieval, crashes>>

AddSparse(j) ==
    /\ \/ At(j, "ids") /\ ExtendIds(j, IdsOf(j)) /\ Goto(j, "corpus")
       \/ At(j, "corpus") /\ ExtendCorpus(j, IdsOf(j)) /\ Goto(j, "rebuild")
       \/ At(j, "rebuild") /\ Rebuild(j) /\ Goto(j, "commit")
    /\ UNCHANGED <<text, chunks, dense, target, refs, looked, history, retrieval, crashes>>

(* The circulars other than the new one that have this number.             *)
Matches(j, number) == {c \in DOMAIN supersedes : c # j /\ NumberOf[c] = number}

(* Mutant of Commit: the circular that it will be linked to is looked up   *)
(* before the commit, in the transaction that inserts it.                  *)
CommitAfterLook(j) ==
    /\ At(j, "commit")
    /\ \/ /\ looked[j] = 0
          /\ looked' = [looked EXCEPT ![j] = 1]
          /\ target' = [target EXCEPT ![j] =
                CHOOSE c \in Circulars \cup {None} :
                    c \in Matches(j, refs[j][1]) \/ (Matches(j, refs[j][1]) = {} /\ c = None)]
          /\ UNCHANGED <<pc, supersedes>>
       \/ /\ looked[j] = 1
          /\ Insert(j)
          /\ Goto(j, IF target[j] = None THEN "ended" ELSE "link")
          /\ UNCHANGED <<looked, target>>
    /\ UNCHANGED <<sparse, searching, text, chunks, dense, refs, amended, retrieval, crashes>>

(* The first commit, of the circular and its chunks.                       *)
Commit(j) ==
    /\ At(j, "commit")
    /\ Insert(j)
    /\ Goto(j, "look")
    /\ UNCHANGED <<sparse, searching, text, chunks, dense, target, refs, looked, amended,
                   retrieval, crashes>>

(* link_amendment(): a query for each number referred to, until one finds  *)
(* a circular other than the new one (any, if several have the number).    *)
Look(j) ==
    /\ At(j, "look")
    /\ \/ /\ looked[j] = Len(refs[j])
          /\ Goto(j, "ended")
          /\ UNCHANGED <<target, looked>>
       \/ /\ looked[j] < Len(refs[j])
          /\ looked' = [looked EXCEPT ![j] = @ + 1]
          /\ LET olds == Matches(j, refs[j][looked[j] + 1]) IN
                \/ olds = {} /\ UNCHANGED <<pc, target>>
                \/ /\ \E c \in olds : target' = [target EXCEPT ![j] = c]
                   /\ Goto(j, "link")
    /\ UNCHANGED <<sparse, searching, text, chunks, dense, refs, history, retrieval, crashes>>

(* Mutant of Link: the old circular is written as it was before, as far as *)
(* its own link is concerned.                                              *)
LinkWholeRow(j) ==
    /\ At(j, "link")
    /\ supersedes' = [supersedes EXCEPT ![j] = target[j], ![target[j]] = None]
    /\ amended' = amended \cup {target[j]}
    /\ Goto(j, "ended")
    /\ UNCHANGED <<sparse, searching, text, chunks, dense, target, refs, looked, retrieval, crashes>>

(* The link, and the status of the old circular, in one commit.            *)
Link(j) ==
    /\ At(j, "link")
    /\ supersedes' = [supersedes EXCEPT ![j] = target[j]]
    /\ amended' = amended \cup {target[j]}
    /\ Goto(j, "ended")
    /\ UNCHANGED <<sparse, searching, text, chunks, dense, target, refs, looked, retrieval, crashes>>

(* Any step but those under the lock may raise, and what is committed      *)
(* stays.                                                                  *)
Fail(j) ==
    /\ pc[j] \in {"chunk", "dense", "ids", "commit", "look", "link"}
    /\ Goto(j, "failed")
    /\ text' = [text EXCEPT ![j] = <<>>]
    /\ chunks' = [chunks EXCEPT ![j] = <<>>]
    /\ UNCHANGED <<sparse, searching, dense, target, refs, looked, history, retrieval, crashes>>

Ingest(j) ==
    \/ Cut(j) \/ AddDense(j) \/ AddSparse(j) \/ Commit(j) \/ Look(j) \/ Link(j) \/ Fail(j)

--------------------------------------------------------------------------------

Cutoff(list) == SubSeq(list, 1, IF SearchTopK < Len(list) THEN SearchTopK ELSE Len(list))

(* hybrid_search(): the dense list, which is any of the index's; ...       *)
SearchDense(s) ==
    /\ nearest[s] = <<>> /\ fused[s] = <<>>
    /\ \E list \in SetToSeqs(dense) : nearest' = [nearest EXCEPT ![s] = Cutoff(list)]
    /\ UNCHANGED <<sparse, searching, ingest, history, fused, crashes>>

(* ... the sparse list; ...                                                *)
SearchSparse(s) ==
    /\ nearest[s] # <<>> /\ fused[s] = <<>> /\ found[s] = <<>>
    /\ Take(s) \/ Rank(s)
    /\ UNCHANGED <<ingest, history, retrieval, crashes>>

(* ... and the two fused; from an empty sparse store, at once.             *)
FuseBoth(s) ==
    /\ nearest[s] # <<>> /\ fused[s] = <<>> /\ taken[s] = Nobody
    /\ found[s] # <<>> \/ bm25 = <<>>
    /\ fused' = [fused EXCEPT ![s] =
            Fuse(nearest[s], [i \in DOMAIN found[s] |-> found[s][i].id], SearchTopK)]
    /\ UNCHANGED <<sparse, searching, ingest, history, nearest, crashes>>

Search(s) == SearchDense(s) \/ SearchSparse(s) \/ FuseBoth(s)

(* The process restarts: its jobs and searches are gone; the database and  *)
(* the FAISS files stay.                                                   *)
Crash ==
    /\ crashes < MaxCrashes
    /\ crashes' = crashes + 1
    /\ Lose
    /\ pc' = [j \in Jobs |-> IF At(j, "ended") THEN "ended" ELSE "failed"]
    /\ text' = [j \in Jobs |-> <<>>]
    /\ chunks' = [j \in Jobs |-> <<>>]
    /\ nearest' = [s \in Searchers |-> <<>>]
    /\ fused' = [s \in Searchers |-> <<>>]
    /\ UNCHANGED <<dense, target, refs, looked, history>>

Next ==
    \/ \E j \in Jobs : Ingest(j)
    \/ \E s \in Searchers : Search(s)
    \/ Crash

Spec == Init /\ [][Next]_vars

--------------------------------------------------------------------------------

(* The spans of a document's chunks, whatever the document.                *)
SpansPointAtText == \A j \in Jobs : text[j] # <<>> => SpansFit(text[j], chunks[j])

(* A search that scored one index and read its ids from a list that went   *)
(* on growing gives every id the score of its own text.                    *)
ScoredByOwnText ==
    \A s \in Searchers : \A i \in DOMAIN found[s] : found[s][i].id = found[s][i].text

(* With RRF_K as large as the lists are long, agreement wins: an id that   *)
(* both lists have comes before every id that only one of them has.        *)
AgreementFirst ==
    \A s \in Searchers :
        LET sparseIds == {found[s][i].id : i \in DOMAIN found[s]}
            both == ToSet(nearest[s]) \cap sparseIds
        IN  \A i, k \in DOMAIN fused[s] :
                fused[s][i] \in both /\ fused[s][k] \notin both => i < k

(* A circular is AMENDED exactly when one in the database supersedes it,   *)
(* though jobs that link at the same time write each other's rows.         *)
AmendedIffSuperseded ==
    amended = {c \in DOMAIN supersedes : Superseding(supersedes, c) # {}}

(* Every circular's history, at any time: also where two circulars that    *)
(* were ingested at the same time supersede each other.                    *)
HistoriesAreWhole == \A c \in DOMAIN supersedes : ChainFits(supersedes, c)

(* Of two circulars that refer to each other, and that were both ingested  *)
(* and have chunks, at least one is linked: as both commit before they     *)
(* look, they cannot both miss the other.                                  *)
OneOfTwoLinks ==
    \A i, j \in Jobs :
        /\ At(i, "ended") /\ At(j, "ended") /\ i # j
        /\ chunks[i] # <<>> /\ chunks[j] # <<>>
        /\ NumberOf[i] \in ToSet(refs[j]) /\ NumberOf[j] \in ToSet(refs[i])
        => supersedes[i] # None \/ supersedes[j] # None
================================================================================
