------------------------------ MODULE SparseIndex ------------------------------
(***************************************************************************)
(* app/vectorstore/bm25_store.py: the chunk ids and their tokenized texts, *)
(* which grow under a lock, and the index built of the texts, which is     *)
(* built anew by every add. A search takes the index and the list of ids   *)
(* under the lock, and scores without it: the index is the one it took,    *)
(* the list is the store's own, which goes on growing.                     *)
(***************************************************************************)
EXTENDS Naturals, Sequences, FiniteSets, SequencesExt

CONSTANTS Searchers, Nobody,
          SearchTopK      \* top_k

ASSUME SparseAssumption == SearchTopK \in Nat \ {0}

VARIABLES
    chunkIds, corpus, bm25,   \* the store: texts are named by their chunk's id
    lock,
    taken,     \* searcher -> the index it took, or Nobody
    found      \* searcher -> what it returned: ids, and whose text was scored

sparse == <<chunkIds, corpus, bm25, lock>>
searching == <<taken, found>>

SparseInit ==
    /\ chunkIds = <<>> /\ corpus = <<>> /\ bm25 = <<>>
    /\ lock = Nobody
    /\ taken = [s \in Searchers |-> Nobody]
    /\ found = [s \in Searchers |-> <<>>]

(* Mutant of ExtendIds: it does not wait for the lock.                     *)
ExtendIdsUnlocked(j, ids) ==
    /\ lock' = j
    /\ chunkIds' = chunkIds \o ids
    /\ UNCHANGED <<corpus, bm25, searching>>

(* add(): the lock, the ids, the texts, the index.                         *)
ExtendIds(j, ids) ==
    /\ lock = Nobody
    /\ lock' = j
    /\ chunkIds' = chunkIds \o ids
    /\ UNCHANGED <<corpus, bm25, searching>>

(* Mutant of ExtendCorpus: the texts are replaced, as build() does.        *)
ExtendCorpusAnew(j, ids) ==
    /\ lock = j
    /\ corpus' = ids
    /\ UNCHANGED <<chunkIds, bm25, lock, searching>>

ExtendCorpus(j, ids) ==
    /\ lock = j
    /\ corpus' = corpus \o ids
    /\ UNCHANGED <<chunkIds, bm25, lock, searching>>

Rebuild(j) ==
    /\ lock = j
    /\ bm25' = corpus
    /\ lock' = Nobody
    /\ UNCHANGED <<chunkIds, corpus, searching>>

(* search(): the references are taken under the lock. An empty store       *)
(* answers at once.                                                        *)
Take(s) ==
    /\ taken[s] = Nobody /\ lock = Nobody
    /\ bm25 # <<>>
    /\ taken' = [taken EXCEPT ![s] = bm25]
    /\ UNCHANGED <<sparse, found>>

(* zip(): the ids, as far as there are scores.                             *)
Zipped(index) == [i \in DOMAIN index |-> [id |-> chunkIds[i], text |-> index[i]]]

(* sorted() by the scores, which are any: the ids are then in any order,   *)
(* and cut to top_k.                                                       *)
Rank(s) ==
    /\ taken[s] # Nobody
    /\ \E order \in SetToSeqs(DOMAIN taken[s]) :
        LET zipped == Zipped(taken[s])
            ranked == [i \in DOMAIN order |-> zipped[order[i]]]
        IN  found' = [found EXCEPT ![s] =
                SubSeq(ranked, 1, IF SearchTopK < Len(ranked) THEN SearchTopK ELSE Len(ranked))]
    /\ taken' = [taken EXCEPT ![s] = Nobody]
    /\ UNCHANGED sparse

(* The process starts anew: the store is made empty, and nothing fills it  *)
(* from the database.                                                      *)
Lose ==
    /\ chunkIds' = <<>> /\ corpus' = <<>> /\ bm25' = <<>>
    /\ lock' = Nobody
    /\ taken' = [s \in Searchers |-> Nobody]
    /\ found' = [s \in Searchers |-> <<>>]
================================================================================
