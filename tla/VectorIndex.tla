------------------------------ MODULE VectorIndex ------------------------------
(***************************************************************************)
(* FaissStore of app/vectorstore/faiss_store.py and the singleton through  *)
(* which the background jobs share it.  A store is a FAISS index, a list   *)
(* that maps the index's positions to chunk ids, and a lock; both parts    *)
(* are written to two files by every add.                                  *)
(*                                                                         *)
(* A vector is identified with the chunk it was computed from, so that the *)
(* index and its id map are right when they are equal.                     *)
(*                                                                         *)
(* The lock is modelled where it matters: an add holds it over its steps,  *)
(* a search, whose locked part only reads, takes and releases it in one.   *)
(***************************************************************************)
EXTENDS Naturals, Sequences, FiniteSets

CONSTANTS
    Adders, Searchers,  \* threads that add, or search, once
    Chunk,
    Batch,              \* adder -> the chunks it adds
    TopK,
    Shared,             \* the store of a process that has one when the threads
                        \* start; any other store is named after its maker
    Nobody, NoStore,
    Absent, Torn,       \* a file that does not exist, or is half written
    MaxErrors,          \* bound: errors of the disk
    MaxCrashes          \* bound: crashes of the process

Threads == Adders \cup Searchers
Stores == Threads \cup {Shared}

ASSUME VectorIndexAssumption ==
    /\ Adders \cap Searchers = {}
    /\ Batch \in [Adders -> Seq(Chunk)]
    /\ TopK \in Nat /\ MaxErrors \in Nat /\ MaxCrashes \in Nat
    /\ Shared \notin Threads /\ Nobody \notin Threads /\ NoStore \notin Stores
    /\ {Absent, Torn} \cap Seq(Chunk) = {} /\ Absent # Torn

(* Every chunk gets a uuid when it is stored, and is added by one job.     *)
ASSUME FreshChunkIds ==
    \A a, b \in Adders : \A i \in DOMAIN Batch[a], n \in DOMAIN Batch[b] :
        Batch[a][i] = Batch[b][n] => a = b /\ i = n

VARIABLES
    singleton,  \* _store of the module
    index,      \* store -> its vectors, in the order of their positions
    idMap,      \* store -> id_map
    lock,       \* store -> who holds _lock
    indexFile,  \* index.faiss
    idsFile,    \* ids.json
    pc,
    mine,       \* thread -> the store that get_faiss_store() gave it
    nearest,    \* searcher -> <<vector, position>> pairs the index returned
    found,      \* searcher -> <<vector, chunk id>> pairs the search returned
    errors, crashes

memory == <<singleton, index, idMap, lock>>
disk == <<indexFile, idsFile>>
results == <<nearest, found>>
faults == <<errors, crashes>>
vars == <<memory, disk, pc, mine, results, faults>>

Vectors == Seq(Chunk)
Ended == {"done", "failed", "killed"}
Labels == {"idle", "get", "read_index", "read_ids", "adopt", "ready", "extend",
           "open_index", "write_index", "open_ids", "write_ids", "map"} \cup Ended

TypeOK ==
    /\ singleton \in Stores \cup {NoStore}
    /\ index \in [Stores -> Vectors]
    /\ idMap \in [Stores -> Vectors]
    /\ lock \in [Stores -> Threads \cup {Nobody}]
    /\ indexFile \in Vectors \cup {Absent, Torn}
    /\ idsFile \in Vectors \cup {Absent, Torn}
    /\ pc \in [Threads -> Labels]
    /\ mine \in [Threads -> Stores \cup {NoStore}]
    /\ nearest \in [Searchers -> SUBSET (Chunk \X (Nat \ {0}))]
    /\ found \in [Searchers -> SUBSET (Chunk \X Chunk)]
    /\ errors \in 0..MaxErrors
    /\ crashes \in 0..MaxCrashes

(* The process is warm or cold: it has made its store already, or not.     *)
Init ==
    /\ singleton \in {Shared, NoStore}
    /\ index = [s \in Stores |-> <<>>]
    /\ idMap = [s \in Stores |-> <<>>]
    /\ lock = [s \in Stores |-> Nobody]
    /\ indexFile = Absent
    /\ idsFile = Absent
    /\ pc = [t \in Threads |-> "idle"]
    /\ mine = [t \in Threads |-> NoStore]
    /\ nearest = [t \in Searchers |-> {}]
    /\ found = [t \in Searchers |-> {}]
    /\ errors = 0
    /\ crashes = 0

--------------------------------------------------------------------------------

At(t, label) == pc[t] = label
Goto(t, label) == pc' = [pc EXCEPT ![t] = label]

Start(t) ==
    /\ At(t, "idle")
    /\ Goto(t, "get")
    /\ UNCHANGED <<memory, disk, mine, results, faults>>

(* get_faiss_store(), which takes no lock: the test ...                    *)
Get(t) ==
    /\ At(t, "get")
    /\ \/ /\ singleton # NoStore
          /\ mine' = [mine EXCEPT ![t] = singleton]
          /\ Goto(t, "ready")
       \/ /\ singleton = NoStore
          /\ Goto(t, "read_index")
          /\ UNCHANGED mine
    /\ UNCHANGED <<memory, disk, results, faults>>

(* ... FaissStore(), which reads the files one after the other and raises  *)
(* when one that should be there cannot be read ...                        *)
ReadIndex(t) ==
    /\ At(t, "read_index")
    /\ \/ /\ indexFile = Absent
          /\ index' = [index EXCEPT ![t] = <<>>]
          /\ idMap' = [idMap EXCEPT ![t] = <<>>]
          /\ Goto(t, "adopt")
       \/ /\ indexFile = Torn
          /\ Goto(t, "failed")
          /\ UNCHANGED <<index, idMap>>
       \/ /\ indexFile \notin {Absent, Torn}
          /\ index' = [index EXCEPT ![t] = indexFile]
          /\ Goto(t, "read_ids")
          /\ UNCHANGED idMap
    /\ UNCHANGED <<singleton, lock, disk, mine, results, faults>>

ReadIds(t) ==
    /\ At(t, "read_ids")
    /\ \/ /\ idsFile \in {Absent, Torn}
          /\ Goto(t, "failed")
          /\ UNCHANGED idMap
       \/ /\ idsFile \notin {Absent, Torn}
          /\ idMap' = [idMap EXCEPT ![t] = idsFile]
          /\ Goto(t, "adopt")
    /\ UNCHANGED <<singleton, index, lock, disk, mine, results, faults>>

(* ... and the assignment of what was made, whoever was faster.            *)
Adopt(t) ==
    /\ At(t, "adopt")
    /\ singleton' = t
    /\ mine' = [mine EXCEPT ![t] = t]
    /\ Goto(t, "ready")
    /\ UNCHANGED <<index, idMap, lock, disk, results, faults>>

(* Mutant of AddVectors: it does not wait for the lock.                    *)
AddVectorsUnlocked(t) ==
    /\ t \in Adders /\ At(t, "ready")
    /\ lock' = [lock EXCEPT ![mine[t]] = t]
    /\ index' = [index EXCEPT ![mine[t]] = @ \o Batch[t]]
    /\ Goto(t, "extend")
    /\ UNCHANGED <<singleton, idMap, disk, mine, results, faults>>

(* add(): under the lock, the index, ...                                   *)
AddVectors(t) ==
    /\ t \in Adders /\ At(t, "ready")
    /\ lock[mine[t]] = Nobody
    /\ lock' = [lock EXCEPT ![mine[t]] = t]
    /\ index' = [index EXCEPT ![mine[t]] = @ \o Batch[t]]
    /\ Goto(t, "extend")
    /\ UNCHANGED <<singleton, idMap, disk, mine, results, faults>>

(* ... the id map, ...                                                     *)
ExtendIds(t) ==
    /\ At(t, "extend")
    /\ idMap' = [idMap EXCEPT ![mine[t]] = @ \o Batch[t]]
    /\ Goto(t, "open_index")
    /\ UNCHANGED <<singleton, index, lock, disk, mine, results, faults>>

(* ... and _persist(): both files are truncated and then written in place. *)
OpenIndex(t) ==
    /\ At(t, "open_index")
    /\ indexFile' = Torn
    /\ Goto(t, "write_index")
    /\ UNCHANGED <<memory, idsFile, mine, results, faults>>

WriteIndex(t) ==
    /\ At(t, "write_index")
    /\ indexFile' = index[mine[t]]
    /\ Goto(t, "open_ids")
    /\ UNCHANGED <<memory, idsFile, mine, results, faults>>

OpenIds(t) ==
    /\ At(t, "open_ids")
    /\ idsFile' = Torn
    /\ Goto(t, "write_ids")
    /\ UNCHANGED <<memory, indexFile, mine, results, faults>>

Release(t) == lock' = [lock EXCEPT ![mine[t]] = Nobody]

(* Mutant of WriteIds: only the ids of this add are written.               *)
WriteIdsOfBatch(t) ==
    /\ At(t, "write_ids")
    /\ idsFile' = Batch[t]
    /\ Release(t)
    /\ Goto(t, "done")
    /\ UNCHANGED <<singleton, index, idMap, indexFile, mine, results, faults>>

WriteIds(t) ==
    /\ At(t, "write_ids")
    /\ idsFile' = idMap[mine[t]]
    /\ Release(t)
    /\ Goto(t, "done")
    /\ UNCHANGED <<singleton, index, idMap, indexFile, mine, results, faults>>

Persisting == {"open_index", "write_index", "open_ids", "write_ids"}

(* Mutant of DiskError: the lock is not released.                          *)
DiskErrorKeepsLock(t) ==
    /\ pc[t] \in Persisting /\ errors < MaxErrors
    /\ errors' = errors + 1
    /\ Goto(t, "failed")
    /\ UNCHANGED <<memory, disk, mine, results, crashes>>

(* Mutant of DiskError: the id map is rolled back, and not the index.      *)
DiskErrorHalfUndone(t) ==
    /\ pc[t] \in Persisting /\ errors < MaxErrors
    /\ errors' = errors + 1
    /\ idMap' = [idMap EXCEPT ![mine[t]] = SubSeq(@, 1, Len(@) - Len(Batch[t]))]
    /\ Release(t)
    /\ Goto(t, "failed")
    /\ UNCHANGED <<singleton, index, disk, mine, results, crashes>>

(* Mutant of DiskError: the add is tried again from the id map on.         *)
DiskErrorRetries(t) ==
    /\ pc[t] \in Persisting /\ errors < MaxErrors
    /\ errors' = errors + 1
    /\ Goto(t, "extend")
    /\ UNCHANGED <<memory, disk, mine, results, crashes>>

(* The disk fails: the exception leaves the locked block.                  *)
DiskError(t) ==
    /\ pc[t] \in Persisting /\ errors < MaxErrors
    /\ errors' = errors + 1
    /\ Release(t)
    /\ Goto(t, "failed")
    /\ UNCHANGED <<singleton, index, idMap, disk, mine, results, crashes>>

(* search(): the positions of the nearest vectors, under the lock; the     *)
(* "snapshot" of the id map is the list itself ...                         *)
Search(t) ==
    /\ t \in Searchers /\ At(t, "ready")
    /\ lock[mine[t]] = Nobody
    /\ \E P \in SUBSET DOMAIN index[mine[t]] :
        /\ \/ Cardinality(P) = TopK
           \/ Cardinality(P) < TopK /\ P = DOMAIN index[mine[t]]
        /\ nearest' = [nearest EXCEPT ![t] = {<<index[mine[t]][i], i>> : i \in P}]
    /\ Goto(t, "map")
    /\ UNCHANGED <<memory, disk, mine, found, faults>>

(* ... which is read after the lock was released.                          *)
MapToIds(t) ==
    /\ At(t, "map")
    /\ \/ /\ \A n \in nearest[t] : n[2] <= Len(idMap[mine[t]])
          /\ found' = [found EXCEPT ![t] =
                          {<<n[1], idMap[mine[t]][n[2]]>> : n \in nearest[t]}]
          /\ Goto(t, "done")
       \/ /\ \E n \in nearest[t] : n[2] > Len(idMap[mine[t]])   \* IndexError
          /\ Goto(t, "failed")
          /\ UNCHANGED found
    /\ UNCHANGED <<memory, disk, mine, nearest, faults>>

(* The process dies and is started again, without a store.                 *)
Crash ==
    /\ crashes < MaxCrashes
    /\ crashes' = crashes + 1
    /\ singleton' = NoStore
    /\ index' = [s \in Stores |-> <<>>]
    /\ idMap' = [s \in Stores |-> <<>>]
    /\ lock' = [s \in Stores |-> Nobody]
    /\ pc' = [t \in Threads |->
                IF pc[t] = "idle" \/ pc[t] \in Ended THEN pc[t] ELSE "killed"]
    /\ UNCHANGED <<disk, mine, results, errors>>

--------------------------------------------------------------------------------

Step(t) ==
    \/ Get(t) \/ ReadIndex(t) \/ ReadIds(t) \/ Adopt(t)
    \/ AddVectors(t) \/ ExtendIds(t) \/ OpenIndex(t) \/ WriteIndex(t)
    \/ OpenIds(t) \/ WriteIds(t) \/ DiskError(t)
    \/ Search(t) \/ MapToIds(t)

Next == (\E t \in Threads : Start(t) \/ Step(t)) \/ Crash

(* The threads of the jobs run.                                            *)
Fairness == \A t \in Threads : WF_vars(Step(t))

Spec == Init /\ [][Next]_vars /\ Fairness

--------------------------------------------------------------------------------

(* What follows is promised for a process that has made its store before   *)
(* its threads started, and has not crashed since.                         *)
Warm == singleton = Shared

(* When no add is under way, positions resolve to the right chunks: the id *)
(* map matches the index, also after adds that failed.                     *)
Aligned == Warm /\ lock[Shared] = Nobody => idMap[Shared] = index[Shared]

(* A search returns each vector with its own chunk id, although it reads   *)
(* the id map after it has released the lock and adds go on.               *)
SearchFaithful ==
    Warm => \A t \in Searchers : \A pair \in found[t] : pair[1] = pair[2]

(* No later add drops what an add that has returned has stored: it is in   *)
(* the store, and in both files unless the disk has failed.                *)
IsIn(batch, seq) == \A i \in DOMAIN batch : \E n \in DOMAIN seq : seq[n] = batch[i]
ReturnedIsStored ==
    Warm => \A t \in Adders : At(t, "done") =>
        /\ IsIn(Batch[t], idMap[Shared])
        /\ errors = 0 /\ lock[Shared] = Nobody =>
            /\ indexFile \notin {Absent, Torn} /\ IsIn(Batch[t], indexFile)
            /\ idsFile = indexFile

(* No chunk id comes twice into an id map or its file, warm or cold,       *)
(* whatever was read back, failed or crashed in between.                   *)
Once(seq) == \A i, n \in DOMAIN seq : seq[i] = seq[n] => i = n
NoDuplicateIds ==
    /\ \A s \in Stores : Once(idMap[s])
    /\ idsFile \notin {Absent, Torn} => Once(idsFile)

(* Every add and every search ends: no failure leaves the lock taken.      *)
EveryCallEnds == \A t \in Threads : At(t, "get") ~> pc[t] \in Ended
================================================================================
