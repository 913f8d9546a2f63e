---------------------------- MODULE VectorIndexProofs ----------------------------
(***************************************************************************)
(* For any number of threads, any batches, and any number of disk errors   *)
(* and crashes: the index, its id map and their files. Three of the        *)
(* properties are about a process that has its store, where all threads    *)
(* share it and its lock; the invariant follows the lock's holder through  *)
(* its add. The fourth is about any process: chunk ids that are anywhere   *)
(* come from adds that can never run again.                                *)
(***************************************************************************)
EXTENDS VectorIndex, SequenceTheorems, TLAPS

Holding == {"extend"} \cup Persisting

(* Who may be where; a thread past get_faiss_store() has a store.          *)
Roles == \A t \in Threads :
    /\ pc[t] \in Holding => t \in Adders
    /\ pc[t] = "map" => t \in Searchers
    /\ pc[t] \in Holding \cup {"ready", "map"} => mine[t] \in Stores

(* In a process that has its store, every thread has got that one, and the *)
(* thread that is in its add has the lock.                                 *)
OneStore == Warm => \A t \in Threads :
    /\ pc[t] \notin {"read_index", "read_ids", "adopt"}
    /\ pc[t] \in Holding \cup {"ready", "map"} => mine[t] = Shared
    /\ pc[t] \in Holding <=> lock[Shared] = t

(* The id map lags behind the index while its holder is between the two.   *)
HalfAdded == Warm =>
    IF \E t \in Threads : pc[t] = "extend"
    THEN \A t \in Threads : pc[t] = "extend" => index[Shared] = idMap[Shared] \o Batch[t]
    ELSE idMap[Shared] = index[Shared]

(* The positions that a search is about to resolve are those of its chunks.*)
NearestTrue == Warm => \A t \in Threads : pc[t] = "map" =>
    \A n \in nearest[t] : n[2] \in 1..Len(index[Shared]) /\ index[Shared][n[2]] = n[1]

(* What an add that has got that far left in memory, and, as long as the   *)
(* disk has not failed, on the disk between two adds.                      *)
InIdMap == Warm => \A t \in Adders :
    pc[t] \in Persisting \cup {"done"} => IsIn(Batch[t], idMap[Shared])

OnDisk == Warm /\ errors = 0 /\ lock[Shared] = Nobody =>
    \A t \in Adders : pc[t] = "done" =>
        indexFile = index[Shared] /\ idsFile = idMap[Shared]

(* The first file is whole while the second one is written.                *)
IndexFileFirst == Warm => \A t \in Threads :
    pc[t] \in {"open_ids", "write_ids"} => indexFile = index[Shared]

(* The adds that have extended an id map, or never will; all ids are       *)
(* theirs.                                                                 *)
Added == {a \in Adders : pc[a] \in Persisting \cup Ended}
From(seq, adds) == \A i \in DOMAIN seq :
    \E a \in adds : \E n \in DOMAIN Batch[a] : seq[i] = Batch[a][n]
Good(seq, adds) == Once(seq) /\ From(seq, adds)

IdsOnce ==
    /\ \A s \in Stores : Good(idMap[s], Added)
    /\ idsFile \notin {Absent, Torn} => Good(idsFile, Added)

IInv ==
    /\ TypeOK /\ Roles /\ OneStore /\ HalfAdded /\ NearestTrue
    /\ SearchFaithful /\ InIdMap /\ IndexFileFirst /\ OnDisk /\ IdsOnce

--------------------------------------------------------------------------------

(* Batches, and what adding one to a sequence of chunks does.              *)
LEMMA BatchAppends ==
  ASSUME NEW a \in Adders, NEW seq \in Vectors
  PROVE  /\ Batch[a] \in Vectors /\ seq \o Batch[a] \in Vectors
         /\ Len(seq) \in Nat /\ Len(Batch[a]) \in Nat
         /\ DOMAIN seq = 1..Len(seq) /\ DOMAIN Batch[a] = 1..Len(Batch[a])
         /\ DOMAIN (seq \o Batch[a]) = 1..(Len(seq) + Len(Batch[a]))
         /\ \A i \in 1..Len(seq) : (seq \o Batch[a])[i] = seq[i]
         /\ \A i \in 1..Len(Batch[a]) : (seq \o Batch[a])[Len(seq) + i] = Batch[a][i]
         /\ \A i \in (Len(seq) + 1)..(Len(seq) + Len(Batch[a])) :
                i - Len(seq) \in 1..Len(Batch[a])
                /\ (seq \o Batch[a])[i] = Batch[a][i - Len(seq)]
  <1>1. Batch[a] \in Seq(Chunk) /\ seq \in Seq(Chunk)
    BY VectorIndexAssumption DEF Vectors
  <1>2. /\ Len(seq) \in Nat /\ Len(Batch[a]) \in Nat
        /\ DOMAIN seq = 1..Len(seq) /\ DOMAIN Batch[a] = 1..Len(Batch[a])
    BY <1>1, LenProperties
  <1>3. /\ seq \o Batch[a] \in Seq(Chunk)
        /\ Len(seq \o Batch[a]) = Len(seq) + Len(Batch[a])
        /\ \A i \in 1..(Len(seq) + Len(Batch[a])) :
              (seq \o Batch[a])[i] = IF i <= Len(seq) THEN seq[i] ELSE Batch[a][i - Len(seq)]
    BY <1>1, ConcatProperties
  <1>4. DOMAIN (seq \o Batch[a]) = 1..(Len(seq) + Len(Batch[a]))
    BY <1>3, LenProperties
  <1> QED
    BY <1>1, <1>2, <1>3, <1>4 DEF Vectors

(* What was at a position stays there.                                     *)
LEMMA PositionsStay ==
  ASSUME NEW a \in Adders, NEW seq \in Vectors
  PROVE  \A i \in 1..Len(seq) : /\ i \in 1..Len(seq \o Batch[a])
                                /\ (seq \o Batch[a])[i] = seq[i]
  <1>1. Batch[a] \in Seq(Chunk) /\ seq \in Seq(Chunk)
    BY VectorIndexAssumption DEF Vectors
  <1>2. Len(seq \o Batch[a]) = Len(seq) + Len(Batch[a])
        /\ Len(seq) \in Nat /\ Len(Batch[a]) \in Nat
    BY <1>1, ConcatProperties, LenProperties
  <1>3. \A i \in 1..Len(seq) : i \in 1..Len(seq \o Batch[a])
    BY <1>2
  <1>4. \A i \in 1..Len(seq) : (seq \o Batch[a])[i] = seq[i]
    BY BatchAppends
  <1> QED
    BY <1>3, <1>4

(* Sequences of chunks, as files and indexes hold them.                    *)
LEMMA VectorFacts ==
  /\ <<>> \in Vectors
  /\ \A seq \in Vectors : Len(seq) \in Nat /\ DOMAIN seq = 1..Len(seq)
  /\ \A seq \in Vectors : \A i \in 1..Len(seq) : seq[i] \in Chunk
  /\ \A seq \in Vectors : seq \notin {Absent, Torn}
  <1>1. \A seq \in Vectors : Len(seq) \in Nat /\ DOMAIN seq = 1..Len(seq)
    BY LenProperties DEF Vectors
  <1>2. \A seq \in Vectors : \A i \in 1..Len(seq) : seq[i] \in Chunk
    BY ElementOfSeq DEF Vectors
  <1> QED
    BY <1>1, <1>2, EmptySeq, VectorIndexAssumption DEF Vectors

(* What is in a sequence stays in a longer one.                            *)
LEMMA InStays ==
  ASSUME NEW a \in Adders, NEW b \in Adders, NEW seq \in Vectors, IsIn(Batch[b], seq)
  PROVE  IsIn(Batch[b], seq \o Batch[a])
  <1> SUFFICES ASSUME NEW i \in DOMAIN Batch[b]
               PROVE  \E n \in DOMAIN (seq \o Batch[a]) : (seq \o Batch[a])[n] = Batch[b][i]
    BY DEF IsIn
  <1>1. PICK n \in DOMAIN seq : seq[n] = Batch[b][i]
    BY DEF IsIn
  <1>2. n \in 1..Len(seq) /\ (seq \o Batch[a])[n] = seq[n]
    <2>1. n \in 1..Len(seq)
      BY BatchAppends
    <2>2. \A m \in 1..Len(seq) : (seq \o Batch[a])[m] = seq[m]
      BY BatchAppends
    <2> QED
      BY <2>1, <2>2
  <1>3. Len(seq) \in Nat /\ Len(Batch[a]) \in Nat
        /\ DOMAIN (seq \o Batch[a]) = 1..(Len(seq) + Len(Batch[a]))
    BY BatchAppends
  <1>4. n \in DOMAIN (seq \o Batch[a])
    BY <1>2, <1>3
  <1> QED
    BY <1>1, <1>2, <1>4

(* A batch that was put last is in the sequence.                           *)
LEMMA BatchIsIn ==
  ASSUME NEW a \in Adders, NEW seq \in Vectors
  PROVE  IsIn(Batch[a], seq \o Batch[a])
  <1> SUFFICES ASSUME NEW i \in DOMAIN Batch[a]
               PROVE  \E n \in DOMAIN (seq \o Batch[a]) : (seq \o Batch[a])[n] = Batch[a][i]
    BY DEF IsIn
  <1>1. i \in 1..Len(Batch[a])
    BY BatchAppends
  <1>2. Len(seq) \in Nat /\ Len(Batch[a]) \in Nat
        /\ DOMAIN (seq \o Batch[a]) = 1..(Len(seq) + Len(Batch[a]))
    BY BatchAppends
  <1>3. Len(seq) + i \in DOMAIN (seq \o Batch[a])
    BY <1>1, <1>2
  <1>4. (seq \o Batch[a])[Len(seq) + i] = Batch[a][i]
    BY <1>1, BatchAppends
  <1> QED
    BY <1>3, <1>4

(* The ids of an add that is not among those that were added are new.      *)
LEMMA GoodAppends ==
  ASSUME NEW adds, NEW a \in Adders, a \notin adds, adds \subseteq Adders,
         NEW seq \in Vectors, Good(seq, adds)
  PROVE  Good(seq \o Batch[a], adds \cup {a})
  <1> DEFINE both == seq \o Batch[a]
  <1>1. ASSUME NEW i \in 1..Len(seq)
        PROVE  both[i] = seq[i]
               /\ \E b \in adds : \E m \in DOMAIN Batch[b] : both[i] = Batch[b][m]
    <2>1. both[i] = seq[i] /\ i \in DOMAIN seq
      BY BatchAppends
    <2> QED
      BY <2>1 DEF Good, From
  <1>2. ASSUME NEW i \in (Len(seq) + 1)..(Len(seq) + Len(Batch[a]))
        PROVE  i - Len(seq) \in DOMAIN Batch[a] /\ both[i] = Batch[a][i - Len(seq)]
    BY BatchAppends
  <1>3. ASSUME NEW i \in DOMAIN both
        PROVE  i \in 1..Len(seq) \/ i \in (Len(seq) + 1)..(Len(seq) + Len(Batch[a]))
    BY BatchAppends
  <1>4. From(both, adds \cup {a})
    BY <1>1, <1>2, <1>3 DEF From
  <1>5. ASSUME NEW i \in 1..Len(seq),
               NEW n \in (Len(seq) + 1)..(Len(seq) + Len(Batch[a]))
        PROVE  both[i] # both[n]
    <2>1. PICK b \in adds : \E m \in DOMAIN Batch[b] : both[i] = Batch[b][m]
      BY <1>1
    <2> QED
      BY <2>1, <1>2, FreshChunkIds
  <1>6. ASSUME NEW i \in DOMAIN both, NEW n \in DOMAIN both, both[i] = both[n]
        PROVE  i = n
    <2>1. CASE i \in 1..Len(seq) /\ n \in 1..Len(seq)
      <3>1. i \in DOMAIN seq /\ n \in DOMAIN seq
        BY <2>1, BatchAppends
      <3>2. seq[i] = seq[n]
        BY <1>6, <1>1, <2>1
      <3> QED
        BY <3>1, <3>2 DEF Good, Once
    <2>2. CASE i \notin 1..Len(seq) /\ n \notin 1..Len(seq)
      <3>1. i - Len(seq) = n - Len(seq)
        BY <1>6, <1>2, <1>3, <2>2, FreshChunkIds
      <3> QED
        BY <3>1, <1>3, <2>2, BatchAppends
    <2> QED
      BY <1>6, <1>3, <1>5, <2>1, <2>2
  <1> QED
    BY <1>4, <1>6 DEF Good, Once

(* What came from some additions came from more of them.                   *)
LEMMA GoodStays ==
  ASSUME NEW adds, NEW more, adds \subseteq more, NEW seq, Good(seq, adds)
  PROVE  Good(seq, more)
  BY DEF Good, From

(* The empty sequence came from any.                                       *)
LEMMA EmptyIsGood == ASSUME NEW adds PROVE Good(<<>>, adds)
  <1>1. DOMAIN <<>> = {}
    BY EmptySeq, LenProperties
  <1> QED
    BY <1>1 DEF Good, Once, From

--------------------------------------------------------------------------------

(* The invariant holds before the first call.                              *)
LEMMA InitInvariant == Init => IInv
  <1> SUFFICES ASSUME Init PROVE IInv
    OBVIOUS
  <1>1. TypeOK
    BY VectorFacts, VectorIndexAssumption DEF Init, TypeOK, Labels, Ended, Stores
  <1>2. \A t \in Threads : pc[t] = "idle"
    BY DEF Init
  <1>3. Roles /\ NearestTrue /\ IndexFileFirst
    BY <1>2 DEF Roles, NearestTrue, IndexFileFirst, Holding, Persisting
  <1>4. OneStore
    BY <1>2, VectorIndexAssumption DEF Init, OneStore, Holding, Persisting, Stores
  <1>5. HalfAdded /\ InIdMap /\ OnDisk
    BY <1>2 DEF Init, HalfAdded, InIdMap, OnDisk, Persisting, Stores, Threads
  <1>6. SearchFaithful
    BY DEF Init, SearchFaithful
  <1>7. IdsOnce
    BY EmptyIsGood DEF Init, IdsOnce
  <1> QED
    BY <1>1, <1>3, <1>4, <1>5, <1>6, <1>7 DEF IInv

(* The types, action by action.                                            *)
LEMMA StepTypes == TypeOK /\ Roles /\ [Next]_vars => TypeOK'
  <1> SUFFICES ASSUME TypeOK, Roles, [Next]_vars PROVE TypeOK'
    OBVIOUS
  <1>1. ASSUME NEW t \in Threads, Start(t) PROVE TypeOK'
    BY <1>1 DEF Start, Goto, TypeOK, Labels, memory, disk, results, faults
  <1>2. ASSUME NEW t \in Threads, Get(t) PROVE TypeOK'
    BY <1>2 DEF Get, Goto, TypeOK, Labels, memory, disk, results, faults
  <1>3. ASSUME NEW t \in Threads, ReadIndex(t) PROVE TypeOK'
    BY <1>3, VectorFacts DEF ReadIndex, Goto, TypeOK, Labels, Ended, disk, results, faults
  <1>4. ASSUME NEW t \in Threads, ReadIds(t) PROVE TypeOK'
    BY <1>4 DEF ReadIds, Goto, TypeOK, Labels, Ended, disk, results, faults
  <1>5. ASSUME NEW t \in Threads, Adopt(t) PROVE TypeOK'
    BY <1>5 DEF Adopt, Goto, TypeOK, Labels, Stores, disk, results, faults
  <1>6. ASSUME NEW t \in Threads, AddVectors(t) PROVE TypeOK'
    <2>1. mine[t] \in Stores /\ t \in Adders
      BY <1>6 DEF AddVectors, At, Roles
    <2>2. index[mine[t]] \o Batch[t] \in Vectors
      BY <2>1, BatchAppends DEF TypeOK
    <2> QED
      BY <1>6, <2>1, <2>2 DEF AddVectors, Goto, TypeOK, Labels, disk, results, faults
  <1>7. ASSUME NEW t \in Threads, ExtendIds(t) PROVE TypeOK'
    <2>1. mine[t] \in Stores /\ t \in Adders
      BY <1>7 DEF ExtendIds, At, Roles, Holding
    <2>2. idMap[mine[t]] \o Batch[t] \in Vectors
      BY <2>1, BatchAppends DEF TypeOK
    <2> QED
      BY <1>7, <2>1, <2>2 DEF ExtendIds, Goto, TypeOK, Labels, disk, results, faults
  <1>8. ASSUME NEW t \in Threads, OpenIndex(t) \/ OpenIds(t) PROVE TypeOK'
    BY <1>8 DEF OpenIndex, OpenIds, Goto, TypeOK, Labels, memory, results, faults
  <1>9. ASSUME NEW t \in Threads, WriteIndex(t) PROVE TypeOK'
    <2>1. mine[t] \in Stores
      BY <1>9 DEF WriteIndex, At, Roles, Holding, Persisting
    <2> QED
      BY <1>9, <2>1 DEF WriteIndex, Goto, TypeOK, Labels, memory, results, faults
  <1>10. ASSUME NEW t \in Threads, WriteIds(t) PROVE TypeOK'
    <2>1. mine[t] \in Stores
      BY <1>10 DEF WriteIds, At, Roles, Holding, Persisting
    <2> QED
      BY <1>10, <2>1 DEF WriteIds, Release, Goto, TypeOK, Labels, Ended, results, faults
  <1>11. ASSUME NEW t \in Threads, DiskError(t) PROVE TypeOK'
    <2>1. errors' \in 0..MaxErrors
      BY <1>11, VectorIndexAssumption DEF DiskError, TypeOK
    <2> QED
      BY <1>11, <2>1 DEF DiskError, Release, Goto, TypeOK, Labels, Ended, disk, results
  <1>12. ASSUME NEW t \in Threads, Search(t) PROVE TypeOK'
    <2>1. t \in Searchers /\ mine[t] \in Stores
      BY <1>12 DEF Search, At, Roles
    <2>2. PICK P \in SUBSET DOMAIN index[mine[t]] :
             nearest' = [nearest EXCEPT ![t] = {<<index[mine[t]][i], i>> : i \in P}]
      BY <1>12 DEF Search
    <2>3. {<<index[mine[t]][i], i>> : i \in P} \in SUBSET (Chunk \X (Nat \ {0}))
      <3> SUFFICES ASSUME NEW i \in P
                   PROVE  <<index[mine[t]][i], i>> \in Chunk \X (Nat \ {0})
        OBVIOUS
      <3>1. i \in 1..Len(index[mine[t]]) /\ Len(index[mine[t]]) \in Nat
        BY <2>1, VectorFacts DEF TypeOK
      <3>2. index[mine[t]][i] \in Chunk
        BY <2>1, <3>1, VectorFacts DEF TypeOK
      <3> QED
        BY <3>1, <3>2
    <2> QED
      BY <1>12, <2>1, <2>2, <2>3 DEF Search, Goto, TypeOK, Labels, memory, disk, faults
  <1>13. ASSUME NEW t \in Threads, MapToIds(t) PROVE TypeOK'
    <2>1. t \in Searchers /\ mine[t] \in Stores
      BY <1>13 DEF MapToIds, At, Roles
    <2>2. CASE /\ \A n \in nearest[t] : n[2] <= Len(idMap[mine[t]])
               /\ found' = [found EXCEPT ![t] =
                              {<<n[1], idMap[mine[t]][n[2]]>> : n \in nearest[t]}]
               /\ Goto(t, "done")
      <3>1. {<<n[1], idMap[mine[t]][n[2]]>> : n \in nearest[t]} \in SUBSET (Chunk \X Chunk)
        <4> SUFFICES ASSUME NEW n \in nearest[t]
                     PROVE  <<n[1], idMap[mine[t]][n[2]]>> \in Chunk \X Chunk
          OBVIOUS
        <4>1. n[1] \in Chunk /\ n[2] \in Nat \ {0} /\ n[2] <= Len(idMap[mine[t]])
          BY <2>1, <2>2 DEF TypeOK
        <4>2. n[2] \in 1..Len(idMap[mine[t]])
          BY <2>1, <4>1, VectorFacts DEF TypeOK
        <4> QED
          BY <2>1, <4>1, <4>2, VectorFacts DEF TypeOK
      <3> QED
        BY <1>13, <2>1, <2>2, <3>1
        DEF MapToIds, Goto, TypeOK, Labels, Ended, memory, disk, faults
    <2>3. CASE UNCHANGED found /\ Goto(t, "failed")
      BY <1>13, <2>3 DEF MapToIds, Goto, TypeOK, Labels, Ended, memory, disk, faults
    <2> QED
      BY <1>13, <2>2, <2>3 DEF MapToIds
  <1>14. CASE Crash
    BY <1>14, VectorFacts, VectorIndexAssumption
    DEF Crash, TypeOK, Labels, Ended, disk, results
  <1>15. CASE UNCHANGED vars
    BY <1>15 DEF vars, memory, disk, results, faults, TypeOK
  <1> QED
    BY <1>1, <1>2, <1>3, <1>4, <1>5, <1>6, <1>7, <1>8, <1>9, <1>10, <1>11, <1>12,
       <1>13, <1>14, <1>15 DEF Next, Step

(* Only adders are in an add, only searchers in a search, with a store.    *)
LEMMA StepRoles == TypeOK /\ Roles /\ [Next]_vars => Roles'
  <1> SUFFICES ASSUME TypeOK, Roles, [Next]_vars, NEW u \in Threads
               PROVE  /\ pc'[u] \in Holding => u \in Adders
                      /\ pc'[u] = "map" => u \in Searchers
                      /\ pc'[u] \in Holding \cup {"ready", "map"} => mine'[u] \in Stores
    BY DEF Roles
  <1> USE DEF TypeOK, Roles, Holding, Persisting, Goto, At
  <1>1. ASSUME NEW t \in Threads, Start(t) \/ Get(t) \/ ReadIndex(t) \/ ReadIds(t) \/ Adopt(t)
        PROVE  /\ pc'[u] \in Holding => u \in Adders
               /\ pc'[u] = "map" => u \in Searchers
               /\ pc'[u] \in Holding \cup {"ready", "map"} => mine'[u] \in Stores
    BY <1>1 DEF Start, Get, ReadIndex, ReadIds, Adopt, Stores
  <1>2. ASSUME NEW t \in Threads,
               AddVectors(t) \/ ExtendIds(t) \/ OpenIndex(t) \/ WriteIndex(t) \/ OpenIds(t)
        PROVE  /\ pc'[u] \in Holding => u \in Adders
               /\ pc'[u] = "map" => u \in Searchers
               /\ pc'[u] \in Holding \cup {"ready", "map"} => mine'[u] \in Stores
    BY <1>2 DEF AddVectors, ExtendIds, OpenIndex, WriteIndex, OpenIds
  <1>3. ASSUME NEW t \in Threads,
               WriteIds(t) \/ DiskError(t) \/ Search(t) \/ MapToIds(t)
        PROVE  /\ pc'[u] \in Holding => u \in Adders
               /\ pc'[u] = "map" => u \in Searchers
               /\ pc'[u] \in Holding \cup {"ready", "map"} => mine'[u] \in Stores
    BY <1>3 DEF WriteIds, DiskError, Search, MapToIds
  <1>4. CASE Crash
    BY <1>4 DEF Crash, Ended
  <1>5. CASE UNCHANGED vars
    BY <1>5 DEF vars
  <1> QED
    BY <1>1, <1>2, <1>3, <1>4, <1>5 DEF Next, Step

--------------------------------------------------------------------------------

(* A process has its store from its start on, or never: what its threads   *)
(* do then, all on that store, and none but its holder in an add.          *)
Quiet(t) == Start(t) \/ Get(t)
Searching(t) == Search(t) \/ MapToIds(t)
Writing(t) == OpenIndex(t) \/ WriteIndex(t) \/ OpenIds(t)
Leaving(t) == WriteIds(t) \/ DiskError(t)

(* In a process that has its store nobody starts to load one.              *)
LEMMA WarmNext ==
  ASSUME TypeOK, OneStore, [Next]_vars, Warm'
  PROVE  /\ Warm
         /\ \/ \E t \in Threads :
                  Quiet(t) \/ Searching(t) \/ AddVectors(t) \/ ExtendIds(t)
                  \/ Writing(t) \/ Leaving(t)
            \/ UNCHANGED vars
  <1>1. ~Crash
    BY VectorIndexAssumption DEF Crash, Warm, Stores
  <1>2. ASSUME NEW t \in Threads PROVE ~Adopt(t)
    BY VectorIndexAssumption DEF Adopt, Warm, Stores
  <1>3. Warm
    BY <1>1, <1>2 DEF Next, Step, vars, memory, disk, Start, Get, ReadIndex, ReadIds,
       AddVectors, ExtendIds, OpenIndex, WriteIndex, OpenIds, WriteIds, DiskError,
       Search, MapToIds, Warm
  <1>4. ASSUME NEW t \in Threads PROVE ~ReadIndex(t) /\ ~ReadIds(t)
    BY <1>3 DEF OneStore, ReadIndex, ReadIds, At
  <1> QED
    BY <1>1, <1>2, <1>3, <1>4 DEF Next, Step, Quiet, Searching, Writing, Leaving

(* And all of them have the same one, whose lock is held by who says so.   *)
LEMMA StepOneStore ==
  TypeOK /\ Roles /\ OneStore /\ [Next]_vars => OneStore'
  <1> SUFFICES ASSUME TypeOK, Roles, OneStore, [Next]_vars, Warm', NEW u \in Threads
               PROVE  /\ pc'[u] \notin {"read_index", "read_ids", "adopt"}
                      /\ pc'[u] \in Holding \cup {"ready", "map"} => mine'[u] = Shared
                      /\ pc'[u] \in Holding <=> lock'[Shared] = u
    BY DEF OneStore
  <1>1. Warm
    BY WarmNext
  <1>2. /\ pc[u] \notin {"read_index", "read_ids", "adopt"}
        /\ pc[u] \in Holding \cup {"ready", "map"} => mine[u] = Shared
        /\ pc[u] \in Holding <=> lock[Shared] = u
    BY <1>1 DEF OneStore
  <1>3. Nobody \notin Threads /\ Shared \in Stores /\ NoStore # Shared
    BY VectorIndexAssumption DEF Stores
  <1> USE DEF TypeOK, Holding, Persisting, Goto, At
  <1>4. ASSUME NEW t \in Threads, Start(t)
        PROVE  /\ pc'[u] \notin {"read_index", "read_ids", "adopt"}
               /\ pc'[u] \in Holding \cup {"ready", "map"} => mine'[u] = Shared
               /\ pc'[u] \in Holding <=> lock'[Shared] = u
    BY <1>2, <1>4 DEF Start, memory
  <1>5. ASSUME NEW t \in Threads, Get(t)
        PROVE  /\ pc'[u] \notin {"read_index", "read_ids", "adopt"}
               /\ pc'[u] \in Holding \cup {"ready", "map"} => mine'[u] = Shared
               /\ pc'[u] \in Holding <=> lock'[Shared] = u
    BY <1>1, <1>2, <1>3, <1>5 DEF Get, memory, Warm
  <1>6. ASSUME NEW t \in Threads, Searching(t)
        PROVE  /\ pc'[u] \notin {"read_index", "read_ids", "adopt"}
               /\ pc'[u] \in Holding \cup {"ready", "map"} => mine'[u] = Shared
               /\ pc'[u] \in Holding <=> lock'[Shared] = u
    BY <1>2, <1>6 DEF Searching, Search, MapToIds, memory
  <1>7. ASSUME NEW t \in Threads, AddVectors(t)
        PROVE  /\ pc'[u] \notin {"read_index", "read_ids", "adopt"}
               /\ pc'[u] \in Holding \cup {"ready", "map"} => mine'[u] = Shared
               /\ pc'[u] \in Holding <=> lock'[Shared] = u
    <2>1. mine[t] = Shared
      BY <1>1, <1>7 DEF OneStore, AddVectors
    <2> QED
      BY <1>2, <1>3, <1>7, <2>1 DEF AddVectors
  <1>8. ASSUME NEW t \in Threads, ExtendIds(t) \/ Writing(t)
        PROVE  /\ pc'[u] \notin {"read_index", "read_ids", "adopt"}
               /\ pc'[u] \in Holding \cup {"ready", "map"} => mine'[u] = Shared
               /\ pc'[u] \in Holding <=> lock'[Shared] = u
    BY <1>2, <1>8 DEF Writing, ExtendIds, OpenIndex, WriteIndex, OpenIds, memory
  <1>9. ASSUME NEW t \in Threads, Leaving(t)
        PROVE  /\ pc'[u] \notin {"read_index", "read_ids", "adopt"}
               /\ pc'[u] \in Holding \cup {"ready", "map"} => mine'[u] = Shared
               /\ pc'[u] \in Holding <=> lock'[Shared] = u
    <2>1. mine[t] = Shared /\ lock[Shared] = t
      BY <1>1, <1>9 DEF OneStore, Leaving, WriteIds, DiskError
    <2>2. lock'[Shared] = Nobody /\ UNCHANGED mine
      BY <1>3, <1>9, <2>1 DEF Leaving, WriteIds, DiskError, Release
    <2>3. pc'[t] \in {"done", "failed"} /\ (u # t => pc'[u] = pc[u])
      BY <1>9 DEF Leaving, WriteIds, DiskError
    <2> QED
      BY <1>2, <1>3, <2>1, <2>2, <2>3
  <1>10. CASE UNCHANGED vars
    BY <1>2, <1>10 DEF vars, memory
  <1> QED
    BY <1>4, <1>5, <1>6, <1>7, <1>8, <1>9, <1>10, WarmNext DEF Quiet

(* In such a process one thread at most is in an add, and when the lock is *)
(* free, none is.                                                          *)
LEMMA OneHolder ==
  ASSUME OneStore, Warm, NEW t \in Threads, pc[t] \in Holding
  PROVE  /\ mine[t] = Shared /\ lock[Shared] = t /\ t # Nobody
         /\ \A u \in Threads : pc[u] \in Holding => u = t
  BY VectorIndexAssumption DEF OneStore

(* When its lock is free, nobody is between two steps under it.            *)
LEMMA NoHolder ==
  ASSUME OneStore, Warm, lock[Shared] = Nobody
  PROVE  \A u \in Threads : pc[u] \notin Holding
  BY VectorIndexAssumption DEF OneStore

(* The id map follows the index.                                           *)
LEMMA StepHalfAdded ==
  TypeOK /\ Roles /\ OneStore /\ HalfAdded /\ [Next]_vars => HalfAdded'
  <1> SUFFICES ASSUME TypeOK, Roles, OneStore, HalfAdded, [Next]_vars, Warm'
               PROVE  HalfAdded'
    BY DEF HalfAdded
  <1> USE DEF TypeOK, Goto, At
  <1>1. Warm /\ Shared \in Stores
    BY WarmNext DEF Stores
  <1>2. ASSUME NEW t \in Threads,
               Quiet(t) \/ Searching(t) \/ Writing(t) \/ Leaving(t)
        PROVE  HalfAdded'
    <2>1. UNCHANGED <<index, idMap>>
      BY <1>2 DEF Quiet, Searching, Writing, Leaving, Start, Get, Search, MapToIds, OpenIndex,
         WriteIndex, OpenIds, WriteIds, DiskError, memory
    <2>2. ASSUME NEW u \in Threads PROVE pc'[u] = "extend" <=> pc[u] = "extend"
      BY <1>2 DEF Quiet, Searching, Writing, Leaving, Start, Get, Search, MapToIds, OpenIndex,
         WriteIndex, OpenIds, WriteIds, DiskError, Persisting
    <2> QED
      BY <1>1, <2>1, <2>2 DEF HalfAdded
  <1>3. ASSUME NEW t \in Threads, AddVectors(t) PROVE HalfAdded'
    <2>1. mine[t] = Shared /\ lock[Shared] = Nobody
      BY <1>1, <1>3 DEF OneStore, AddVectors
    <2>2. \A u \in Threads : pc[u] # "extend"
      BY <1>1, <2>1, NoHolder DEF Holding
    <2>3. idMap[Shared] = index[Shared]
      BY <1>1, <2>2 DEF HalfAdded
    <2>4. UNCHANGED idMap /\ index'[Shared] = index[Shared] \o Batch[t]
      BY <1>1, <1>3, <2>1 DEF AddVectors
    <2>5. \A u \in Threads : pc'[u] = "extend" <=> u = t
      BY <1>3, <2>2 DEF AddVectors
    <2> QED
      BY <2>3, <2>4, <2>5 DEF HalfAdded
  <1>4. ASSUME NEW t \in Threads, ExtendIds(t) PROVE HalfAdded'
    <2>1. mine[t] = Shared /\ \A u \in Threads : pc[u] = "extend" => u = t
      BY <1>1, <1>4, OneHolder DEF ExtendIds, Holding
    <2>2. index[Shared] = idMap[Shared] \o Batch[t]
      BY <1>1, <1>4 DEF HalfAdded, ExtendIds
    <2>3. UNCHANGED index /\ idMap'[Shared] = idMap[Shared] \o Batch[t]
      BY <1>1, <1>4, <2>1 DEF ExtendIds
    <2>4. \A u \in Threads : pc'[u] # "extend"
      BY <1>4, <2>1 DEF ExtendIds
    <2> QED
      BY <2>2, <2>3, <2>4 DEF HalfAdded
  <1>5. CASE UNCHANGED vars
    BY <1>1, <1>5 DEF HalfAdded, vars, memory
  <1> QED
    BY <1>2, <1>3, <1>4, <1>5, WarmNext

(* The index only grows, so that positions keep their chunks.              *)
LEMMA StepNearest ==
  TypeOK /\ Roles /\ OneStore /\ NearestTrue /\ [Next]_vars => NearestTrue'
  <1> SUFFICES ASSUME TypeOK, Roles, OneStore, NearestTrue, [Next]_vars, Warm',
                      NEW u \in Threads, pc'[u] = "map", NEW n \in nearest'[u]
               PROVE  n[2] \in 1..Len(index'[Shared]) /\ index'[Shared][n[2]] = n[1]
    BY DEF NearestTrue
  <1> USE DEF TypeOK, Goto, At
  <1>1. Warm /\ Shared \in Stores
    BY WarmNext DEF Stores
  <1>2. CASE pc[u] = "map" /\ UNCHANGED <<index, nearest>>
    BY <1>1, <1>2 DEF NearestTrue
  <1>3. ASSUME NEW t \in Threads, AddVectors(t)
        PROVE  n[2] \in 1..Len(index'[Shared]) /\ index'[Shared][n[2]] = n[1]
    <2>1. mine[t] = Shared /\ t \in Adders
      BY <1>1, <1>3 DEF OneStore, AddVectors
    <2>2. index'[Shared] = index[Shared] \o Batch[t] /\ index[Shared] \in Vectors
      BY <1>1, <1>3, <2>1 DEF AddVectors
    <2>3. pc[u] = "map" /\ n \in nearest[u]
      BY <1>3 DEF AddVectors, results
    <2>4. n[2] \in 1..Len(index[Shared]) /\ index[Shared][n[2]] = n[1]
      BY <1>1, <2>3 DEF NearestTrue
    <2> QED
      BY <2>1, <2>2, <2>4, PositionsStay
  <1>4. ASSUME NEW t \in Threads, Search(t), t = u
        PROVE  n[2] \in 1..Len(index'[Shared]) /\ index'[Shared][n[2]] = n[1]
    <2>1. mine[t] = Shared /\ t \in Searchers
      BY <1>1, <1>4 DEF OneStore, Search
    <2>2. PICK P \in SUBSET DOMAIN index[mine[t]] :
             nearest' = [nearest EXCEPT ![t] = {<<index[mine[t]][i], i>> : i \in P}]
      BY <1>4 DEF Search
    <2>3. n \in {<<index[mine[t]][i], i>> : i \in P}
      BY <1>4, <2>1, <2>2
    <2>4. PICK i \in P : n = <<index[mine[t]][i], i>>
      BY <2>3
    <2>5. i \in 1..Len(index[Shared]) /\ n = <<index[Shared][i], i>>
      BY <1>1, <2>1, <2>2, <2>4, VectorFacts
    <2> QED
      BY <1>4, <2>5 DEF Search, memory
  <1>5. ASSUME NEW t \in Threads, Search(t), t # u
        PROVE  pc[u] = "map" /\ UNCHANGED index /\ n \in nearest[u]
    <2>1. t \in Searchers /\ UNCHANGED index /\ pc[u] = "map" /\ u \in Searchers
      BY <1>5 DEF Search, memory, Roles
    <2> QED
      BY <1>5, <2>1 DEF Search
  <1>6. ASSUME NEW t \in Threads,
               Quiet(t) \/ MapToIds(t) \/ ExtendIds(t) \/ Writing(t) \/ Leaving(t)
        PROVE  pc[u] = "map" /\ UNCHANGED <<index, nearest>>
    BY <1>6 DEF Quiet, Writing, Leaving, Start, Get, MapToIds, ExtendIds, OpenIndex, WriteIndex,
       OpenIds, WriteIds, DiskError, memory, results
  <1>7. CASE UNCHANGED vars
    BY <1>2, <1>7 DEF vars, memory, results
  <1> QED
    BY <1>1, <1>2, <1>3, <1>4, <1>5, <1>6, <1>7, WarmNext DEF Searching, NearestTrue

(* A position that is resolved is in the part of the id map that is there, *)
(* or the search fails.                                                    *)
LEMMA StepSearchFaithful ==
  TypeOK /\ Roles /\ OneStore /\ HalfAdded /\ NearestTrue /\ SearchFaithful /\ [Next]_vars
    => SearchFaithful'
  <1> SUFFICES ASSUME TypeOK, Roles, OneStore, HalfAdded, NearestTrue, SearchFaithful,
                      [Next]_vars, Warm', NEW u \in Searchers, NEW pair \in found'[u]
               PROVE  pair[1] = pair[2]
    BY DEF SearchFaithful
  <1> USE DEF TypeOK, Goto, At
  <1>1. Warm /\ Shared \in Stores /\ u \in Threads
    BY WarmNext DEF Stores, Threads
  <1>2. CASE pair \in found[u]
    BY <1>1, <1>2 DEF SearchFaithful
  <1>3. ASSUME NEW t \in Threads, MapToIds(t), pair \notin found[u] PROVE pair[1] = pair[2]
    <2>1. mine[t] = Shared /\ t \in Searchers
      BY <1>1, <1>3 DEF OneStore, Roles, MapToIds
    <2>2. /\ \A n \in nearest[t] : n[2] <= Len(idMap[Shared])
          /\ found' = [found EXCEPT ![t] =
                          {<<n[1], idMap[Shared][n[2]]>> : n \in nearest[t]}]
      BY <1>3, <2>1 DEF MapToIds
    <2>3. pair \in {<<n[1], idMap[Shared][n[2]]>> : n \in nearest[t]}
      BY <1>3, <2>1, <2>2
    <2>4. PICK n \in nearest[t] : pair = <<n[1], idMap[Shared][n[2]]>>
      BY <2>3
    <2>5. n[2] \in 1..Len(index[Shared]) /\ index[Shared][n[2]] = n[1]
      BY <1>1, <1>3 DEF NearestTrue, MapToIds
    <2>6. index[Shared][n[2]] = idMap[Shared][n[2]]
      <3>1. CASE \E a \in Threads : pc[a] = "extend"
        <4>1. PICK a \in Adders : index[Shared] = idMap[Shared] \o Batch[a]
          BY <1>1, <3>1 DEF HalfAdded, Roles, Holding
        <4>2. \A i \in 1..Len(idMap[Shared]) : index[Shared][i] = idMap[Shared][i]
          BY <1>1, <4>1, PositionsStay
        <4>3. Len(idMap[Shared]) \in Nat /\ Len(index[Shared]) \in Nat
          BY <1>1, VectorFacts
        <4>4. n[2] \in 1..Len(idMap[Shared])
          BY <2>2, <2>5, <4>3
        <4> QED
          BY <4>2, <4>4
      <3>2. CASE ~\E a \in Threads : pc[a] = "extend"
        BY <1>1, <3>2 DEF HalfAdded
      <3> QED
        BY <3>1, <3>2
    <2> QED
      BY <2>4, <2>5, <2>6
  <1>4. ASSUME NEW t \in Threads,
               Quiet(t) \/ Search(t) \/ AddVectors(t) \/ ExtendIds(t) \/ Writing(t) \/ Leaving(t)
        PROVE  UNCHANGED found
    BY <1>4 DEF Quiet, Writing, Leaving, Start, Get, Search, AddVectors, ExtendIds, OpenIndex,
       WriteIndex, OpenIds, WriteIds, DiskError, results
  <1>5. CASE UNCHANGED vars
    BY <1>2, <1>5 DEF vars, results
  <1> QED
    BY <1>2, <1>3, <1>4, <1>5, WarmNext DEF Searching

(* What an add has put into the id map stays there.                        *)
LEMMA StepInIdMap ==
  TypeOK /\ Roles /\ OneStore /\ InIdMap /\ [Next]_vars => InIdMap'
  <1> SUFFICES ASSUME TypeOK, Roles, OneStore, InIdMap, [Next]_vars, Warm',
                      NEW u \in Adders, pc'[u] \in Persisting \cup {"done"}
               PROVE  IsIn(Batch[u], idMap'[Shared])
    BY DEF InIdMap
  <1> USE DEF TypeOK, Goto, At
  <1>1. Warm /\ Shared \in Stores /\ u \in Threads
    BY WarmNext DEF Stores, Threads
  <1>2. CASE UNCHANGED idMap /\ pc[u] \in Persisting \cup {"done"}
    BY <1>1, <1>2 DEF InIdMap
  <1>3. ASSUME NEW t \in Threads, ExtendIds(t) PROVE IsIn(Batch[u], idMap'[Shared])
    <2>1. mine[t] = Shared /\ t \in Adders
      BY <1>1, <1>3, OneHolder DEF ExtendIds, Holding, Roles
    <2>2. idMap'[Shared] = idMap[Shared] \o Batch[t] /\ idMap[Shared] \in Vectors
      BY <1>1, <1>3, <2>1 DEF ExtendIds
    <2>3. CASE u = t
      BY <2>1, <2>2, <2>3, BatchIsIn
    <2>4. CASE u # t
      <3>1. IsIn(Batch[u], idMap[Shared])
        BY <1>1, <1>3, <2>4 DEF ExtendIds, InIdMap
      <3> QED
        BY <2>1, <2>2, <3>1, InStays
    <2> QED
      BY <2>3, <2>4
  <1>4. ASSUME NEW t \in Threads,
               Quiet(t) \/ Searching(t) \/ AddVectors(t) \/ Writing(t) \/ Leaving(t)
        PROVE  UNCHANGED idMap /\ pc[u] \in Persisting \cup {"done"}
    <2>1. UNCHANGED idMap
      BY <1>4 DEF Quiet, Searching, Writing, Leaving, Start, Get, Search, MapToIds, AddVectors,
         OpenIndex, WriteIndex, OpenIds, WriteIds, DiskError, memory
    <2>2. CASE MapToIds(t)
      <3>1. pc[t] = "map" /\ \E label : pc' = [pc EXCEPT ![t] = label]
        BY <2>2 DEF MapToIds
      <3>2. t \in Searchers
        BY <3>1 DEF Roles
      <3>3. t # u
        BY <3>2, VectorIndexAssumption
      <3>4. pc'[u] = pc[u]
        BY <3>1, <3>3
      <3> QED
        BY <2>1, <3>4
    <2>3. CASE ~MapToIds(t)
      <3>1. pc[u] \in Persisting \cup {"done"}
        BY <1>1, <1>4, <2>3 DEF Quiet, Searching, Writing, Leaving, Start, Get, Search, AddVectors,
           OpenIndex, WriteIndex, OpenIds, WriteIds, DiskError, Persisting
      <3> QED
        BY <2>1, <3>1
    <2> QED
      BY <2>2, <2>3
  <1>5. CASE UNCHANGED vars
    BY <1>2, <1>5 DEF vars, memory
  <1> QED
    BY <1>2, <1>3, <1>4, <1>5, WarmNext

(* Nothing is added between the writing of the two files.                  *)
LEMMA StepIndexFileFirst ==
  TypeOK /\ Roles /\ OneStore /\ IndexFileFirst /\ [Next]_vars => IndexFileFirst'
  <1> SUFFICES ASSUME TypeOK, Roles, OneStore, IndexFileFirst, [Next]_vars, Warm',
                      NEW u \in Threads, pc'[u] \in {"open_ids", "write_ids"}
               PROVE  indexFile' = index'[Shared]
    BY DEF IndexFileFirst
  <1> USE DEF TypeOK, Goto, At
  <1>1. Warm /\ Shared \in Stores
    BY WarmNext DEF Stores
  <1>2. CASE UNCHANGED <<index, indexFile>> /\ pc[u] \in {"open_ids", "write_ids"}
    BY <1>1, <1>2 DEF IndexFileFirst
  <1>3. ASSUME NEW t \in Threads, AddVectors(t) PROVE FALSE
    <2>1. mine[t] = Shared /\ lock[Shared] = Nobody
      BY <1>1, <1>3 DEF OneStore, AddVectors
    <2>2. pc[u] \in Holding
      BY <1>3 DEF AddVectors, Holding, Persisting
    <2> QED
      BY <1>1, <2>1, <2>2, NoHolder
  <1>4. ASSUME NEW t \in Threads, OpenIndex(t) \/ WriteIndex(t)
        PROVE  indexFile' = index'[Shared]
    <2>1. mine[t] = Shared /\ \A w \in Threads : pc[w] \in Holding => w = t
      BY <1>1, <1>4, OneHolder DEF OpenIndex, WriteIndex, Holding, Persisting
    <2>2. u = t /\ WriteIndex(t)
      BY <1>4, <2>1 DEF OpenIndex, WriteIndex, Holding, Persisting
    <2> QED
      BY <2>1, <2>2 DEF WriteIndex, memory
  <1>5. ASSUME NEW t \in Threads, OpenIds(t)
        PROVE  UNCHANGED <<index, indexFile>> /\ pc[u] \in {"open_ids", "write_ids"}
    BY <1>5 DEF OpenIds, memory
  <1>6. ASSUME NEW t \in Threads,
               Quiet(t) \/ Searching(t) \/ ExtendIds(t) \/ Leaving(t)
        PROVE  UNCHANGED <<index, indexFile>> /\ pc[u] \in {"open_ids", "write_ids"}
    BY <1>6 DEF Quiet, Searching, Leaving, Start, Get, Search, MapToIds, ExtendIds, WriteIds,
       DiskError, memory, disk
  <1>7. CASE UNCHANGED vars
    BY <1>2, <1>7 DEF vars, memory, disk
  <1> QED
    BY <1>2, <1>3, <1>4, <1>5, <1>6, <1>7, WarmNext DEF Writing

(* The last add that let go of the lock has written both files, unless the *)
(* disk failed.                                                            *)
LEMMA StepOnDisk ==
  TypeOK /\ Roles /\ OneStore /\ IndexFileFirst /\ OnDisk /\ [Next]_vars => OnDisk'
  <1> SUFFICES ASSUME TypeOK, Roles, OneStore, IndexFileFirst, OnDisk, [Next]_vars, Warm',
                      errors' = 0, lock'[Shared] = Nobody, NEW u \in Adders, pc'[u] = "done"
               PROVE  indexFile' = index'[Shared] /\ idsFile' = idMap'[Shared]
    BY DEF OnDisk
  <1> USE DEF TypeOK, Goto, At
  <1>1. Warm /\ Shared \in Stores /\ u \in Threads
    BY WarmNext DEF Stores, Threads
  <1>2. CASE pc[u] = "done" /\ UNCHANGED <<lock, index, idMap, indexFile, idsFile, errors>>
    BY <1>1, <1>2 DEF OnDisk
  <1>3. ASSUME NEW t \in Threads, AddVectors(t) PROVE FALSE
    <2>1. mine[t] = Shared /\ t # Nobody
      BY <1>1, <1>3, VectorIndexAssumption DEF OneStore, AddVectors
    <2> QED
      BY <1>1, <1>3, <2>1 DEF AddVectors
  <1>4. ASSUME NEW t \in Threads, ExtendIds(t) \/ Writing(t) PROVE FALSE
    <2>1. lock[Shared] = t /\ t # Nobody
      BY <1>1, <1>4, OneHolder
      DEF ExtendIds, Writing, OpenIndex, WriteIndex, OpenIds, Holding, Persisting
    <2> QED
      BY <1>4, <2>1 DEF ExtendIds, Writing, OpenIndex, WriteIndex, OpenIds, memory
  <1>5. ASSUME NEW t \in Threads, WriteIds(t)
        PROVE  indexFile' = index'[Shared] /\ idsFile' = idMap'[Shared]
    <2>1. mine[t] = Shared
      BY <1>1, <1>5, OneHolder DEF WriteIds, Holding, Persisting
    <2>2. indexFile = index[Shared]
      BY <1>1, <1>5 DEF WriteIds, IndexFileFirst
    <2> QED
      BY <1>5, <2>1, <2>2 DEF WriteIds
  <1>6. ASSUME NEW t \in Threads, DiskError(t) PROVE FALSE
    BY <1>6, VectorIndexAssumption DEF DiskError
  <1>7. ASSUME NEW t \in Threads, Quiet(t) \/ Searching(t)
        PROVE  pc[u] = "done" /\ UNCHANGED <<lock, index, idMap, indexFile, idsFile, errors>>
    <2>1. UNCHANGED <<lock, index, idMap, indexFile, idsFile, errors>>
      BY <1>7 DEF Quiet, Searching, Start, Get, Search, MapToIds, memory, disk, faults
    <2>2. CASE MapToIds(t)
      <3>1. pc[t] = "map" /\ \E label : pc' = [pc EXCEPT ![t] = label]
        BY <2>2 DEF MapToIds
      <3>2. t \in Searchers
        BY <3>1 DEF Roles
      <3>3. t # u
        BY <3>2, VectorIndexAssumption
      <3>4. pc'[u] = pc[u]
        BY <3>1, <3>3
      <3> QED
        BY <2>1, <3>4
    <2>3. CASE ~MapToIds(t)
      <3>1. pc[u] = "done"
        BY <1>1, <1>7, <2>3 DEF Quiet, Searching, Start, Get, Search
      <3> QED
        BY <2>1, <3>1
    <2> QED
      BY <2>2, <2>3
  <1>8. CASE UNCHANGED vars
    BY <1>2, <1>8 DEF vars, memory, disk, faults
  <1> QED
    BY <1>2, <1>3, <1>4, <1>5, <1>6, <1>7, <1>8, WarmNext DEF Leaving

--------------------------------------------------------------------------------

(* An add that is over, or never gets to the id map, does not come back:   *)
(* the one that extends an id map is not among those that did.             *)
LEMMA AddedGrows ==
  ASSUME TypeOK, [Next]_vars
  PROVE  Added \subseteq Added'
  <1> SUFFICES ASSUME NEW a \in Adders, pc[a] \in Persisting \cup Ended
               PROVE  pc'[a] \in Persisting \cup Ended
    BY DEF Added
  <1> USE DEF TypeOK, Goto, At, Persisting, Ended
  <1>0. a \in Threads
    BY DEF Threads
  <1>1. ASSUME NEW t \in Threads,
               Start(t) \/ Get(t) \/ ReadIndex(t) \/ ReadIds(t) \/ Adopt(t)
        PROVE  pc'[a] \in Persisting \cup Ended
    BY <1>0, <1>1 DEF Start, Get, ReadIndex, ReadIds, Adopt
  <1>2. ASSUME NEW t \in Threads,
               AddVectors(t) \/ ExtendIds(t) \/ OpenIndex(t) \/ WriteIndex(t) \/ OpenIds(t)
        PROVE  pc'[a] \in Persisting \cup Ended
    BY <1>0, <1>2 DEF AddVectors, ExtendIds, OpenIndex, WriteIndex, OpenIds
  <1>3. ASSUME NEW t \in Threads,
               WriteIds(t) \/ DiskError(t) \/ Search(t) \/ MapToIds(t)
        PROVE  pc'[a] \in Persisting \cup Ended
    BY <1>0, <1>3 DEF WriteIds, DiskError, Search, MapToIds
  <1>4. CASE Crash
    BY <1>0, <1>4 DEF Crash
  <1>5. CASE UNCHANGED vars
    BY <1>5 DEF vars
  <1> QED
    BY <1>1, <1>2, <1>3, <1>4, <1>5 DEF Next, Step

(* No id is added twice, as no job adds twice and no two jobs the same     *)
(* chunk.                                                                  *)
LEMMA StepIdsOnce == TypeOK /\ Roles /\ IdsOnce /\ [Next]_vars => IdsOnce'
  <1> SUFFICES ASSUME TypeOK, Roles, IdsOnce, [Next]_vars PROVE IdsOnce'
    OBVIOUS
  <1>1. PICK old, new : old = Added /\ new = Added'
    OBVIOUS
  <1>2. /\ old \subseteq new
        /\ \A s \in Stores : Good(idMap[s], new)
        /\ idsFile \notin {Absent, Torn} => Good(idsFile, new)
    BY <1>1, AddedGrows, GoodStays DEF IdsOnce
  <1>3. ASSUME \A s \in Stores : Good(idMap'[s], new),
               idsFile' \notin {Absent, Torn} => Good(idsFile', new)
        PROVE  IdsOnce'
    BY <1>1, <1>3 DEF IdsOnce
  <1> USE DEF TypeOK, Goto, At
  <1>4. CASE UNCHANGED <<idMap, idsFile>>
    BY <1>2, <1>3, <1>4
  <1>5. ASSUME NEW t \in Threads, ReadIndex(t) PROVE IdsOnce'
    <2>1. \A s \in Stores : Good(idMap'[s], new)
      BY <1>2, <1>5, EmptyIsGood DEF ReadIndex
    <2>2. UNCHANGED idsFile
      BY <1>5 DEF ReadIndex, disk
    <2> QED
      BY <1>2, <1>3, <2>1, <2>2
  <1>6. ASSUME NEW t \in Threads, ReadIds(t) PROVE IdsOnce'
    <2>1. \A s \in Stores : Good(idMap'[s], new)
      BY <1>2, <1>6 DEF ReadIds
    <2>2. UNCHANGED idsFile
      BY <1>6 DEF ReadIds, disk
    <2> QED
      BY <1>2, <1>3, <2>1, <2>2
  <1>7. ASSUME NEW t \in Threads, ExtendIds(t) PROVE IdsOnce'
    <2>1. t \in Adders /\ mine[t] \in Stores /\ idMap[mine[t]] \in Vectors
      BY <1>7 DEF ExtendIds, Roles, Holding
    <2>2. t \notin old /\ old \subseteq Adders
      BY <1>1, <1>7 DEF ExtendIds, Added, Persisting, Ended
    <2>3. old \cup {t} \subseteq new
      <3>1. pc'[t] \in Persisting
        BY <1>7 DEF ExtendIds, Persisting
      <3>2. t \in Added'
        BY <2>1, <3>1 DEF Added
      <3> QED
        BY <1>1, <1>2, <3>2
    <2>4. Good(idMap[mine[t]], old)
      BY <1>1, <2>1 DEF IdsOnce
    <2>5. Good(idMap[mine[t]] \o Batch[t], new)
      <3>1. Good(idMap[mine[t]] \o Batch[t], old \cup {t})
        BY <2>1, <2>2, <2>4, GoodAppends
      <3> QED
        BY <2>3, <3>1, GoodStays
    <2>6. \A s \in Stores : Good(idMap'[s], new)
      BY <1>2, <1>7, <2>1, <2>5 DEF ExtendIds
    <2>7. UNCHANGED idsFile
      BY <1>7 DEF ExtendIds, disk
    <2> QED
      BY <1>2, <1>3, <2>6, <2>7
  <1>8. ASSUME NEW t \in Threads, OpenIds(t) PROVE IdsOnce'
    BY <1>2, <1>3, <1>8 DEF OpenIds, memory
  <1>9. ASSUME NEW t \in Threads, WriteIds(t) PROVE IdsOnce'
    <2>1. mine[t] \in Stores
      BY <1>9 DEF WriteIds, Roles, Holding, Persisting
    <2> QED
      BY <1>2, <1>3, <1>9, <2>1 DEF WriteIds
  <1>10. CASE Crash
    <2>1. \A s \in Stores : Good(idMap'[s], new)
      BY <1>10, EmptyIsGood DEF Crash
    <2>2. UNCHANGED idsFile
      BY <1>10 DEF Crash, disk
    <2> QED
      BY <1>2, <1>3, <2>1, <2>2
  <1>11. ASSUME NEW t \in Threads,
                Start(t) \/ Get(t) \/ Adopt(t) \/ AddVectors(t) \/ OpenIndex(t) \/ WriteIndex(t)
                \/ DiskError(t) \/ Search(t) \/ MapToIds(t)
         PROVE  UNCHANGED <<idMap, idsFile>>
    BY <1>11 DEF Start, Get, Adopt, AddVectors, OpenIndex, WriteIndex, DiskError, Search,
       MapToIds, memory, disk
  <1>12. CASE UNCHANGED vars
    BY <1>4, <1>12 DEF vars, memory, disk
  <1> QED
    BY <1>4, <1>5, <1>6, <1>7, <1>8, <1>9, <1>10, <1>11, <1>12 DEF Next, Step

--------------------------------------------------------------------------------

(* So it holds always.                                                     *)
LEMMA Invariance == Spec => []IInv
  <1>1. IInv /\ [Next]_vars => IInv'
    BY StepTypes, StepRoles, StepOneStore, StepHalfAdded, StepNearest, StepSearchFaithful,
       StepInIdMap, StepIndexFileFirst, StepOnDisk, StepIdsOnce DEF IInv
  <1> QED
    BY <1>1, InitInvariant, PTL DEF Spec

(* Both files and both parts of every store keep their types, and every    *)
(* thread is where it may be, through disk errors and crashes.             *)
THEOREM TypeCorrect == Spec => []TypeOK
  <1>1. IInv => TypeOK
    BY DEF IInv
  <1> QED
    BY <1>1, Invariance, PTL

(* In a process that has its store, FaissStore.add() leaves index and id   *)
(* map equal whenever it lets go of its lock, also when _persist() fails.  *)
THEOREM StaysAligned == Spec => []Aligned
  <1>1. IInv => Aligned
    BY NoHolder DEF IInv, HalfAdded, Aligned, Holding
  <1> QED
    BY <1>1, Invariance, PTL

(* FaissStore.search() gives each vector its own chunk id, though it reads *)
(* the id map without the lock, while any number of adds go on.            *)
THEOREM SearchesAreFaithful == Spec => []SearchFaithful
  <1>1. IInv => SearchFaithful
    BY DEF IInv
  <1> QED
    BY <1>1, Invariance, PTL

(* What a FaissStore.add() that has returned has stored is in the store    *)
(* and, unless the disk has failed, in both of its files, between adds.    *)
THEOREM ReturnedStays == Spec => []ReturnedIsStored
  <1>1. IInv => ReturnedIsStored
    <2> SUFFICES ASSUME IInv, Warm, NEW t \in Adders, pc[t] = "done"
                 PROVE  /\ IsIn(Batch[t], idMap[Shared])
                        /\ errors = 0 /\ lock[Shared] = Nobody =>
                              /\ indexFile \notin {Absent, Torn} /\ IsIn(Batch[t], indexFile)
                              /\ idsFile = indexFile
      BY DEF ReturnedIsStored, At
    <2>1. IsIn(Batch[t], idMap[Shared])
      BY DEF IInv, InIdMap
    <2>2. CASE errors = 0 /\ lock[Shared] = Nobody
      <3>1. indexFile = index[Shared] /\ idsFile = idMap[Shared]
        BY <2>2 DEF IInv, OnDisk
      <3>2. idMap[Shared] = index[Shared]
        BY <2>2, NoHolder DEF IInv, HalfAdded, Holding
      <3>3. index[Shared] \in Vectors
        BY DEF IInv, TypeOK, Stores
      <3> QED
        BY <2>1, <3>1, <3>2, <3>3, VectorFacts
    <2> QED
      BY <2>1, <2>2
  <1> QED
    BY <1>1, Invariance, PTL

(* No id comes twice into the id map of any store, or into ids.json, with  *)
(* however many stores made at once, errors of the disk, and restarts.     *)
THEOREM IdsStayUnique == Spec => []NoDuplicateIds
  <1>1. IInv => NoDuplicateIds
    BY DEF IInv, IdsOnce, Good, NoDuplicateIds
  <1> QED
    BY <1>1, Invariance, PTL
================================================================================
