------------------------------ MODULE CorpusProofs ------------------------------
(***************************************************************************)
(* That the state of Corpus keeps its type, and its invariants hold, for   *)
(* any jobs, circulars, documents, references and searchers, proved.       *)
(*                                                                         *)
(* The inductive invariant has four parts: what a job relies on of the     *)
(* rows in the database (RowsInv), what the sparse store's lock protects   *)
(* (StoreInv), what a search has in hand while the store grows             *)
(* (SearchInv), and that a document's chunks are those it is cut into      *)
(* (DocumentsOK). The rest are facts about what the model is built from,   *)
(* whatever the state: a walk of the amendment graph, the ranks of a sum   *)
(* of fractions, and the spans of the chunks of any document. They are by  *)
(* induction, for the members of a set (SetInduction); and a recursive     *)
(* definition means what it says as a function that satisfies it exists    *)
(* (Recursion).                                                            *)
(***************************************************************************)
EXTENDS Corpus, SequenceTheorems, FiniteSetTheorems, WellFoundedInduction, TLAPS

Labels == {"chunk", "dense", "ids", "corpus", "rebuild", "commit",
           "look", "link", "ended", "failed"}

(* A chunk as it is cut, or as it counts once it is indexed.               *)
Chunk == [lines : Seq(Lines), start : Int, end : Int]

(* Which steps a job of a label has behind it.                             *)
Uncommitted(label) == label \in {"chunk", "dense", "ids", "corpus", "rebuild", "commit"}
Linking(label) == label \in {"look", "link"}

JobTypes ==
    /\ pc \in [Jobs -> Labels]
    /\ text \in [Jobs -> Seq(Lines)]
    /\ chunks \in [Jobs -> Seq(Chunk \cup {None})]
    /\ refs \in [Jobs -> Seq(STRING)]
    /\ looked \in [Jobs -> Nat]
    /\ target \in [Jobs -> Circulars \cup {None}]

RowTypes ==
    /\ DOMAIN supersedes \subseteq Circulars /\ Older \subseteq DOMAIN supersedes
    /\ supersedes \in [DOMAIN supersedes -> DOMAIN supersedes \cup {None}]

(* What a job may rely on, of the rows in the database.                    *)
RowsOK ==
    \A j \in Jobs :
        /\ Uncommitted(pc[j]) => ~Committed(j) /\ looked[j] = 0
        /\ Linking(pc[j]) => Committed(j) /\ supersedes[j] = None
        /\ pc[j] = "link" => Committed(target[j])
        /\ pc[j] = "ended" => Committed(j)

(* Jobs that have committed and have no link yet, or have ended without.   *)
Unlinked(j) ==
    \/ pc[j] = "look"
    \/ pc[j] = "ended" /\ chunks[j] # <<>> /\ supersedes[j] = None

(* Job j has looked up the number of circular i.                           *)
LookedUp(j, i) == \E n \in 1..Len(refs[j]) : n <= looked[j] /\ refs[j][n] = NumberOf[i]

MissesOK ==
    /\ \A j \in Jobs : pc[j] = "ended" /\ Unlinked(j) => looked[j] = Len(refs[j])
    /\ \A i, j \in Jobs :
        i # j /\ Unlinked(i) /\ Unlinked(j) => ~(LookedUp(i, j) /\ LookedUp(j, i))

RowsInv == JobTypes /\ RowTypes /\ RowsOK /\ AmendedIffSuperseded /\ MissesOK

StoreTypes ==
    /\ chunkIds \in Seq(Ids) /\ corpus \in Seq(Ids) /\ bm25 \in Seq(Ids)
    /\ dense \in SUBSET Ids /\ IsFiniteSet(dense)
    /\ lock \in Jobs \cup {Nobody}

(* What the holder of the sparse store's lock has done, and what nobody    *)
(* has who does not hold it.                                               *)
StoreOK ==
    /\ lock = Nobody => corpus = chunkIds /\ bm25 = chunkIds
    /\ \A j \in Jobs :
        /\ lock = j <=> pc[j] \in {"corpus", "rebuild"}
        /\ pc[j] = "corpus" => bm25 = corpus /\ chunkIds = corpus \o IdsOf(j)
        /\ pc[j] = "rebuild" => corpus = chunkIds /\ chunkIds = bm25 \o IdsOf(j)

(* An id is indexed by the one job that it is of, once.                    *)
OnceIndexed ==
    /\ IsInjective(chunkIds)
    /\ \A j \in Jobs : pc[j] \in {"chunk", "dense", "ids"} =>
            \A n \in DOMAIN chunkIds : chunkIds[n][1] # j

StoreInv == StoreTypes /\ StoreOK /\ OnceIndexed

Begins(s, t) == Len(s) <= Len(t) /\ \A n \in 1..Len(s) : s[n] = t[n]

SparseIds(s) == [n \in DOMAIN found[s] |-> found[s][n].id]

(* A list of ids that a search returns.                                    *)
IsHits(list) ==
    /\ list \in Seq(Ids) /\ Len(list) <= SearchTopK
    /\ IsInjective(list)

SearchTypes ==
    /\ taken = [s \in Searchers |-> taken[s]] /\ found = [s \in Searchers |-> found[s]]
    /\ nearest = [s \in Searchers |-> nearest[s]] /\ fused = [s \in Searchers |-> fused[s]]
    /\ \A s \in Searchers : found[s] \in Seq([id : Ids, text : Ids])

SearchOK ==
    \A s \in Searchers :
        /\ taken[s] # Nobody => taken[s] \in Seq(Ids) /\ Begins(taken[s], chunkIds)
        /\ IsHits(SparseIds(s)) /\ IsHits(nearest[s])
        /\ fused[s] # <<>> => fused[s] = Fuse(nearest[s], SparseIds(s), SearchTopK)

SearchInv == SearchTypes /\ SearchOK /\ ScoredByOwnText

(* The chunks that a job has are those of its document.                    *)
DocumentsOK == \A j \in Jobs : text[j] # <<>> => chunks[j] = ChunksOf(text[j])

IInv == RowsInv /\ StoreInv /\ SearchInv /\ DocumentsOK /\ crashes \in 0..MaxCrashes

--------------------------------------------------------------------------------

(* What a sequence has is finitely much.                                   *)
LEMMA SeqIsFinite ==
    ASSUME NEW S, NEW q \in Seq(S)
    PROVE  IsFiniteSet(ToSet(q)) /\ Cardinality(ToSet(q)) <= Len(q)
  <1>1. Len(q) \in Nat /\ q \in [1..Len(q) -> S]
    BY LenProperties
  <1>2. IsFiniteSet(1..Len(q)) /\ Cardinality(1..Len(q)) = Len(q)
    BY <1>1, 1 \in Int, Len(q) \in Int, FS_Interval
  <1>3. q \in Surjection(1..Len(q), ToSet(q))
    BY <1>1 DEF Surjection, ToSet
  <1> QED
    BY <1>2, <1>3, FS_Surjection

(* Induction over the natural numbers, for the members of a set.           *)
LEMMA SetInduction ==
    ASSUME NEW S \in SUBSET Nat, 0 \in S, \A n \in S : n + 1 \in S
    PROVE  S = Nat
  <1> SUFFICES ASSUME Nat \ S # {} PROVE FALSE
    OBVIOUS
  <1> DEFINE T == Nat \ S
  <1>1. PICK x \in T : \A y \in T : ~(<<y, x>> \in OpToRel(<, Nat))
    <2>1. T \subseteq Nat /\ T # {}
      OBVIOUS
    <2> HIDE DEF T
    <2> QED
      BY <2>1, WFMin, NatLessThanWellFounded
  <1>2. x # 0 /\ x - 1 \in T
    OBVIOUS
  <1>3. <<x - 1, x>> \in OpToRel(<, Nat)
    BY <1>2 DEF OpToRel
  <1> QED
    BY <1>1, <1>2, <1>3

(* A function of the natural numbers that is defined by recursion.         *)
Recurs(f, base, step) ==
    f[0] = base /\ \A n \in Nat : n # 0 => f[n] = step[n][f[n - 1]]

(* ... exists.                                                             *)
LEMMA Recursion ==
    ASSUME NEW D, NEW base \in D, NEW step \in [Nat -> [D -> D]]
    PROVE  \E f \in [Nat -> D] : Recurs(f, base, step)
  <1> DEFINE Upto(g, n) == /\ g \in [0..n -> D] /\ g[0] = base
                           /\ \A i \in 1..n : g[i] = step[i][g[i - 1]]
  <1>1. ASSUME NEW n \in Nat, NEW m \in Nat, n <= m, NEW g, NEW h, Upto(g, n), Upto(h, m)
        PROVE  g[n] = h[n]
    <2> DEFINE S == {i \in Nat : i <= n => g[i] = h[i]}
    <2>1. 0 \in S
      BY <1>1
    <2>2. ASSUME NEW i \in S PROVE i + 1 \in S
      <3>1. i \in Nat
        OBVIOUS
      <3>2. CASE ~(i + 1 <= n)
        BY <3>1, <3>2
      <3>3. CASE i + 1 <= n
        <4>1. i + 1 \in 1..n /\ i + 1 \in 1..m /\ (i + 1) - 1 = i /\ i <= n
          BY <1>1, <3>1, <3>3
        <4>2. g[i] = h[i]
          BY <2>2, <4>1
        <4>3. g[i + 1] = step[i + 1][g[i]] /\ h[i + 1] = step[i + 1][h[i]]
          BY <1>1, <4>1
        <4> QED
          BY <3>1, <4>2, <4>3
      <3> QED
        BY <3>2, <3>3
    <2>3. S \in SUBSET Nat
      OBVIOUS
    <2> HIDE DEF S
    <2>4. S = Nat
      BY <2>1, <2>2, <2>3, SetInduction
    <2> QED
      BY <2>4 DEF S
  <1> DEFINE S == {n \in Nat : \E g : Upto(g, n)}
  <1>2. S = Nat
    <2>1. 0 \in S
      <3> DEFINE g == [i \in 0..0 |-> base]
      <3>1. Upto(g, 0)
        OBVIOUS
      <3> QED
        BY <3>1
    <2>2. ASSUME NEW n \in S PROVE n + 1 \in S
      <3>1. PICK g : Upto(g, n)
        BY <2>2
      <3> DEFINE h == [i \in 0..(n + 1) |-> IF i = n + 1 THEN step[n + 1][g[n]] ELSE g[i]]
      <3>2. n \in Nat /\ g[n] \in D /\ step[n + 1][g[n]] \in D
        BY <3>1
      <3>3. \A i \in 0..n : i \in 0..(n + 1) /\ i # n + 1 /\ h[i] = g[i] /\ g[i] \in D
        BY <3>1, <3>2
      <3>4. h \in [0..(n + 1) -> D]
        BY <3>1, <3>2, <3>3
      <3>5. h[0] = base
        BY <3>1, <3>2, <3>3
      <3>6. ASSUME NEW i \in 1..(n + 1) PROVE h[i] = step[i][h[i - 1]]
        <4>1. i - 1 \in 0..n /\ h[i - 1] = g[i - 1]
          BY <3>2, <3>3
        <4>2. CASE i = n + 1
          <5>1. h[i] = step[n + 1][g[n]] /\ i - 1 = n
            BY <3>2, <4>2
          <5> QED
            BY <4>1, <4>2, <5>1
        <4>3. CASE i # n + 1
          <5>1. i \in 1..n /\ h[i] = g[i]
            BY <3>2, <3>3, <4>3
          <5> QED
            BY <3>1, <4>1, <5>1
        <4> QED
          BY <4>2, <4>3
      <3> HIDE DEF h
      <3>7. Upto(h, n + 1)
        BY <3>4, <3>5, <3>6
      <3> HIDE DEF Upto
      <3>8. \E k : Upto(k, n + 1)
        BY <3>7
      <3> QED
        BY <3>2, <3>8
    <2>3. S \in SUBSET Nat
      OBVIOUS
    <2> HIDE DEF S
    <2> QED
      BY <2>1, <2>2, <2>3, SetInduction
  <1> DEFINE A(n) == CHOOSE g : Upto(g, n)
             f == [n \in Nat |-> A(n)[n]]
  <1>3. ASSUME NEW n \in Nat PROVE Upto(A(n), n)
    <2>1. \E g : Upto(g, n)
      BY <1>2
    <2> HIDE DEF Upto
    <2> QED
      BY <2>1
  <1> HIDE DEF A
  <1>4. f \in [Nat -> D]
    BY <1>3
  <1>5. f[0] = base
    <2>1. Upto(A(0), 0)
      BY <1>3
    <2>2. A(0)[0] = base
      BY <2>1
    <2>3. f[0] = A(0)[0]
      OBVIOUS
    <2> QED
      BY <2>2, <2>3
  <1>6. ASSUME NEW n \in Nat, n # 0 PROVE f[n] = step[n][f[n - 1]]
    <2>1. n - 1 \in Nat /\ n - 1 <= n /\ n \in 1..n
      BY <1>6
    <2>2. Upto(A(n), n) /\ Upto(A(n - 1), n - 1)
      BY <1>3, <2>1
    <2>3. A(n - 1)[n - 1] = A(n)[n - 1]
      <3> HIDE DEF Upto
      <3> QED
        BY <1>1, <2>1, <2>2
    <2>4. A(n)[n] = step[n][A(n)[n - 1]]
      BY <2>1, <2>2
    <2> QED
      BY <2>1, <2>3, <2>4
  <1> HIDE DEF f
  <1>7. Recurs(f, base, step)
    BY <1>5, <1>6 DEF Recurs
  <1> QED
    BY <1>4, <1>7

(* The chain of a circular is what a walk has after as many steps as there *)
(* are circulars.                                                          *)
LEMMA ChainWalk ==
    ASSUME NEW graph, NEW c, NEW f,
           f = [n \in Nat |-> IF n = 0 THEN <<>> ELSE Onward(graph, c, f[n - 1])]
    PROVE  \E w : /\ w = [n \in Nat |-> IF n = 0 THEN <<>> ELSE Onward(graph, c, w[n - 1])]
                  /\ Chain(graph, c) = w[Cardinality(DOMAIN graph)]
  <1> DEFINE walk[n \in Nat] == IF n = 0 THEN <<>> ELSE Onward(graph, c, walk[n - 1])
  <1>1. walk = [n \in Nat |-> IF n = 0 THEN <<>> ELSE Onward(graph, c, walk[n - 1])]
    OBVIOUS
  <1>2. Chain(graph, c) = walk[Cardinality(DOMAIN graph)]
    BY DEF Chain
  <1> HIDE DEF walk
  <1> QED
    BY <1>1, <1>2

(* A walk of the graph from c: it visits nothing twice, and goes from each *)
(* circular to the one that this one supersedes.                           *)
Walk(graph, c, D, chain) ==
    /\ chain \in Seq(D) /\ IsInjective(chain)
    /\ \A n \in 1..Len(chain) : graph[IF n = 1 THEN c ELSE chain[n - 1]] = chain[n]

WalkEnded(graph, c, chain) == Successors(graph, Here(c, chain)) \subseteq ToSet(chain)

(* A step of a walk makes it one circular longer, unless the walk has      *)
(* ended.                                                                  *)
LEMMA OnwardWalks ==
    ASSUME NEW D, NEW graph \in [D -> D \cup {None}], None \notin D, NEW c \in D,
           NEW chain, Walk(graph, c, D, chain)
    PROVE  /\ Walk(graph, c, D, Onward(graph, c, chain))
           /\ WalkEnded(graph, c, chain) => Onward(graph, c, chain) = chain
           /\ ~WalkEnded(graph, c, chain) => Len(Onward(graph, c, chain)) = Len(chain) + 1
  <1>1. CASE WalkEnded(graph, c, chain)
    BY <1>1 DEF Onward, WalkEnded
  <1>2. CASE ~WalkEnded(graph, c, chain)
    <2> DEFINE here == Here(c, chain)
               next == graph[here]
               longer == Append(chain, next)
    <2>1. chain \in Seq(D) /\ Len(chain) \in Nat /\ DOMAIN chain = 1..Len(chain)
      BY LenProperties DEF Walk
    <2>2. here \in D /\ here = IF Len(chain) = 0 THEN c ELSE chain[Len(chain)]
      <3>1. CASE chain = <<>>
        BY <2>1, <3>1, EmptySeq DEF Here
      <3>2. CASE chain # <<>>
        <4>1. Len(chain) \in 1..Len(chain)
          BY <2>1, <3>2, EmptySeq
        <4>2. here = chain[Len(chain)] /\ Len(chain) # 0
          BY <3>2, <4>1 DEF Here, Last
        <4> QED
          BY <2>1, <4>1, <4>2, ElementOfSeq
      <3> QED
        BY <3>1, <3>2
    <2>3. next \in D /\ next \notin ToSet(chain)
      BY <1>2, <2>2 DEF WalkEnded, Successors
    <2>4. Onward(graph, c, chain) = longer
      BY <1>2 DEF Onward, WalkEnded
    <2> HIDE DEF here, next
    <2>5. /\ longer \in Seq(D) /\ Len(longer) = Len(chain) + 1
          /\ \A i \in 1..Len(chain) : longer[i] = chain[i]
          /\ longer[Len(chain) + 1] = next
      BY <2>1, <2>3, AppendProperties
    <2> HIDE DEF longer
    <2>6. DOMAIN longer = 1..(Len(chain) + 1)
      BY <2>5, LenProperties
    <2>7. \A i \in 1..Len(chain) : chain[i] # next
      BY <2>1, <2>3 DEF ToSet
    <2>8. IsInjective(longer)
      <3> SUFFICES ASSUME NEW a \in 1..(Len(chain) + 1), NEW b \in 1..(Len(chain) + 1),
                          longer[a] = longer[b]
                   PROVE  a = b
        BY <2>6 DEF IsInjective
      <3>1. CASE a \in 1..Len(chain) /\ b \in 1..Len(chain)
        <4>1. chain[a] = chain[b]
          BY <2>5, <3>1
        <4> QED
          BY <2>1, <3>1, <4>1 DEF Walk, IsInjective
      <3>2. CASE ~(a \in 1..Len(chain) /\ b \in 1..Len(chain))
        BY <2>1, <2>5, <2>7, <3>2
      <3> QED
        BY <3>1, <3>2
    <2>9. ASSUME NEW n \in 1..Len(longer)
          PROVE  graph[IF n = 1 THEN c ELSE longer[n - 1]] = longer[n]
      <3>1. CASE n \in 1..Len(chain)
        <4>1. n # 1 => n - 1 \in 1..Len(chain)
          BY <2>1, <3>1
        <4> QED
          BY <2>1, <2>5, <3>1, <4>1 DEF Walk
      <3>2. CASE n = Len(chain) + 1
        <4>1. n # 1 => n - 1 = Len(chain) /\ Len(chain) \in 1..Len(chain)
          BY <2>1, <3>2
        <4>2. n = 1 <=> Len(chain) = 0
          BY <2>1, <3>2
        <4>3. here = IF n = 1 THEN c ELSE longer[n - 1]
          BY <2>2, <2>5, <4>1, <4>2
        <4> QED
          BY <2>5, <3>2, <4>3 DEF next
      <3> QED
        BY <2>1, <2>5, <3>1, <3>2
    <2> QED
      BY <1>2, <2>4, <2>5, <2>8, <2>9 DEF Walk
  <1> QED
    BY <1>1, <1>2

(* After n steps a walk has n circulars, or it has ended.                  *)
LEMMA WalkGoesOn ==
    ASSUME NEW D, NEW graph \in [D -> D \cup {None}], None \notin D, NEW c \in D, NEW f,
           f = [n \in Nat |-> IF n = 0 THEN <<>> ELSE Onward(graph, c, f[n - 1])]
    PROVE  \A n \in Nat : /\ Walk(graph, c, D, f[n])
                          /\ Len(f[n]) = n \/ WalkEnded(graph, c, f[n])
  <1> DEFINE S == {n \in Nat : /\ Walk(graph, c, D, f[n])
                               /\ Len(f[n]) = n \/ WalkEnded(graph, c, f[n])}
  <1>1. 0 \in S
    <2>1. f[0] = <<>>
      OBVIOUS
    <2>2. <<>> \in Seq(D) /\ Len(<<>>) = 0 /\ IsInjective(<<>>)
      BY EmptySeq DEF IsInjective
    <2> QED
      BY <2>1, <2>2 DEF Walk
  <1>2. ASSUME NEW n \in S PROVE n + 1 \in S
    <2>1. n \in Nat /\ f[n + 1] = Onward(graph, c, f[n])
      <3>1. n \in Nat /\ n + 1 \in Nat /\ n + 1 # 0 /\ (n + 1) - 1 = n
        OBVIOUS
      <3>2. f[n + 1] = IF n + 1 = 0 THEN <<>> ELSE Onward(graph, c, f[(n + 1) - 1])
        BY <3>1
      <3> QED
        BY <3>1, <3>2
    <2>2. /\ Walk(graph, c, D, f[n])
          /\ Len(f[n]) = n \/ WalkEnded(graph, c, f[n])
      BY <1>2
    <2> HIDE DEF S
    <2>3. /\ Walk(graph, c, D, f[n + 1])
          /\ WalkEnded(graph, c, f[n]) => f[n + 1] = f[n]
          /\ ~WalkEnded(graph, c, f[n]) => Len(f[n + 1]) = Len(f[n]) + 1
      BY <2>1, <2>2, OnwardWalks
    <2>4. Len(f[n + 1]) = n + 1 \/ WalkEnded(graph, c, f[n + 1])
      BY <2>1, <2>2, <2>3
    <2> QED
      BY <2>1, <2>3, <2>4 DEF S
  <1>3. S \in SUBSET Nat
    OBVIOUS
  <1> HIDE DEF S
  <1>4. S = Nat
    BY <1>1, <1>2, <1>3, SetInduction
  <1> QED
    BY <1>4 DEF S

(* A walk that has ended has all that c supersedes, and nothing else.      *)
LEMMA EndedWalkIsWhole ==
    ASSUME NEW D, NEW graph \in [D -> D \cup {None}], None \notin D, NEW c \in D,
           NEW chain, Walk(graph, c, D, chain), WalkEnded(graph, c, chain)
    PROVE  Superseded(graph, c) = ToSet(chain)
  <1> DEFINE Closed(S) == \A d \in S \cup {c} : graph[d] \in S \cup {None}
  <1>1. chain \in Seq(D) /\ Len(chain) \in Nat /\ DOMAIN chain = 1..Len(chain)
    BY LenProperties DEF Walk
  <1>2. ToSet(chain) \in SUBSET D
    BY <1>1, ElementOfSeq DEF ToSet
  <1>3. Closed(ToSet(chain))
    <2> SUFFICES ASSUME NEW d \in ToSet(chain) \cup {c}
                 PROVE  graph[d] \in ToSet(chain) \cup {None}
      OBVIOUS
    <2>1. \/ d = Here(c, chain)
          \/ \E n \in 1..Len(chain) : d = IF n = 1 THEN c ELSE chain[n - 1]
      <3>1. CASE chain = <<>>
        <4>1. d = c
          <5>1. DOMAIN chain = {}
            BY <1>1, <3>1, EmptySeq
          <5> QED
            BY <5>1 DEF ToSet
        <4> QED
          BY <3>1, <4>1 DEF Here
      <3>2. CASE chain # <<>> /\ d = c
        BY <1>1, <3>2, EmptySeq
      <3>3. CASE chain # <<>> /\ d # c
        <4>1. PICK m \in 1..Len(chain) : d = chain[m]
          BY <1>1, <3>3 DEF ToSet
        <4>2. CASE m = Len(chain)
          BY <3>3, <4>1, <4>2 DEF Here, Last
        <4>3. CASE m # Len(chain)
          <5>1. m + 1 \in 1..Len(chain) /\ m + 1 # 1 /\ (m + 1) - 1 = m
            <6>1. Len(chain) \in Nat /\ m \in Nat /\ 1 <= m /\ m <= Len(chain)
              BY <1>1
            <6> QED
              BY <4>3, <6>1
          <5> QED
            BY <4>1, <5>1
        <4> QED
          BY <4>2, <4>3
      <3> QED
        BY <3>1, <3>2, <3>3
    <2>2. CASE d = Here(c, chain)
      BY <2>2 DEF WalkEnded, Successors
    <2>3. CASE \E n \in 1..Len(chain) : d = IF n = 1 THEN c ELSE chain[n - 1]
      BY <1>1, <2>3 DEF Walk, ToSet
    <2> QED
      BY <2>1, <2>2, <2>3
  <1>4. ASSUME NEW T \in SUBSET D, Closed(T) PROVE ToSet(chain) \subseteq T
    <2> DEFINE S == {n \in Nat : n + 1 \in 1..Len(chain) => chain[n + 1] \in T}
    <2>1. 0 \in S
      <3>1. 0 + 1 \in 1..Len(chain) => chain[0 + 1] = graph[c]
        BY <1>1 DEF Walk
      <3>2. graph[c] \in T \cup {None}
        BY <1>4
      <3>3. 0 + 1 \in 1..Len(chain) => chain[0 + 1] \in D
        BY <1>1, ElementOfSeq
      <3> QED
        BY <3>1, <3>2, <3>3
    <2>2. ASSUME NEW n \in S PROVE n + 1 \in S
      <3> SUFFICES ASSUME (n + 1) + 1 \in 1..Len(chain) PROVE chain[(n + 1) + 1] \in T
        OBVIOUS
      <3>1. n \in Nat /\ n + 1 \in 1..Len(chain) /\ (n + 1) + 1 # 1 /\ ((n + 1) + 1) - 1 = n + 1
        BY <1>1
      <3>2. chain[n + 1] \in T
        BY <2>2, <3>1
      <3>3. graph[chain[n + 1]] = chain[(n + 1) + 1]
        <4>1. graph[IF (n + 1) + 1 = 1 THEN c ELSE chain[((n + 1) + 1) - 1]] = chain[(n + 1) + 1]
          BY DEF Walk
        <4> QED
          BY <3>1, <4>1
      <3>4. graph[chain[n + 1]] \in T \cup {None}
        BY <1>4, <3>2
      <3>5. chain[(n + 1) + 1] \in D
        BY <1>1, ElementOfSeq
      <3> QED
        BY <3>3, <3>4, <3>5
    <2>3. S \in SUBSET Nat
      OBVIOUS
    <2> HIDE DEF S
    <2>4. S = Nat
      BY <2>1, <2>2, <2>3, SetInduction
    <2>5. ASSUME NEW m \in 1..Len(chain) PROVE chain[m] \in T
      <3>1. m - 1 \in Nat /\ (m - 1) + 1 = m
        BY <1>1
      <3>2. m - 1 \in S
        BY <2>4, <3>1
      <3> QED
        BY <3>1, <3>2 DEF S
    <2> QED
      BY <1>1, <2>5 DEF ToSet
  <1>5. DOMAIN graph = D
    OBVIOUS
  <1>6. Superseded(graph, c) = {d \in D : \A S \in SUBSET D : Closed(S) => d \in S}
    BY <1>5 DEF Superseded
  <1> HIDE DEF Closed
  <1> QED
    BY <1>2, <1>3, <1>4, <1>6

(* A walk of as many steps as there are circulars has ended, as it cannot  *)
(* have visited more: in a graph with circles, too.                        *)
LEMMA ChainsFit ==
    ASSUME NEW D, IsFiniteSet(D), NEW graph \in [D -> D \cup {None}], None \notin D,
           NEW c \in D
    PROVE  ChainFits(graph, c)
  <1> DEFINE Walks == {chain \in Seq(D) : Walk(graph, c, D, chain)}
             step == [n \in Nat |-> [chain \in Walks |-> Onward(graph, c, chain)]]
  <1>1. PICK f \in [Nat -> Walks] : Recurs(f, <<>>, step)
    <2>1. <<>> \in Walks
      BY EmptySeq DEF Walk, IsInjective
    <2>2. \A chain \in Walks : Onward(graph, c, chain) \in Walks
      BY OnwardWalks DEF Walk
    <2>3. step \in [Nat -> [Walks -> Walks]]
      BY <2>2
    <2> HIDE DEF Walks, step
    <2> QED
      BY <2>1, <2>3, Recursion
  <1>2. f = [n \in Nat |-> IF n = 0 THEN <<>> ELSE Onward(graph, c, f[n - 1])]
    <2>1. ASSUME NEW n \in Nat, n # 0
          PROVE  step[n][f[n - 1]] = Onward(graph, c, f[n - 1])
      <3>1. f[n - 1] \in Walks
        <4>1. n - 1 \in Nat
          BY <2>1
        <4> HIDE DEF Walks, step
        <4> QED
          BY <1>1, <4>1
      <3> HIDE DEF Walks
      <3> QED
        BY <3>1
    <2> HIDE DEF Walks, step
    <2>3. \A n \in Nat : f[n] = IF n = 0 THEN <<>> ELSE Onward(graph, c, f[n - 1])
      BY <1>1, <2>1 DEF Recurs
    <2>4. f = [n \in Nat |-> f[n]]
      BY <1>1
    <2> QED
      BY <2>3, <2>4
  <1> HIDE DEF Walks, step
  <1>3. PICK w : /\ w = [n \in Nat |-> IF n = 0 THEN <<>> ELSE Onward(graph, c, w[n - 1])]
                 /\ Chain(graph, c) = w[Cardinality(DOMAIN graph)]
    BY <1>2, ChainWalk
  <1> DEFINE k == Cardinality(D)
             chain == w[k]
  <1>4. k \in Nat
    BY FS_CardinalityType
  <1>5. /\ Walk(graph, c, D, chain)
        /\ Len(chain) = k \/ WalkEnded(graph, c, chain)
    <2> HIDE DEF k
    <2> QED
      BY <1>3, <1>4, WalkGoesOn
  <1>6. Chain(graph, c) = chain
    BY <1>3
  <1> HIDE DEF chain, k
  <1>7. chain \in Seq(D) /\ Len(chain) \in Nat /\ DOMAIN chain = 1..Len(chain)
    BY <1>5, LenProperties DEF Walk
  <1>8. ASSUME Len(chain) = k PROVE WalkEnded(graph, c, chain)
    <2>1. chain \in Injection(1..k, D)
      BY <1>5, <1>7, <1>8, LenProperties DEF Walk, Injection
    <2>2. Cardinality(1..k) = Cardinality(D)
      BY <1>4, 1 \in Int, k \in Int, FS_Interval DEF k
    <2>3. chain \in Surjection(1..k, D)
      BY <2>1, <2>2, FS_Injection
    <2>4. D \subseteq ToSet(chain)
      BY <1>7, <1>8, <2>3 DEF Surjection, ToSet
    <2>5. Here(c, chain) \in D
      BY <1>7, ElementOfSeq, EmptySeq DEF Here, Last
    <2>6. graph[Here(c, chain)] \in D \cup {None}
      BY <2>5
    <2> QED
      BY <2>4, <2>6 DEF WalkEnded, Successors
  <1>9. WalkEnded(graph, c, chain)
    BY <1>5, <1>8
  <1>10. Superseded(graph, c) = ToSet(chain)
    BY <1>5, <1>9, EndedWalkIsWhole
  <1> QED
    BY <1>5, <1>6, <1>7, <1>10 DEF ChainFits, Walk

(* In a finite set that is ordered, an element's rank is the number of     *)
(* those before it: every rank below the size of the set is taken, once.   *)
LEMMA Ranks ==
    ASSUME NEW S, IsFiniteSet(S), NEW R,
           \A x \in S : <<x, x>> \notin R,
           \A x, y \in S : x # y => <<x, y>> \in R \/ <<y, x>> \in R,
           \A x, y, z \in S : <<x, y>> \in R /\ <<y, z>> \in R => <<x, z>> \in R
    PROVE  LET Nth(x) == Cardinality({y \in S : <<y, x>> \in R}) IN
           /\ Cardinality(S) \in Nat
           /\ \A x \in S : Nth(x) \in Nat
           /\ \A x, y \in S : <<x, y>> \in R <=> Nth(x) < Nth(y)
           /\ \A n \in 1..Cardinality(S) : \E x \in S : Nth(x) = n - 1
  <1> DEFINE First(x) == {y \in S : <<y, x>> \in R}
             Nth(x) == Cardinality(First(x))
             k == Cardinality(S)
             rank == [x \in S |-> Nth(x) + 1]
  <1>1. k \in Nat
    BY FS_CardinalityType
  <1>2. ASSUME NEW x \in S PROVE IsFiniteSet(First(x)) /\ Nth(x) \in Nat /\ Nth(x) < k
    <2>1. First(x) \in SUBSET S /\ First(x) # S
      OBVIOUS
    <2> HIDE DEF First
    <2>2. IsFiniteSet(First(x)) /\ Nth(x) \in Nat /\ Nth(x) <= k /\ Nth(x) # k
      BY <2>1, FS_Subset, FS_CardinalityType
    <2> QED
      BY <1>1, <2>2
  <1>3. ASSUME NEW x \in S, NEW y \in S, <<x, y>> \in R PROVE Nth(x) < Nth(y)
    <2>1. First(x) \in SUBSET First(y) /\ First(x) # First(y)
      BY <1>3
    <2> HIDE DEF First
    <2>2. Nth(x) <= Nth(y) /\ Nth(x) # Nth(y)
      BY <1>2, <2>1, FS_Subset
    <2> QED
      BY <1>2, <2>2
  <1> HIDE DEF First
  <1>4. ASSUME NEW x \in S, NEW y \in S, Nth(x) < Nth(y) PROVE <<x, y>> \in R
    <2>1. x # y /\ ~(Nth(y) < Nth(x))
      BY <1>2, <1>4
    <2> QED
      BY <1>3, <2>1
  <1>5. rank \in Injection(S, 1..k)
    <2>1. \A x \in S : Nth(x) + 1 \in 1..k
      BY <1>1, <1>2
    <2>2. \A x, y \in S : Nth(x) + 1 = Nth(y) + 1 => x = y
      <3> SUFFICES ASSUME NEW x \in S, NEW y \in S, Nth(x) + 1 = Nth(y) + 1, x # y
                   PROVE  FALSE
        OBVIOUS
      <3>1. <<x, y>> \in R \/ <<y, x>> \in R
        OBVIOUS
      <3> QED
        BY <1>2, <1>3, <3>1
    <2> HIDE DEF Nth, k
    <2> QED
      BY <2>1, <2>2 DEF Injection, IsInjective
  <1>6. IsFiniteSet(1..k) /\ Cardinality(1..k) = k
    <2> HIDE DEF k
    <2> QED
      BY <1>1, 1 \in Int, k \in Int, FS_Interval
  <1>7. rank \in Surjection(S, 1..k)
    <2> HIDE DEF rank
    <2> QED
      BY <1>5, <1>6, FS_Injection
  <1>8. ASSUME NEW n \in 1..k PROVE \E x \in S : Nth(x) = n - 1
    <2>1. PICK x \in S : rank[x] = n
      BY <1>7 DEF Surjection
    <2>2. Nth(x) + 1 = n /\ Nth(x) \in Nat
      BY <1>2, <2>1
    <2> QED
      BY <2>2
  <1>9. \A x, y \in S : <<x, y>> \in R <=> Nth(x) < Nth(y)
    BY <1>3, <1>4
  <1> QED
    BY <1>1, <1>2, <1>8, <1>9 DEF First

(* A finite set that is ordered can be listed in its order.                *)
LEMMA SortedList ==
    ASSUME NEW S, IsFiniteSet(S), NEW R,
           \A x \in S : <<x, x>> \notin R,
           \A x, y \in S : x # y => <<x, y>> \in R \/ <<y, x>> \in R,
           \A x, y, z \in S : <<x, y>> \in R /\ <<y, z>> \in R => <<x, z>> \in R
    PROVE  \E list \in SetToSeqs(S) :
                \A i, k \in DOMAIN list : i < k => <<list[i], list[k]>> \in R
  <1> DEFINE Nth(x) == Cardinality({y \in S : <<y, x>> \in R})
             D == 1..Cardinality(S)
             list == [i \in D |-> CHOOSE x \in S : Nth(x) = i - 1]
  <1>1. /\ Cardinality(S) \in Nat
        /\ \A x, y \in S : <<x, y>> \in R <=> Nth(x) < Nth(y)
        /\ \A i \in D : \E x \in S : Nth(x) = i - 1
    BY Ranks
  <1> HIDE DEF Nth
  <1>2. \A i \in D : list[i] \in S /\ Nth(list[i]) = i - 1
    BY <1>1
  <1>3. list \in [D -> S]
    BY <1>2
  <1>4. DOMAIN list = D /\ D \subseteq Int
    BY <1>1
  <1> HIDE DEF list
  <1>5. \A i, k \in D : i # k => list[i] # list[k]
    BY <1>2, <1>4
  <1>6. \A i, k \in D : i < k => <<list[i], list[k]>> \in R
    BY <1>1, <1>2, <1>4
  <1>7. list \in SetToSeqs(S)
    BY <1>3, <1>5 DEF SetToSeqs
  <1> QED
    BY <1>4, <1>6, <1>7

(* Products of natural numbers compare as their factors do.                *)
LEMMA ProductGrows ==
    ASSUME NEW x \in Nat, NEW y \in Nat, NEW f \in Nat
    PROVE  (x <= y => x * f <= y * f) /\ (x < y /\ f > 0 => x * f < y * f)
  OBVIOUS

(* Fractions that are compared by cross-multiplication are in an order:    *)
(* c/d <= a/b and e/f <= c/d.                                              *)
LEMMA FractionsInOrder ==
    ASSUME NEW a \in Nat, NEW b \in Nat, NEW c \in Nat, NEW d \in Nat,
           NEW e \in Nat, NEW f \in Nat, b > 0, d > 0, f > 0,
           c * b <= a * d, e * d <= c * f
    PROVE  /\ e * b <= a * f
           /\ c * b < a * d \/ e * d < c * f => e * b < a * f
  <1>1. (c * b) * f <= (a * d) * f /\ (e * d) * b <= (c * f) * b
    BY ProductGrows
  <1>2. /\ c * b < a * d => (c * b) * f < (a * d) * f
        /\ e * d < c * f => (e * d) * b < (c * f) * b
    BY ProductGrows
  <1>3. (c * b) * f = (c * f) * b /\ (a * d) * f = (a * f) * d /\ (e * d) * b = (e * b) * d
    OBVIOUS
  <1>4. /\ a * f < e * b => (a * f) * d < (e * b) * d
        /\ a * f = e * b => (a * f) * d = (e * b) * d
    BY ProductGrows
  <1>5. /\ a * f \in Nat /\ e * b \in Nat /\ (a * f) * d \in Nat /\ (e * b) * d \in Nat
        /\ (c * b) * f \in Nat
    OBVIOUS
  <1> QED
    BY <1>1, <1>2, <1>3, <1>4, <1>5

(* Where an element of a list is.                                          *)
LEMMA IndexFits ==
    ASSUME NEW S, NEW list \in Seq(S), NEW x \in ToSet(list)
    PROVE  IndexIn(list, x) \in 1..Len(list) /\ list[IndexIn(list, x)] = x
  <1>1. DOMAIN list = 1..Len(list)
    BY LenProperties
  <1>2. \E i \in DOMAIN list : list[i] = x
    BY DEF ToSet
  <1> QED
    BY <1>1, <1>2 DEF IndexIn

(* The denominator of what a list adds to the score of one of its ids.     *)
LEMMA PlaceFits ==
    ASSUME NEW S, NEW list \in Seq(S), NEW x \in ToSet(list)
    PROVE  /\ Place(list, x) \in Nat /\ Place(list, x) > RRF_K
           /\ Place(list, x) <= RRF_K + Len(list)
  <1>1. IndexIn(list, x) \in 1..Len(list) /\ Len(list) \in Nat
    BY IndexFits, LenProperties
  <1> HIDE DEF IndexIn
  <1> QED
    BY <1>1, FusionAssumption DEF Place

(* A score is a fraction.                                                  *)
LEMMA ScoreFits ==
    ASSUME NEW S, NEW first \in Seq(S), NEW second \in Seq(S),
           NEW x \in ToSet(first) \cup ToSet(second)
    PROVE  /\ Score(first, second, x)[1] \in Nat /\ Score(first, second, x)[2] \in Nat
           /\ Score(first, second, x)[2] > 0
  <1> DEFINE a == Place(first, x)
             b == Place(second, x)
  <1>1. x \in ToSet(first) => a \in Nat /\ a > 0
    BY PlaceFits, FusionAssumption
  <1>2. x \in ToSet(second) => b \in Nat /\ b > 0
    BY PlaceFits, FusionAssumption
  <1> HIDE DEF a, b
  <1>3. CASE x \notin ToSet(second)
    <2>1. Score(first, second, x) = <<1, a>>
      BY <1>3 DEF Score, a
    <2> QED
      BY <1>1, <1>3, <2>1
  <1>4. CASE x \in ToSet(second) /\ x \notin ToSet(first)
    <2>1. Score(first, second, x) = <<1, b>>
      BY <1>4 DEF Score, b
    <2> QED
      BY <1>2, <1>4, <2>1
  <1>5. CASE x \in ToSet(second) /\ x \in ToSet(first)
    <2>1. Score(first, second, x) = <<a + b, a * b>>
      BY <1>5 DEF Score, a, b
    <2>2. a \in Nat /\ b \in Nat /\ a > 0 /\ b > 0
      BY <1>1, <1>2, <1>5
    <2>3. a * b \in Nat /\ a * b > 0 /\ a + b \in Nat
      BY <2>2
    <2> QED
      BY <2>1, <2>3
  <1> QED
    BY <1>3, <1>4, <1>5

(* No two ids are inserted at the same place.                              *)
LEMMA InsertedOnce ==
    ASSUME NEW S, NEW first \in Seq(S), NEW second \in Seq(S)
    PROVE  \A x, y \in ToSet(first) \cup ToSet(second) :
                /\ Inserted(first, second, x) \in Nat
                /\ Inserted(first, second, x) = Inserted(first, second, y) => x = y
  <1>1. /\ Len(first) \in Nat /\ Len(second) \in Nat
        /\ \A x \in ToSet(first) :
                IndexIn(first, x) \in 1..Len(first) /\ first[IndexIn(first, x)] = x
        /\ \A x \in ToSet(second) :
                IndexIn(second, x) \in 1..Len(second) /\ second[IndexIn(second, x)] = x
    BY IndexFits, LenProperties
  <1> QED
    BY <1>1 DEF Inserted

(* Scores, and insertion where scores are equal, put the ids in an order.  *)
LEMMA BeforeInOrder ==
    ASSUME NEW S, NEW first \in Seq(S), NEW second \in Seq(S)
    PROVE  LET both == ToSet(first) \cup ToSet(second) IN
           /\ \A x \in both : ~Before(first, second, x, x)
           /\ \A x, y \in both : x # y => \/ Before(first, second, x, y)
                                          \/ Before(first, second, y, x)
           /\ \A x, y, z \in both : Before(first, second, x, y) /\ Before(first, second, y, z)
                                        => Before(first, second, x, z)
  <1> DEFINE both == ToSet(first) \cup ToSet(second)
             n(x) == Score(first, second, x)[1]
             d(x) == Score(first, second, x)[2]
             in(x) == Inserted(first, second, x)
  <1>1. \A x \in both : n(x) \in Nat /\ d(x) \in Nat /\ d(x) > 0 /\ in(x) \in Nat
    BY ScoreFits, InsertedOnce
  <1>2. \A x, y \in both : in(x) = in(y) => x = y
    BY InsertedOnce
  <1>3. \A x, y \in both :
            Before(first, second, x, y) <=>
                \/ n(x) * d(y) > n(y) * d(x)
                \/ ~(n(y) * d(x) > n(x) * d(y)) /\ in(x) < in(y)
    BY DEF Before, Beats
  <1> HIDE DEF n, d, in, both
  <1>4. \A x, y \in both : n(x) * d(y) \in Nat
    BY <1>1
  <1>5. \A x \in both : ~Before(first, second, x, x)
    BY <1>1, <1>3, <1>4
  <1>6. \A x, y \in both : x # y => Before(first, second, x, y) \/ Before(first, second, y, x)
    BY <1>1, <1>2, <1>3, <1>4
  <1>7. ASSUME NEW x \in both, NEW y \in both, NEW z \in both,
               Before(first, second, x, y), Before(first, second, y, z)
        PROVE  Before(first, second, x, z)
    <2>1. /\ n(x) \in Nat /\ d(x) \in Nat /\ d(x) > 0 /\ in(x) \in Nat
          /\ n(y) \in Nat /\ d(y) \in Nat /\ d(y) > 0 /\ in(y) \in Nat
          /\ n(z) \in Nat /\ d(z) \in Nat /\ d(z) > 0 /\ in(z) \in Nat
      BY <1>1
    <2>2. /\ n(x) * d(y) \in Nat /\ n(y) * d(x) \in Nat /\ n(y) * d(z) \in Nat
          /\ n(z) * d(y) \in Nat /\ n(x) * d(z) \in Nat /\ n(z) * d(x) \in Nat
      BY <1>4
    <2>3. /\ n(y) * d(x) < n(x) * d(y) \/ (n(y) * d(x) <= n(x) * d(y) /\ in(x) < in(y))
          /\ n(z) * d(y) < n(y) * d(z) \/ (n(z) * d(y) <= n(y) * d(z) /\ in(y) < in(z))
      BY <1>3, <1>7, <2>2
    <2>4. /\ n(z) * d(x) <= n(x) * d(z)
          /\ n(y) * d(x) < n(x) * d(y) \/ n(z) * d(y) < n(y) * d(z)
                => n(z) * d(x) < n(x) * d(z)
      <3>1. n(y) * d(x) <= n(x) * d(y) /\ n(z) * d(y) <= n(y) * d(z)
        BY <2>2, <2>3
      <3> QED
        BY <2>1, <3>1, FractionsInOrder
    <2>5. n(z) * d(x) < n(x) * d(z) \/ (~(n(x) * d(z) < n(z) * d(x)) /\ in(x) < in(z))
      <3>1. CASE n(y) * d(x) < n(x) * d(y) \/ n(z) * d(y) < n(y) * d(z)
        BY <2>4, <3>1, Zenon
      <3>2. CASE in(x) < in(y) /\ in(y) < in(z)
        <4>1. in(x) < in(z)
          BY <2>1, <3>2
        <4>2. ~(n(x) * d(z) < n(z) * d(x))
          <5> DEFINE u == n(z) * d(x)
                     v == n(x) * d(z)
          <5>1. u \in Nat /\ v \in Nat /\ u <= v
            BY <2>2, <2>4
          <5> HIDE DEF u, v
          <5>2. ~(v < u)
            BY <5>1
          <5> QED
            BY <5>2 DEF u, v
        <4> QED
          BY <4>1, <4>2
      <3> QED
        BY <2>3, <3>1, <3>2, Zenon
    <2> QED
      BY <1>3, <2>2, <2>5
  <1> QED
    BY <1>5, <1>6, <1>7 DEF both

(* The sort of fused_scores has a result, and it is in this order.         *)
LEMMA RankedInOrder ==
    ASSUME NEW S, NEW first \in Seq(S), NEW second \in Seq(S)
    PROVE  /\ Ranked(first, second) \in SetToSeqs(ToSet(first) \cup ToSet(second))
           /\ \A i, k \in DOMAIN Ranked(first, second) :
                i < k => Before(first, second, Ranked(first, second)[i], Ranked(first, second)[k])
  <1> DEFINE both == ToSet(first) \cup ToSet(second)
             R == {p \in both \X both : Before(first, second, p[1], p[2])}
  <1>1. IsFiniteSet(both)
    BY SeqIsFinite, FS_Union
  <1>2. \A x, y \in both : <<x, y>> \in R <=> Before(first, second, x, y)
    OBVIOUS
  <1>3. /\ \A x \in both : <<x, x>> \notin R
        /\ \A x, y \in both : x # y => <<x, y>> \in R \/ <<y, x>> \in R
        /\ \A x, y, z \in both : <<x, y>> \in R /\ <<y, z>> \in R => <<x, z>> \in R
    <2> HIDE DEF R
    <2> QED
      BY <1>2, BeforeInOrder
  <1> HIDE DEF both, R
  <1>4. \E list \in SetToSeqs(both) :
            \A i, k \in DOMAIN list : i < k => <<list[i], list[k]>> \in R
    BY <1>1, <1>3, SortedList
  <1>5. \E list \in SetToSeqs(both) :
            \A i, k \in DOMAIN list : i < k => Before(first, second, list[i], list[k])
    <2>1. PICK list \in SetToSeqs(both) :
            \A i, k \in DOMAIN list : i < k => <<list[i], list[k]>> \in R
      BY <1>4
    <2>2. \A i \in DOMAIN list : list[i] \in both
      BY DEF SetToSeqs
    <2> QED
      BY <1>2, <2>1, <2>2
  <1> QED
    BY <1>5 DEF Ranked, both

(* 1/a + 1/b > 1/c, for ranks within twice the constant that dampens them. *)
LEMMA AgreementBeats ==
    ASSUME NEW a \in Nat, NEW b \in Nat, NEW c \in Nat, NEW k \in Nat,
           0 < a, 0 < b, a <= 2 * k + 1, b <= 2 * k + 1, k < c
    PROVE  (a + b) * c > 1 * (a * b)
  <1> DEFINE m == 2 * (k + 1)
  <1>1. m \in Nat /\ a < m /\ b < m
    OBVIOUS
  <1>2. a * b < m * b /\ b * a < m * a
    BY <1>1, ProductGrows
  <1>3. (k + 1) * (a + b) <= c * (a + b)
    BY ProductGrows
  <1>4. m * b = 2 * ((k + 1) * b) /\ m * a = 2 * ((k + 1) * a)
    OBVIOUS
  <1>5. (k + 1) * (a + b) = (k + 1) * a + (k + 1) * b
    OBVIOUS
  <1>6. /\ (k + 1) * a \in Nat /\ (k + 1) * b \in Nat /\ a * b \in Nat /\ c * (a + b) \in Nat
        /\ a * b = b * a /\ (a + b) * c = c * (a + b) /\ 1 * (a * b) = a * b
    OBVIOUS
  <1> HIDE DEF m
  <1> QED
    BY <1>2, <1>3, <1>4, <1>5, <1>6

(* An id that both lists have scores more than one that only one of them   *)
(* has.                                                                    *)
LEMMA AgreementFirstRanked ==
    ASSUME NEW S, NEW first \in Seq(S), NEW second \in Seq(S), NEW n \in Nat,
           n <= RRF_K + 1, Len(first) <= n, Len(second) <= n,
           NEW x \in ToSet(first) \cap ToSet(second),
           NEW y \in ToSet(first) \cup ToSet(second),
           y \notin ToSet(first) \cap ToSet(second)
    PROVE  Before(first, second, x, y) /\ ~Before(first, second, y, x)
  <1> DEFINE a == Place(first, x)
             b == Place(second, x)
  <1>1. /\ a \in Nat /\ b \in Nat /\ 0 < a /\ 0 < b
        /\ a <= 2 * RRF_K + 1 /\ b <= 2 * RRF_K + 1
    <2>1. /\ a \in Nat /\ a > RRF_K /\ a <= RRF_K + Len(first)
          /\ b \in Nat /\ b > RRF_K /\ b <= RRF_K + Len(second)
      BY PlaceFits
    <2>2. Len(first) \in Nat /\ Len(second) \in Nat
      BY LenProperties
    <2> HIDE DEF a, b
    <2> QED
      BY <2>1, <2>2, FusionAssumption
  <1>2. Score(first, second, x) = <<a + b, a * b>>
    BY DEF Score
  <1>3. PICK c \in Nat : Score(first, second, y) = <<1, c>> /\ RRF_K < c
    <2>1. CASE y \in ToSet(first)
      BY <2>1, PlaceFits DEF Score
    <2>2. CASE y \in ToSet(second)
      BY <2>2, PlaceFits DEF Score
    <2> QED
      BY <2>1, <2>2
  <1> HIDE DEF a, b
  <1>4. (a + b) * c > 1 * (a * b)
    BY <1>1, <1>3, AgreementBeats, FusionAssumption
  <1>5. Beats(Score(first, second, x), Score(first, second, y))
    BY <1>2, <1>3, <1>4 DEF Beats
  <1>6. ~Beats(Score(first, second, y), Score(first, second, x))
    <2>1. (a + b) * c \in Nat /\ 1 * (a * b) \in Nat
      BY <1>1, <1>3
    <2> QED
      BY <1>2, <1>3, <1>4, <2>1 DEF Beats
  <1> QED
    BY <1>5, <1>6 DEF Before

--------------------------------------------------------------------------------

(* A set of natural numbers has a least one: the order is well-founded.    *)
LEMMA LeastFits ==
    ASSUME NEW S \in SUBSET Nat, S # {}
    PROVE  Least(S) \in S /\ \A k \in S : Least(S) <= k
  <1>1. PICK x \in S : \A y \in S : ~(<<y, x>> \in OpToRel(<, Nat))
    BY WFMin, NatLessThanWellFounded
  <1>2. \A y \in S : x <= y
    <2> SUFFICES ASSUME NEW y \in S PROVE x <= y
      OBVIOUS
    <2>1. x \in Nat /\ y \in Nat
      OBVIOUS
    <2>2. ~(y < x)
      BY <1>1, <2>1 DEF OpToRel
    <2> QED
      BY <2>1, <2>2
  <1>3. \E i \in S : \A k \in S : i <= k
    BY <1>2
  <1> QED
    BY <1>3 DEF Least

(* ... and a bounded one a greatest.                                       *)
LEMMA GreatestFits ==
    ASSUME NEW n \in Nat, NEW S \in SUBSET (0..n), S # {}
    PROVE  Greatest(S) \in S /\ \A k \in S : k <= Greatest(S)
  <1> DEFINE T == {n - k : k \in S}
  <1>1. T \in SUBSET Nat /\ T # {}
    <2>1. \A k \in S : n - k \in Nat
      OBVIOUS
    <2>2. \E k \in S : n - k \in T
      OBVIOUS
    <2> QED
      BY <2>1, <2>2
  <1> HIDE DEF T
  <1>2. Least(T) \in T /\ \A k \in T : Least(T) <= k
    BY <1>1, LeastFits
  <1>3. PICK x \in S : Least(T) = n - x
    BY <1>2 DEF T
  <1>4. ASSUME NEW k \in S PROVE k <= x
    <2>1. n - k \in T
      BY DEF T
    <2>2. n - x <= n - k
      BY <1>2, <1>3, <2>1
    <2>3. x \in Nat /\ k \in Nat
      OBVIOUS
    <2> QED
      BY <2>2, <2>3
  <1>5. \E i \in S : \A k \in S : k <= i
    BY <1>4
  <1> QED
    BY <1>5 DEF Greatest

(* InOrder lists a finite set of numbers, in increasing order.             *)
LEMMA InOrderFits ==
    ASSUME NEW S \in SUBSET Nat, IsFiniteSet(S)
    PROVE  LET list == InOrder(S) IN
           /\ Cardinality(S) \in Nat
           /\ list \in [1..Cardinality(S) -> S]
           /\ list \in Seq(S) /\ Len(list) = Cardinality(S) /\ DOMAIN list = 1..Len(list)
           /\ \A n, m \in 1..Len(list) : n < m <=> list[n] < list[m]
           /\ \A i \in S : \E n \in 1..Len(list) : list[n] = i
  <1> DEFINE R == {p \in S \X S : p[1] < p[2]}
             Nth(x) == Cardinality({y \in S : <<y, x>> \in R})
             k == Cardinality(S)
             list == InOrder(S)
  <1>1. \A x, y \in S : <<x, y>> \in R <=> x < y
    OBVIOUS
  <1> HIDE DEF R
  <1>2. /\ k \in Nat
        /\ \A x \in S : Nth(x) \in Nat
        /\ \A x, y \in S : <<x, y>> \in R <=> Nth(x) < Nth(y)
        /\ \A n \in 1..k : \E x \in S : Nth(x) = n - 1
    <2>1. \A x \in S : <<x, x>> \notin R
      BY <1>1
    <2>2. \A x, y \in S : x # y => <<x, y>> \in R \/ <<y, x>> \in R
      BY <1>1
    <2>3. \A x, y, z \in S : <<x, y>> \in R /\ <<y, z>> \in R => <<x, z>> \in R
      BY <1>1
    <2> QED
      BY <2>1, <2>2, <2>3, Ranks
  <1> DEFINE Count(i) == Cardinality({m \in S : m < i})
  <1>3. \A i \in S : Count(i) = Nth(i)
    <2> SUFFICES ASSUME NEW i \in S PROVE Count(i) = Nth(i)
      OBVIOUS
    <2>1. {m \in S : m < i} = {m \in S : <<m, i>> \in R}
      BY <1>1
    <2> QED
      BY <2>1
  <1>4. \A n \in 1..k : list[n] = CHOOSE i \in S : Count(i) = n - 1
    BY DEF InOrder
  <1> HIDE DEF Nth, Count, list
  <1>6. \A n \in 1..k : list[n] \in S /\ Nth(list[n]) = n - 1
    <2> SUFFICES ASSUME NEW n \in 1..k PROVE list[n] \in S /\ Nth(list[n]) = n - 1
      OBVIOUS
    <2>1. \E i \in S : Count(i) = n - 1
      BY <1>2, <1>3
    <2>2. list[n] \in S /\ Count(list[n]) = n - 1
      BY <1>4, <2>1
    <2> QED
      BY <1>3, <2>2
  <1> HIDE DEF k
  <1>7. list \in [1..k -> S]
    <2>1. \A n \in 1..k : (CHOOSE i \in S : Count(i) = n - 1) \in S
      BY <1>4, <1>6
    <2> DEFINE chosen == [n \in 1..k |-> CHOOSE i \in S : Count(i) = n - 1]
    <2>2. list = chosen
      BY DEF list, InOrder, Count, k
    <2>3. chosen \in [1..k -> S]
      BY <2>1
    <2> HIDE DEF chosen
    <2> QED
      BY <2>2, <2>3
  <1>8. list \in Seq(S) /\ Len(list) = k /\ DOMAIN list = 1..k
    BY <1>2, <1>7
  <1>9. ASSUME NEW n \in 1..k, NEW m \in 1..k PROVE n < m <=> list[n] < list[m]
    <2>1. n - 1 < m - 1 <=> <<list[n], list[m]>> \in R
      BY <1>2, <1>6
    <2>2. n < m <=> n - 1 < m - 1
      BY <1>2
    <2> QED
      BY <1>1, <1>6, <2>1, <2>2
  <1>10. ASSUME NEW i \in S PROVE \E n \in 1..k : list[n] = i
    <2>1. Nth(i) < k
      <3> DEFINE First == {y \in S : <<y, i>> \in R}
      <3>1. First \in SUBSET S
        OBVIOUS
      <3>2. i \notin First /\ i \in S
        BY <1>1
      <3>3. Nth(i) = Cardinality(First)
        BY DEF Nth
      <3> HIDE DEF First
      <3>4. Cardinality(First) <= k /\ Cardinality(First) # k
        BY <3>1, <3>2, FS_Subset DEF k
      <3> QED
        BY <1>2, <3>3, <3>4
    <2>2. Nth(i) + 1 \in 1..k /\ (Nth(i) + 1) - 1 = Nth(i)
      BY <1>2, <2>1
    <2> DEFINE x == list[Nth(i) + 1]
    <2>3. x \in S /\ Nth(x) = Nth(i)
      BY <1>6, <2>2
    <2> HIDE DEF x
    <2>4. <<x, i>> \notin R /\ <<i, x>> \notin R
      BY <1>2, <2>3
    <2>5. ~(x < i) /\ ~(i < x)
      BY <1>1, <2>3, <2>4
    <2>6. x \in Nat /\ i \in Nat
      BY <2>3
    <2> QED
      BY <2>2, <2>5, <2>6 DEF x
  <1> QED
    BY <1>2, <1>7, <1>8, <1>9, <1>10 DEF list, k

(* ... which for the numbers from a to b are a, a + 1, and so on.          *)
LEMMA InOrderOfInterval ==
    ASSUME NEW a \in Nat, NEW b \in Nat, a <= b
    PROVE  /\ Cardinality(a..b) = (b - a) + 1
           /\ \A n \in 1..((b - a) + 1) : InOrder(a..b)[n] = (a + n) - 1
  <1> DEFINE S == a..b
             k == (b - a) + 1
  <1>1. IsFiniteSet(S) /\ Cardinality(S) = k
    BY FS_Interval, a \in Int, b \in Int
  <1>2. ASSUME NEW i \in S PROVE Cardinality({m \in S : m < i}) = i - a
    <2>1. {m \in S : m < i} = a..(i - 1)
      OBVIOUS
    <2>2. i - 1 \in Int /\ a \in Int /\ i \in Int /\ (a > i - 1 <=> i = a)
      OBVIOUS
    <2>3. Cardinality(a..(i - 1)) = IF a > i - 1 THEN 0 ELSE ((i - 1) - a) + 1
      BY <2>2, FS_Interval
    <2>4. Cardinality(a..(i - 1)) = i - a
      BY <2>2, <2>3
    <2> HIDE DEF S
    <2> QED
      BY <2>1, <2>4
  <1>3. ASSUME NEW n \in 1..k PROVE InOrder(S)[n] = (a + n) - 1
    <2>1. InOrder(S)[n] = CHOOSE i \in S : Cardinality({m \in S : m < i}) = n - 1
      BY <1>1 DEF InOrder
    <2>2. (a + n) - 1 \in S /\ ((a + n) - 1) - a = n - 1
      OBVIOUS
    <2>3. \A i \in S : Cardinality({m \in S : m < i}) = n - 1 <=> i = (a + n) - 1
      BY <1>2, <2>2
    <2> HIDE DEF S
    <2> QED
      BY <2>1, <2>2, <2>3
  <1> QED
    BY <1>1, <1>3

(* The recursion of Chars: what it sums up, line by line.                  *)
LEMMA CharsSum ==
    ASSUME NEW lines \in Seq(Lines)
    PROVE  \E f \in [0..Len(lines) -> Nat] :
                /\ f[0] = 0
                /\ \A n \in 1..Len(lines) : f[n] = f[n - 1] + lines[n].size + 1
                /\ Chars(lines) = f[Len(lines)]
  <1> DEFINE k == Len(lines)
             Size(n) == IF n \in 1..k THEN lines[n].size ELSE 0
             step == [n \in Nat |-> [v \in Nat |-> v + Size(n) + 1]]
             sum[n \in 0..k] == IF n = 0 THEN 0 ELSE sum[n - 1] + lines[n].size + 1
  <1>1. k \in Nat /\ \A n \in 1..k : lines[n].size \in Nat
    BY LenProperties, ElementOfSeq DEF Lines
  <1>2. step \in [Nat -> [Nat -> Nat]]
    <2>1. \A n \in Nat : Size(n) \in Nat
      BY <1>1
    <2> HIDE DEF Size
    <2> DEFINE Adding(n) == [v \in Nat |-> v + Size(n) + 1]
    <2>2. ASSUME NEW n \in Nat PROVE Adding(n) \in [Nat -> Nat]
      <3>1. \A v \in Nat : v + Size(n) + 1 \in Nat
        BY <2>1
      <3> QED
        BY <3>1
    <2>3. step = [n \in Nat |-> Adding(n)]
      OBVIOUS
    <2> HIDE DEF Adding, step
    <2> QED
      BY <2>2, <2>3
  <1>3. PICK g \in [Nat -> Nat] : Recurs(g, 0, step)
    <2> HIDE DEF step
    <2> QED
      BY <1>2, 0 \in Nat, Recursion
  <1>4. \A n \in 1..k : g[n] = g[n - 1] + lines[n].size + 1
    <2> SUFFICES ASSUME NEW n \in 1..k PROVE g[n] = g[n - 1] + lines[n].size + 1
      OBVIOUS
    <2>1. n \in Nat /\ n - 1 \in Nat /\ n # 0
      <3> HIDE DEF k, sum, step, Size
      <3> QED
        BY <1>1
    <2>2. g[n] = step[n][g[n - 1]] /\ g[n - 1] \in Nat
      <3> HIDE DEF step
      <3> QED
        BY <1>3, <2>1 DEF Recurs
    <2>3. step[n][g[n - 1]] = g[n - 1] + Size(n) + 1
      <3> HIDE DEF Size
      <3> QED
        BY <2>1, <2>2
    <2> QED
      BY <2>2, <2>3
  <1> DEFINE f == [n \in 0..k |-> g[n]]
  <1>5. f \in [0..k -> Nat] /\ f[0] = 0
    BY <1>1, <1>3 DEF Recurs
  <1>6. \A n \in 1..k : f[n] = f[n - 1] + lines[n].size + 1
    <2> SUFFICES ASSUME NEW n \in 1..k PROVE f[n] = f[n - 1] + lines[n].size + 1
      OBVIOUS
    <2>1. n \in 0..k /\ n - 1 \in 0..k
      BY <1>1
    <2> QED
      BY <1>4, <2>1
  <1> HIDE DEF f
  <1>7. f = [n \in 0..k |-> IF n = 0 THEN 0 ELSE f[n - 1] + lines[n].size + 1]
    <2>1. \A n \in 0..k : f[n] = IF n = 0 THEN 0 ELSE f[n - 1] + lines[n].size + 1
      BY <1>1, <1>5, <1>6
    <2>2. f = [n \in 0..k |-> f[n]]
      BY <1>5
    <2> QED
      BY <2>1, <2>2
  <1>8. sum = [n \in 0..k |-> IF n = 0 THEN 0 ELSE sum[n - 1] + lines[n].size + 1]
    BY <1>7
  <1>9. Chars(lines) = sum[k]
    BY DEF Chars
  <1> HIDE DEF sum
  <1>10. /\ 0 \in 0..k => sum[0] = 0
         /\ \A n \in 1..k : n \in 0..k /\ n # 0 => sum[n] = sum[n - 1] + lines[n].size + 1
    BY <1>8
  <1> DEFINE S == {n \in Nat : n <= k => sum[n] = f[n]}
  <1>11. 0 \in S
    BY <1>1, <1>5, <1>10
  <1>12. ASSUME NEW n \in S PROVE n + 1 \in S
    <2> SUFFICES ASSUME n + 1 <= k PROVE sum[n + 1] = f[n + 1]
      OBVIOUS
    <2>1. /\ n \in Nat /\ n <= k /\ n + 1 \in 1..k /\ n + 1 \in 0..k
          /\ (n + 1) - 1 = n /\ n + 1 # 0
      <3>1. n \in Nat /\ k \in Nat
        BY <1>1
      <3> HIDE DEF S, k
      <3> QED
        BY <3>1
    <2>2. sum[n] = f[n]
      BY <1>12, <2>1
    <2> QED
      BY <1>6, <1>10, <2>1, <2>2
  <1>13. S \in SUBSET Nat
    OBVIOUS
  <1> HIDE DEF S
  <1>14. S = Nat
    BY <1>11, <1>12, <1>13, SetInduction
  <1>15. sum[k] = f[k]
    BY <1>1, <1>14 DEF S
  <1> QED
    BY <1>5, <1>6, <1>9, <1>15

(* The next line adds its characters and its end.                          *)
LEMMA CharsGrow ==
    ASSUME NEW lines \in Seq(Lines), NEW n \in 1..Len(lines)
    PROVE  /\ Chars(SubSeq(lines, 1, n)) =
                    Chars(SubSeq(lines, 1, n - 1)) + lines[n].size + 1
           /\ Chars(SubSeq(lines, 1, n - 1)) \in Nat
  <1> DEFINE long == SubSeq(lines, 1, n)
             short == SubSeq(lines, 1, n - 1)
  <1>1. Len(lines) \in Nat /\ \A i \in 1..Len(lines) : lines[i] \in Lines /\ lines[i].size \in Nat
    BY LenProperties, ElementOfSeq DEF Lines
  <1>2. n \in Nat /\ n - 1 \in Nat /\ n >= 1 /\ n <= Len(lines)
    BY <1>1
  <1>3. long \in Seq(Lines) /\ Len(long) = n /\ \A i \in 1..n : long[i] = lines[i]
    <2>1. 1 \in Int /\ n \in Int /\ \A i \in 1..n : lines[i] \in Lines
      BY <1>1, <1>2
    <2>2. \A i \in 1..n : i \in 1..((n - 1) + 1) /\ (1 + i) - 1 = i
      BY <1>2
    <2> QED
      BY <1>2, <2>1, <2>2, SubSeqProperties
  <1>4. short \in Seq(Lines) /\ Len(short) = n - 1 /\ \A i \in 1..(n - 1) : short[i] = lines[i]
    <2>1. 1 \in Int /\ n - 1 \in Int /\ \A i \in 1..(n - 1) : lines[i] \in Lines
      BY <1>1, <1>2
    <2>2. \A i \in 1..(n - 1) : i \in 1..(((n - 1) - 1) + 1) /\ (1 + i) - 1 = i
      BY <1>2
    <2>3. (IF 1 <= n - 1 THEN ((n - 1) - 1) + 1 ELSE 0) = n - 1
      BY <1>2
    <2> QED
      BY <2>1, <2>2, <2>3, SubSeqProperties
  <1> HIDE DEF long, short
  <1>5. PICK f \in [0..n -> Nat] :
            /\ f[0] = 0
            /\ \A i \in 1..n : f[i] = f[i - 1] + lines[i].size + 1
            /\ Chars(long) = f[n]
    BY <1>3, CharsSum
  <1> DEFINE m == n - 1
  <1>6. PICK g \in [0..m -> Nat] :
            /\ g[0] = 0
            /\ \A i \in 1..m : g[i] = g[i - 1] + lines[i].size + 1
            /\ Chars(short) = g[m]
    <2>1. Len(short) = m /\ \A i \in 1..m : short[i] = lines[i]
      BY <1>4
    <2> HIDE DEF m
    <2> QED
      BY <1>4, <2>1, CharsSum
  <1> DEFINE S == {i \in Nat : i <= n - 1 => f[i] = g[i]}
  <1>7. 0 \in S
    BY <1>5, <1>6
  <1>8. ASSUME NEW i \in S PROVE i + 1 \in S
    <2> SUFFICES ASSUME i + 1 <= n - 1 PROVE f[i + 1] = g[i + 1]
      OBVIOUS
    <2>1. i \in Nat /\ i <= n - 1 /\ i + 1 \in 1..n /\ i + 1 \in 1..(n - 1) /\ (i + 1) - 1 = i
      BY <1>2
    <2>2. f[i] = g[i]
      BY <1>8, <2>1
    <2> QED
      BY <1>5, <1>6, <2>1, <2>2
  <1>9. S \in SUBSET Nat
    OBVIOUS
  <1> HIDE DEF S
  <1>10. S = Nat
    BY <1>7, <1>8, <1>9, SetInduction
  <1>11. f[n - 1] = g[n - 1]
    <2>1. n - 1 \in S
      BY <1>2, <1>10
    <2>2. n - 1 <= n - 1
      BY <1>2
    <2> QED
      BY <2>1, <2>2 DEF S
  <1>12. f[n] = f[n - 1] + lines[n].size + 1 /\ g[n - 1] \in Nat
    <2>1. n \in 1..n /\ n - 1 \in 0..(n - 1)
      BY <1>2
    <2> QED
      BY <1>5, <1>6, <2>1
  <1> QED
    BY <1>5, <1>6, <1>11, <1>12 DEF long, short

(* No lines, no characters.                                                *)
LEMMA EmptyChars == Chars(<<>>) = 0
  <1>1. <<>> \in Seq(Lines) /\ Len(<<>>) = 0
    BY EmptySeq
  <1>2. PICK f \in [0..0 -> Nat] : f[0] = 0 /\ Chars(<<>>) = f[0]
    BY <1>1, CharsSum
  <1> QED
    BY <1>2

(* Lines a to b of a document.                                             *)
LEMMA PartOf ==
    ASSUME NEW t \in Seq(Lines), NEW a \in 1..Len(t), NEW b \in a..Len(t)
    PROVE  LET part == SubSeq(t, a, b) IN
           /\ part \in Seq(Lines) /\ Len(part) = (b - a) + 1 /\ Len(part) \in Nat
           /\ DOMAIN part = 1..Len(part) /\ part # <<>>
           /\ \A i \in 1..Len(part) : (a + i) - 1 \in a..b /\ part[i] = t[(a + i) - 1]
  <1> DEFINE part == SubSeq(t, a, b)
  <1>1. Len(t) \in Nat /\ \A i \in 1..Len(t) : t[i] \in Lines
    BY LenProperties, ElementOfSeq
  <1>2. a \in Nat /\ b \in Nat /\ 1 <= a /\ a <= b /\ b <= Len(t)
    BY <1>1
  <1>3. a \in Int /\ b \in Int /\ \A i \in a..b : t[i] \in Lines
    BY <1>1, <1>2
  <1>4. /\ part \in Seq(Lines) /\ Len(part) = IF a <= b THEN (b - a) + 1 ELSE 0
        /\ \A i \in 1..((b - a) + 1) : part[i] = t[(a + i) - 1]
    BY <1>3, SubSeqProperties
  <1> HIDE DEF part
  <1>5. Len(part) = (b - a) + 1 /\ (b - a) + 1 \in Nat /\ (b - a) + 1 # 0
    BY <1>2, <1>4
  <1>6. DOMAIN part = 1..Len(part) /\ part # <<>>
    BY <1>4, <1>5, LenProperties, EmptySeq
  <1>7. \A i \in 1..((b - a) + 1) : (a + i) - 1 \in a..b
    BY <1>2
  <1> QED
    BY <1>4, <1>5, <1>6, <1>7 DEF part

(* Where lines begin: the first at 0, each other after the one before it.  *)
LEMMA StartsStep ==
    ASSUME NEW t \in Seq(Lines)
    PROVE  /\ Len(t) \in Nat /\ StartOf(t, 1) = 0
           /\ \A i \in 1..Len(t) : /\ t[i] \in Lines /\ t[i].size \in Nat
                                   /\ StartOf(t, i) \in Nat
                                   /\ StartOf(t, i + 1) = StartOf(t, i) + t[i].size + 1
  <1>1. Len(t) \in Nat /\ \A i \in 1..Len(t) : t[i] \in Lines /\ t[i].size \in Nat
    BY LenProperties, ElementOfSeq DEF Lines
  <1>2. StartOf(t, 1) = 0
    <2>1. SubSeq(t, 1, 1 - 1) = <<>>
      BY 1 \in Int, 1 - 1 \in Int, 1 - 1 < 1, SubSeqEmpty
    <2> QED
      BY <2>1, EmptyChars DEF StartOf
  <1>3. ASSUME NEW i \in 1..Len(t)
        PROVE  StartOf(t, i) \in Nat /\ StartOf(t, i + 1) = StartOf(t, i) + t[i].size + 1
    <2>1. (i + 1) - 1 = i
      BY <1>1
    <2> QED
      BY <2>1, CharsGrow DEF StartOf
  <1> QED
    BY <1>1, <1>2, <1>3

(* ... so that later lines begin later.                                    *)
LEMMA Starts ==
    ASSUME NEW t \in Seq(Lines)
    PROVE  /\ \A i \in 1..(Len(t) + 1) : StartOf(t, i) \in Nat
           /\ \A i, k \in 1..(Len(t) + 1) : i < k => StartOf(t, i) < StartOf(t, k)
           /\ \A i, k \in 1..(Len(t) + 1) : i <= k => StartOf(t, i) <= StartOf(t, k)
  <1>1. /\ Len(t) \in Nat /\ StartOf(t, 1) = 0
        /\ \A i \in 1..Len(t) : /\ t[i].size \in Nat /\ StartOf(t, i) \in Nat
                                /\ StartOf(t, i + 1) = StartOf(t, i) + t[i].size + 1
    BY StartsStep
  <1> HIDE DEF StartOf
  <1>2. ASSUME NEW i \in 1..(Len(t) + 1) PROVE StartOf(t, i) \in Nat
    <2>1. CASE i \in 1..Len(t)
      BY <1>1, <2>1
    <2>2. CASE i = Len(t) + 1 /\ Len(t) # 0
      <3>1. Len(t) \in 1..Len(t)
        BY <1>1, <2>2
      <3> QED
        BY <1>1, <2>2, <3>1
    <2>3. CASE i = Len(t) + 1 /\ Len(t) = 0
      BY <1>1, <2>3
    <2> QED
      BY <1>1, <2>1, <2>2, <2>3
  <1>3. ASSUME NEW i \in 1..(Len(t) + 1), NEW k \in 1..(Len(t) + 1), i < k
        PROVE  StartOf(t, i) < StartOf(t, k)
    <2> DEFINE S == {d \in Nat : i + d + 1 <= Len(t) + 1 => StartOf(t, i) < StartOf(t, i + d + 1)}
    <2>1. 0 \in S
      <3> SUFFICES ASSUME i + 0 + 1 <= Len(t) + 1 PROVE StartOf(t, i) < StartOf(t, i + 0 + 1)
        OBVIOUS
      <3>1. i \in 1..Len(t) /\ i + 0 + 1 = i + 1
        BY <1>1
      <3>2. StartOf(t, i + 1) = StartOf(t, i) + t[i].size + 1 /\ t[i].size \in Nat
        BY <1>1, <3>1
      <3> QED
        BY <1>2, <3>1, <3>2
    <2>2. ASSUME NEW d \in S PROVE d + 1 \in S
      <3> SUFFICES ASSUME i + (d + 1) + 1 <= Len(t) + 1
                   PROVE  StartOf(t, i) < StartOf(t, i + (d + 1) + 1)
        OBVIOUS
      <3>1. /\ d \in Nat /\ i + d + 1 <= Len(t) + 1 /\ i + d + 1 \in 1..Len(t)
            /\ i + (d + 1) + 1 = (i + d + 1) + 1
        BY <1>1
      <3>2. StartOf(t, i) < StartOf(t, i + d + 1)
        BY <2>2, <3>1
      <3>3. /\ StartOf(t, (i + d + 1) + 1) = StartOf(t, i + d + 1) + t[i + d + 1].size + 1
            /\ t[i + d + 1].size \in Nat /\ StartOf(t, i + d + 1) \in Nat
        BY <1>1, <3>1
      <3> QED
        BY <1>2, <3>1, <3>2, <3>3
    <2>3. S \in SUBSET Nat
      OBVIOUS
    <2> HIDE DEF S
    <2>4. S = Nat
      BY <2>1, <2>2, <2>3, SetInduction
    <2>5. (k - i) - 1 \in Nat /\ i + ((k - i) - 1) + 1 = k /\ k <= Len(t) + 1
      BY <1>1, <1>3
    <2>6. (k - i) - 1 \in S
      BY <2>4, <2>5
    <2> QED
      BY <2>5, <2>6 DEF S
  <1>4. ASSUME NEW i \in 1..(Len(t) + 1), NEW k \in 1..(Len(t) + 1), i <= k
        PROVE  StartOf(t, i) <= StartOf(t, k)
    <2>1. i < k \/ i = k
      BY <1>1, <1>4
    <2> QED
      BY <1>2, <1>3, <2>1
  <1> QED
    BY <1>2, <1>3, <1>4

(* Lines a to b have the characters between their starts, less one end.    *)
LEMMA ExtentOfPart ==
    ASSUME NEW t \in Seq(Lines), NEW a \in 1..Len(t), NEW b \in a..Len(t)
    PROVE  /\ Extent(SubSeq(t, a, b)) = StartOf(t, b + 1) - StartOf(t, a) - 1
           /\ Extent(SubSeq(t, a, b)) \in Nat
  <1> DEFINE part == SubSeq(t, a, b)
             n == (b - a) + 1
  <1>1. /\ Len(t) \in Nat /\ a \in Nat /\ b \in Nat /\ 1 <= a /\ a <= b /\ b <= Len(t)
        /\ n \in Nat /\ n >= 1
    BY LenProperties
  <1>2. /\ part \in Seq(Lines) /\ Len(part) = n /\ part # <<>>
        /\ \A i \in 1..n : (a + i) - 1 \in 1..Len(t) /\ part[i] = t[(a + i) - 1]
    <2>1. a..b \subseteq 1..Len(t)
      BY <1>1
    <2>2. /\ part \in Seq(Lines) /\ Len(part) = n /\ part # <<>>
          /\ \A i \in 1..Len(part) : (a + i) - 1 \in a..b /\ part[i] = t[(a + i) - 1]
      BY PartOf
    <2> HIDE DEF part, n
    <2> QED
      BY <2>1, <2>2
  <1> DEFINE Up(m) == Chars(SubSeq(part, 1, m))
  <1>3. \A m \in 1..n : Up(m) = Up(m - 1) + part[m].size + 1 /\ Up(m - 1) \in Nat
    <2> HIDE DEF part, n
    <2> QED
      BY <1>2, CharsGrow
  <1>4. Up(0) = 0
    <2>1. SubSeq(part, 1, 0) = <<>>
      BY 1 \in Int, 0 \in Int, SubSeqEmpty
    <2> QED
      BY <2>1, EmptyChars
  <1>5. Up(n) = Chars(part)
    <2> HIDE DEF part, n
    <2> QED
      BY <1>2, SubSeqFull
  <1>6. /\ \A i \in 1..Len(t) : /\ t[i].size \in Nat /\ StartOf(t, i) \in Nat
                                /\ StartOf(t, i + 1) = StartOf(t, i) + t[i].size + 1
    BY StartsStep
  <1> HIDE DEF Up, part, n, StartOf
  <1> DEFINE S == {m \in Nat : m <= n => Up(m) = StartOf(t, a + m) - StartOf(t, a)}
  <1>7. 0 \in S
    <2>1. StartOf(t, a) \in Nat /\ a + 0 = a
      BY <1>1, <1>6
    <2> QED
      BY <1>4, <2>1
  <1>8. ASSUME NEW m \in S PROVE m + 1 \in S
    <2> SUFFICES ASSUME m + 1 <= n PROVE Up(m + 1) = StartOf(t, a + (m + 1)) - StartOf(t, a)
      OBVIOUS
    <2>1. /\ m \in Nat /\ m <= n /\ m + 1 \in 1..n /\ (m + 1) - 1 = m
          /\ (a + (m + 1)) - 1 = a + m /\ a + (m + 1) = (a + m) + 1
      BY <1>1
    <2>2. Up(m) = StartOf(t, a + m) - StartOf(t, a)
      BY <1>8, <2>1
    <2>3. Up(m + 1) = Up(m) + part[m + 1].size + 1
      BY <1>3, <2>1
    <2>4. a + m \in 1..Len(t) /\ part[m + 1] = t[a + m]
      BY <1>2, <2>1
    <2>5. /\ StartOf(t, (a + m) + 1) = StartOf(t, a + m) + t[a + m].size + 1
          /\ t[a + m].size \in Nat /\ StartOf(t, a + m) \in Nat /\ StartOf(t, a) \in Nat
      BY <1>1, <1>6, <2>4
    <2> QED
      BY <2>1, <2>2, <2>3, <2>4, <2>5
  <1>9. S \in SUBSET Nat
    OBVIOUS
  <1> HIDE DEF S
  <1>10. S = Nat
    BY <1>7, <1>8, <1>9, SetInduction
  <1>11. Up(n) = StartOf(t, b + 1) - StartOf(t, a)
    <2>1. n \in S
      BY <1>1, <1>10
    <2>2. a + n = b + 1 /\ n <= n
      BY <1>1 DEF n
    <2> QED
      BY <2>1, <2>2 DEF S
  <1>12. Extent(part) = Chars(part) - 1
    BY <1>2 DEF Extent
  <1>13. StartOf(t, a) < StartOf(t, b + 1) /\ StartOf(t, a) \in Nat /\ StartOf(t, b + 1) \in Nat
    <2>1. a \in 1..(Len(t) + 1) /\ b + 1 \in 1..(Len(t) + 1) /\ a < b + 1
      BY <1>1
    <2> QED
      BY <2>1, Starts
  <1>14. /\ Extent(part) = StartOf(t, b + 1) - StartOf(t, a) - 1
         /\ Extent(part) \in Nat
    <2> DEFINE x == StartOf(t, a)
               y == StartOf(t, b + 1)
    <2>1. Extent(part) = (y - x) - 1
      BY <1>5, <1>11, <1>12
    <2>2. x \in Nat /\ y \in Nat /\ x < y
      BY <1>13
    <2> HIDE DEF x, y
    <2>3. Extent(part) = y - x - 1 /\ Extent(part) \in Nat
      BY <2>1, <2>2
    <2> QED
      BY <2>3 DEF x, y
  <1> QED
    BY <1>14 DEF part

(* str.strip(), of lines a to b: nothing is left, or lines p to q are,     *)
(* which have all that is said.                                            *)
LEMMA StrippedPart ==
    ASSUME NEW t \in Seq(Lines), NEW a \in 1..Len(t), NEW b \in a..Len(t)
    PROVE  \/ /\ \A i \in a..b : Blank(t[i])
              /\ Stripped(SubSeq(t, a, b)) = <<>>
           \/ \E p \in a..b, q \in a..b :
                /\ p <= q /\ ~Blank(t[p]) /\ ~Blank(t[q])
                /\ \A i \in a..b : ~Blank(t[i]) => p <= i /\ i <= q
                /\ Stripped(SubSeq(t, a, b)) = SubSeq(t, p, q)
  <1> DEFINE part == SubSeq(t, a, b)
             n == (b - a) + 1
             said == {i \in DOMAIN part : ~Blank(part[i])}
  <1>1. /\ Len(t) \in Nat /\ a \in Nat /\ b \in Nat /\ 1 <= a /\ a <= b /\ b <= Len(t)
        /\ n \in Nat /\ n >= 1
    BY LenProperties
  <1>2. /\ part \in Seq(Lines) /\ Len(part) = n /\ DOMAIN part = 1..n
        /\ \A i \in 1..n : (a + i) - 1 \in a..b /\ part[i] = t[(a + i) - 1]
    BY PartOf
  <1>3. Stripped(part) = IF said = {} THEN <<>> ELSE SubSeq(part, Least(said), Greatest(said))
    BY DEF Stripped
  <1> HIDE DEF part, Blank
  <1>4. \A i \in a..b : (i - a) + 1 \in 1..n /\ part[(i - a) + 1] = t[i]
    <2> SUFFICES ASSUME NEW i \in a..b PROVE (i - a) + 1 \in 1..n /\ part[(i - a) + 1] = t[i]
      OBVIOUS
    <2>1. i \in Nat /\ (i - a) + 1 \in 1..n /\ (a + ((i - a) + 1)) - 1 = i
      BY <1>1
    <2> HIDE DEF n
    <2> QED
      BY <1>2, <2>1
  <1>5. CASE said = {}
    <2>1. \A i \in 1..n : Blank(part[i])
      BY <1>2, <1>5
    <2> HIDE DEF said, n
    <2> QED
      BY <1>3, <1>4, <1>5, <2>1 DEF part
  <1>6. CASE said # {}
    <2> DEFINE l == Least(said)
               g == Greatest(said)
               p == (a + l) - 1
               q == (a + g) - 1
    <2>1. said \in SUBSET (0..n) /\ said \in SUBSET Nat /\ said \in SUBSET (1..n)
      BY <1>1, <1>2
    <2>2. l \in said /\ g \in said /\ \A i \in said : l <= i /\ i <= g
      <3> HIDE DEF said, n
      <3> QED
        BY <1>1, <1>6, <2>1, LeastFits, GreatestFits
    <2>3. l \in 1..n /\ g \in 1..n /\ l <= g /\ ~Blank(part[l]) /\ ~Blank(part[g])
      <3>1. ~Blank(part[l]) /\ ~Blank(part[g])
        <4> HIDE DEF l, g
        <4> QED
          BY <2>2
      <3> HIDE DEF said, n, l, g
      <3> QED
        BY <2>1, <2>2, <3>1
    <2> HIDE DEF l, g
    <2>4. p \in a..b /\ q \in a..b /\ p <= q /\ part[l] = t[p] /\ part[g] = t[q]
      <3>1. p <= q
        BY <1>1, <2>3
      <3> HIDE DEF n
      <3> QED
        BY <1>2, <2>3, <3>1
    <2>5. ASSUME NEW i \in a..b, ~Blank(t[i]) PROVE p <= i /\ i <= q
      <3>1. (i - a) + 1 \in said
        BY <1>2, <1>4, <2>5
      <3>2. l <= (i - a) + 1 /\ (i - a) + 1 <= g
        <4> HIDE DEF said
        <4> QED
          BY <2>2, <3>1
      <3> QED
        BY <1>1, <2>3, <3>2
    <2>6. SubSeq(part, l, g) = SubSeq(t, p, q)
      <3>1. a \in 1..Len(t) /\ b \in 1..Len(t) /\ l \in 1..(b - a + 1) /\ g \in 1..(b - a + 1)
        BY <1>1, <2>3
      <3>2. SubSeq(SubSeq(t, a, b), l, g) = SubSeq(t, a + l - 1, a + g - 1)
        BY <3>1, SubSeqOfSubSeq
      <3>3. a + l - 1 = p /\ a + g - 1 = q
        BY <1>1, <2>3
      <3> QED
        BY <3>2, <3>3 DEF part
    <2>7. Stripped(part) = SubSeq(t, p, q)
      BY <1>3, <1>6, <2>6 DEF l, g
    <2> HIDE DEF p, q, said
    <2> QED
      BY <2>3, <2>4, <2>5, <2>7 DEF part
  <1> QED
    BY <1>5, <1>6

(* The lines from i to k say no more than those from a to b, which contain *)
(* them.                                                                   *)
LEMMA StrippedGrows ==
    ASSUME NEW t \in Seq(Lines), NEW a \in 1..Len(t), NEW b \in a..Len(t),
           NEW i \in a..b, NEW k \in i..b
    PROVE  /\ Stripped(SubSeq(t, a, b)) \in Seq(Lines)
           /\ Extent(Stripped(SubSeq(t, i, k))) \in Nat
           /\ Extent(Stripped(SubSeq(t, a, b))) \in Nat
           /\ Extent(Stripped(SubSeq(t, i, k))) <= Extent(Stripped(SubSeq(t, a, b)))
  <1>1. /\ Len(t) \in Nat /\ a \in Nat /\ b \in Nat /\ 1 <= a /\ a <= b /\ b <= Len(t)
        /\ i \in Nat /\ k \in Nat /\ a <= i /\ i <= k /\ k <= b
        /\ i \in 1..Len(t) /\ k \in i..Len(t)
    BY LenProperties
  <1>2. /\ Extent(<<>>) = 0 /\ <<>> \in Seq(Lines)
    BY EmptySeq DEF Extent
  <1>3. ASSUME NEW x \in 1..Len(t), NEW y \in x..Len(t)
        PROVE  /\ Stripped(SubSeq(t, x, y)) \in Seq(Lines)
               /\ Extent(Stripped(SubSeq(t, x, y))) \in Nat
    <2>1. CASE Stripped(SubSeq(t, x, y)) = <<>>
      BY <1>2, <2>1
    <2>2. ASSUME NEW p \in x..y, NEW q \in x..y, p <= q,
                 Stripped(SubSeq(t, x, y)) = SubSeq(t, p, q)
          PROVE  /\ Stripped(SubSeq(t, x, y)) \in Seq(Lines)
                 /\ Extent(Stripped(SubSeq(t, x, y))) \in Nat
      <3>1. p \in 1..Len(t) /\ q \in p..Len(t)
        BY <1>1, <2>2
      <3> QED
        BY <2>2, <3>1, PartOf, ExtentOfPart
    <2> QED
      BY <2>1, <2>2, StrippedPart
  <1>4. Extent(Stripped(SubSeq(t, i, k))) <= Extent(Stripped(SubSeq(t, a, b)))
    <2>1. CASE Stripped(SubSeq(t, i, k)) = <<>>
      BY <1>2, <1>3, <2>1
    <2>2. CASE Stripped(SubSeq(t, i, k)) # <<>>
      <3>1. PICK p \in i..k, q \in i..k :
                /\ p <= q /\ ~Blank(t[p]) /\ ~Blank(t[q])
                /\ Stripped(SubSeq(t, i, k)) = SubSeq(t, p, q)
        BY <1>1, <2>2, StrippedPart
      <3>2. p \in a..b /\ q \in a..b
        BY <1>1
      <3>3. PICK x \in a..b, y \in a..b :
                /\ x <= y
                /\ \A n \in a..b : ~Blank(t[n]) => x <= n /\ n <= y
                /\ Stripped(SubSeq(t, a, b)) = SubSeq(t, x, y)
        BY <3>1, <3>2, StrippedPart
      <3>4. x <= p /\ q <= y
        BY <3>1, <3>2, <3>3
      <3>5. /\ p \in 1..Len(t) /\ q \in p..Len(t) /\ x \in 1..Len(t) /\ y \in x..Len(t)
            /\ p \in 1..(Len(t) + 1) /\ q + 1 \in 1..(Len(t) + 1)
            /\ x \in 1..(Len(t) + 1) /\ y + 1 \in 1..(Len(t) + 1) /\ q + 1 <= y + 1
        <4> DEFINE n == Len(t)
        <4>1. /\ n \in Nat /\ a \in Nat /\ b \in Nat /\ 1 <= a /\ b <= n
              /\ p \in a..b /\ q \in a..b /\ x \in a..b /\ y \in a..b
              /\ p <= q /\ x <= y /\ q <= y
          BY <1>1, <3>1, <3>2, <3>3, <3>4
        <4> HIDE DEF n
        <4>2. p \in 1..n /\ q \in p..n /\ x \in 1..n /\ y \in x..n
          BY <4>1
        <4>3. p \in 1..(n + 1) /\ q + 1 \in 1..(n + 1) /\ q + 1 <= y + 1
          BY <4>1
        <4>4. x \in 1..(n + 1) /\ y + 1 \in 1..(n + 1)
          BY <4>1
        <4> QED
          BY <4>2, <4>3, <4>4 DEF n
      <3>6. /\ Extent(SubSeq(t, p, q)) = StartOf(t, q + 1) - StartOf(t, p) - 1
            /\ Extent(SubSeq(t, x, y)) = StartOf(t, y + 1) - StartOf(t, x) - 1
        BY <3>5, ExtentOfPart
      <3>7. /\ StartOf(t, x) \in Nat /\ StartOf(t, p) \in Nat
            /\ StartOf(t, q + 1) \in Nat /\ StartOf(t, y + 1) \in Nat
            /\ StartOf(t, x) <= StartOf(t, p) /\ StartOf(t, q + 1) <= StartOf(t, y + 1)
        BY <3>4, <3>5, Starts
      <3>8. Extent(SubSeq(t, p, q)) <= Extent(SubSeq(t, x, y))
        <4> DEFINE e == Extent(SubSeq(t, p, q))
                   f == Extent(SubSeq(t, x, y))
                   c == StartOf(t, p)
                   d == StartOf(t, q + 1)
                   g == StartOf(t, x)
                   h == StartOf(t, y + 1)
        <4>1. /\ c \in Nat /\ d \in Nat /\ g \in Nat /\ h \in Nat /\ g <= c /\ d <= h
              /\ e = d - c - 1 /\ f = h - g - 1
          BY <3>6, <3>7
        <4> HIDE DEF c, d, g, h, e, f
        <4>2. e <= f
          BY <4>1
        <4> QED
          BY <4>2 DEF e, f
      <3> QED
        BY <3>1, <3>3, <3>8
    <2> QED
      BY <2>1, <2>2
  <1> QED
    BY <1>1, <1>3, <1>4

(* Of lines that are not blank, nothing is stripped.                       *)
LEMMA StrippedWhole ==
    ASSUME NEW t \in Seq(Lines), NEW a \in 1..Len(t), NEW b \in a..Len(t),
           \A i \in a..b : ~Blank(t[i])
    PROVE  Stripped(SubSeq(t, a, b)) = SubSeq(t, a, b)
  <1>1. a \in Nat /\ b \in Nat /\ a <= b /\ a \in a..b /\ b \in a..b
    BY LenProperties
  <1>2. PICK p \in a..b, q \in a..b :
            /\ \A i \in a..b : ~Blank(t[i]) => p <= i /\ i <= q
            /\ Stripped(SubSeq(t, a, b)) = SubSeq(t, p, q)
    BY <1>1, StrippedPart
  <1>3. p <= a /\ b <= q
    BY <1>1, <1>2
  <1>4. p = a /\ q = b
    BY <1>1, <1>3
  <1> QED
    BY <1>2, <1>4

(* The lines in a span that begins with line a, and ends with line b or,   *)
(* where the next line has characters, at that line.                       *)
LEMMA SpanOfLines ==
    ASSUME NEW t \in Seq(Lines), NEW a \in 1..Len(t), NEW b \in a..Len(t), NEW chunk,
           chunk.start = StartOf(t, a),
           \/ chunk.end = StartOf(t, b + 1) - 1
           \/ chunk.end = StartOf(t, b + 1) /\ b < Len(t) /\ t[b + 1].size > 0
    PROVE  InSpan(t, chunk) = a..b
  <1>1. /\ Len(t) \in Nat /\ a \in Nat /\ b \in Nat /\ 1 <= a /\ a <= b /\ b <= Len(t)
        /\ DOMAIN t = 1..Len(t)
    BY LenProperties
  <1>2. \A i \in 1..Len(t) : /\ t[i].size \in Nat /\ StartOf(t, i) \in Nat
                             /\ StartOf(t, i + 1) = StartOf(t, i) + t[i].size + 1
    BY StartsStep
  <1>3. /\ \A i \in 1..(Len(t) + 1) : StartOf(t, i) \in Nat
        /\ \A i, k \in 1..(Len(t) + 1) : i < k => StartOf(t, i) < StartOf(t, k)
        /\ \A i, k \in 1..(Len(t) + 1) : i <= k => StartOf(t, i) <= StartOf(t, k)
    BY Starts
  <1> HIDE DEF StartOf
  <1>4. ASSUME NEW i \in 1..Len(t)
        PROVE  StartOf(t, i) >= chunk.start <=> a <= i
    <2>1. i \in 1..(Len(t) + 1) /\ a \in 1..(Len(t) + 1) /\ i \in Nat
      BY <1>1
    <2>2. StartOf(t, i) \in Nat /\ StartOf(t, a) \in Nat
      BY <1>3, <2>1
    <2>3. CASE a <= i
      BY <1>3, <2>1, <2>2, <2>3
    <2>4. CASE i < a
      BY <1>3, <2>1, <2>2, <2>4
    <2> QED
      BY <1>1, <2>1, <2>3, <2>4
  <1>5. ASSUME NEW i \in 1..Len(t)
        PROVE  StartOf(t, i) + t[i].size <= chunk.end <=> i <= b
    <2>1. /\ i \in Nat /\ i + 1 \in 1..(Len(t) + 1) /\ b + 1 \in 1..(Len(t) + 1)
          /\ i \in 1..(Len(t) + 1)
      BY <1>1
    <2>2. /\ StartOf(t, i) \in Nat /\ StartOf(t, i + 1) \in Nat /\ StartOf(t, b + 1) \in Nat
          /\ t[i].size \in Nat /\ StartOf(t, i) + t[i].size = StartOf(t, i + 1) - 1
      <3>1. StartOf(t, i + 1) \in Nat /\ StartOf(t, b + 1) \in Nat
        BY <1>3, <2>1
      <3>2. /\ t[i].size \in Nat /\ StartOf(t, i) \in Nat
            /\ StartOf(t, i + 1) = StartOf(t, i) + t[i].size + 1
        BY <1>2
      <3> DEFINE x == StartOf(t, i)
                 y == StartOf(t, i + 1)
                 z == t[i].size
      <3>3. x \in Nat /\ z \in Nat /\ y = x + z + 1
        BY <3>2
      <3> HIDE DEF x, y, z
      <3>4. x + z = y - 1
        BY <3>3
      <3> QED
        BY <3>1, <3>2, <3>4 DEF x, y, z
    <2>3. CASE i <= b
      <3>1. StartOf(t, i + 1) <= StartOf(t, b + 1)
        BY <1>1, <1>3, <2>1, <2>3
      <3> QED
        BY <2>2, <2>3, <3>1
    <2>4. CASE b < i
      <3>1. StartOf(t, b + 1) < StartOf(t, i + 1)
        BY <1>1, <1>3, <2>1, <2>4
      <3>2. CASE chunk.end = StartOf(t, b + 1) - 1
        <4>1. ~(StartOf(t, i) + t[i].size <= chunk.end)
          BY <2>2, <3>1, <3>2
        <4> QED
          BY <1>1, <2>1, <2>4, <4>1
      <3>3. CASE chunk.end = StartOf(t, b + 1) /\ b < Len(t) /\ t[b + 1].size > 0
        <4>1. /\ b + 1 \in 1..Len(t) /\ b + 1 <= i
          BY <1>1, <2>1, <2>4, <3>3
        <4>2. /\ StartOf(t, b + 1) < StartOf(t, (b + 1) + 1) - 1
              /\ StartOf(t, (b + 1) + 1) \in Nat
          <5>1. StartOf(t, (b + 1) + 1) = StartOf(t, b + 1) + t[b + 1].size + 1
            BY <1>2, <4>1
          <5>2. t[b + 1].size \in Nat
            BY <1>2, <4>1
          <5> DEFINE x == StartOf(t, b + 1)
                     y == StartOf(t, (b + 1) + 1)
                     z == t[b + 1].size
          <5>3. x \in Nat /\ z \in Nat /\ z > 0 /\ y = x + z + 1
            BY <2>2, <3>3, <5>1, <5>2
          <5> HIDE DEF x, y, z
          <5>4. x < y - 1 /\ y \in Nat
            BY <5>3
          <5> QED
            BY <5>4 DEF x, y
        <4>3. StartOf(t, (b + 1) + 1) <= StartOf(t, i + 1)
          <5>1. (b + 1) + 1 \in 1..(Len(t) + 1) /\ (b + 1) + 1 <= i + 1
            BY <1>1, <2>1, <4>1
          <5> QED
            BY <1>3, <2>1, <5>1
        <4>4. ~(StartOf(t, i) + t[i].size <= chunk.end)
          BY <2>2, <3>3, <4>2, <4>3
        <4> QED
          BY <1>1, <2>1, <2>4, <4>4
      <3> QED
        BY <3>2, <3>3
    <2> QED
      BY <1>1, <2>1, <2>3, <2>4
  <1>6. InSpan(t, chunk) = {i \in 1..Len(t) : a <= i /\ i <= b}
    BY <1>1, <1>4, <1>5 DEF InSpan
  <1> QED
    BY <1>1, <1>6

(* Listing the lines from a to b gives the document from a to b.           *)
LEMMA CutOut ==
    ASSUME NEW t \in Seq(Lines), NEW a \in 1..Len(t), NEW b \in a..Len(t)
    PROVE  [n \in 1..Cardinality(a..b) |-> t[InOrder(a..b)[n]]] = SubSeq(t, a, b)
  <1> DEFINE k == (b - a) + 1
             list == [n \in 1..Cardinality(a..b) |-> t[InOrder(a..b)[n]]]
             part == SubSeq(t, a, b)
  <1>1. a \in Nat /\ b \in Nat /\ a <= b /\ k \in Nat
    BY LenProperties
  <1>2. Cardinality(a..b) = k /\ \A n \in 1..k : InOrder(a..b)[n] = (a + n) - 1
    BY <1>1, InOrderOfInterval
  <1>3. /\ part \in Seq(Lines) /\ Len(part) = k
        /\ \A n \in 1..k : part[n] = t[(a + n) - 1]
    BY PartOf
  <1> HIDE DEF k, part
  <1>4. \A n \in 1..k : list[n] = part[n]
    BY <1>2, <1>3
  <1>5. list \in [1..k -> Lines]
    <2>1. \A n \in 1..k : t[InOrder(a..b)[n]] \in Lines
      BY <1>2, <1>3, ElementOfSeq
    <2> HIDE DEF InOrder
    <2> QED
      BY <1>2, <2>1
  <1> HIDE DEF list
  <1>6. list \in Seq(Lines) /\ Len(list) = k
    BY <1>1, <1>5
  <1>7. list = part
    BY <1>3, <1>4, <1>6, SeqEqual
  <1> QED
    BY <1>7 DEF list, part

(* When spans are of lines a to b, one after another, and what is in none  *)
(* is short, they fit.                                                     *)
LEMMA SpansTogether ==
    ASSUME NEW t \in Seq(Lines), NEW cs,
           \A n \in DOMAIN cs : \E a \in 1..Len(t), b \in 1..Len(t) :
                /\ a <= b /\ InSpan(t, cs[n]) = a..b
                /\ cs[n].lines = Stripped(SubSeq(t, a, b)),
           \A n \in DOMAIN cs : n > 1 => cs[n - 1].end <= cs[n].start,
           \A i, k \in 1..Len(t) :
                /\ i <= k /\ OneUnit(t, i, k)
                /\ \A n \in DOMAIN cs : i \notin InSpan(t, cs[n])
                => Extent(Stripped(SubSeq(t, i, k))) <= MinChunk
    PROVE  SpansFit(t, cs)
  <1> DEFINE Own(c) == Stripped([n \in 1..Cardinality(InSpan(t, c)) |->
                            t[InOrder(InSpan(t, c))[n]]])
             covered == UNION {InSpan(t, cs[n]) : n \in DOMAIN cs}
  <1>1. DOMAIN t = 1..Len(t) /\ Len(t) \in Nat
    BY LenProperties
  <1>2. ASSUME NEW n \in DOMAIN cs PROVE Own(cs[n]) = cs[n].lines
    <2>1. PICK a \in 1..Len(t), b \in 1..Len(t) :
            /\ a <= b /\ InSpan(t, cs[n]) = a..b
            /\ cs[n].lines = Stripped(SubSeq(t, a, b))
      OBVIOUS
    <2>2. b \in a..Len(t)
      BY <1>1, <2>1
    <2>3. [m \in 1..Cardinality(a..b) |-> t[InOrder(a..b)[m]]] = SubSeq(t, a, b)
      BY <2>2, CutOut
    <2> QED
      BY <2>1, <2>3
  <1>3. \A i \in DOMAIN t \ covered : \A n \in DOMAIN cs : i \notin InSpan(t, cs[n])
    OBVIOUS
  <1>4. \A i, k \in DOMAIN t \ covered :
            i <= k /\ OneUnit(t, i, k) => Extent(Stripped(SubSeq(t, i, k))) <= MinChunk
    <2> HIDE DEF covered
    <2> QED
      BY <1>1, <1>3
  <1> HIDE DEF Own, covered
  <1>5. \A n \in DOMAIN cs : Own(cs[n]) = cs[n].lines /\ (n > 1 => cs[n - 1].end <= cs[n].start)
    BY <1>2
  <1> QED
    BY <1>4, <1>5 DEF SpansFit, Own, covered

(* The matches of SECTION_PATTERN, in the document's order.                *)
LEMMA HeadsFit ==
    ASSUME NEW t \in Seq(Lines)
    PROVE  LET heads == Heads(t) IN
           /\ Len(heads) \in Nat /\ DOMAIN heads = 1..Len(heads)
           /\ \A n \in 1..Len(heads) : heads[n] \in 1..Len(t) /\ t[heads[n]].kind = "head"
           /\ \A n, m \in 1..Len(heads) : n < m <=> heads[n] < heads[m]
           /\ \A i \in 1..Len(t) : t[i].kind = "head" => \E n \in 1..Len(heads) : heads[n] = i
           /\ heads = <<>> <=> \A i \in 1..Len(t) : t[i].kind # "head"
  <1> DEFINE S == {i \in DOMAIN t : t[i].kind = "head"}
             heads == Heads(t)
  <1>1. DOMAIN t = 1..Len(t) /\ Len(t) \in Nat
    BY LenProperties
  <1>2. S \in SUBSET Nat /\ IsFiniteSet(S)
    <2>1. IsFiniteSet(1..Len(t))
      BY <1>1, 1 \in Int, Len(t) \in Int, FS_Interval
    <2>2. S \in SUBSET (1..Len(t)) /\ 1..Len(t) \subseteq Nat
      BY <1>1
    <2> HIDE DEF S
    <2> QED
      BY <2>1, <2>2, FS_Subset
  <1>3. heads = InOrder(S)
    BY DEF Heads
  <1>4. \A i \in S : i \in 1..Len(t) /\ t[i].kind = "head"
    BY <1>1
  <1>5. \A i \in 1..Len(t) : t[i].kind = "head" => i \in S
    BY <1>1
  <1> HIDE DEF S, heads
  <1>6. /\ heads \in Seq(S) /\ heads \in [1..Len(heads) -> S]
        /\ Len(heads) \in Nat /\ DOMAIN heads = 1..Len(heads)
        /\ \A n, m \in 1..Len(heads) : n < m <=> heads[n] < heads[m]
        /\ \A i \in S : \E n \in 1..Len(heads) : heads[n] = i
    BY <1>2, <1>3, InOrderFits
  <1>7. \A n \in 1..Len(heads) : heads[n] \in S
    BY <1>6
  <1>8. heads = <<>> <=> Len(heads) = 0
    BY <1>6, EmptySeq
  <1>9. heads = <<>> <=> S = {}
    <2>1. Len(heads) # 0 => 1 \in 1..Len(heads)
      BY <1>6
    <2>2. Len(heads) = 0 => 1..Len(heads) = {}
      OBVIOUS
    <2> QED
      BY <1>6, <1>7, <1>8, <2>1, <2>2
  <1> QED
    BY <1>4, <1>5, <1>6, <1>7, <1>9 DEF heads

(* Long keeps of cs the chunks at the places kept.                         *)
Keeps(kept, cs, k) ==
    /\ Len(kept) \in Nat /\ DOMAIN Long(cs) = 1..Len(kept)
    /\ \A n \in 1..Len(kept) : /\ kept[n] \in 1..k /\ Long(cs)[n] = cs[kept[n]]
                               /\ Extent(cs[kept[n]].lines) > MinChunk
    /\ \A n, m \in 1..Len(kept) : n < m <=> kept[n] < kept[m]
    /\ \A i \in 1..k : Extent(cs[i].lines) > MinChunk =>
            \E n \in 1..Len(kept) : kept[n] = i
    /\ Long(cs) = [n \in 1..Len(kept) |-> cs[kept[n]]]

(* Some places are kept, in order, and they are those of long chunks.      *)
LEMMA LongFits ==
    ASSUME NEW k \in Nat, NEW cs, DOMAIN cs = 1..k
    PROVE  \E kept : Keeps(kept, cs, k)
  <1> DEFINE S == {n \in DOMAIN cs : Extent(cs[n].lines) > MinChunk}
             kept == InOrder(S)
  <1>1. S \in SUBSET Nat /\ IsFiniteSet(S)
    <2>1. IsFiniteSet(1..k)
      BY 1 \in Int, k \in Int, FS_Interval
    <2>2. S \in SUBSET (1..k) /\ 1..k \subseteq Nat
      OBVIOUS
    <2> HIDE DEF S
    <2> QED
      BY <2>1, <2>2, FS_Subset
  <1>2. Long(cs) = [n \in DOMAIN kept |-> cs[kept[n]]]
    BY DEF Long
  <1>3. \A i \in S : i \in 1..k /\ Extent(cs[i].lines) > MinChunk
    OBVIOUS
  <1>4. \A i \in 1..k : Extent(cs[i].lines) > MinChunk => i \in S
    OBVIOUS
  <1> HIDE DEF S
  <1>5. /\ kept \in [1..Len(kept) -> S]
        /\ Len(kept) \in Nat /\ DOMAIN kept = 1..Len(kept)
        /\ \A n, m \in 1..Len(kept) : n < m <=> kept[n] < kept[m]
        /\ \A i \in S : \E n \in 1..Len(kept) : kept[n] = i
    BY <1>1, InOrderFits
  <1> HIDE DEF kept
  <1>6. \A n \in 1..Len(kept) : kept[n] \in S
    BY <1>5
  <1>7. DOMAIN Long(cs) = 1..Len(kept) /\ \A n \in 1..Len(kept) : Long(cs)[n] = cs[kept[n]]
    BY <1>2, <1>5
  <1>8. Long(cs) = [n \in 1..Len(kept) |-> cs[kept[n]]]
    BY <1>2, <1>5
  <1>9. Keeps(kept, cs, k)
    BY <1>3, <1>4, <1>5, <1>6, <1>7, <1>8 DEF Keeps
  <1> QED
    BY <1>9

(* The chunks of a document that has sections: a section reaches to the    *)
(* next one's head, and the last to the end.                               *)
LEMMA SectionsFit ==
    ASSUME NEW t \in Seq(Lines), Heads(t) # <<>>
    PROVE  SectionChunks(t) \in Seq(Chunk) /\ SpansFit(t, SectionChunks(t))
  <1> DEFINE heads == Heads(t)
             h == Len(heads)
             next(n) == IF n < h THEN heads[n + 1] ELSE Len(t) + 1
             last(n) == next(n) - 1
             section(n) == [lines |-> Stripped(SubSeq(t, heads[n], last(n))),
                            start |-> StartOf(t, heads[n]),
                            end |-> IF n < h THEN StartOf(t, next(n)) ELSE Extent(t)]
             sections == [n \in DOMAIN heads |-> section(n)]
             cs == SectionChunks(t)
  <1>1. /\ Len(t) \in Nat /\ DOMAIN t = 1..Len(t)
        /\ \A i \in 1..Len(t) : t[i] \in Lines
    BY LenProperties, ElementOfSeq
  <1>2. /\ h \in Nat /\ DOMAIN heads = 1..h
        /\ \A n \in 1..h : heads[n] \in 1..Len(t) /\ t[heads[n]].kind = "head"
        /\ \A n, m \in 1..h : n < m <=> heads[n] < heads[m]
        /\ \A i \in 1..Len(t) : t[i].kind = "head" => \E n \in 1..h : heads[n] = i
    BY HeadsFit
  <1>3. cs = Long(sections)
    BY DEF SectionChunks
  <1> HIDE DEF heads, h
  <1>4. ASSUME NEW n \in 1..h
        PROVE  /\ last(n) \in 1..Len(t) /\ heads[n] <= last(n) /\ last(n) + 1 = next(n)
               /\ n < h => /\ last(n) < Len(t) /\ t[last(n) + 1].size > 0
                           /\ n + 1 \in 1..h /\ next(n) = heads[n + 1]
               /\ ~(n < h) => last(n) = Len(t)
    <2>1. CASE n < h
      <3>1. n + 1 \in 1..h /\ next(n) = heads[n + 1]
        BY <1>2, <2>1
      <3>2. n < n + 1
        BY <1>2
      <3>3. heads[n] \in 1..Len(t) /\ heads[n + 1] \in 1..Len(t) /\ heads[n] < heads[n + 1]
        BY <1>2, <3>1, <3>2
      <3>4. last(n) + 1 = heads[n + 1] /\ last(n) \in 1..Len(t) /\ heads[n] <= last(n)
            /\ last(n) < Len(t)
        BY <1>1, <3>1, <3>3
      <3>5. t[heads[n + 1]].size > 0
        BY <1>1, <1>2, <3>1, <3>3 DEF Lines
      <3> QED
        BY <2>1, <3>1, <3>4, <3>5
    <2>2. CASE ~(n < h)
      <3>1. next(n) = Len(t) + 1 /\ last(n) = Len(t) /\ heads[n] \in 1..Len(t)
        BY <1>1, <1>2, <2>2
      <3> QED
        BY <1>1, <2>2, <3>1
    <2> QED
      BY <2>1, <2>2
  <1>5. DOMAIN sections = 1..h /\ \A n \in 1..h : sections[n] = section(n)
    BY <1>2
  <1> HIDE DEF next
  <1>6. ASSUME NEW n \in 1..h
        PROVE  /\ sections[n] \in Chunk
               /\ InSpan(t, sections[n]) = heads[n]..last(n)
               /\ sections[n].lines = Stripped(SubSeq(t, heads[n], last(n)))
               /\ sections[n].start = StartOf(t, heads[n])
               /\ n < h => sections[n].end = StartOf(t, heads[n + 1])
    <2> DEFINE a == heads[n]
               b == last(n)
    <2>1. /\ a \in 1..Len(t) /\ b \in a..Len(t) /\ b + 1 = next(n) /\ b \in Nat
          /\ n < h => b < Len(t) /\ t[b + 1].size > 0 /\ next(n) = heads[n + 1]
          /\ ~(n < h) => b = Len(t)
      <3>1. a \in 1..Len(t)
        BY <1>2
      <3>2. b \in 1..Len(t) /\ a <= b
        BY <1>4
      <3>3. b \in a..Len(t) /\ b \in Nat
        BY <1>1, <3>1, <3>2
      <3> QED
        BY <1>4, <3>1, <3>3
    <2>1a. /\ Len(t) \in Nat /\ a \in Nat /\ b \in Nat /\ 1 <= a /\ a <= b /\ b <= Len(t)
      <3>1. Len(t) \in Nat /\ a \in 1..Len(t) /\ b \in a..Len(t)
        BY <1>1, <2>1
      <3> HIDE DEF a, b
      <3> QED
        BY <3>1
    <2>1b. ~(n < h) => b = Len(t)
      BY <2>1
    <2>2. sections[n] = section(n)
      BY <1>5
    <2> HIDE DEF a, b, sections
    <2>3. sections[n] = [lines |-> Stripped(SubSeq(t, a, b)), start |-> StartOf(t, a),
                         end |-> IF n < h THEN StartOf(t, b + 1) ELSE Extent(t)]
      BY <2>1, <2>2 DEF a, b
    <2>4. /\ StartOf(t, a) \in Nat /\ StartOf(t, b + 1) \in Nat
          /\ Stripped(SubSeq(t, a, b)) \in Seq(Lines)
      <3>1. a \in 1..(Len(t) + 1) /\ b + 1 \in 1..(Len(t) + 1)
        BY <2>1a
      <3>2. b \in a..b /\ a \in a..b
        BY <2>1a
      <3> QED
        BY <2>1, <3>1, <3>2, Starts, StrippedGrows
    <2>5. ~(n < h) => Extent(t) = StartOf(t, b + 1) - 1
      <3> SUFFICES ASSUME ~(n < h) PROVE Extent(t) = StartOf(t, b + 1) - 1
        OBVIOUS
      <3>1. b = Len(t) /\ (b + 1) - 1 = Len(t)
        BY <2>1a, <2>1b
      <3>2. StartOf(t, b + 1) = Chars(t)
        BY <3>1, SubSeqFull DEF StartOf
      <3>3. t # <<>>
        BY <1>1, <2>1, EmptySeq
      <3> QED
        BY <3>2, <3>3 DEF Extent
    <2> HIDE DEF StartOf, Extent
    <2>6. /\ sections[n].start = StartOf(t, a)
          /\ sections[n].lines = Stripped(SubSeq(t, a, b))
          /\ sections[n].end = IF n < h THEN StartOf(t, b + 1) ELSE StartOf(t, b + 1) - 1
      BY <2>3, <2>5
    <2>7. sections[n] \in Chunk
      <3>1. (IF n < h THEN StartOf(t, b + 1) ELSE Extent(t)) \in Int
        BY <2>4, <2>5
      <3>2. StartOf(t, a) \in Int
        BY <2>4
      <3> QED
        BY <2>3, <2>4, <3>1, <3>2 DEF Chunk
    <2>8. InSpan(t, sections[n]) = a..b
      <3>1. CASE n < h
        BY <2>1, <2>6, <3>1, SpanOfLines
      <3>2. CASE ~(n < h)
        BY <2>1, <2>6, <3>2, SpanOfLines
      <3> QED
        BY <3>1, <3>2
    <2> QED
      BY <2>1, <2>6, <2>7, <2>8 DEF a, b
  <1> HIDE DEF sections, cs, last
  <1>7a. PICK kept : Keeps(kept, sections, h)
    <2>1. h \in Nat /\ DOMAIN sections = 1..h
      BY <1>2, <1>5
    <2> QED
      BY <2>1, LongFits
  <1>7. /\ Len(kept) \in Nat /\ DOMAIN cs = 1..Len(kept)
        /\ \A n \in 1..Len(kept) : kept[n] \in 1..h /\ cs[n] = sections[kept[n]]
        /\ \A n, m \in 1..Len(kept) : n < m <=> kept[n] < kept[m]
        /\ \A i \in 1..h : Extent(sections[i].lines) > MinChunk =>
                    \E n \in 1..Len(kept) : kept[n] = i
        /\ cs = [n \in 1..Len(kept) |-> sections[kept[n]]]
    BY <1>3, <1>7a DEF Keeps
  <1>8. cs \in Seq(Chunk)
    <2>1. \A n \in 1..Len(kept) : sections[kept[n]] \in Chunk
      BY <1>6, <1>7
    <2>2. cs \in [1..Len(kept) -> Chunk]
      BY <1>7, <2>1
    <2> QED
      BY <1>7, <2>2
  <1>9. ASSUME NEW n \in DOMAIN cs
        PROVE  \E a \in 1..Len(t), b \in 1..Len(t) :
                    /\ a <= b /\ InSpan(t, cs[n]) = a..b
                    /\ cs[n].lines = Stripped(SubSeq(t, a, b))
    <2>1. kept[n] \in 1..h /\ cs[n] = sections[kept[n]]
      BY <1>7
    <2>2. /\ heads[kept[n]] \in 1..Len(t) /\ last(kept[n]) \in 1..Len(t)
          /\ heads[kept[n]] <= last(kept[n])
      BY <1>2, <1>4, <2>1
    <2> QED
      BY <1>6, <2>1, <2>2
  <1>10. ASSUME NEW n \in DOMAIN cs, n > 1 PROVE cs[n - 1].end <= cs[n].start
    <2>1. n \in 1..Len(kept) /\ n - 1 \in 1..Len(kept) /\ n - 1 < n
      BY <1>7, <1>10
    <2> DEFINE x == kept[n - 1]
               y == kept[n]
    <2>2. x \in 1..h /\ y \in 1..h /\ x < y /\ cs[n - 1] = sections[x] /\ cs[n] = sections[y]
      BY <1>7, <2>1
    <2> HIDE DEF x, y
    <2>3. x < h /\ x + 1 \in 1..h /\ x + 1 <= y
      BY <1>2, <2>2
    <2>4. /\ cs[n - 1].end = StartOf(t, heads[x + 1])
          /\ cs[n].start = StartOf(t, heads[y])
      BY <1>6, <2>2, <2>3
    <2>5. heads[x + 1] <= heads[y]
      <3>1. ~(y < x + 1)
        BY <1>2, <2>2, <2>3
      <3>2. ~(heads[y] < heads[x + 1])
        BY <1>2, <2>2, <2>3, <3>1
      <3> QED
        BY <1>1, <1>2, <2>2, <2>3, <3>2
    <2>6. heads[x + 1] \in 1..(Len(t) + 1) /\ heads[y] \in 1..(Len(t) + 1)
      BY <1>1, <1>2, <2>2, <2>3
    <2> QED
      BY <2>4, <2>5, <2>6, Starts
  <1>11. ASSUME NEW i \in 1..Len(t), NEW k \in 1..Len(t), i <= k, OneUnit(t, i, k),
                \A n \in DOMAIN cs : i \notin InSpan(t, cs[n])
         PROVE  Extent(Stripped(SubSeq(t, i, k))) <= MinChunk
    <2>1. /\ \E m \in 1..i : t[m].kind = "head"
          /\ \A l \in (i + 1)..k : t[l].kind # "head"
      BY <1>11 DEF OneUnit
    <2> DEFINE S == {n \in 1..h : heads[n] <= i}
               n == Greatest(S)
    <2>2. S \in SUBSET (0..h) /\ S # {}
      <3>1. PICK m \in 1..i : t[m].kind = "head"
        BY <2>1
      <3>2. m \in 1..Len(t) /\ m <= i
        BY <1>1, <1>11
      <3>3. PICK p \in 1..h : heads[p] = m
        BY <1>2, <3>1, <3>2
      <3>4. p \in S
        BY <3>2, <3>3
      <3>5. \A q \in S : q \in 0..h
        BY <1>2
      <3> QED
        BY <3>4, <3>5
    <2>3. n \in 1..h /\ heads[n] <= i /\ \A m \in 1..h : heads[m] <= i => m <= n
      <3>1. n \in S /\ \A m \in S : m <= n
        <4> HIDE DEF S
        <4> QED
          BY <1>2, <2>2, GreatestFits
      <3> HIDE DEF n
      <3> QED
        BY <3>1
    <2> HIDE DEF S, n
    <2>4. k <= last(n)
      <3>1. CASE n < h
        <4>1. n + 1 \in 1..h /\ last(n) + 1 = heads[n + 1] /\ last(n) \in 1..Len(t)
          BY <1>4, <2>3, <3>1
        <4>2. ~(heads[n + 1] <= i)
          <5>1. ~(n + 1 <= n)
            BY <1>2, <2>3
          <5> QED
            BY <2>3, <4>1, <5>1
        <4>3. heads[n + 1] \in 1..Len(t) /\ t[heads[n + 1]].kind = "head"
          BY <1>2, <4>1
        <4>4. heads[n + 1] \notin (i + 1)..k
          BY <2>1, <4>3
        <4> QED
          BY <1>1, <4>1, <4>2, <4>3, <4>4
      <3>2. CASE ~(n < h)
        BY <1>1, <1>4, <2>3, <3>2
      <3> QED
        BY <3>1, <3>2
    <2> DEFINE a == heads[n]
               b == last(n)
    <2>5. /\ a \in 1..Len(t) /\ b \in 1..Len(t) /\ b \in a..Len(t) /\ i \in a..b /\ k \in i..b
      <3>1. a \in 1..Len(t) /\ b \in 1..Len(t) /\ a <= b
        BY <1>2, <1>4, <2>3
      <3> HIDE DEF a, b
      <3>2. a <= i /\ k <= b
        BY <2>3, <2>4 DEF a, b
      <3> QED
        BY <1>1, <1>11, <3>1, <3>2
    <2>6. InSpan(t, sections[n]) = a..b /\ sections[n].lines = Stripped(SubSeq(t, a, b))
      BY <1>6, <2>3
    <2> HIDE DEF a, b
    <2>7. ~(Extent(sections[n].lines) > MinChunk)
      <3> SUFFICES ASSUME Extent(sections[n].lines) > MinChunk PROVE FALSE
        OBVIOUS
      <3>1. PICK m \in 1..Len(kept) : kept[m] = n
        BY <1>7, <2>3
      <3>2. i \in InSpan(t, cs[m])
        BY <1>7, <2>5, <2>6, <3>1
      <3> QED
        BY <1>7, <1>11, <3>2
    <2>8. /\ Extent(Stripped(SubSeq(t, i, k))) \in Nat
          /\ Extent(Stripped(SubSeq(t, a, b))) \in Nat
          /\ Extent(Stripped(SubSeq(t, i, k))) <= Extent(Stripped(SubSeq(t, a, b)))
      BY <2>5, StrippedGrows
    <2> QED
      BY <2>6, <2>7, <2>8, ChunkerAssumption
  <1>12. SpansFit(t, cs)
    BY <1>9, <1>10, <1>11, SpansTogether
  <1> QED
    BY <1>8, <1>12 DEF cs

(* The paragraphs of t are its lines A[n] to B[n].                         *)
Cuts(t, count, A, B) ==
    /\ Len(Paragraphs(t)) = count
    /\ \A n \in 1..count :
            /\ A[n] \in 1..Len(t) /\ B[n] \in A[n]..Len(t)
            /\ Paragraphs(t)[n] = SubSeq(t, A[n], B[n])
            /\ \A i \in A[n]..B[n] : ~Blank(t[i])
            /\ B[n] < Len(t) => Blank(t[B[n] + 1])
    /\ \A n, m \in 1..count : n < m => B[n] < A[m]
    /\ \A i \in 1..Len(t) : ~Blank(t[i]) => \E n \in 1..count : i \in A[n]..B[n]

(* re.split() cuts at blank lines: between paragraphs there is one, and no *)
(* line that says something is in no paragraph.                            *)
LEMMA ParagraphsCut ==
    ASSUME NEW t \in Seq(Lines)
    PROVE  \E count, A, B : count \in Nat /\ Cuts(t, count, A, B)
  <1> DEFINE Breaks(i) == i \notin DOMAIN t \/ Blank(t[i])
             S == {i \in DOMAIN t : Breaks(i - 1) /\ ~Breaks(i)}
             LastFrom(i) == Least({k \in i..Len(t) : Breaks(k + 1)})
             A == InOrder(S)
             B == [n \in DOMAIN A |-> LastFrom(A[n])]
             count == Len(A)
  <1>1. Len(t) \in Nat /\ DOMAIN t = 1..Len(t)
    BY LenProperties
  <1>2. Paragraphs(t) = [n \in DOMAIN A |-> SubSeq(t, A[n], LastFrom(A[n]))]
    BY DEF Paragraphs
  <1>3. \A i : Breaks(i) <=> i \notin 1..Len(t) \/ Blank(t[i])
    BY <1>1
  <1>4. \A i : i \in S <=> i \in 1..Len(t) /\ Breaks(i - 1) /\ ~Breaks(i)
    BY <1>1
  <1>5. S \in SUBSET Nat /\ IsFiniteSet(S)
    <2>1. IsFiniteSet(1..Len(t))
      BY <1>1, 1 \in Int, Len(t) \in Int, FS_Interval
    <2>2. S \in SUBSET (1..Len(t)) /\ 1..Len(t) \subseteq Nat
      BY <1>1
    <2> HIDE DEF S
    <2> QED
      BY <2>1, <2>2, FS_Subset
  <1> HIDE DEF Breaks, S
  <1>6. /\ count \in Nat /\ DOMAIN A = 1..count
        /\ \A n \in 1..count : A[n] \in S
        /\ \A n, m \in 1..count : n < m <=> A[n] < A[m]
        /\ \A i \in S : \E n \in 1..count : A[n] = i
    <2> HIDE DEF A
    <2>1. /\ A \in [1..Len(A) -> S] /\ Len(A) \in Nat /\ DOMAIN A = 1..Len(A)
          /\ \A n, m \in 1..Len(A) : n < m <=> A[n] < A[m]
          /\ \A i \in S : \E n \in 1..Len(A) : A[n] = i
      BY <1>5, InOrderFits DEF A
    <2> QED
      BY <2>1
  <1> HIDE DEF A, LastFrom
  <1>7. ASSUME NEW n \in 1..count
        PROVE  /\ A[n] \in 1..Len(t) /\ B[n] \in A[n]..Len(t) /\ Breaks(A[n] - 1)
               /\ Breaks(B[n] + 1)
               /\ \A i \in A[n]..B[n] : ~Breaks(i)
    <2> DEFINE a == A[n]
               T == {k \in a..Len(t) : Breaks(k + 1)}
               b == Least(T)
    <2>1. a \in 1..Len(t) /\ Breaks(a - 1) /\ ~Breaks(a)
      BY <1>4, <1>6
    <2>2. B[n] = b
      BY <1>6 DEF LastFrom
    <2> HIDE DEF a
    <2>3. T \in SUBSET Nat /\ Len(t) \in T
      <3>1. Len(t) + 1 \notin 1..Len(t) /\ Len(t) \in a..Len(t)
        BY <1>1, <2>1
      <3>2. Breaks(Len(t) + 1)
        BY <1>3, <3>1
      <3>3. a..Len(t) \subseteq Nat
        BY <1>1, <2>1
      <3> QED
        BY <3>1, <3>2, <3>3
    <2>4. b \in T /\ \A k \in T : b <= k
      <3> HIDE DEF T
      <3> QED
        BY <2>3, LeastFits
    <2>5. b \in a..Len(t) /\ Breaks(b + 1) /\ \A k \in a..Len(t) : Breaks(k + 1) => b <= k
      <3> HIDE DEF b
      <3> QED
        BY <2>4
    <2> HIDE DEF T, b
    <2>6. ASSUME NEW i \in a..b PROVE ~Breaks(i)
      <3>1. CASE i = a
        BY <2>1, <3>1
      <3>2. CASE i # a
        <4>1. i - 1 \in a..Len(t) /\ (i - 1) + 1 = i /\ ~(b <= i - 1)
          BY <1>1, <2>1, <2>5, <3>2
        <4> QED
          BY <2>5, <4>1
      <3> QED
        BY <3>1, <3>2
    <2> QED
      BY <2>1, <2>2, <2>5, <2>6 DEF a
  <1>8. ASSUME NEW n \in 1..count, NEW m \in 1..count, n < m PROVE B[n] < A[m]
    <2>1. A[n] < A[m]
      BY <1>6, <1>8
    <2> DEFINE a == A[n]
               b == B[n]
               c == A[m]
    <2>2. /\ a \in 1..Len(t) /\ b \in a..Len(t) /\ c \in 1..Len(t) /\ a < c
          /\ Breaks(c - 1) /\ \A i \in a..b : ~Breaks(i)
      BY <1>7, <2>1
    <2> HIDE DEF a, b, c
    <2>3. c - 1 \notin a..b
      BY <2>2
    <2>4. b < c
      BY <1>1, <2>2, <2>3
    <2> QED
      BY <2>4 DEF b, c
  <1>9. ASSUME NEW i \in 1..Len(t), ~Blank(t[i])
        PROVE  \E n \in 1..count : i \in A[n]..B[n]
    <2> DEFINE T == {k \in 1..i : \A l \in k..i : ~Breaks(l)}
               a == Least(T)
    <2>1. i \in Nat /\ i >= 1 /\ i <= Len(t)
      BY <1>1
    <2>2. ~Breaks(i)
      BY <1>3, <1>9
    <2>3. T \in SUBSET Nat /\ i \in T
      <3>1. i \in 1..i /\ \A l \in i..i : l = i
        BY <2>1
      <3>2. 1..i \subseteq Nat
        OBVIOUS
      <3> QED
        BY <2>2, <3>1, <3>2
    <2>4. a \in T /\ \A k \in T : a <= k
      <3> HIDE DEF T
      <3> QED
        BY <2>3, LeastFits
    <2>5. /\ a \in 1..i /\ \A l \in a..i : ~Breaks(l)
          /\ \A k \in 1..i : (\A l \in k..i : ~Breaks(l)) => a <= k
      <3> HIDE DEF a
      <3> QED
        BY <2>4
    <2> HIDE DEF T, a
    <2>6. Breaks(a - 1)
      <3> SUFFICES ASSUME ~Breaks(a - 1) PROVE FALSE
        OBVIOUS
      <3>1. a - 1 \in 1..Len(t)
        BY <1>3
      <3>2. a - 1 \in 1..i /\ ~(a <= a - 1)
        BY <1>1, <2>1, <2>5, <3>1
      <3>3. \A l \in (a - 1)..i : l = a - 1 \/ l \in a..i
        BY <2>1, <2>5
      <3> QED
        BY <2>5, <3>2, <3>3
    <2>7. a \in S
      <3>1. a \in 1..Len(t) /\ a \in a..i
        BY <1>1, <2>1, <2>5
      <3> QED
        BY <1>4, <2>5, <2>6, <3>1
    <2>8. PICK n \in 1..count : A[n] = a
      BY <1>6, <2>7
    <2> DEFINE b == B[n]
    <2>9. b \in a..Len(t) /\ Breaks(b + 1)
      BY <1>7, <2>8
    <2> HIDE DEF b
    <2>10. b + 1 \notin a..i
      BY <2>5, <2>9
    <2>11. i \in a..b
      BY <1>1, <2>1, <2>5, <2>9, <2>10
    <2> QED
      BY <2>8, <2>11 DEF b
  <1>10. \A n \in 1..count : Paragraphs(t)[n] = SubSeq(t, A[n], B[n])
    BY <1>2, <1>6
  <1>11. Len(Paragraphs(t)) = count
    <2>1. DOMAIN Paragraphs(t) = 1..count
      BY <1>2, <1>6
    <2>2. \A n \in 1..count : Paragraphs(t)[n] \in Seq(Lines)
      <3> SUFFICES ASSUME NEW n \in 1..count PROVE Paragraphs(t)[n] \in Seq(Lines)
        OBVIOUS
      <3> DEFINE a == A[n]
                 b == B[n]
      <3>1. a \in 1..Len(t) /\ b \in a..Len(t) /\ Paragraphs(t)[n] = SubSeq(t, a, b)
        BY <1>7, <1>10
      <3> HIDE DEF a, b
      <3>2. SubSeq(t, a, b) \in Seq(Lines)
        BY <3>1, PartOf
      <3> QED
        BY <3>1, <3>2
    <2> DEFINE list == [n \in 1..count |-> SubSeq(t, A[n], LastFrom(A[n]))]
    <2>3. Paragraphs(t) = list
      BY <1>2, <1>6
    <2>4. ASSUME NEW n \in 1..count PROVE SubSeq(t, A[n], LastFrom(A[n])) \in Seq(Lines)
      <3>1. Paragraphs(t)[n] = SubSeq(t, A[n], LastFrom(A[n]))
        BY <1>2, <1>6
      <3> QED
        BY <2>2, <3>1
    <2>5. list \in [1..count -> Seq(Lines)]
      BY <2>4
    <2> HIDE DEF list
    <2>6. list \in Seq(Seq(Lines)) /\ Len(list) = count
      BY <1>6, <2>5
    <2> QED
      BY <2>3, <2>6
  <1> HIDE DEF B, count
  <1>12. \A n \in 1..count : B[n] < Len(t) => Blank(t[B[n] + 1])
    <2> SUFFICES ASSUME NEW n \in 1..count, B[n] < Len(t) PROVE Blank(t[B[n] + 1])
      OBVIOUS
    <2>1. B[n] + 1 \in 1..Len(t) /\ Breaks(B[n] + 1)
      BY <1>1, <1>7
    <2> QED
      BY <1>3, <2>1
  <1>13. \A n \in 1..count : \A i \in A[n]..B[n] : ~Blank(t[i])
    BY <1>3, <1>7
  <1>14. Cuts(t, count, A, B)
    BY <1>7, <1>8, <1>9, <1>10, <1>11, <1>12, <1>13 DEF Cuts
  <1> QED
    BY <1>6, <1>14 DEF count

(* text.find(), from where the last chunk ended, finds the paragraph       *)
(* itself: any earlier occurrence would lie inside an earlier paragraph,   *)
(* which then is as long, is a chunk, and ends after it.                   *)
LEMMA FoundFits ==
    ASSUME NEW t \in Seq(Lines), NEW count \in Nat, NEW A, NEW B, Cuts(t, count, A, B),
           NEW m \in 1..count, NEW offset \in Int,
           Extent(SubSeq(t, A[m], B[m])) > MinChunk,
           offset <= StartOf(t, A[m]),
           \A p \in 1..count :
                p < m /\ Extent(SubSeq(t, A[p], B[p])) > MinChunk =>
                    StartOf(t, B[p] + 1) - 1 <= offset
    PROVE  Found(t, SubSeq(t, A[m], B[m]), offset) = StartOf(t, A[m])
  <1> DEFINE a == A[m]
             b == B[m]
             para == SubSeq(t, a, b)
             n == Len(para)
             S == {i \in Occurrences(t, para) : StartOf(t, i) >= offset}
  <1>1. /\ Len(t) \in Nat /\ a \in 1..Len(t) /\ b \in a..Len(t)
        /\ \A i \in a..b : ~Blank(t[i])
    BY LenProperties DEF Cuts
  <1>2. \A i \in S : i \in Nat
    BY DEF Occurrences
  <1>3. Found(t, para, offset) = StartOf(t, Least(S))
    BY DEF Found
  <1>4. /\ Extent(para) > MinChunk /\ offset <= StartOf(t, a)
        /\ \A p \in 1..count :
                p < m /\ Extent(SubSeq(t, A[p], B[p])) > MinChunk =>
                    StartOf(t, B[p] + 1) - 1 <= offset
    OBVIOUS
  <1> HIDE DEF a, b
  <1>5. /\ n = (b - a) + 1 /\ n \in Nat /\ n >= 1
        /\ \A i \in 1..n : (a + i) - 1 \in a..b /\ para[i] = t[(a + i) - 1]
        /\ Extent(para) \in Nat
    <2>1. n = (b - a) + 1 /\ \A i \in 1..n : (a + i) - 1 \in a..b /\ para[i] = t[(a + i) - 1]
      BY <1>1, PartOf
    <2>2. (b - a) + 1 \in Nat /\ (b - a) + 1 >= 1
      BY <1>1
    <2>3. Extent(para) \in Nat
      BY <1>1, ExtentOfPart
    <2> HIDE DEF n
    <2> QED
      BY <2>1, <2>2, <2>3
  <1>6. /\ \A i \in 1..(Len(t) + 1) : StartOf(t, i) \in Nat
        /\ \A i, k \in 1..(Len(t) + 1) : i <= k => StartOf(t, i) <= StartOf(t, k)
    BY Starts
  <1>7. a \in S
    <2>1. a \in 1..(Len(t) + 1 - n) /\ a + n - 1 = b
      <3> HIDE DEF n
      <3> QED
        BY <1>1, <1>5
    <2>2. SubSeq(t, a, a + n - 1) = para
      BY <2>1
    <2>3. StartOf(t, a) >= offset
      <3>1. StartOf(t, a) \in Nat
        BY <1>1, <1>6
      <3> QED
        BY <1>4, <3>1
    <2> HIDE DEF para
    <2> QED
      BY <2>1, <2>2, <2>3 DEF Occurrences
  <1>8. ASSUME NEW i \in S, i < a PROVE FALSE
    <2> DEFINE j == i + n - 1
    <2>1. i \in 1..(Len(t) + 1 - n) /\ SubSeq(t, i, j) = para /\ StartOf(t, i) >= offset
      BY DEF Occurrences
    <2> HIDE DEF S, n
    <2>2. i \in 1..Len(t) /\ j \in i..Len(t) /\ n = (j - i) + 1
      <3>1. /\ Len(t) \in Nat /\ n \in Nat /\ n >= 1 /\ i \in 1..(Len(t) + 1 - n)
        BY <1>1, <1>5, <2>1
      <3> QED
        BY <3>1
    <2>3. \A l \in i..j : ~Blank(t[l])
      <3> SUFFICES ASSUME NEW l \in i..j PROVE ~Blank(t[l])
        OBVIOUS
      <3> DEFINE x == (l - i) + 1
      <3>1. x \in 1..n /\ (i + x) - 1 = l
        BY <1>1, <2>2
      <3> HIDE DEF j
      <3>2. \A y \in 1..Len(SubSeq(t, i, j)) : SubSeq(t, i, j)[y] = t[(i + y) - 1]
        BY <2>2, PartOf
      <3>3. x \in 1..Len(SubSeq(t, i, j))
        BY <2>1, <3>1 DEF n
      <3> HIDE DEF x, para
      <3>4. para[x] = t[l]
        BY <2>1, <3>1, <3>2, <3>3
      <3>5. para[x] = t[(a + x) - 1] /\ (a + x) - 1 \in a..b
        BY <1>5, <3>1
      <3> QED
        BY <1>1, <3>4, <3>5
    <2> HIDE DEF j
    <2>4. PICK p \in 1..count : i \in A[p]..B[p]
      <3>1. i \in i..j
        BY <1>1, <2>2
      <3> QED
        BY <2>2, <2>3, <3>1 DEF Cuts
    <2> DEFINE c == A[p]
               d == B[p]
    <2>5. /\ c \in 1..Len(t) /\ d \in c..Len(t) /\ i \in c..d
          /\ d < Len(t) => Blank(t[d + 1])
          /\ m < p => b < c
      BY <2>4 DEF Cuts, b
    <2>6. p # m
      BY <1>1, <1>8, <2>2, <2>4 DEF a
    <2> HIDE DEF c, d
    <2>7. p < m
      <3>1. ~(m < p)
        BY <1>1, <1>8, <2>2, <2>5
      <3> QED
        BY <2>6, <3>1
    <2>8. j <= d
      <3> SUFFICES ASSUME d < j PROVE FALSE
        BY <1>1, <2>2, <2>5
      <3>1. d < Len(t) /\ d + 1 \in i..j
        BY <1>1, <2>2, <2>5
      <3> QED
        BY <2>3, <2>5, <3>1
    <2>9. /\ i \in 1..(Len(t) + 1) /\ c \in 1..(Len(t) + 1) /\ j + 1 \in 1..(Len(t) + 1)
          /\ d + 1 \in 1..(Len(t) + 1) /\ c <= i /\ j + 1 <= d + 1
      BY <1>1, <2>2, <2>5, <2>8
    <2>10. /\ StartOf(t, i) \in Nat /\ StartOf(t, c) \in Nat
           /\ StartOf(t, j + 1) \in Nat /\ StartOf(t, d + 1) \in Nat
           /\ StartOf(t, c) <= StartOf(t, i) /\ StartOf(t, j + 1) <= StartOf(t, d + 1)
      BY <1>6, <2>9
    <2>11. /\ Extent(para) = StartOf(t, j + 1) - StartOf(t, i) - 1
           /\ Extent(SubSeq(t, c, d)) = StartOf(t, d + 1) - StartOf(t, c) - 1
      BY <2>1, <2>2, <2>5, ExtentOfPart
    <2> HIDE DEF para
    <2>12. Extent(SubSeq(t, c, d)) > MinChunk
      BY <1>4, <1>5, <2>10, <2>11, ChunkerAssumption
    <2>13. StartOf(t, d + 1) - 1 <= offset
      BY <1>4, <2>7, <2>12 DEF c, d
    <2> DEFINE x == StartOf(t, i)
               y == StartOf(t, j + 1)
               z == StartOf(t, d + 1)
               e == Extent(para)
    <2>14. /\ x \in Nat /\ y \in Nat /\ z \in Nat /\ y <= z /\ x >= offset /\ z - 1 <= offset
           /\ e = y - x - 1 /\ e > MinChunk /\ e \in Nat /\ MinChunk \in Nat
      BY <1>4, <1>5, <2>1, <2>10, <2>11, <2>13, ChunkerAssumption
    <2> HIDE DEF x, y, z, e
    <2> QED
      BY <2>14
  <1>9. Least(S) = a
    <2>1. Least(S) \in S /\ Least(S) <= a
      <3> HIDE DEF S
      <3>1. S \in SUBSET Nat /\ S # {}
        BY <1>2, <1>7
      <3> QED
        BY <1>7, <3>1, LeastFits
    <2> DEFINE l == Least(S)
    <2>2. l \in S /\ l \in Nat /\ a \in Nat /\ l <= a
      <3> HIDE DEF S
      <3> QED
        BY <1>1, <1>2, <2>1
    <2> HIDE DEF l, S
    <2>3. ~(l < a)
      BY <1>8, <2>2
    <2> QED
      BY <2>2, <2>3 DEF l
  <1> QED
    BY <1>3, <1>9 DEF a, b

Kept(t, A, B, p) == Extent(SubSeq(t, A[p], B[p])) > MinChunk

(* The chunk that paragraph p ought to be.                                 *)
OwnChunk(t, A, B, p) ==
    [lines |-> SubSeq(t, A[p], B[p]), start |-> StartOf(t, A[p]),
     end |-> StartOf(t, B[p] + 1) - 1]

(* The made are those of the first m paragraphs.                         *)
ChunksUpto(t, A, B, m, made) ==
    /\ made \in Seq(Chunk)
    /\ \A i \in 1..Len(made) :
            \E p \in 1..m : Kept(t, A, B, p) /\ made[i] = OwnChunk(t, A, B, p)
    /\ \A i \in 1..Len(made) : i > 1 => made[i - 1].end <= made[i].start
    /\ \A p \in 1..m : Kept(t, A, B, p) =>
            /\ \E i \in 1..Len(made) : made[i] = OwnChunk(t, A, B, p)
            /\ OwnChunk(t, A, B, p).end <= Last(made).end

(* The loop of ParagraphChunks.                                            *)
AddChunk(t, made, para) ==
    LET start == Found(t, para, IF made = <<>> THEN 0 ELSE Last(made).end)
    IN  IF Extent(para) <= MinChunk THEN made
        ELSE Append(made, [lines |-> para, start |-> start, end |-> start + Extent(para)])

(* A paragraph's chunk ends before the next paragraph begins.              *)
LEMMA OwnChunkFits ==
    ASSUME NEW t \in Seq(Lines), NEW count \in Nat, NEW A, NEW B, Cuts(t, count, A, B),
           NEW p \in 1..count
    PROVE  LET own == OwnChunk(t, A, B, p) IN
           /\ own \in Chunk /\ own.start \in Nat
           /\ own.end = own.start + Extent(SubSeq(t, A[p], B[p]))
           /\ Extent(SubSeq(t, A[p], B[p])) \in Nat
           /\ own.end \in Nat
           /\ \A m \in 1..count : p < m => own.end <= StartOf(t, A[m])
  <1> DEFINE a == A[p]
             b == B[p]
             own == OwnChunk(t, A, B, p)
  <1>1. /\ Len(t) \in Nat /\ a \in 1..Len(t) /\ b \in a..Len(t)
    BY LenProperties DEF Cuts
  <1>2. /\ own.start = StartOf(t, a) /\ own.end = StartOf(t, b + 1) - 1
        /\ own = [lines |-> SubSeq(t, a, b), start |-> StartOf(t, a),
                  end |-> StartOf(t, b + 1) - 1]
    BY DEF OwnChunk
  <1> HIDE DEF a, b, own
  <1>3. /\ SubSeq(t, a, b) \in Seq(Lines) /\ Extent(SubSeq(t, a, b)) \in Nat
        /\ Extent(SubSeq(t, a, b)) = StartOf(t, b + 1) - StartOf(t, a) - 1
    BY <1>1, PartOf, ExtentOfPart
  <1>4. /\ a \in 1..(Len(t) + 1) /\ b + 1 \in 1..(Len(t) + 1) /\ a <= b
    BY <1>1
  <1>5. StartOf(t, a) \in Nat /\ StartOf(t, b + 1) \in Nat
    BY <1>4, Starts
  <1> DEFINE x == StartOf(t, a)
             y == StartOf(t, b + 1)
             e == Extent(SubSeq(t, a, b))
  <1>6. /\ x \in Nat /\ y \in Nat /\ e \in Nat /\ e = y - x - 1
    BY <1>3, <1>5
  <1>7. own \in Chunk
    <2>1. x \in Int /\ y - 1 \in Int
      BY <1>5
    <2> HIDE DEF x, y
    <2>2. own = [lines |-> SubSeq(t, a, b), start |-> x, end |-> y - 1]
      BY <1>2 DEF x, y
    <2> QED
      BY <1>3, <2>1, <2>2 DEF Chunk
  <1>8. own.start = x /\ own.end = y - 1
    BY <1>2
  <1> HIDE DEF x, y, e
  <1>9. own.start \in Nat /\ own.end = own.start + e /\ own.end \in Nat
    BY <1>6, <1>8
  <1>10. ASSUME NEW m \in 1..count, p < m PROVE own.end <= StartOf(t, A[m])
    <2> DEFINE c == A[m]
    <2>1. b < c /\ c \in 1..Len(t)
      BY <1>10 DEF Cuts, b
    <2> HIDE DEF c
    <2>2. c \in 1..(Len(t) + 1) /\ b + 1 <= c
      BY <1>1, <2>1
    <2>3. y <= StartOf(t, c) /\ StartOf(t, c) \in Nat
      BY <1>4, <2>2, Starts DEF y
    <2> QED
      BY <1>6, <1>8, <2>3 DEF c
  <1> QED
    BY <1>6, <1>7, <1>9, <1>10 DEF own, e, a, b

(* The loop's step, with the next paragraph.                               *)
LEMMA ChunkAdded ==
    ASSUME NEW t \in Seq(Lines), NEW count \in Nat, NEW A, NEW B, Cuts(t, count, A, B),
           NEW m \in Nat, m + 1 \in 1..count, NEW made, ChunksUpto(t, A, B, m, made)
    PROVE  ChunksUpto(t, A, B, m + 1, AddChunk(t, made, SubSeq(t, A[m + 1], B[m + 1])))
  <1> DEFINE q == m + 1
             para == SubSeq(t, A[q], B[q])
             more == AddChunk(t, made, para)
             Own(p) == OwnChunk(t, A, B, p)
             offset == IF made = <<>> THEN 0 ELSE Last(made).end
  <1>1. /\ made \in Seq(Chunk)
        /\ \A i \in 1..Len(made) :
                \E p \in 1..m : Kept(t, A, B, p) /\ made[i] = Own(p)
        /\ \A i \in 1..Len(made) : i > 1 => made[i - 1].end <= made[i].start
        /\ \A p \in 1..m : Kept(t, A, B, p) =>
                /\ \E i \in 1..Len(made) : made[i] = Own(p)
                /\ Own(p).end <= Last(made).end
    BY DEF ChunksUpto
  <1>2. /\ \A p \in 1..q : p \in 1..m \/ p = q
        /\ \A p \in 1..m : p \in 1..q /\ p \in 1..count /\ p < q
        /\ q \in 1..q /\ q \in 1..count /\ q \in Nat
        /\ \A p \in 1..count : p < q => p \in 1..m
    OBVIOUS
  <1> HIDE DEF q, Own
  <1>3. Extent(para) \in Nat
    BY <1>2, OwnChunkFits DEF q
  <1>4. /\ Len(made) \in Nat /\ (made = <<>> <=> Len(made) = 0)
        /\ made # <<>> => Len(made) \in 1..Len(made)
    BY <1>1, EmptySeq, LenProperties
  <1>5. made # <<>> => \E p \in 1..m : Last(made) = Own(p)
    BY <1>1, <1>4 DEF Last
  <1>6. CASE ~Kept(t, A, B, q)
    <2>1. more = made
      BY <1>3, <1>6, ChunkerAssumption DEF AddChunk, Kept
    <2>2. \A i \in 1..Len(made) :
                \E p \in 1..q : Kept(t, A, B, p) /\ made[i] = Own(p)
      BY <1>1, <1>2
    <2>3. \A p \in 1..q : Kept(t, A, B, p) =>
                /\ \E i \in 1..Len(made) : made[i] = Own(p)
                /\ Own(p).end <= Last(made).end
      BY <1>1, <1>2, <1>6
    <2>4. ChunksUpto(t, A, B, q, more)
      BY <1>1, <2>1, <2>2, <2>3 DEF ChunksUpto, Own
    <2> QED
      BY <2>4 DEF q
  <1>7. CASE Kept(t, A, B, q)
    <2>1. /\ offset \in Int /\ offset <= StartOf(t, A[q])
          /\ made # <<>> => Last(made).end <= StartOf(t, A[q])
      <3>1. CASE made = <<>>
        <4>1. Own(q).start \in Nat /\ Own(q).start = StartOf(t, A[q])
          <5>1. Own(q).start \in Nat
            BY <1>2, OwnChunkFits DEF Own
          <5>2. Own(q).start = StartOf(t, A[q])
            BY DEF Own, OwnChunk
          <5> QED
            BY <5>1, <5>2
        <4> QED
          BY <3>1, <4>1
      <3>2. CASE made # <<>>
        <4>1. PICK p \in 1..m : Last(made) = Own(p)
          BY <1>5, <3>2
        <4>2. Own(p).end <= StartOf(t, A[q]) /\ Own(p).end \in Nat
          BY <1>2, OwnChunkFits DEF Own
        <4> QED
          BY <3>2, <4>1, <4>2
      <3> QED
        BY <3>1, <3>2
    <2>2. ASSUME NEW p \in 1..count, p < q, Kept(t, A, B, p)
          PROVE  StartOf(t, B[p] + 1) - 1 <= offset
      <3>1. p \in 1..m
        BY <1>2, <2>2
      <3>2. PICK i \in 1..Len(made) : made[i] = Own(p)
        BY <1>1, <2>2, <3>1
      <3>3. made # <<>>
        BY <1>4, <3>2
      <3>4. Own(p).end <= Last(made).end
        BY <1>1, <2>2, <3>1
      <3> QED
        BY <3>3, <3>4 DEF Own, OwnChunk
    <2>3. Found(t, para, offset) = StartOf(t, A[q])
      <3> HIDE DEF offset
      <3>1. Extent(SubSeq(t, A[q], B[q])) > MinChunk
        BY <1>7 DEF Kept
      <3>2. \A p \in 1..count :
                p < q /\ Extent(SubSeq(t, A[p], B[p])) > MinChunk =>
                    StartOf(t, B[p] + 1) - 1 <= offset
        BY <2>2 DEF Kept
      <3>3. q \in 1..count
        BY <1>2
      <3> QED
        BY <2>1, <3>1, <3>2, <3>3, FoundFits
    <2>4. more = Append(made, Own(q))
      <3>1. ~(Extent(para) <= MinChunk)
        BY <1>3, <1>7, ChunkerAssumption DEF Kept
      <3>2. more = Append(made, [lines |-> para, start |-> StartOf(t, A[q]),
                                   end |-> StartOf(t, A[q]) + Extent(para)])
        BY <2>3, <3>1 DEF AddChunk
      <3>3. Own(q) = [lines |-> para, start |-> StartOf(t, A[q]),
                      end |-> StartOf(t, A[q]) + Extent(para)]
        <4> DEFINE x == StartOf(t, A[q])
                   y == StartOf(t, B[q] + 1) - 1
                   e == Extent(para)
        <4>1. Own(q).end = Own(q).start + e
          BY <1>2, OwnChunkFits DEF Own
        <4>2. Own(q) = [lines |-> para, start |-> x, end |-> y]
          BY DEF Own, OwnChunk
        <4> HIDE DEF x, y, e, para
        <4>3. y = x + e
          BY <4>1, <4>2
        <4>4. Own(q) = [lines |-> para, start |-> x, end |-> x + e]
          BY <4>2, <4>3
        <4> QED
          BY <4>4 DEF x, e
      <3> QED
        BY <3>2, <3>3
    <2>5. /\ Own(q) \in Chunk /\ Own(q).start = StartOf(t, A[q])
      BY <1>2, OwnChunkFits DEF Own, OwnChunk
    <2> DEFINE k == Len(made)
               own == Own(q)
    <2> HIDE DEF more, own
    <2>6. /\ more \in Seq(Chunk) /\ Len(more) = k + 1 /\ more[k + 1] = own
          /\ \A i \in 1..k : more[i] = made[i]
          /\ Last(more) = own
      <3>1. own \in Chunk /\ more = Append(made, own)
        BY <2>4, <2>5 DEF own
      <3>2. /\ more \in Seq(Chunk) /\ Len(more) = k + 1 /\ more[k + 1] = own
            /\ \A i \in 1..k : more[i] = made[i]
        BY <1>1, <3>1, AppendProperties
      <3> QED
        BY <3>2 DEF Last
    <2>7. ASSUME NEW i \in 1..(k + 1)
          PROVE  i \in 1..k \/ i = k + 1
      BY <1>4
    <2>8. \A i \in 1..(k + 1) : \E p \in 1..q : Kept(t, A, B, p) /\ more[i] = Own(p)
      <3> SUFFICES ASSUME NEW i \in 1..(k + 1)
                   PROVE  \E p \in 1..q : Kept(t, A, B, p) /\ more[i] = Own(p)
        OBVIOUS
      <3>1. CASE i \in 1..k
        BY <1>1, <1>2, <2>6, <3>1
      <3>2. CASE i = k + 1
        BY <1>2, <1>7, <2>6, <3>2 DEF own
      <3> QED
        BY <2>7, <3>1, <3>2
    <2>9. ASSUME NEW i \in 1..(k + 1), i > 1 PROVE more[i - 1].end <= more[i].start
      <3>1. CASE i \in 1..k
        <4>1. i - 1 \in 1..k
          BY <1>4, <2>9, <3>1
        <4> QED
          BY <1>1, <2>6, <2>9, <3>1, <4>1
      <3>2. CASE i = k + 1
        <4>1. k \in 1..k /\ i - 1 = k /\ made # <<>>
          BY <1>4, <2>9, <3>2
        <4>2. more[i - 1] = Last(made)
          BY <2>6, <4>1 DEF Last
        <4> QED
          BY <2>1, <2>5, <2>6, <3>2, <4>1, <4>2 DEF own
      <3> QED
        BY <2>7, <3>1, <3>2
    <2>10. ASSUME NEW p \in 1..q, Kept(t, A, B, p)
           PROVE  /\ \E i \in 1..(k + 1) : more[i] = Own(p)
                  /\ Own(p).end <= Last(more).end
      <3>1. CASE p = q
        <4>1. k + 1 \in 1..(k + 1) /\ own.end \in Nat
          BY <1>2, <1>4, OwnChunkFits DEF own, Own
        <4> QED
          BY <2>6, <3>1, <4>1 DEF own
      <3>2. CASE p \in 1..m
        <4>1. PICK i \in 1..k : made[i] = Own(p)
          BY <1>1, <2>10, <3>2
        <4>2. i \in 1..(k + 1) /\ more[i] = Own(p)
          BY <1>4, <2>6, <4>1
        <4>3. Own(p).end <= StartOf(t, A[q]) /\ Own(p).end \in Nat
          BY <1>2, <3>2, OwnChunkFits DEF Own
        <4>4. StartOf(t, A[q]) <= own.end /\ StartOf(t, A[q]) \in Nat /\ own.end \in Nat
          <5>1. own.end = own.start + Extent(para) /\ own.start \in Nat
            BY <1>2, OwnChunkFits DEF own, Own
          <5> QED
            BY <1>3, <2>5, <5>1 DEF own
        <4> QED
          BY <2>6, <4>2, <4>3, <4>4
      <3> QED
        BY <1>2, <3>1, <3>2
    <2> HIDE DEF k
    <2>11. ChunksUpto(t, A, B, q, more)
      BY <2>6, <2>8, <2>9, <2>10 DEF ChunksUpto, Own
    <2> QED
      BY <2>11 DEF q, more
  <1> QED
    BY <1>6, <1>7

(* The loop, to its end.                                                   *)
LEMMA ParagraphsAdded ==
    ASSUME NEW t \in Seq(Lines), NEW count \in Nat, NEW A, NEW B, Cuts(t, count, A, B)
    PROVE  ChunksUpto(t, A, B, count, ParagraphChunks(t))
  <1> DEFINE para(n) == SubSeq(t, A[n], B[n])
             After(n, made) ==
                IF n \in 1..count /\ AddChunk(t, made, para(n)) \in Seq(Chunk)
                THEN AddChunk(t, made, para(n)) ELSE <<>>
             step == [n \in Nat |-> [made \in Seq(Chunk) |-> After(n, made)]]
             upto[n \in 0..count] ==
                IF n = 0 THEN <<>> ELSE AddChunk(t, upto[n - 1], Paragraphs(t)[n])
  <1>1. <<>> \in Seq(Chunk)
    BY EmptySeq
  <1>2. step \in [Nat -> [Seq(Chunk) -> Seq(Chunk)]]
    <2>1. \A n \in Nat, made \in Seq(Chunk) : After(n, made) \in Seq(Chunk)
      BY <1>1
    <2> HIDE DEF After
    <2> QED
      BY <2>1
  <1>3. PICK g \in [Nat -> Seq(Chunk)] : Recurs(g, <<>>, step)
    <2> HIDE DEF step
    <2> QED
      BY <1>1, <1>2, Recursion
  <1>4. \A n \in 1..count : g[n] = After(n, g[n - 1])
    <2> SUFFICES ASSUME NEW n \in 1..count PROVE g[n] = After(n, g[n - 1])
      OBVIOUS
    <2>1. n \in Nat /\ n - 1 \in Nat /\ n # 0
      OBVIOUS
    <2>2. g[n] = step[n][g[n - 1]] /\ g[n - 1] \in Seq(Chunk)
      <3> HIDE DEF step
      <3> QED
        BY <1>3, <2>1 DEF Recurs
    <2>3. step[n][g[n - 1]] = After(n, g[n - 1])
      <3> HIDE DEF After
      <3> QED
        BY <2>1, <2>2
    <2> QED
      BY <2>2, <2>3
  <1>5. g[0] = <<>>
    BY <1>3 DEF Recurs
  <1> DEFINE S == {n \in Nat : n <= count => ChunksUpto(t, A, B, n, g[n])}
  <1>6. 0 \in S
    <2>1. ChunksUpto(t, A, B, 0, <<>>)
      <3>1. Len(<<>>) = 0 /\ 1..0 = {}
        OBVIOUS
      <3> QED
        BY <1>1, <3>1 DEF ChunksUpto
    <2> QED
      BY <1>5, <2>1
  <1>7. ASSUME NEW n \in Nat, n + 1 <= count, ChunksUpto(t, A, B, n, g[n])
        PROVE  /\ g[n + 1] = AddChunk(t, g[n], para(n + 1))
               /\ ChunksUpto(t, A, B, n + 1, g[n + 1])
    <2>1. n + 1 \in 1..count /\ (n + 1) - 1 = n
      BY <1>7
    <2>2. ChunksUpto(t, A, B, n + 1, AddChunk(t, g[n], para(n + 1)))
      BY <1>7, <2>1, ChunkAdded
    <2>3. AddChunk(t, g[n], para(n + 1)) \in Seq(Chunk)
      BY <2>2 DEF ChunksUpto
    <2>4. g[n + 1] = AddChunk(t, g[n], para(n + 1))
      <3> HIDE DEF para
      <3> QED
        BY <1>4, <2>1, <2>3
    <2> QED
      BY <2>2, <2>4
  <1>8. ASSUME NEW n \in S PROVE n + 1 \in S
    <2> SUFFICES ASSUME n + 1 <= count PROVE ChunksUpto(t, A, B, n + 1, g[n + 1])
      OBVIOUS
    <2>1. n \in Nat /\ n <= count
      OBVIOUS
    <2> QED
      BY <1>7, <1>8, <2>1
  <1>9. S \in SUBSET Nat
    OBVIOUS
  <1> HIDE DEF S
  <1>10. S = Nat
    BY <1>6, <1>8, <1>9, SetInduction
  <1>11. \A n \in Nat : n <= count => ChunksUpto(t, A, B, n, g[n])
    BY <1>10 DEF S
  <1>12. \A n \in 1..count : Paragraphs(t)[n] = para(n)
    BY DEF Cuts
  <1>13. \A n \in 1..count : g[n] = AddChunk(t, g[n - 1], Paragraphs(t)[n])
    <2> SUFFICES ASSUME NEW n \in 1..count
                 PROVE  g[n] = AddChunk(t, g[n - 1], Paragraphs(t)[n])
      OBVIOUS
    <2>1. n - 1 \in Nat /\ (n - 1) + 1 = n /\ (n - 1) + 1 <= count /\ n - 1 <= count
      OBVIOUS
    <2> HIDE DEF para
    <2> QED
      BY <1>7, <1>11, <1>12, <2>1
  <1> HIDE DEF step, After, para
  <1> DEFINE f == [n \in 0..count |-> g[n]]
  <1>14. f[0] = <<>> /\ \A n \in 1..count : f[n] = AddChunk(t, f[n - 1], Paragraphs(t)[n])
    <2>1. f[0] = <<>>
      BY <1>5
    <2>2. ASSUME NEW n \in 1..count PROVE f[n] = AddChunk(t, f[n - 1], Paragraphs(t)[n])
      <3>1. n \in 0..count /\ n - 1 \in 0..count
        OBVIOUS
      <3>2. f[n] = g[n] /\ f[n - 1] = g[n - 1]
        BY <3>1
      <3> HIDE DEF f
      <3> QED
        BY <1>13, <3>2
    <2> QED
      BY <2>1, <2>2
  <1>15. f = [n \in 0..count |-> f[n]]
    OBVIOUS
  <1> HIDE DEF f
  <1>16. f = [n \in 0..count |-> IF n = 0 THEN <<>>
                                 ELSE AddChunk(t, f[n - 1], Paragraphs(t)[n])]
    <2>1. \A n \in 0..count : f[n] = IF n = 0 THEN <<>>
                                     ELSE AddChunk(t, f[n - 1], Paragraphs(t)[n])
      <3>1. \A n \in 0..count : n = 0 \/ n \in 1..count
        OBVIOUS
      <3> QED
        BY <1>14, <3>1
    <2> QED
      BY <1>15, <2>1
  <1>17. upto = [n \in 0..count |-> IF n = 0 THEN <<>>
                                    ELSE AddChunk(t, upto[n - 1], Paragraphs(t)[n])]
    BY <1>16
  <1>18. ParagraphChunks(t) = upto[count]
    BY DEF ParagraphChunks, AddChunk, Cuts
  <1> HIDE DEF upto
  <1>19. upto[0] = <<>> /\ \A n \in 1..count : upto[n] = AddChunk(t, upto[n - 1], Paragraphs(t)[n])
    <2>1. 0 \in 0..count /\ \A n \in 1..count : n \in 0..count /\ n # 0
      OBVIOUS
    <2> QED
      BY <1>17, <2>1
  <1> DEFINE T == {n \in Nat : n <= count => upto[n] = g[n]}
  <1>20. 0 \in T
    BY <1>5, <1>19
  <1>21. ASSUME NEW n \in T PROVE n + 1 \in T
    <2> SUFFICES ASSUME n + 1 <= count PROVE upto[n + 1] = g[n + 1]
      OBVIOUS
    <2>1. n \in Nat /\ n + 1 \in 1..count /\ (n + 1) - 1 = n /\ upto[n] = g[n]
      BY <1>21
    <2> QED
      BY <1>13, <1>19, <2>1
  <1>22. T \in SUBSET Nat
    OBVIOUS
  <1> HIDE DEF T
  <1>23. T = Nat
    BY <1>20, <1>21, <1>22, SetInduction
  <1>24. upto[count] = g[count] /\ ChunksUpto(t, A, B, count, g[count])
    <2>1. count \in T /\ count <= count
      BY <1>23
    <2>2. upto[count] = g[count]
      BY <2>1 DEF T
    <2>3. ChunksUpto(t, A, B, count, g[count])
      BY <1>11, <2>1
    <2> QED
      BY <2>2, <2>3
  <1> QED
    BY <1>18, <1>24

(* The chunks of a document that has no section numbers.                   *)
LEMMA ParagraphsFit ==
    ASSUME NEW t \in Seq(Lines), Heads(t) = <<>>
    PROVE  ParagraphChunks(t) \in Seq(Chunk) /\ SpansFit(t, ParagraphChunks(t))
  <1> DEFINE cs == ParagraphChunks(t)
  <1>1. PICK count, A, B : count \in Nat /\ Cuts(t, count, A, B)
    BY ParagraphsCut
  <1>2. /\ cs \in Seq(Chunk)
        /\ \A i \in 1..Len(cs) :
                \E p \in 1..count : Kept(t, A, B, p) /\ cs[i] = OwnChunk(t, A, B, p)
        /\ \A i \in 1..Len(cs) : i > 1 => cs[i - 1].end <= cs[i].start
        /\ \A p \in 1..count : Kept(t, A, B, p) =>
                \E i \in 1..Len(cs) : cs[i] = OwnChunk(t, A, B, p)
    <2>1. ChunksUpto(t, A, B, count, cs)
      BY <1>1, ParagraphsAdded
    <2> HIDE DEF cs
    <2> QED
      BY <2>1 DEF ChunksUpto
  <1> HIDE DEF cs
  <1>3. DOMAIN cs = 1..Len(cs) /\ Len(t) \in Nat
    BY <1>2, LenProperties
  <1>4. ASSUME NEW p \in 1..count
        PROVE  /\ A[p] \in 1..Len(t) /\ B[p] \in A[p]..Len(t) /\ B[p] \in 1..Len(t)
               /\ A[p] <= B[p]
               /\ InSpan(t, OwnChunk(t, A, B, p)) = A[p]..B[p]
               /\ Stripped(SubSeq(t, A[p], B[p])) = SubSeq(t, A[p], B[p])
               /\ B[p] < Len(t) => Blank(t[B[p] + 1])
    <2> DEFINE a == A[p]
               b == B[p]
               own == OwnChunk(t, A, B, p)
    <2>1. /\ a \in 1..Len(t) /\ b \in a..Len(t) /\ (\A i \in a..b : ~Blank(t[i]))
          /\ b < Len(t) => Blank(t[b + 1])
      BY <1>1 DEF Cuts
    <2>2. own.start = StartOf(t, a) /\ own.end = StartOf(t, b + 1) - 1
      BY DEF OwnChunk
    <2> HIDE DEF a, b, own
    <2>3. b \in 1..Len(t) /\ a <= b
      BY <1>3, <2>1
    <2>4. InSpan(t, own) = a..b
      BY <2>1, <2>2, SpanOfLines
    <2>5. Stripped(SubSeq(t, a, b)) = SubSeq(t, a, b)
      BY <2>1, StrippedWhole
    <2> QED
      BY <2>1, <2>3, <2>4, <2>5 DEF a, b, own
  <1>5. ASSUME NEW n \in DOMAIN cs
        PROVE  \E a \in 1..Len(t), b \in 1..Len(t) :
                    /\ a <= b /\ InSpan(t, cs[n]) = a..b
                    /\ cs[n].lines = Stripped(SubSeq(t, a, b))
    <2>1. PICK p \in 1..count : cs[n] = OwnChunk(t, A, B, p)
      BY <1>2, <1>3
    <2>2. OwnChunk(t, A, B, p).lines = SubSeq(t, A[p], B[p])
      BY DEF OwnChunk
    <2>3. cs[n].lines = SubSeq(t, A[p], B[p])
      BY <2>1, <2>2
    <2>4. InSpan(t, cs[n]) = A[p]..B[p]
      BY <1>4, <2>1
    <2> QED
      BY <1>4, <2>3, <2>4
  <1>6. \A n \in DOMAIN cs : n > 1 => cs[n - 1].end <= cs[n].start
    BY <1>2, <1>3
  <1>7. ASSUME NEW i \in 1..Len(t), NEW k \in 1..Len(t), i <= k, OneUnit(t, i, k),
               \A n \in DOMAIN cs : i \notin InSpan(t, cs[n])
        PROVE  Extent(Stripped(SubSeq(t, i, k))) <= MinChunk
    <2>1. \A l \in i..k : ~Blank(t[l])
      BY <1>7 DEF OneUnit
    <2>2. PICK p \in 1..count : i \in A[p]..B[p]
      <3>1. i \in i..k
        BY <1>3, <1>7
      <3> QED
        BY <1>1, <2>1, <3>1 DEF Cuts
    <2> DEFINE a == A[p]
               b == B[p]
    <2>3. /\ a \in 1..Len(t) /\ b \in a..Len(t) /\ i \in a..b
          /\ InSpan(t, OwnChunk(t, A, B, p)) = a..b
          /\ Stripped(SubSeq(t, a, b)) = SubSeq(t, a, b)
          /\ b < Len(t) => Blank(t[b + 1])
      BY <1>4, <2>2
    <2>4. ~Kept(t, A, B, p)
      <3> SUFFICES ASSUME Kept(t, A, B, p) PROVE FALSE
        OBVIOUS
      <3>1. PICK n \in 1..Len(cs) : cs[n] = OwnChunk(t, A, B, p)
        BY <1>2
      <3> QED
        BY <1>3, <1>7, <2>3, <3>1
    <2>5. ~(Extent(SubSeq(t, a, b)) > MinChunk)
      BY <2>4 DEF Kept
    <2> HIDE DEF a, b
    <2>6. k \in i..b
      <3>1. b + 1 \notin i..k \/ ~(b < Len(t))
        BY <2>1, <2>3
      <3> QED
        BY <1>3, <1>7, <2>3, <3>1
    <2>7. /\ Extent(Stripped(SubSeq(t, i, k))) \in Nat
          /\ Extent(Stripped(SubSeq(t, a, b))) \in Nat
          /\ Extent(Stripped(SubSeq(t, i, k))) <= Extent(Stripped(SubSeq(t, a, b)))
      BY <2>3, <2>6, StrippedGrows
    <2> QED
      BY <2>3, <2>5, <2>7, ChunkerAssumption
  <1>8. SpansFit(t, cs)
    BY <1>5, <1>6, <1>7, SpansTogether
  <1> QED
    BY <1>2, <1>8 DEF cs

(* chunk(): whatever the document, its chunks are typed and their spans    *)
(* fit.                                                                    *)
LEMMA ChunksFit ==
    ASSUME NEW t \in Seq(Lines)
    PROVE  ChunksOf(t) \in Seq(Chunk) /\ SpansFit(t, ChunksOf(t))
  <1>1. CASE Heads(t) = <<>>
    BY <1>1, ParagraphsFit DEF ChunksOf
  <1>2. CASE Heads(t) # <<>>
    BY <1>2, SectionsFit DEF ChunksOf
  <1> QED
    BY <1>1, <1>2

--------------------------------------------------------------------------------

(* The rows that a new circular leaves.                                    *)
LEMMA InsertedRow ==
    ASSUME RowTypes, NEW j \in Jobs, ~Committed(j), Insert(j)
    PROVE  /\ RowTypes'
           /\ DOMAIN supersedes' = DOMAIN supersedes \cup {j}
           /\ supersedes'[j] = None
           /\ \A c \in DOMAIN supersedes : supersedes'[c] = supersedes[c]
  <1>1. /\ DOMAIN supersedes' = DOMAIN supersedes \cup {j}
        /\ supersedes' = [c \in DOMAIN supersedes' |-> supersedes'[c]]
        /\ \A c \in DOMAIN supersedes : supersedes'[c] = supersedes[c]
        /\ supersedes'[j] = None
    BY DEF Insert, Committed
  <1>2. j \in Circulars
    BY DEF Circulars
  <1>3. \A c \in DOMAIN supersedes' : supersedes'[c] \in DOMAIN supersedes' \cup {None}
    BY <1>1 DEF RowTypes
  <1>4. supersedes' \in [DOMAIN supersedes' -> DOMAIN supersedes' \cup {None}]
    BY <1>1, <1>3
  <1> QED
    BY <1>1, <1>2, <1>4 DEF RowTypes

(* ... which supersedes nothing, and which nothing supersedes.             *)
LEMMA InsertedAmends ==
    ASSUME RowTypes, AmendedIffSuperseded, NEW j \in Jobs, ~Committed(j), Insert(j),
           UNCHANGED amended
    PROVE  AmendedIffSuperseded'
  <1>1. /\ DOMAIN supersedes' = DOMAIN supersedes \cup {j}
        /\ supersedes'[j] = None
        /\ \A c \in DOMAIN supersedes : supersedes'[c] = supersedes[c]
    BY InsertedRow
  <1>2. None \notin Circulars /\ j \in Circulars /\ DOMAIN supersedes \subseteq Circulars
    BY CorpusAssumption DEF RowTypes, Circulars
  <1>3. \A c \in DOMAIN supersedes : supersedes[c] # j
    BY <1>2 DEF RowTypes, Committed
  <1>4. \A c \in Circulars : c # j =>
            Superseding(supersedes', c) = Superseding(supersedes, c)
    BY <1>1, <1>2 DEF Superseding, Successors
  <1>5. Superseding(supersedes', j) = {}
    BY <1>1, <1>2, <1>3 DEF Superseding, Successors
  <1> QED
    BY <1>1, <1>2, <1>4, <1>5 DEF AmendedIffSuperseded, Committed

(* Two jobs that other steps leave alone still do not both miss the other. *)
LEMMA OthersMiss ==
    ASSUME MissesOK, NEW m \in Jobs,
           \A j \in Jobs : j # m =>
                /\ pc'[j] = pc[j] /\ looked'[j] = looked[j] /\ refs'[j] = refs[j]
                /\ Unlinked(j)' => Unlinked(j),
           pc'[m] = "ended" /\ Unlinked(m)' => looked'[m] = Len(refs'[m]),
           \A i \in Jobs : i # m /\ Unlinked(i) /\ Unlinked(m)' =>
                ~(LookedUp(i, m)' /\ LookedUp(m, i)')
    PROVE  MissesOK'
  <1>1. ASSUME NEW j \in Jobs, pc'[j] = "ended", Unlinked(j)'
        PROVE  looked'[j] = Len(refs'[j])
    BY <1>1 DEF MissesOK
  <1>2. ASSUME NEW i \in Jobs, NEW j \in Jobs, i # j, Unlinked(i)', Unlinked(j)'
        PROVE  ~(LookedUp(i, j)' /\ LookedUp(j, i)')
    <2>1. CASE i = m \/ j = m
      BY <1>2, <2>1
    <2>2. CASE i # m /\ j # m
      <3>1. (LookedUp(i, j)' <=> LookedUp(i, j)) /\ (LookedUp(j, i)' <=> LookedUp(j, i))
        BY <1>2, <2>2 DEF LookedUp
      <3> QED
        BY <1>2, <2>2, <3>1 DEF MissesOK
    <2> QED
      BY <2>1, <2>2
  <1> QED
    BY <1>1, <1>2 DEF MissesOK

(* A job that has no link, or that is not about to get one, misses none.   *)
LEMMA NothingMissed ==
    ASSUME MissesOK, RowsOK, NEW m \in Jobs, ~Unlinked(m)',
           \A j \in Jobs : j # m =>
                pc'[j] = pc[j] /\ looked'[j] = looked[j] /\ refs'[j] = refs[j]
                /\ chunks'[j] = chunks[j],
           \A j \in Jobs : j # m /\ Committed(j) => supersedes'[j] = supersedes[j]
    PROVE  MissesOK'
  <1>1. \A j \in Jobs : j # m => (Unlinked(j)' => Unlinked(j))
    BY DEF Unlinked, RowsOK
  <1> QED
    BY <1>1, OthersMiss

(* What a job relies on, when another one moves.                           *)
LEMMA OthersRows ==
    ASSUME RowTypes, RowsOK, NEW m \in Jobs,
           \A j \in Jobs : j # m =>
                pc'[j] = pc[j] /\ looked'[j] = looked[j] /\ target'[j] = target[j],
           DOMAIN supersedes \subseteq DOMAIN supersedes',
           DOMAIN supersedes' \subseteq DOMAIN supersedes \cup {m},
           \A c \in DOMAIN supersedes : c # m => supersedes'[c] = supersedes[c],
           Uncommitted(pc'[m]) => ~Committed(m)' /\ looked'[m] = 0,
           Linking(pc'[m]) => Committed(m)' /\ supersedes'[m] = None,
           pc'[m] = "link" => Committed(target[m])',
           pc'[m] = "ended" => Committed(m)'
    PROVE  RowsOK'
  <1> SUFFICES ASSUME NEW j \in Jobs
        PROVE  /\ Uncommitted(pc'[j]) => ~Committed(j)' /\ looked'[j] = 0
               /\ Linking(pc'[j]) => Committed(j)' /\ supersedes'[j] = None
               /\ pc'[j] = "link" => Committed(target[j])'
               /\ pc'[j] = "ended" => Committed(j)'
    BY DEF RowsOK
  <1>1. CASE j = m
    BY <1>1
  <1>2. CASE j # m
    BY <1>2 DEF RowsOK, Committed
  <1> QED
    BY <1>1, <1>2

(* Cut, with and without chunks.                                           *)
LEMMA CutRows == ASSUME RowsInv, NEW j \in Jobs, Cut(j) PROVE RowsInv'
  <1> USE DEF At, Goto
  <1>1. PICK t \in Texts[j] : /\ text' = [text EXCEPT ![j] = t]
                              /\ chunks' = [chunks EXCEPT ![j] = ChunksOf(t)]
    BY DEF Cut
  <1>2. PICK r \in References[j] : refs' = [refs EXCEPT ![j] = r]
    BY DEF Cut
  <1>3. t \in Seq(Lines) /\ r \in Seq(STRING)
    BY CorpusAssumption
  <1>4. ChunksOf(t) \in Seq(Chunk \cup {None})
    <2>1. ChunksOf(t) \in Seq(Chunk)
      BY <1>3, ChunksFit
    <2>2. Chunk \subseteq Chunk \cup {None}
      OBVIOUS
    <2> QED
      BY <2>1, <2>2, SeqMonotonic
  <1>5. /\ pc[j] = "chunk" /\ ~Committed(j) /\ looked[j] = 0
        /\ UNCHANGED <<looked, target, amended>>
    BY DEF Cut, RowsInv, RowsOK, Uncommitted
  <1>6. /\ pc' = [pc EXCEPT ![j] = pc'[j]]
        /\ \/ pc'[j] = "ended" /\ chunks'[j] = <<>> /\ Insert(j)
           \/ pc'[j] = "dense" /\ UNCHANGED supersedes
    <2>1. \/ pc' = [pc EXCEPT ![j] = "ended"] /\ chunks'[j] = <<>> /\ Insert(j)
          \/ pc' = [pc EXCEPT ![j] = "dense"] /\ UNCHANGED supersedes
      <3>1. CASE chunks'[j] = <<>>
        BY <3>1, Zenon DEF Cut
      <3>2. CASE chunks'[j] # <<>>
        BY <3>2, Zenon DEF Cut
      <3> QED
        BY <3>1, <3>2
    <2>2. pc \in [Jobs -> Labels]
      BY DEF RowsInv, JobTypes
    <2> QED
      BY <2>1, <2>2
  <1>7. JobTypes'
    <2>1. text' \in [Jobs -> Seq(Lines)] /\ refs' \in [Jobs -> Seq(STRING)]
      BY <1>1, <1>2, <1>3 DEF RowsInv, JobTypes
    <2>2. chunks' \in [Jobs -> Seq(Chunk \cup {None})]
      BY <1>1, <1>4 DEF RowsInv, JobTypes
    <2>3. pc' \in [Jobs -> Labels]
      BY <1>6 DEF RowsInv, JobTypes, Labels
    <2> QED
      BY <1>5, <2>1, <2>2, <2>3 DEF RowsInv, JobTypes
  <1>8. \A i \in Jobs : i # j =>
            /\ pc'[i] = pc[i] /\ looked'[i] = looked[i] /\ target'[i] = target[i]
            /\ refs'[i] = refs[i] /\ chunks'[i] = chunks[i]
    BY <1>1, <1>2, <1>5, <1>6 DEF RowsInv, JobTypes
  <1>9. ~Unlinked(j)'
    BY <1>6 DEF Unlinked
  <1>10. CASE pc'[j] = "ended" /\ Insert(j)
    <2>1. /\ RowTypes' /\ AmendedIffSuperseded'
          /\ DOMAIN supersedes' = DOMAIN supersedes \cup {j}
          /\ \A c \in DOMAIN supersedes : supersedes'[c] = supersedes[c]
      BY <1>5, <1>10, InsertedRow, InsertedAmends DEF RowsInv
    <2>2. RowsOK'
      <3>1. /\ ~Uncommitted(pc'[j]) /\ ~Linking(pc'[j]) /\ pc'[j] # "link"
            /\ Committed(j)'
        BY <1>10, <2>1 DEF Uncommitted, Linking, Committed
      <3> QED
        BY <1>8, <2>1, <3>1, OthersRows DEF RowsInv
    <2>3. MissesOK'
      BY <1>8, <1>9, <2>1, NothingMissed DEF RowsInv, Committed
    <2> QED
      BY <1>7, <2>1, <2>2, <2>3 DEF RowsInv
  <1>11. CASE pc'[j] = "dense" /\ UNCHANGED supersedes
    <2>1. RowTypes' /\ AmendedIffSuperseded'
      BY <1>5, <1>11 DEF RowsInv, RowTypes, AmendedIffSuperseded
    <2>2. RowsOK'
      <3>1. /\ ~Linking(pc'[j]) /\ pc'[j] # "link" /\ pc'[j] # "ended"
            /\ ~Committed(j)' /\ looked'[j] = 0
        BY <1>5, <1>11 DEF Linking, Committed
      <3> QED
        BY <1>8, <1>11, <3>1, OthersRows DEF RowsInv
    <2>3. MissesOK'
      BY <1>8, <1>9, <1>11, NothingMissed DEF RowsInv
    <2> QED
      BY <1>7, <2>1, <2>2, <2>3 DEF RowsInv
  <1> QED
    BY <1>6, <1>10, <1>11

(* The steps of a job that leave the database and what it looks up alone.  *)
LEMMA PrivateRows ==
    ASSUME RowsInv, NEW j \in Jobs, NEW label \in Labels, Goto(j, label),
           UNCHANGED <<target, refs, looked, history>>,
           \A i \in Jobs : i # j => chunks'[i] = chunks[i],
           text' \in [Jobs -> Seq(Lines)],
           chunks' \in [Jobs -> Seq(Chunk \cup {None})],
           \/ Uncommitted(pc[j]) /\ Uncommitted(label)
           \/ label = "failed"
    PROVE  RowsInv'
  <1> USE DEF Goto, history
  <1>1. pc' = [pc EXCEPT ![j] = label] /\ pc'[j] = label
    BY DEF RowsInv, JobTypes
  <1>2. JobTypes' /\ RowTypes' /\ AmendedIffSuperseded'
    <2>1. pc' \in [Jobs -> Labels]
      BY <1>1 DEF RowsInv, JobTypes
    <2> QED
      BY <2>1 DEF RowsInv, JobTypes, RowTypes, AmendedIffSuperseded
  <1>3. \A i \in Jobs : i # j =>
            /\ pc'[i] = pc[i] /\ looked'[i] = looked[i] /\ target'[i] = target[i]
            /\ refs'[i] = refs[i] /\ chunks'[i] = chunks[i]
    BY <1>1 DEF RowsInv, JobTypes
  <1>4. ~Unlinked(j)' /\ ~Linking(label) /\ label # "link" /\ label # "ended"
    BY <1>1 DEF Unlinked, Uncommitted, Linking
  <1>5. Uncommitted(label) => ~Committed(j)' /\ looked'[j] = 0
    BY DEF RowsInv, RowsOK, Committed, Uncommitted
  <1>6. RowsOK'
    BY <1>1, <1>3, <1>4, <1>5, OthersRows DEF RowsInv
  <1>7. MissesOK'
    BY <1>3, <1>4, NothingMissed DEF RowsInv
  <1> QED
    BY <1>2, <1>6, <1>7 DEF RowsInv

(* The row of a new circular is inserted.                                  *)
LEMMA CommitRows == ASSUME RowsInv, NEW j \in Jobs, Commit(j) PROVE RowsInv'
  <1> USE DEF At, Goto
  <1>1. /\ pc[j] = "commit" /\ ~Committed(j) /\ looked[j] = 0
        /\ Insert(j) /\ UNCHANGED <<text, chunks, target, refs, looked, amended>>
    BY DEF Commit, RowsInv, RowsOK, Uncommitted
  <1>2. pc' = [pc EXCEPT ![j] = "look"] /\ pc'[j] = "look"
    BY DEF Commit, RowsInv, JobTypes
  <1>3. JobTypes'
    BY <1>1, <1>2 DEF RowsInv, JobTypes, Labels
  <1>4. /\ RowTypes' /\ AmendedIffSuperseded'
        /\ DOMAIN supersedes' = DOMAIN supersedes \cup {j}
        /\ supersedes'[j] = None
        /\ \A c \in DOMAIN supersedes : supersedes'[c] = supersedes[c]
    BY <1>1, InsertedRow, InsertedAmends DEF RowsInv
  <1>5. \A i \in Jobs : i # j =>
            /\ pc'[i] = pc[i] /\ looked'[i] = looked[i] /\ target'[i] = target[i]
            /\ refs'[i] = refs[i] /\ chunks'[i] = chunks[i]
    BY <1>1, <1>2 DEF RowsInv, JobTypes
  <1>6. RowsOK'
    <2>1. ~Uncommitted(pc'[j]) /\ pc'[j] # "link" /\ pc'[j] # "ended" /\ Committed(j)'
      BY <1>2, <1>4 DEF Uncommitted, Committed
    <2> QED
      BY <1>4, <1>5, <2>1, OthersRows DEF RowsInv
  <1>7. MissesOK'
    <2>1. \A i \in Jobs : i # j => (Unlinked(i)' => Unlinked(i))
      BY <1>4, <1>5 DEF Unlinked, RowsInv, RowsOK, Committed
    <2>2. \A i \in Jobs : ~LookedUp(j, i)'
      BY <1>1 DEF LookedUp
    <2> QED
      BY <1>2, <1>5, <2>1, <2>2, OthersMiss DEF RowsInv
  <1> QED
    BY <1>3, <1>4, <1>6, <1>7 DEF RowsInv

(* A number is looked up, and found or not.                                *)
LEMMA LookRows == ASSUME RowsInv, NEW j \in Jobs, Look(j) PROVE RowsInv'
  <1> USE DEF At, Goto
  <1>1. /\ pc[j] = "look" /\ Committed(j) /\ supersedes[j] = None
        /\ UNCHANGED <<text, chunks, refs, supersedes, amended>>
    BY DEF Look, RowsInv, RowsOK, Linking, history
  <1>2. /\ pc \in [Jobs -> Labels] /\ looked \in [Jobs -> Nat]
        /\ target \in [Jobs -> Circulars \cup {None}]
        /\ refs \in [Jobs -> Seq(STRING)]
        /\ DOMAIN supersedes \subseteq Circulars
    BY DEF RowsInv, JobTypes, RowTypes
  <1>3. \/ /\ pc' = [pc EXCEPT ![j] = "ended"] /\ UNCHANGED <<target, looked>>
           /\ looked[j] = Len(refs[j])
        \/ /\ looked[j] < Len(refs[j]) /\ looked' = [looked EXCEPT ![j] = @ + 1]
           /\ Matches(j, refs[j][looked[j] + 1]) = {} /\ UNCHANGED <<pc, target>>
        \/ /\ looked[j] < Len(refs[j]) /\ looked' = [looked EXCEPT ![j] = @ + 1]
           /\ \E c \in DOMAIN supersedes : target' = [target EXCEPT ![j] = c]
           /\ pc' = [pc EXCEPT ![j] = "link"]
    BY DEF Look, Matches
  <1>4. JobTypes'
    <2>1. pc' \in [Jobs -> Labels]
      <3>1. "ended" \in Labels /\ "link" \in Labels
        BY DEF Labels
      <3> QED
        BY <1>2, <1>3, <3>1
    <2>2. looked' \in [Jobs -> Nat]
      BY <1>2, <1>3
    <2>3. target' \in [Jobs -> Circulars \cup {None}]
      BY <1>2, <1>3
    <2> QED
      BY <1>1, <2>1, <2>2, <2>3 DEF RowsInv, JobTypes
  <1>5. \A i \in Jobs : i # j =>
            /\ pc'[i] = pc[i] /\ looked'[i] = looked[i] /\ target'[i] = target[i]
            /\ refs'[i] = refs[i] /\ chunks'[i] = chunks[i]
    BY <1>1, <1>2, <1>3
  <1>6. RowTypes' /\ AmendedIffSuperseded'
    BY <1>1 DEF RowsInv, RowTypes, AmendedIffSuperseded
  <1>7. RowsOK'
    <2>1. /\ pc'[j] \in {"look", "link", "ended"} /\ Committed(j)' /\ supersedes'[j] = None
          /\ pc'[j] = "link" => target'[j] \in DOMAIN supersedes
      BY <1>1, <1>2, <1>3 DEF Committed
    <2>2. /\ ~Uncommitted(pc'[j])
          /\ pc'[j] = "link" => Committed(target[j])'
      BY <1>1, <2>1 DEF Uncommitted, Committed
    <2> QED
      BY <1>1, <1>5, <2>1, <2>2, OthersRows DEF RowsInv
  <1>8. MissesOK'
    <2>1. \A i \in Jobs : i # j => (Unlinked(i)' => Unlinked(i))
      BY <1>1, <1>5 DEF Unlinked
    <2>2. pc'[j] = "ended" => looked'[j] = Len(refs'[j])
      BY <1>1, <1>2, <1>3
    <2>3. ASSUME NEW i \in Jobs, i # j, Unlinked(i), Unlinked(j)', LookedUp(j, i)'
          PROVE  LookedUp(j, i)
      <3>1. PICK n \in 1..Len(refs[j]) : n <= looked'[j] /\ refs[j][n] = NumberOf[i]
        BY <1>1, <2>3 DEF LookedUp
      <3>2. CASE n <= looked[j]
        BY <3>1, <3>2 DEF LookedUp
      <3>3. CASE ~(n <= looked[j])
        <4>1. looked[j] \in Nat /\ looked'[j] = looked[j] + 1 /\ n \in Nat
          BY <1>2, <1>3, <3>1, <3>3
        <4>2. n = looked[j] + 1 /\ pc'[j] # "link" => Matches(j, refs[j][n]) = {}
          BY <1>1, <1>2, <1>3, <3>1, <3>3, <4>1
        <4>3. n = looked[j] + 1
          BY <3>1, <3>3, <4>1
        <4>4. pc'[j] # "link"
          BY <2>3 DEF Unlinked
        <4>5. Committed(i)
          BY <2>3 DEF Unlinked, RowsInv, RowsOK, Linking
        <4>6. i \in Matches(j, refs[j][n])
          BY <2>3, <3>1, <4>5 DEF Matches, Committed
        <4> QED
          BY <4>2, <4>3, <4>4, <4>6
      <3> QED
        BY <3>2, <3>3
    <2>4. ASSUME NEW i \in Jobs, i # j
          PROVE  LookedUp(i, j)' <=> LookedUp(i, j)
      BY <1>5, <2>4 DEF LookedUp
    <2>5. Unlinked(j)
      BY <1>1 DEF Unlinked
    <2> QED
      BY <1>1, <1>5, <2>1, <2>2, <2>3, <2>4, <2>5, OthersMiss DEF RowsInv, MissesOK
  <1> QED
    BY <1>4, <1>6, <1>7, <1>8 DEF RowsInv

(* The circular that was found is superseded.                              *)
LEMMA LinkRows == ASSUME RowsInv, NEW j \in Jobs, Link(j) PROVE RowsInv'
  <1> USE DEF At, Goto
  <1>1. /\ pc[j] = "link" /\ Committed(j) /\ supersedes[j] = None /\ Committed(target[j])
        /\ supersedes' = [supersedes EXCEPT ![j] = target[j]]
        /\ amended' = amended \cup {target[j]}
        /\ UNCHANGED <<text, chunks, target, refs, looked>>
    BY DEF Link, RowsInv, RowsOK, Linking
  <1>2. pc' = [pc EXCEPT ![j] = "ended"] /\ pc'[j] = "ended"
    BY DEF Link, RowsInv, JobTypes
  <1>3. JobTypes'
    BY <1>1, <1>2 DEF RowsInv, JobTypes, Labels
  <1>4. /\ RowTypes
        /\ DOMAIN supersedes \subseteq Circulars /\ None \notin Circulars
        /\ j \in DOMAIN supersedes /\ target[j] \in DOMAIN supersedes
        /\ target[j] # None
    BY <1>1, CorpusAssumption DEF RowsInv, RowTypes, Committed
  <1>5. /\ DOMAIN supersedes' = DOMAIN supersedes
        /\ supersedes'[j] = target[j]
        /\ \A c \in DOMAIN supersedes : c # j => supersedes'[c] = supersedes[c]
    BY <1>1, <1>4 DEF RowTypes
  <1>6. RowTypes'
    BY <1>1, <1>4, <1>5 DEF RowTypes
  <1>7. AmendedIffSuperseded'
    <2>1. ASSUME NEW c \in DOMAIN supersedes
          PROVE  Superseding(supersedes', c) =
                    Superseding(supersedes, c) \cup (IF c = target[j] THEN {j} ELSE {})
      <3>1. c # None
        BY <1>4
      <3>2. \A d \in DOMAIN supersedes :
                c \in Successors(supersedes', d) <=>
                    c \in Successors(supersedes, d) \/ (d = j /\ c = target[j])
        BY <1>1, <1>4, <1>5, <3>1 DEF Successors
      <3>3. \A d : d \in Superseding(supersedes', c) <=>
                d \in Superseding(supersedes, c) \/ (d = j /\ c = target[j])
        BY <1>4, <1>5, <3>2 DEF Superseding
      <3> QED
        BY <3>3
    <2>2. amended = {c \in DOMAIN supersedes : Superseding(supersedes, c) # {}}
      BY DEF RowsInv, AmendedIffSuperseded
    <2>3. ASSUME NEW c \in DOMAIN supersedes
          PROVE  c \in amended' <=> Superseding(supersedes', c) # {}
      BY <1>1, <2>1, <2>2
    <2>4. amended' \subseteq DOMAIN supersedes
      BY <1>1, <1>4, <2>2
    <2> QED
      BY <1>5, <2>3, <2>4 DEF AmendedIffSuperseded
  <1>8. \A i \in Jobs : i # j =>
            /\ pc'[i] = pc[i] /\ looked'[i] = looked[i] /\ target'[i] = target[i]
            /\ refs'[i] = refs[i] /\ chunks'[i] = chunks[i]
    BY <1>1, <1>2 DEF RowsInv, JobTypes
  <1>9. RowsOK'
    <2>1. /\ ~Uncommitted(pc'[j]) /\ ~Linking(pc'[j]) /\ pc'[j] # "link"
          /\ Committed(j)'
      BY <1>2, <1>4, <1>5 DEF Uncommitted, Linking, Committed
    <2> QED
      BY <1>5, <1>8, <2>1, OthersRows DEF RowsInv
  <1>10. MissesOK'
    <2>1. ~Unlinked(j)'
      BY <1>2, <1>4, <1>5 DEF Unlinked
    <2> QED
      BY <1>5, <1>8, <2>1, NothingMissed DEF RowsInv, Committed
  <1> QED
    BY <1>3, <1>6, <1>7, <1>9, <1>10 DEF RowsInv

(* A restart: no job is under way, and what is in the database stays.      *)
LEMMA CrashRows == ASSUME RowsInv, Crash PROVE RowsInv'
  <1>1. /\ \A j \in Jobs : pc'[j] = (IF pc[j] = "ended" THEN "ended" ELSE "failed")
        /\ \A j \in Jobs : chunks'[j] = <<>> /\ text'[j] = <<>>
        /\ UNCHANGED <<target, refs, looked, supersedes, amended>>
    BY DEF Crash, At, history
  <1>2. JobTypes'
    <2>1. pc' \in [Jobs -> Labels]
      BY DEF Crash, Labels
    <2>2. text' \in [Jobs -> Seq(Lines)] /\ chunks' \in [Jobs -> Seq(Chunk \cup {None})]
      <3>1. <<>> \in Seq(Lines) /\ <<>> \in Seq(Chunk \cup {None})
        BY EmptySeq
      <3> QED
        BY <3>1 DEF Crash
    <2> QED
      BY <1>1, <2>1, <2>2 DEF RowsInv, JobTypes
  <1>3. RowTypes' /\ AmendedIffSuperseded'
    BY <1>1 DEF RowsInv, RowTypes, AmendedIffSuperseded
  <1>4. RowsOK'
    BY <1>1 DEF RowsInv, RowsOK, Uncommitted, Linking, Committed
  <1>5. MissesOK'
    <2>1. \A j \in Jobs : ~Unlinked(j)'
      BY <1>1 DEF Unlinked
    <2> QED
      BY <2>1 DEF MissesOK
  <1> QED
    BY <1>2, <1>3, <1>4, <1>5 DEF RowsInv

(* A step of a search, or none.                                            *)
LEMMA SameRows == ASSUME RowsInv, UNCHANGED <<ingest, history>> PROVE RowsInv'
  <1>1. UNCHANGED <<pc, text, chunks, target, refs, looked, supersedes, amended>>
    BY DEF ingest, history
  <1>2. JobTypes' /\ RowTypes' /\ AmendedIffSuperseded'
    BY <1>1 DEF RowsInv, JobTypes, RowTypes, AmendedIffSuperseded
  <1>3. RowsOK' /\ MissesOK'
    BY <1>1 DEF RowsInv, RowsOK, MissesOK, Committed, Unlinked, LookedUp
  <1> QED
    BY <1>2, <1>3 DEF RowsInv

(* The rows that were there before.                                        *)
LEMMA InitRows == Init => RowsInv
  <1> SUFFICES ASSUME Init PROVE RowsInv
    OBVIOUS
  <1>1. JobTypes
    <2>1. <<>> \in Seq(Lines) /\ <<>> \in Seq(Chunk \cup {None}) /\ <<>> \in Seq(STRING)
      BY EmptySeq
    <2>2. "chunk" \in Labels
      BY DEF Labels
    <2> QED
      BY <2>1, <2>2 DEF Init, JobTypes
  <1>2. RowTypes /\ supersedes = OlderLinks /\ DOMAIN supersedes = Older
    BY CorpusAssumption DEF Init, RowTypes, Circulars
  <1>3. RowsOK
    BY <1>2, CorpusAssumption DEF Init, RowsOK, Uncommitted, Linking, Committed
  <1>4. AmendedIffSuperseded
    BY <1>2 DEF Init, AmendedIffSuperseded
  <1>5. MissesOK
    BY DEF Init, MissesOK, Unlinked
  <1> QED
    BY <1>1, <1>2, <1>3, <1>4, <1>5 DEF RowsInv

(* What of a document is left when it is indexed, or given up.             *)
LEMMA TextGone ==
    ASSUME JobTypes, NEW j \in Jobs, NEW cs \in Seq(Chunk \cup {None}),
           text' = [text EXCEPT ![j] = <<>>], chunks' = [chunks EXCEPT ![j] = cs]
    PROVE  /\ text' \in [Jobs -> Seq(Lines)]
           /\ chunks' \in [Jobs -> Seq(Chunk \cup {None})]
           /\ \A i \in Jobs : i # j => chunks'[i] = chunks[i]
  <1>1. <<>> \in Seq(Lines)
    BY EmptySeq
  <1> QED
    BY <1>1 DEF JobTypes

(* Each step keeps what the jobs rely on.                                  *)
LEMMA StepRows == ASSUME RowsInv, [Next]_vars PROVE RowsInv'
  <1> USE DEF At, Goto
  <1>1. ASSUME NEW j \in Jobs, AddDense(j) PROVE RowsInv'
    <2>1. PICK m \in Nat : DOMAIN chunks[j] = 1..m
      <3>1. chunks[j] \in Seq(Chunk \cup {None})
        BY DEF RowsInv, JobTypes
      <3> QED
        BY <3>1, LenProperties
    <2>2. [n \in DOMAIN chunks[j] |-> None] \in Seq(Chunk \cup {None})
      BY <2>1
    <2>3. /\ text' = [text EXCEPT ![j] = <<>>]
          /\ chunks' = [chunks EXCEPT ![j] = [n \in DOMAIN chunks[j] |-> None]]
      BY <1>1 DEF AddDense, RowsInv, JobTypes
    <2>4. /\ Goto(j, "ids") /\ "ids" \in Labels
          /\ Uncommitted(pc[j]) /\ Uncommitted("ids")
          /\ UNCHANGED <<target, refs, looked, history>>
      BY <1>1 DEF AddDense, Labels, Uncommitted
    <2> QED
      BY <2>2, <2>3, <2>4, TextGone, PrivateRows DEF RowsInv
  <1>2. ASSUME NEW j \in Jobs, AddSparse(j) PROVE RowsInv'
    <2>1. PICK label \in {"corpus", "rebuild", "commit"} :
            Goto(j, label) /\ Uncommitted(pc[j])
      BY <1>2 DEF AddSparse, Uncommitted
    <2>2. /\ UNCHANGED <<text, chunks, target, refs, looked, history>>
          /\ label \in Labels /\ Uncommitted(label)
      BY <1>2, <2>1 DEF AddSparse, Labels, Uncommitted
    <2>3. /\ text' \in [Jobs -> Seq(Lines)]
          /\ chunks' \in [Jobs -> Seq(Chunk \cup {None})]
          /\ \A i \in Jobs : i # j => chunks'[i] = chunks[i]
      BY <2>2 DEF RowsInv, JobTypes
    <2> QED
      BY <2>1, <2>2, <2>3, PrivateRows
  <1>3. ASSUME NEW j \in Jobs, Fail(j) PROVE RowsInv'
    <2>1. /\ Goto(j, "failed") /\ "failed" \in Labels
          /\ UNCHANGED <<target, refs, looked, history>>
          /\ text' = [text EXCEPT ![j] = <<>>] /\ chunks' = [chunks EXCEPT ![j] = <<>>]
      BY <1>3 DEF Fail, Labels
    <2>2. <<>> \in Seq(Chunk \cup {None})
      BY EmptySeq
    <2> QED
      BY <2>1, <2>2, TextGone, PrivateRows DEF RowsInv
  <1>4. ASSUME NEW s \in Searchers, Search(s) PROVE RowsInv'
    <2>1. UNCHANGED <<ingest, history>>
      BY <1>4 DEF Search, SearchDense, SearchSparse, FuseBoth
    <2> QED
      BY <2>1, SameRows
  <1>5. ASSUME UNCHANGED vars PROVE RowsInv'
    BY <1>5, SameRows DEF vars
  <1>6. ASSUME NEW j \in Jobs, Ingest(j) PROVE RowsInv'
    BY <1>1, <1>2, <1>3, <1>6, CutRows, CommitRows, LookRows, LinkRows DEF Ingest
  <1> QED
    BY <1>4, <1>5, <1>6, CrashRows DEF Next

--------------------------------------------------------------------------------

(* The ids of a job's chunks.                                              *)
LEMMA IdsOfJob ==
    ASSUME JobTypes, NEW j \in Jobs
    PROVE  /\ IdsOf(j) \in Seq(Ids) /\ Len(IdsOf(j)) \in Nat
           /\ \A n \in 1..Len(IdsOf(j)) : IdsOf(j)[n] = <<j, n>>
           /\ IsFiniteSet(ToSet(IdsOf(j))) /\ ToSet(IdsOf(j)) \subseteq Ids
  <1>1. chunks[j] \in Seq(Chunk \cup {None})
    BY DEF JobTypes
  <1>2. PICK m \in Nat : DOMAIN chunks[j] = 1..m
    BY <1>1, LenProperties
  <1>3. IdsOf(j) = [n \in 1..m |-> <<j, n>>]
    BY <1>2 DEF IdsOf
  <1>4. \A n \in 1..m : <<j, n>> \in Ids
    BY DEF Ids
  <1>5. IdsOf(j) \in Seq(Ids) /\ Len(IdsOf(j)) = m
    BY <1>3, <1>4
  <1>6. IsFiniteSet(ToSet(IdsOf(j))) /\ ToSet(IdsOf(j)) \subseteq Ids
    <2>1. IsFiniteSet(ToSet(IdsOf(j)))
      BY <1>5, SeqIsFinite
    <2>2. \A n \in DOMAIN IdsOf(j) : IdsOf(j)[n] \in Ids
      BY <1>3, <1>4
    <2> QED
      BY <2>1, <2>2 DEF ToSet
  <1> QED
    BY <1>3, <1>5, <1>6

(* Ids that are numbered, after ids of other jobs.                         *)
LEMMA AppendedIds ==
    ASSUME NEW S, NEW q \in Seq(S), NEW r \in Seq(S), NEW j, IsInjective(q),
           \A n \in 1..Len(q) : q[n][1] # j,
           \A n \in 1..Len(r) : r[n] = <<j, n>>
    PROVE  /\ IsInjective(q \o r)
           /\ \A n \in DOMAIN (q \o r) : (q \o r)[n][1] # j => n \in 1..Len(q)
  <1> DEFINE k == Len(q)
             m == Len(r)
             c == q \o r
  <1>1. /\ k \in Nat /\ m \in Nat /\ DOMAIN q = 1..k
        /\ c \in Seq(S) /\ Len(c) = k + m
        /\ \A n \in 1..(k + m) : c[n] = IF n <= k THEN q[n] ELSE r[n - k]
    BY LenProperties, ConcatProperties
  <1>2. DOMAIN c = 1..(k + m)
    BY <1>1, LenProperties
  <1> HIDE DEF c
  <1>3. ASSUME NEW n \in 1..(k + m), n <= k
        PROVE  n \in 1..k /\ c[n] = q[n] /\ c[n][1] # j
    BY <1>1, <1>3
  <1>4. ASSUME NEW n \in 1..(k + m), ~(n <= k)
        PROVE  c[n][1] = j /\ c[n][2] = n - k
    <2>1. n - k \in 1..m /\ c[n] = r[n - k]
      BY <1>1, <1>4
    <2> QED
      BY <2>1
  <1>5. ASSUME NEW a \in 1..(k + m), NEW b \in 1..(k + m), c[a] = c[b]
        PROVE  a = b
    <2>1. CASE a <= k /\ b <= k
      <3>1. a \in DOMAIN q /\ b \in DOMAIN q /\ q[a] = q[b]
        BY <1>1, <1>3, <1>5, <2>1
      <3> QED
        BY <3>1 DEF IsInjective
    <2>2. CASE ~(a <= k) /\ ~(b <= k)
      <3>1. a - k = b - k
        BY <1>4, <1>5, <2>2
      <3> QED
        BY <1>1, <3>1
    <2>3. ~(a <= k /\ ~(b <= k)) /\ ~(b <= k /\ ~(a <= k))
      BY <1>3, <1>4, <1>5
    <2> QED
      BY <2>1, <2>2, <2>3
  <1>6. IsInjective(c)
    BY <1>2, <1>5 DEF IsInjective
  <1>7. \A n \in 1..(k + m) : c[n][1] # j => n \in 1..k
    BY <1>3, <1>4
  <1> QED
    BY <1>2, <1>6, <1>7 DEF c

(* Jobs whose ids are not in the store before they extend it.              *)
Unindexed(label) == label \in {"chunk", "dense", "ids"}
Locking(label) == label \in {"corpus", "rebuild"}

(* A step of a job that does not use the sparse store.                     *)
LEMMA QuietStore ==
    ASSUME StoreInv, JobTypes, NEW j \in Jobs, UNCHANGED sparse,
           pc' = [pc EXCEPT ![j] = pc'[j]],
           ~Locking(pc[j]), ~Locking(pc'[j]), Unindexed(pc'[j]) => Unindexed(pc[j]),
           \A i \in Jobs : i # j => chunks'[i] = chunks[i],
           dense' \in SUBSET Ids, IsFiniteSet(dense')
    PROVE  StoreInv'
  <1>1. UNCHANGED <<chunkIds, corpus, bm25, lock>>
    BY DEF sparse
  <1>2. \A i \in Jobs : i # j => pc'[i] = pc[i] /\ IdsOf(i)' = IdsOf(i)
    BY DEF JobTypes, IdsOf
  <1>3. StoreTypes'
    BY <1>1 DEF StoreInv, StoreTypes
  <1>4. OnceIndexed'
    <2>1. \A i \in Jobs : Unindexed(pc'[i]) => Unindexed(pc[i])
      BY <1>2
    <2> QED
      BY <1>1, <2>1 DEF StoreInv, OnceIndexed, Unindexed
  <1>5. ASSUME NEW i \in Jobs
        PROVE  /\ lock' = i <=> pc'[i] \in {"corpus", "rebuild"}
               /\ pc'[i] = "corpus" => bm25' = corpus' /\ chunkIds' = corpus' \o IdsOf(i)'
               /\ pc'[i] = "rebuild" => corpus' = chunkIds' /\ chunkIds' = bm25' \o IdsOf(i)'
    <2>1. CASE i = j
      BY <1>1, <2>1 DEF StoreInv, StoreOK, Locking
    <2>2. CASE i # j
      BY <1>1, <1>2, <2>2 DEF StoreInv, StoreOK
    <2> QED
      BY <2>1, <2>2
  <1>6. StoreOK'
    BY <1>1, <1>5 DEF StoreInv, StoreOK
  <1> QED
    BY <1>3, <1>4, <1>6 DEF StoreInv

(* The store's three steps, under its lock.                                *)
LEMMA AddSparseStore == ASSUME StoreInv, JobTypes, NEW j \in Jobs, AddSparse(j) PROVE StoreInv'
  <1> USE DEF At, Goto
  <1>1. UNCHANGED <<chunks, dense>> /\ \A i \in Jobs : IdsOf(i)' = IdsOf(i)
    BY DEF AddSparse, IdsOf
  <1>2. /\ chunkIds \in Seq(Ids) /\ corpus \in Seq(Ids) /\ bm25 \in Seq(Ids)
        /\ IdsOf(j) \in Seq(Ids) /\ Len(IdsOf(j)) \in Nat
        /\ \A n \in 1..Len(IdsOf(j)) : IdsOf(j)[n] = <<j, n>>
        /\ j # Nobody /\ pc \in [Jobs -> Labels]
    BY IdsOfJob, CorpusAssumption DEF StoreInv, StoreTypes, JobTypes
  <1>3. CASE At(j, "ids") /\ ExtendIds(j, IdsOf(j)) /\ Goto(j, "corpus")
    <2>1. /\ lock = Nobody /\ lock' = j /\ chunkIds' = chunkIds \o IdsOf(j)
          /\ corpus' = corpus /\ bm25' = bm25 /\ pc[j] = "ids"
          /\ pc' = [pc EXCEPT ![j] = "corpus"]
      BY <1>3 DEF ExtendIds
    <2>2. StoreTypes'
      BY <1>1, <1>2, <2>1, ConcatProperties DEF StoreInv, StoreTypes
    <2>3. corpus = chunkIds /\ bm25 = chunkIds /\ \A i \in Jobs : ~Locking(pc[i])
      BY <2>1, CorpusAssumption DEF StoreInv, StoreOK, Locking
    <2>4. StoreOK'
      BY <1>1, <1>2, <2>1, <2>3 DEF StoreOK, Locking
    <2>5. IsInjective(chunkIds')
          /\ \A n \in DOMAIN chunkIds' : chunkIds'[n][1] # j => n \in 1..Len(chunkIds)
      <3>1. DOMAIN chunkIds = 1..Len(chunkIds)
        BY <1>2, LenProperties
      <3>2. IsInjective(chunkIds) /\ \A n \in 1..Len(chunkIds) : chunkIds[n][1] # j
        BY <2>1, <3>1 DEF StoreInv, OnceIndexed
      <3> QED
        BY <1>2, <2>1, <3>2, AppendedIds
    <2>6. ASSUME NEW i \in Jobs, Unindexed(pc'[i]), NEW n \in DOMAIN chunkIds'
          PROVE  chunkIds'[n][1] # i
      <3>1. i # j /\ pc'[i] = pc[i]
        BY <1>2, <2>1, <2>6 DEF Unindexed
      <3>2. CASE chunkIds'[n][1] = j
        BY <3>1, <3>2
      <3>3. CASE chunkIds'[n][1] # j
        <4>1. n \in 1..Len(chunkIds) /\ DOMAIN chunkIds = 1..Len(chunkIds)
          BY <1>2, <2>5, <3>3, LenProperties
        <4>2. chunkIds'[n] = chunkIds[n]
          BY <1>2, <2>1, <4>1, ConcatProperties
        <4> QED
          BY <2>6, <3>1, <4>1, <4>2 DEF StoreInv, OnceIndexed, Unindexed
      <3> QED
        BY <3>2, <3>3
    <2>7. OnceIndexed'
      BY <2>5, <2>6 DEF OnceIndexed, Unindexed
    <2> QED
      BY <2>2, <2>4, <2>7 DEF StoreInv
  <1>4. CASE At(j, "corpus") /\ ExtendCorpus(j, IdsOf(j)) /\ Goto(j, "rebuild")
    <2>1. /\ lock = j /\ lock' = lock /\ corpus' = corpus \o IdsOf(j)
          /\ chunkIds' = chunkIds /\ bm25' = bm25 /\ pc[j] = "corpus"
          /\ pc' = [pc EXCEPT ![j] = "rebuild"]
      BY <1>4 DEF ExtendCorpus
    <2>2. StoreTypes'
      BY <1>1, <1>2, <2>1, ConcatProperties DEF StoreInv, StoreTypes
    <2>3. StoreOK'
      BY <1>1, <1>2, <2>1 DEF StoreInv, StoreOK
    <2>4. OnceIndexed'
      <3>1. \A i \in Jobs : Unindexed(pc'[i]) => Unindexed(pc[i])
        BY <1>2, <2>1 DEF Unindexed
      <3> QED
        BY <2>1, <3>1 DEF StoreInv, OnceIndexed, Unindexed
    <2> QED
      BY <2>2, <2>3, <2>4 DEF StoreInv
  <1>5. CASE At(j, "rebuild") /\ Rebuild(j) /\ Goto(j, "commit")
    <2>1. /\ lock = j /\ lock' = Nobody /\ bm25' = corpus
          /\ chunkIds' = chunkIds /\ corpus' = corpus /\ pc[j] = "rebuild"
          /\ pc' = [pc EXCEPT ![j] = "commit"]
      BY <1>5 DEF Rebuild
    <2>2. StoreTypes'
      BY <1>1, <1>2, <2>1 DEF StoreInv, StoreTypes
    <2>3. corpus = chunkIds /\ \A i \in Jobs : i # j => ~Locking(pc[i])
      BY <2>1 DEF StoreInv, StoreOK, Locking
    <2>4. StoreOK'
      BY <1>1, <1>2, <2>1, <2>3, CorpusAssumption DEF StoreOK, Locking
    <2>5. OnceIndexed'
      <3>1. \A i \in Jobs : Unindexed(pc'[i]) => Unindexed(pc[i])
        BY <1>2, <2>1 DEF Unindexed
      <3> QED
        BY <2>1, <3>1 DEF StoreInv, OnceIndexed, Unindexed
    <2> QED
      BY <2>2, <2>4, <2>5 DEF StoreInv
  <1> QED
    BY <1>3, <1>4, <1>5 DEF AddSparse

(* A process that starts anew has an empty sparse store.                   *)
LEMMA CrashStore == ASSUME StoreInv, Crash PROVE StoreInv'
  <1>1. /\ chunkIds' = <<>> /\ corpus' = <<>> /\ bm25' = <<>> /\ lock' = Nobody
        /\ dense' = dense
        /\ \A j \in Jobs : pc'[j] \in {"ended", "failed"}
    BY DEF Crash, Lose
  <1>2. StoreTypes'
    BY <1>1, EmptySeq DEF StoreInv, StoreTypes
  <1>3. StoreOK'
    BY <1>1, CorpusAssumption DEF StoreOK
  <1>4. OnceIndexed'
    BY <1>1 DEF OnceIndexed, IsInjective
  <1> QED
    BY <1>2, <1>3, <1>4 DEF StoreInv

(* A step that uses neither index, or none.                                *)
LEMMA SameStore ==
    ASSUME StoreInv, UNCHANGED <<sparse, pc, chunks, dense>> PROVE StoreInv'
  <1>1. UNCHANGED <<chunkIds, corpus, bm25, lock, pc, chunks, dense>>
    BY DEF sparse
  <1>2. \A j \in Jobs : IdsOf(j)' = IdsOf(j)
    BY <1>1 DEF IdsOf
  <1> QED
    BY <1>1, <1>2 DEF StoreInv, StoreTypes, StoreOK, OnceIndexed

(* Each step keeps what the lock protects.                                 *)
LEMMA StepStore == ASSUME StoreInv, JobTypes, [Next]_vars PROVE StoreInv'
  <1> USE DEF At, Goto
  <1>1. dense \in SUBSET Ids /\ IsFiniteSet(dense) /\ pc \in [Jobs -> Labels]
    BY DEF StoreInv, StoreTypes, JobTypes
  <1>2. ASSUME NEW j \in Jobs, Cut(j) PROVE StoreInv'
    <2>1. UNCHANGED <<sparse, dense>> /\ pc[j] = "chunk"
      BY <1>2 DEF Cut
    <2>2. pc' = [pc EXCEPT ![j] = "ended"] \/ pc' = [pc EXCEPT ![j] = "dense"]
      <3>1. CASE chunks'[j] = <<>>
        BY <1>2, <3>1, Zenon DEF Cut
      <3>2. CASE chunks'[j] # <<>>
        BY <1>2, <3>2, Zenon DEF Cut
      <3> QED
        BY <3>1, <3>2
    <2>3. pc' = [pc EXCEPT ![j] = pc'[j]] /\ pc'[j] \in {"ended", "dense"}
      BY <1>1, <2>2
    <2>4. \A i \in Jobs : i # j => chunks'[i] = chunks[i]
      BY <1>2 DEF Cut, JobTypes
    <2> QED
      BY <1>1, <2>1, <2>3, <2>4, QuietStore DEF Locking, Unindexed
  <1>3. ASSUME NEW j \in Jobs, AddDense(j) PROVE StoreInv'
    <2>1. /\ UNCHANGED sparse /\ pc[j] = "dense" /\ pc' = [pc EXCEPT ![j] = "ids"]
          /\ dense' = dense \cup ToSet(IdsOf(j))
      BY <1>3 DEF AddDense
    <2>2. IsFiniteSet(dense') /\ dense' \in SUBSET Ids
      BY <1>1, <2>1, IdsOfJob, FS_Union
    <2>3. pc' = [pc EXCEPT ![j] = pc'[j]] /\ pc'[j] = "ids"
      BY <1>1, <2>1
    <2>4. \A i \in Jobs : i # j => chunks'[i] = chunks[i]
      BY <1>3 DEF AddDense, JobTypes
    <2> QED
      BY <2>1, <2>2, <2>3, <2>4, QuietStore DEF Locking, Unindexed
  <1>4. ASSUME NEW j \in Jobs, Commit(j) \/ Look(j) \/ Link(j) \/ Fail(j) PROVE StoreInv'
    <2>1. UNCHANGED <<sparse, dense>>
      BY <1>4 DEF Commit, Look, Link, Fail
    <2>2. ~Locking(pc[j])
      BY <1>4 DEF Commit, Look, Link, Fail, Locking
    <2>3. \/ UNCHANGED pc
          \/ \E label \in {"look", "link", "ended", "failed"} : pc' = [pc EXCEPT ![j] = label]
      BY <1>4 DEF Commit, Look, Link, Fail
    <2>4. /\ pc' = [pc EXCEPT ![j] = pc'[j]]
          /\ pc'[j] = pc[j] \/ pc'[j] \in {"look", "link", "ended", "failed"}
      BY <1>1, <2>3
    <2>5. \A i \in Jobs : i # j => chunks'[i] = chunks[i]
      BY <1>4 DEF Commit, Look, Link, Fail, JobTypes
    <2> QED
      BY <1>1, <2>1, <2>2, <2>4, <2>5, QuietStore DEF Locking, Unindexed
  <1>5. ASSUME NEW s \in Searchers, Search(s) PROVE StoreInv'
    <2>1. UNCHANGED <<sparse, pc, chunks, dense>>
      BY <1>5 DEF Search, SearchDense, SearchSparse, FuseBoth, Take, Rank, ingest
    <2> QED
      BY <2>1, SameStore
  <1>6. ASSUME UNCHANGED vars PROVE StoreInv'
    BY <1>6, SameStore DEF vars, ingest
  <1>7. ASSUME NEW j \in Jobs, Ingest(j) PROVE StoreInv'
    BY <1>2, <1>3, <1>4, <1>7, AddSparseStore DEF Ingest
  <1> QED
    BY <1>5, <1>6, <1>7, CrashStore DEF Next

(* The store is empty at first.                                            *)
LEMMA InitStore == Init => StoreInv
  <1> SUFFICES ASSUME Init PROVE StoreInv
    OBVIOUS
  <1>1. /\ chunkIds = <<>> /\ corpus = <<>> /\ bm25 = <<>> /\ lock = Nobody /\ dense = {}
        /\ \A j \in Jobs : pc[j] = "chunk"
    BY DEF Init, SparseInit
  <1>2. StoreTypes
    BY <1>1, EmptySeq, FS_EmptySet DEF StoreTypes
  <1>3. StoreOK
    BY <1>1, CorpusAssumption DEF StoreOK
  <1>4. OnceIndexed
    BY <1>1 DEF OnceIndexed, IsInjective
  <1> QED
    BY <1>2, <1>3, <1>4 DEF StoreInv

--------------------------------------------------------------------------------

(* A list cut to top_k.                                                    *)
LEMMA CutList ==
    ASSUME NEW S, NEW q \in Seq(S), NEW k \in Nat
    PROVE  LET cut == SubSeq(q, 1, IF k < Len(q) THEN k ELSE Len(q)) IN
           /\ cut \in Seq(S) /\ Len(cut) <= k /\ Len(cut) <= Len(q)
           /\ DOMAIN cut = 1..Len(cut) /\ DOMAIN q = 1..Len(q)
           /\ \A n \in DOMAIN cut : n \in DOMAIN q /\ cut[n] = q[n]
  <1> DEFINE m == IF k < Len(q) THEN k ELSE Len(q)
  <1>1. Len(q) \in Nat /\ DOMAIN q = 1..Len(q)
    BY LenProperties
  <1>2. m \in 0..Len(q) /\ m <= k
    BY <1>1
  <1> HIDE DEF m
  <1>3. /\ SubSeq(q, 1, m) \in Seq(S) /\ Len(SubSeq(q, 1, m)) = m
        /\ \A n \in 1..m : SubSeq(q, 1, m)[n] = q[n]
    <2>1. 1 \in 1..(Len(q) + 1) /\ m \in 0..Len(q)
      BY <1>1, <1>2
    <2>2. \A i \in 1..m : q[i] \in S
      BY <1>1, <1>2, ElementOfSeq
    <2>3. SubSeq(q, 1, m) = [i \in 1..m |-> q[i]]
      BY <1>1, <1>2
    <2> QED
      BY <1>1, <1>2, <2>2, <2>3
  <1>4. DOMAIN SubSeq(q, 1, m) = 1..m
    BY <1>1, <1>2, <1>3, LenProperties
  <1> QED
    BY <1>1, <1>2, <1>3, <1>4 DEF m

(* The ids that a search of the sparse index returns, ranked in any order, *)
(* are distinct, and each goes with its own text.                          *)
LEMMA RankedHits ==
    ASSUME SearchInv, StoreInv, NEW s \in Searchers, Rank(s)
    PROVE  /\ found'[s] \in Seq([id : Ids, text : Ids])
           /\ IsHits(SparseIds(s)')
           /\ \A n \in DOMAIN found'[s] : found'[s][n].id = found'[s][n].text
  <1> DEFINE index == taken[s]
             k == Len(index)
  <1>1. /\ index \in Seq(Ids) /\ k \in Nat /\ DOMAIN index = 1..k
        /\ \A n \in 1..k : index[n] \in Ids /\ index[n] = chunkIds[n] /\ n \in DOMAIN chunkIds
    <2>1. index \in Seq(Ids) /\ Begins(index, chunkIds)
      BY DEF Rank, SearchInv, SearchOK
    <2>2. chunkIds \in Seq(Ids)
      BY DEF StoreInv, StoreTypes
    <2>3. /\ k \in Nat /\ DOMAIN index = 1..k /\ Len(chunkIds) \in Nat
          /\ DOMAIN chunkIds = 1..Len(chunkIds)
      BY <2>1, <2>2, LenProperties
    <2>4. \A n \in 1..k : index[n] \in Ids
      BY <2>1, <2>3, ElementOfSeq
    <2>5. \A n \in 1..k : index[n] = chunkIds[n] /\ k <= Len(chunkIds)
      BY <2>1 DEF Begins
    <2> HIDE DEF index, k
    <2>6. \A n \in 1..k : n \in DOMAIN chunkIds
      BY <2>3, <2>5
    <2> QED
      BY <2>1, <2>3, <2>4, <2>5, <2>6
  <1>2. Cardinality(1..k) = k
    <2>1. k \in Int /\ ~(1 > k + 1) /\ (k - 1) + 1 = k
      BY <1>1
    <2> HIDE DEF k
    <2>2. Cardinality(1..k) = IF 1 > k THEN 0 ELSE (k - 1) + 1
      BY <2>1, 1 \in Int, FS_Interval
    <2> QED
      BY <1>1, <2>1, <2>2
  <1>3. PICK order \in SetToSeqs(1..k) :
            LET ranked == [i \in DOMAIN order |-> Zipped(index)[order[i]]] IN
            found' = [found EXCEPT ![s] = SubSeq(ranked, 1,
                        IF SearchTopK < Len(ranked) THEN SearchTopK ELSE Len(ranked))]
    BY <1>1 DEF Rank
  <1>4. order \in [1..k -> 1..k] /\ \A a, b \in 1..k : a # b => order[a] # order[b]
    BY <1>2 DEF SetToSeqs
  <1> DEFINE ranked == [i \in 1..k |-> Zipped(index)[order[i]]]
             Hit == [id : Ids, text : Ids]
  <1>5. \A i \in 1..k : /\ order[i] \in 1..k
                        /\ ranked[i] = [id |-> chunkIds[order[i]], text |-> index[order[i]]]
    BY <1>1, <1>4 DEF Zipped
  <1> HIDE DEF ranked
  <1>6. ASSUME NEW i \in 1..k
        PROVE  /\ ranked[i] \in Hit /\ ranked[i].id = ranked[i].text
               /\ ranked[i].id = chunkIds[order[i]]
    <2>1. PICK x \in Ids : x = index[order[i]] /\ x = chunkIds[order[i]]
      BY <1>1, <1>5
    <2>2. ranked[i] = [id |-> x, text |-> x]
      BY <1>5, <2>1
    <2> QED
      BY <2>1, <2>2
  <1> HIDE DEF Hit
  <1>7. ranked \in Seq(Hit) /\ Len(ranked) = k
    <2>1. ranked = [i \in 1..k |-> ranked[i]]
      BY DEF ranked
    <2>2. k \in Nat
      BY <1>1
    <2> HIDE DEF k
    <2>3. \A i \in 1..k : ranked[i] \in Hit
      BY <1>6
    <2>4. ranked \in [1..k -> Hit]
      BY <2>1, <2>3, Zenon
    <2> QED
      BY <2>2, <2>4, LenProperties
  <1> DEFINE cut == SubSeq(ranked, 1, IF SearchTopK < Len(ranked) THEN SearchTopK
                                                                 ELSE Len(ranked))
  <1>8. found'[s] = cut
    <2>1. DOMAIN order = 1..k
      BY <1>4
    <2> QED
      BY <1>3, <2>1 DEF SearchInv, SearchTypes, ranked
  <1>9. /\ cut \in Seq(Hit) /\ Len(cut) <= SearchTopK /\ Len(cut) \in Nat
        /\ DOMAIN cut = 1..Len(cut)
        /\ \A n \in 1..Len(cut) : n \in 1..k /\ cut[n] = ranked[n]
    <2>1. /\ cut \in Seq(Hit) /\ Len(cut) <= SearchTopK /\ Len(cut) <= Len(ranked)
          /\ DOMAIN cut = 1..Len(cut) /\ DOMAIN ranked = 1..Len(ranked)
          /\ \A n \in DOMAIN cut : n \in DOMAIN ranked /\ cut[n] = ranked[n]
      BY <1>7, SparseAssumption, CutList
    <2> HIDE DEF cut
    <2> QED
      BY <1>7, <2>1, LenProperties
  <1> HIDE DEF cut
  <1>10. ASSUME NEW n \in 1..Len(cut)
         PROVE  /\ cut[n].id \in Ids /\ cut[n].id = cut[n].text
                /\ cut[n].id = chunkIds[order[n]]
    <2>1. n \in 1..k /\ cut[n] = ranked[n]
      BY <1>9
    <2>2. ranked[n].id \in Ids
      BY <1>6, <2>1 DEF Hit
    <2> QED
      BY <1>6, <2>1, <2>2
  <1>11. SparseIds(s)' = [n \in 1..Len(cut) |-> cut[n].id]
    BY <1>8, <1>9 DEF SparseIds
  <1>12. SparseIds(s)' \in Seq(Ids) /\ Len(SparseIds(s)') = Len(cut)
    BY <1>9, <1>10, <1>11
  <1>13. IsInjective(SparseIds(s)')
    <2>1. DOMAIN SparseIds(s)' = 1..Len(cut)
      BY <1>11
    <2>2. ASSUME NEW a \in 1..Len(cut), NEW b \in 1..Len(cut), a # b
          PROVE  chunkIds[order[a]] # chunkIds[order[b]]
      <3>1. order[a] # order[b] /\ order[a] \in DOMAIN chunkIds /\ order[b] \in DOMAIN chunkIds
        BY <1>1, <1>4, <1>5, <1>9, <2>2
      <3> QED
        BY <3>1 DEF StoreInv, OnceIndexed, IsInjective
    <2>3. \A n \in 1..Len(cut) : SparseIds(s)'[n] = chunkIds[order[n]]
      BY <1>10, <1>11
    <2> QED
      BY <2>1, <2>2, <2>3 DEF IsInjective
  <1> QED
    BY <1>8, <1>9, <1>10, <1>12, <1>13 DEF IsHits, Hit

(* What dense search returns is a list of distinct ids.                    *)
LEMMA NearestHits ==
    ASSUME StoreInv, NEW list \in SetToSeqs(dense) PROVE IsHits(Cutoff(list))
  <1>1. IsFiniteSet(dense) /\ dense \in SUBSET Ids /\ Cardinality(dense) \in Nat
    BY FS_CardinalityType DEF StoreInv, StoreTypes
  <1> DEFINE k == Cardinality(dense)
  <1>2. list \in [1..k -> dense] /\ \A a, b \in 1..k : a # b => list[a] # list[b]
    BY DEF SetToSeqs
  <1>3. list \in Seq(Ids) /\ Len(list) = k
    BY <1>1, <1>2
  <1>4. /\ Cutoff(list) \in Seq(Ids) /\ Len(Cutoff(list)) <= SearchTopK
        /\ \A n \in DOMAIN Cutoff(list) : n \in 1..k /\ Cutoff(list)[n] = list[n]
    BY <1>1, <1>3, SparseAssumption, CutList DEF Cutoff
  <1>5. IsInjective(Cutoff(list))
    BY <1>2, <1>4 DEF IsInjective
  <1> QED
    BY <1>4, <1>5 DEF IsHits

(* The list of ids only grows, until a restart.                            *)
LEMMA IdsOnlyGrow ==
    ASSUME StoreInv, JobTypes, NEW j \in Jobs, Ingest(j) PROVE Begins(chunkIds, chunkIds')
  <1>1. chunkIds \in Seq(Ids) /\ IdsOf(j) \in Seq(Ids) /\ Len(chunkIds) \in Nat
    BY IdsOfJob, LenProperties DEF StoreInv, StoreTypes
  <1>2. chunkIds' = chunkIds \/ chunkIds' = chunkIds \o IdsOf(j)
    BY DEF Ingest, Cut, AddDense, AddSparse, ExtendIds, ExtendCorpus, Rebuild,
           Commit, Look, Link, Fail, sparse
  <1>3. CASE chunkIds' = chunkIds
    BY <1>1, <1>3 DEF Begins
  <1>4. CASE chunkIds' = chunkIds \o IdsOf(j)
    <2>1. /\ Len(chunkIds') = Len(chunkIds) + Len(IdsOf(j)) /\ Len(IdsOf(j)) \in Nat
          /\ \A n \in 1..(Len(chunkIds) + Len(IdsOf(j))) :
                n <= Len(chunkIds) => chunkIds'[n] = chunkIds[n]
      BY <1>1, <1>4, ConcatProperties, LenProperties
    <2>2. \A n \in 1..Len(chunkIds) : chunkIds'[n] = chunkIds[n]
      BY <1>1, <2>1
    <2> QED
      BY <1>1, <2>1, <2>2 DEF Begins
  <1> QED
    BY <1>2, <1>3, <1>4

(* Searches go on, while a job adds to the store.                          *)
LEMMA IngestSearch ==
    ASSUME SearchInv, StoreInv, JobTypes, NEW j \in Jobs, Ingest(j) PROVE SearchInv'
  <1>1. UNCHANGED <<taken, found, nearest, fused>>
    BY DEF Ingest, Cut, AddDense, AddSparse, ExtendIds, ExtendCorpus, Rebuild,
           Commit, Look, Link, Fail, searching, retrieval
  <1>2. \A s \in Searchers : SparseIds(s)' = SparseIds(s)
    BY <1>1 DEF SparseIds
  <1>3. Begins(chunkIds, chunkIds') /\ Len(chunkIds) \in Nat
    BY IdsOnlyGrow, LenProperties DEF StoreInv, StoreTypes
  <1>4. ASSUME NEW s \in Searchers, taken[s] \in Seq(Ids), Begins(taken[s], chunkIds),
               Len(chunkIds') \in Nat
        PROVE  Begins(taken[s], chunkIds')
    <2>1. Len(taken[s]) \in Nat
      BY <1>4, LenProperties
    <2> QED
      BY <1>3, <1>4, <2>1 DEF Begins
  <1>5. Len(chunkIds') \in Nat
    <2>1. chunkIds' \in Seq(Ids)
      <3>1. chunkIds' = chunkIds \/ chunkIds' = chunkIds \o IdsOf(j)
        BY DEF Ingest, Cut, AddDense, AddSparse, ExtendIds, ExtendCorpus, Rebuild,
               Commit, Look, Link, Fail, sparse
      <3> QED
        BY <3>1, IdsOfJob, ConcatProperties DEF StoreInv, StoreTypes
    <2> QED
      BY <2>1, LenProperties
  <1>6. SearchTypes' /\ ScoredByOwnText'
    BY <1>1 DEF SearchInv, SearchTypes, ScoredByOwnText
  <1>7. SearchOK'
    BY <1>1, <1>2, <1>4, <1>5 DEF SearchInv, SearchOK
  <1> QED
    BY <1>6, <1>7 DEF SearchInv

(* The steps of a search: what it returns are hits of the index that it    *)
(* has taken.                                                              *)
LEMMA SearchSearch ==
    ASSUME SearchInv, StoreInv, NEW s \in Searchers, Search(s) PROVE SearchInv'
  <1>1. CASE SearchDense(s)
    <2>1. PICK list \in SetToSeqs(dense) : nearest' = [nearest EXCEPT ![s] = Cutoff(list)]
      BY <1>1 DEF SearchDense
    <2>2. /\ fused[s] = <<>> /\ UNCHANGED <<chunkIds, taken, found, fused>>
      BY <1>1 DEF SearchDense, sparse, searching
    <2>3. IsHits(Cutoff(list))
      BY <2>1, NearestHits
    <2>4. /\ nearest'[s] = Cutoff(list)
          /\ \A r \in Searchers : r # s => nearest'[r] = nearest[r]
          /\ \A r \in Searchers : SparseIds(r)' = SparseIds(r)
      BY <2>1, <2>2 DEF SearchInv, SearchTypes, SparseIds
    <2>5. SearchTypes' /\ ScoredByOwnText'
      BY <2>1, <2>2 DEF SearchInv, SearchTypes, ScoredByOwnText
    <2>6. SearchOK'
      BY <2>2, <2>3, <2>4 DEF SearchInv, SearchOK, IsHits
    <2> QED
      BY <2>5, <2>6 DEF SearchInv
  <1>2. CASE SearchSparse(s) /\ Take(s)
    <2>1. /\ taken' = [taken EXCEPT ![s] = bm25] /\ lock = Nobody
          /\ UNCHANGED <<chunkIds, found, nearest, fused>>
      BY <1>2 DEF SearchSparse, Take, sparse, retrieval
    <2>2. bm25 \in Seq(Ids) /\ Begins(bm25, chunkIds)
      <3>1. bm25 = chunkIds /\ chunkIds \in Seq(Ids)
        BY <2>1 DEF StoreInv, StoreOK, StoreTypes
      <3> QED
        BY <3>1, LenProperties DEF Begins
    <2>3. /\ taken'[s] = bm25
          /\ \A r \in Searchers : r # s => taken'[r] = taken[r]
          /\ \A r \in Searchers : SparseIds(r)' = SparseIds(r)
      BY <2>1 DEF SearchInv, SearchTypes, SparseIds
    <2>4. SearchTypes' /\ ScoredByOwnText'
      BY <2>1 DEF SearchInv, SearchTypes, ScoredByOwnText
    <2>5. SearchOK'
      BY <2>1, <2>2, <2>3 DEF SearchInv, SearchOK, IsHits
    <2> QED
      BY <2>4, <2>5 DEF SearchInv
  <1>3. CASE SearchSparse(s) /\ Rank(s)
    <2>1. /\ taken' = [taken EXCEPT ![s] = Nobody] /\ fused[s] = <<>>
          /\ UNCHANGED <<chunkIds, nearest, fused>>
      BY <1>3 DEF SearchSparse, Rank, sparse, retrieval
    <2>2. PICK hits : found' = [found EXCEPT ![s] = hits]
      BY <1>3 DEF Rank
    <2>3. /\ taken'[s] = Nobody
          /\ \A r \in Searchers : r # s => taken'[r] = taken[r] /\ found'[r] = found[r]
          /\ \A r \in Searchers : r # s => SparseIds(r)' = SparseIds(r)
      BY <2>1, <2>2 DEF SearchInv, SearchTypes, SparseIds
    <2>4. /\ found'[s] \in Seq([id : Ids, text : Ids])
          /\ IsHits(SparseIds(s)')
          /\ \A n \in DOMAIN found'[s] : found'[s][n].id = found'[s][n].text
      BY <1>3, RankedHits
    <2>5. SearchTypes'
      <3>1. taken' = [r \in Searchers |-> taken'[r]] /\ found' = [r \in Searchers |-> found'[r]]
        BY <2>1, <2>2 DEF SearchInv, SearchTypes
      <3>2. \A r \in Searchers : found'[r] \in Seq([id : Ids, text : Ids])
        BY <2>3, <2>4 DEF SearchInv, SearchTypes
      <3> QED
        BY <2>1, <3>1, <3>2 DEF SearchInv, SearchTypes
    <2>6. ScoredByOwnText'
      BY <2>3, <2>4 DEF SearchInv, ScoredByOwnText
    <2>7. SearchOK'
      BY <2>1, <2>3, <2>4 DEF SearchInv, SearchOK, IsHits
    <2> QED
      BY <2>5, <2>6, <2>7 DEF SearchInv
  <1>4. CASE FuseBoth(s)
    <2>1. UNCHANGED <<chunkIds, taken, found, nearest>>
      BY <1>4 DEF FuseBoth, sparse, searching
    <2>2. fused' = [fused EXCEPT ![s] = Fuse(nearest[s], SparseIds(s), SearchTopK)]
      BY <1>4 DEF FuseBoth, SparseIds
    <2>3. \A r \in Searchers : SparseIds(r)' = SparseIds(r)
      BY <2>1 DEF SparseIds
    <2>4. /\ fused'[s] = Fuse(nearest[s], SparseIds(s), SearchTopK)
          /\ \A r \in Searchers : r # s => fused'[r] = fused[r]
      BY <2>2 DEF SearchInv, SearchTypes
    <2>5. SearchTypes' /\ ScoredByOwnText'
      BY <2>1, <2>2 DEF SearchInv, SearchTypes, ScoredByOwnText
    <2>6. SearchOK'
      <3>1. ASSUME NEW r \in Searchers, fused'[r] # <<>>
            PROVE  fused'[r] = Fuse(nearest[r], SparseIds(r), SearchTopK)
        BY <2>4, <3>1 DEF SearchInv, SearchOK
      <3> QED
        BY <2>1, <2>3, <3>1 DEF SearchInv, SearchOK
    <2> QED
      BY <2>5, <2>6 DEF SearchInv
  <1> QED
    BY <1>1, <1>2, <1>3, <1>4 DEF Search, SearchSparse

(* Before any search, and after a restart.                                 *)
LEMMA InitSearch == Init => SearchInv
  <1> SUFFICES ASSUME Init PROVE SearchInv
    OBVIOUS
  <1>1. /\ taken = [s \in Searchers |-> Nobody] /\ found = [s \in Searchers |-> <<>>]
        /\ nearest = [s \in Searchers |-> <<>>] /\ fused = [s \in Searchers |-> <<>>]
    BY DEF Init, SparseInit
  <1>2. /\ <<>> \in Seq(Ids) /\ Len(<<>>) = 0 /\ <<>> \in Seq([id : Ids, text : Ids])
        /\ DOMAIN <<>> = {}
    BY EmptySeq
  <1>3. \A s \in Searchers : SparseIds(s) = <<>>
    BY <1>1 DEF SparseIds
  <1>4. IsHits(<<>>)
    BY <1>2, SparseAssumption DEF IsHits, IsInjective
  <1>5. SearchTypes /\ ScoredByOwnText
    BY <1>1, <1>2 DEF SearchTypes, ScoredByOwnText
  <1>6. SearchOK
    BY <1>1, <1>3, <1>4 DEF SearchOK
  <1> QED
    BY <1>5, <1>6 DEF SearchInv

(* ... there are no searches.                                              *)
LEMMA CrashSearch == Crash => SearchInv'
  <1> SUFFICES ASSUME Crash PROVE SearchInv'
    OBVIOUS
  <1>1. /\ taken' = [s \in Searchers |-> Nobody] /\ found' = [s \in Searchers |-> <<>>]
        /\ nearest' = [s \in Searchers |-> <<>>] /\ fused' = [s \in Searchers |-> <<>>]
    BY DEF Crash, Lose
  <1>2. /\ <<>> \in Seq(Ids) /\ Len(<<>>) = 0 /\ <<>> \in Seq([id : Ids, text : Ids])
        /\ DOMAIN <<>> = {}
    BY EmptySeq
  <1>3. \A s \in Searchers : SparseIds(s)' = <<>>
    BY <1>1 DEF SparseIds
  <1>4. IsHits(<<>>)
    BY <1>2, SparseAssumption DEF IsHits, IsInjective
  <1>5. SearchTypes' /\ ScoredByOwnText'
    BY <1>1, <1>2 DEF SearchTypes, ScoredByOwnText
  <1>6. SearchOK'
    BY <1>1, <1>3, <1>4 DEF SearchOK, IsHits
  <1> QED
    BY <1>5, <1>6 DEF SearchInv

(* Each step keeps what a search has in hand.                              *)
LEMMA StepSearch == ASSUME SearchInv, StoreInv, JobTypes, [Next]_vars PROVE SearchInv'
  <1>1. CASE UNCHANGED vars
    <2>1. UNCHANGED <<chunkIds, taken, found, nearest, fused>>
      BY <1>1 DEF vars, sparse, searching, retrieval
    <2>2. \A s \in Searchers : SparseIds(s)' = SparseIds(s)
      BY <2>1 DEF SparseIds
    <2>3. SearchTypes' /\ ScoredByOwnText'
      BY <2>1 DEF SearchInv, SearchTypes, ScoredByOwnText
    <2>4. SearchOK'
      BY <2>1, <2>2 DEF SearchInv, SearchOK
    <2> QED
      BY <2>3, <2>4 DEF SearchInv
  <1> QED
    BY <1>1, IngestSearch, SearchSearch, CrashSearch DEF Next

--------------------------------------------------------------------------------

(* A document is cut once, and forgotten as soon as its chunks change.     *)
LEMMA StepDocuments == ASSUME DocumentsOK, JobTypes, [Next]_vars PROVE DocumentsOK'
  <1>1. ASSUME NEW j \in Jobs, Cut(j) PROVE DocumentsOK'
    <2>1. PICK t \in Texts[j] : /\ text' = [text EXCEPT ![j] = t]
                                /\ chunks' = [chunks EXCEPT ![j] = ChunksOf(t)]
      BY <1>1 DEF Cut
    <2>2. text'[j] = t /\ chunks'[j] = ChunksOf(t)
      BY <2>1 DEF JobTypes
    <2>3. \A i \in Jobs : i # j => text'[i] = text[i] /\ chunks'[i] = chunks[i]
      BY <2>1 DEF JobTypes
    <2> QED
      BY <2>2, <2>3 DEF DocumentsOK
  <1>2. ASSUME NEW j \in Jobs, AddDense(j) \/ Fail(j) PROVE DocumentsOK'
    <2>1. text'[j] = <<>>
      BY <1>2 DEF AddDense, Fail, JobTypes
    <2>2. \A i \in Jobs : i # j => text'[i] = text[i] /\ chunks'[i] = chunks[i]
      BY <1>2 DEF AddDense, Fail, JobTypes
    <2> QED
      BY <2>1, <2>2 DEF DocumentsOK
  <1>3. ASSUME Crash PROVE DocumentsOK'
    BY <1>3 DEF Crash, DocumentsOK
  <1>4. ASSUME UNCHANGED <<text, chunks>> PROVE DocumentsOK'
    BY <1>4 DEF DocumentsOK
  <1>5. ASSUME NEW j \in Jobs, Ingest(j) PROVE DocumentsOK'
    <2>1. CASE AddSparse(j) \/ Commit(j) \/ Look(j) \/ Link(j)
      BY <1>4, <2>1 DEF AddSparse, Commit, Look, Link
    <2> QED
      BY <1>1, <1>2, <1>5, <2>1 DEF Ingest
  <1>6. ASSUME NEW s \in Searchers, Search(s) PROVE DocumentsOK'
    BY <1>4, <1>6 DEF Search, SearchDense, SearchSparse, FuseBoth, ingest
  <1>7. CASE UNCHANGED vars
    BY <1>4, <1>7 DEF vars, ingest
  <1> QED
    BY <1>3, <1>5, <1>6, <1>7 DEF Next

(* The number of crashes is bounded.                                       *)
LEMMA StepCrashes == crashes \in 0..MaxCrashes /\ [Next]_vars => crashes' \in 0..MaxCrashes
  <1> SUFFICES ASSUME crashes \in 0..MaxCrashes, [Next]_vars
               PROVE  crashes' \in 0..MaxCrashes
    OBVIOUS
  <1>1. crashes' = crashes \/ (crashes' = crashes + 1 /\ crashes < MaxCrashes)
    BY DEF Next, vars, Ingest, Cut, AddDense, AddSparse, Commit, Look, Link, Fail,
           Search, SearchDense, SearchSparse, FuseBoth, Crash
  <1> QED
    BY <1>1, CorpusAssumption

(* So all of it is kept.                                                   *)
LEMMA Invariance == Spec => []IInv
  <1>1. Init => IInv
    <2>1. Init => crashes \in 0..MaxCrashes
      BY CorpusAssumption DEF Init
    <2>2. Init => DocumentsOK
      BY DEF Init, DocumentsOK
    <2> QED
      BY <2>1, <2>2, InitRows, InitStore, InitSearch DEF IInv
  <1>2. IInv /\ [Next]_vars => IInv'
    BY StepRows, StepStore, StepSearch, StepDocuments, StepCrashes DEF IInv, RowsInv
  <1> QED
    BY <1>1, <1>2, PTL DEF Spec

(* What was appended to begins what results.                               *)
LEMMA ConcatPrefix ==
    ASSUME NEW S, NEW q \in Seq(S), NEW r \in Seq(S)
    PROVE  IsPrefix(q, q \o r) /\ IsPrefix(q, q)
  <1>1. /\ Len(q) \in Nat /\ Len(r) \in Nat /\ q \o r \in Seq(S)
        /\ Len(q \o r) = Len(q) + Len(r)
    BY LenProperties, ConcatProperties
  <1>2. SubSeq(q \o r, 1, Len(q)) = q
    BY SubSeqOfConcat1, SubSeqFull, <1>1
  <1>3. SubSeq(q, 1, Len(q)) = q
    BY SubSeqFull
  <1> QED
    BY <1>1, <1>2, <1>3 DEF IsPrefix

(* The state keeps its type: an id is indexed once, and no index is taken  *)
(* of texts that are not in the store, whatever is added and searched.     *)
THEOREM TypeCorrect == Spec => []TypeOK
  <1>1. IInv => TypeOK
    <2> SUFFICES ASSUME IInv PROVE TypeOK
      OBVIOUS
    <2>1. /\ chunkIds \in Seq(Ids) /\ corpus \in Seq(Ids) /\ bm25 \in Seq(Ids)
          /\ dense \subseteq Ids /\ lock \in Jobs \cup {Nobody} /\ IsInjective(chunkIds)
      BY DEF IInv, StoreInv, StoreTypes, OnceIndexed
    <2>2. ToSet(chunkIds) \subseteq Ids
      <3>1. DOMAIN chunkIds = 1..Len(chunkIds)
        BY <2>1, LenProperties
      <3>2. \A n \in DOMAIN chunkIds : chunkIds[n] \in Ids
        BY <2>1, <3>1, ElementOfSeq
      <3> QED
        BY <3>2 DEF ToSet
    <2>3. IsPrefix(corpus, chunkIds) /\ IsPrefix(bm25, corpus)
      <3>1. CASE lock = Nobody
        <4>1. corpus = chunkIds /\ bm25 = chunkIds
          BY <3>1 DEF IInv, StoreInv, StoreOK
        <4> QED
          BY <2>1, <4>1, ConcatPrefix
      <3>2. CASE lock \in Jobs
        <4> DEFINE j == lock
        <4>1. IdsOf(j) \in Seq(Ids)
          BY <3>2, IdsOfJob DEF IInv, RowsInv
        <4>2. \/ bm25 = corpus /\ chunkIds = corpus \o IdsOf(j)
              \/ corpus = chunkIds /\ chunkIds = bm25 \o IdsOf(j)
          BY <3>2 DEF IInv, StoreInv, StoreOK
        <4> QED
          BY <2>1, <4>1, <4>2, ConcatPrefix
      <3> QED
        BY <2>1, <3>1, <3>2
    <2>4. /\ pc \in [Jobs -> Labels] /\ target \in [Jobs -> Circulars \cup {None}]
          /\ DOMAIN supersedes \subseteq Circulars /\ Older \subseteq DOMAIN supersedes
          /\ \A c \in DOMAIN supersedes : supersedes[c] \in DOMAIN supersedes \cup {None}
          /\ amended \subseteq DOMAIN supersedes /\ crashes \in 0..MaxCrashes
      BY DEF IInv, RowsInv, JobTypes, RowTypes, AmendedIffSuperseded
    <2> QED
      BY <2>1, <2>2, <2>3, <2>4 DEF TypeOK, Labels
  <1> QED
    BY <1>1, Invariance, PTL

(* Whatever the document, the span of each of its chunks cuts the chunk's  *)
(* own text out of it, spans do not overlap, and what is in no span is too *)
(* short to be a chunk, also where a paragraph repeats an earlier one.     *)
THEOREM SpansHold == Spec => []SpansPointAtText
  <1>1. IInv => SpansPointAtText
    <2> SUFFICES ASSUME IInv, NEW j \in Jobs, text[j] # <<>>
                 PROVE  SpansFit(text[j], chunks[j])
      BY DEF SpansPointAtText
    <2>1. chunks[j] = ChunksOf(text[j]) /\ text[j] \in Seq(Lines)
      BY DEF IInv, DocumentsOK, RowsInv, JobTypes
    <2> QED
      BY <2>1, ChunksFit
  <1> QED
    BY <1>1, Invariance, PTL

(* A search scores each id by its own text, though the list of ids that it *)
(* reads goes on growing.                                                  *)
THEOREM ScoresHold == Spec => []ScoredByOwnText
  <1>1. IInv => ScoredByOwnText
    BY DEF IInv, SearchInv
  <1> QED
    BY <1>1, Invariance, PTL

(* A circular is AMENDED exactly when one in the database supersedes it,   *)
(* whatever jobs link, fail or are killed at the same time.                *)
THEOREM StatusesHold == Spec => []AmendedIffSuperseded
  <1>1. IInv => AmendedIffSuperseded
    BY DEF IInv, RowsInv
  <1> QED
    BY <1>1, Invariance, PTL

(* Of two circulars that refer to each other, at least one is linked.      *)
THEOREM LinksHold == Spec => []OneOfTwoLinks
  <1>1. IInv => OneOfTwoLinks
    <2> SUFFICES ASSUME IInv, NEW i \in Jobs, NEW j \in Jobs,
                        pc[i] = "ended", pc[j] = "ended", i # j,
                        chunks[i] # <<>>, chunks[j] # <<>>,
                        NumberOf[i] \in ToSet(refs[j]), NumberOf[j] \in ToSet(refs[i]),
                        supersedes[i] = None, supersedes[j] = None
                 PROVE  FALSE
      BY DEF OneOfTwoLinks, At
    <2>1. Unlinked(i) /\ Unlinked(j) /\ MissesOK /\ JobTypes
      BY DEF Unlinked, IInv, RowsInv
    <2>2. /\ looked[i] = Len(refs[i]) /\ looked[j] = Len(refs[j])
          /\ refs[i] \in Seq(STRING) /\ refs[j] \in Seq(STRING)
      BY <2>1 DEF MissesOK, JobTypes
    <2>3. LookedUp(i, j) /\ LookedUp(j, i)
      <3>1. /\ DOMAIN refs[i] = 1..Len(refs[i]) /\ DOMAIN refs[j] = 1..Len(refs[j])
            /\ Len(refs[i]) \in Nat /\ Len(refs[j]) \in Nat
        BY <2>2, LenProperties
      <3> QED
        BY <2>2, <3>1 DEF LookedUp, ToSet
    <2> QED
      BY <2>1, <2>3 DEF MissesOK
  <1> QED
    BY <1>1, Invariance, PTL


(* Every circular's history is whole: also where circulars supersede each  *)
(* other in a circle.                                                      *)
THEOREM HistoriesHold == Spec => []HistoriesAreWhole
  <1>1. IInv => HistoriesAreWhole
    <2> SUFFICES ASSUME IInv, NEW c \in DOMAIN supersedes
                 PROVE  ChainFits(supersedes, c)
      BY DEF HistoriesAreWhole
    <2> DEFINE D == DOMAIN supersedes
    <2>1. /\ D \in SUBSET Circulars /\ supersedes \in [D -> D \cup {None}]
      BY DEF IInv, RowsInv, RowTypes
    <2>2. IsFiniteSet(Circulars) /\ None \notin Circulars
      BY CorpusAssumption, FS_Union DEF Circulars
    <2> HIDE DEF D
    <2>3. IsFiniteSet(D) /\ None \notin D
      BY <2>1, <2>2, FS_Subset
    <2>4. c \in D
      BY DEF D
    <2> QED
      BY <2>1, <2>3, <2>4, ChainsFit
  <1> QED
    BY <1>1, Invariance, PTL

(* An id that both lists have comes before every id that only one has.     *)
THEOREM AgreementHolds == Spec => []AgreementFirst
  <1>1. IInv => AgreementFirst
    <2> SUFFICES ASSUME IInv, NEW s \in Searchers,
                        NEW i \in DOMAIN fused[s], NEW k \in DOMAIN fused[s],
                        fused[s][i] \in ToSet(nearest[s]) \cap ToSet(SparseIds(s)),
                        fused[s][k] \notin ToSet(nearest[s]) \cap ToSet(SparseIds(s))
                 PROVE  i < k
      <3>1. \A s \in Searchers : {found[s][n].id : n \in DOMAIN found[s]} = ToSet(SparseIds(s))
        BY DEF SparseIds, ToSet
      <3> QED
        BY <3>1 DEF AgreementFirst
    <2> DEFINE first == nearest[s]
               second == SparseIds(s)
               both == ToSet(first) \cup ToSet(second)
               list == Ranked(first, second)
    <2>1. /\ first \in Seq(Ids) /\ Len(first) <= SearchTopK
          /\ second \in Seq(Ids) /\ Len(second) <= SearchTopK
          /\ fused[s] # <<>> => fused[s] = Fuse(first, second, SearchTopK)
      BY DEF IInv, SearchInv, SearchOK, IsHits
    <2>2. fused[s] = Fuse(first, second, SearchTopK)
      <3>1. fused[s] # <<>>
        OBVIOUS
      <3> QED
        BY <2>1, <3>1
    <2> HIDE DEF first, second
    <2>3. /\ list \in SetToSeqs(both)
          /\ \A a, b \in DOMAIN list : a < b => Before(first, second, list[a], list[b])
      BY <2>1, RankedInOrder
    <2>4. IsFiniteSet(both) /\ Cardinality(both) \in Nat
      BY <2>1, SeqIsFinite, FS_Union, FS_CardinalityType
    <2> HIDE DEF list, both
    <2>5. list \in Seq(both)
      <3>1. list \in [1..Cardinality(both) -> both]
        BY <2>3 DEF SetToSeqs
      <3> QED
        BY <2>4, <3>1
    <2>6. /\ DOMAIN fused[s] = 1..Len(fused[s]) /\ DOMAIN list = 1..Len(list)
          /\ Len(fused[s]) \in Nat
          /\ \A n \in DOMAIN fused[s] : n \in DOMAIN list /\ fused[s][n] = list[n]
      <3>1. fused[s] = SubSeq(list, 1, IF SearchTopK < Len(list) THEN SearchTopK ELSE Len(list))
        BY <2>2 DEF Fuse, list
      <3> QED
        BY <2>5, <3>1, CutList, LenProperties, SparseAssumption
    <2>7. i \in Nat /\ k \in Nat /\ i \in DOMAIN list /\ k \in DOMAIN list
      BY <2>6
    <2>8. list[i] \in both /\ list[k] \in both
      BY <2>5, <2>6, <2>7, ElementOfSeq
    <2>9. Before(first, second, list[i], list[k]) /\ ~Before(first, second, list[k], list[i])
      <3>1. /\ list[i] \in ToSet(first) \cap ToSet(second)
            /\ list[k] \notin ToSet(first) \cap ToSet(second)
        BY <2>6 DEF first, second
      <3>2. SearchTopK \in Nat /\ SearchTopK <= RRF_K + 1
        BY CorpusAssumption, SparseAssumption
      <3> QED
        BY <2>1, <2>8, <3>1, <3>2, AgreementFirstRanked DEF both
    <2>10. i # k
      BY <2>9
    <2> QED
      BY <2>3, <2>7, <2>9, <2>10
  <1> QED
    BY <1>1, Invariance, PTL
================================================================================
