------------------------------- MODULE RankFusion -------------------------------
(***************************************************************************)
(* app/vectorstore/hybrid_retriever.py: Reciprocal Rank Fusion of the list *)
(* of chunks that dense retrieval ranked and the one that sparse retrieval *)
(* ranked. A score is a sum of fractions 1/(RRF_K + rank), and is kept as  *)
(* one fraction of natural numbers, so that scores compare exactly.        *)
(***************************************************************************)
EXTENDS Naturals, Sequences, FiniteSets, SequencesExt

CONSTANT RRF_K

ASSUME FusionAssumption == RRF_K \in Nat

IndexIn(list, x) == CHOOSE i \in DOMAIN list : list[i] = x

(* Mutant of Place: no constant dampens the ranks.                         *)
PlaceUndamped(list, x) == IndexIn(list, x)

(* The denominator of what a list adds to the score of x; ranks are        *)
(* enumerated from zero, to which the code adds one.                       *)
Place(list, x) == RRF_K + IndexIn(list, x)

(* fused_scores[x], as <<numerator, denominator>>                          *)
Score(dense, sparse, x) ==
    LET a == Place(dense, x)
        b == Place(sparse, x)
    IN  IF x \notin ToSet(sparse) THEN <<1, a>>
        ELSE IF x \notin ToSet(dense) THEN <<1, b>>
        ELSE <<a + b, a * b>>

Beats(s, t) == s[1] * t[2] > t[1] * s[2]

(* When x was put into fused_scores: the ids of the dense list come first. *)
Inserted(dense, sparse, x) ==
    IF x \in ToSet(dense) THEN IndexIn(dense, x) ELSE Len(dense) + IndexIn(sparse, x)

(* The sort is stable: ids of one score stay as they were put in.          *)
Before(dense, sparse, x, y) ==
    LET s == Score(dense, sparse, x)
        t == Score(dense, sparse, y)
    IN  \/ Beats(s, t)
        \/ ~Beats(t, s) /\ Inserted(dense, sparse, x) < Inserted(dense, sparse, y)

Ranked(dense, sparse) ==
    CHOOSE list \in SetToSeqs(ToSet(dense) \cup ToSet(sparse)) :
        \A i, k \in DOMAIN list : i < k => Before(dense, sparse, list[i], list[k])

(* hybrid_search(): the fused ids, best first, cut to topK.                *)
Fuse(dense, sparse, topK) ==
    LET ranked == Ranked(dense, sparse)
    IN  SubSeq(ranked, 1, IF topK < Len(ranked) THEN topK ELSE Len(ranked))
================================================================================
