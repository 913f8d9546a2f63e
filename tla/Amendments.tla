------------------------------- MODULE Amendments -------------------------------
(***************************************************************************)
(* app/amendment/graph.py: the graph that supersedes_id makes of the       *)
(* circulars in the database, and the two questions it is asked. A graph   *)
(* is a function from circulars to the circular that each supersedes, or   *)
(* to None.                                                                *)
(***************************************************************************)
EXTENDS Naturals, Sequences, FiniteSets, SequencesExt

CONSTANT None

(* build_amendment_graph(): an edge for each supersedes_id that is set.    *)
Successors(graph, c) == {graph[c]} \ {None}

(* find_superseding_circulars(): the predecessors of c.                    *)
Superseding(graph, c) == {d \in DOMAIN graph : c \in Successors(graph, d)}

(* Where the walk from c is.                                               *)
Here(c, chain) == IF chain = <<>> THEN c ELSE Last(chain)

(* Mutant of Onward: the walk does not remember where it was.              *)
OnwardForgetful(graph, c, chain) ==
    IF Successors(graph, Here(c, chain)) = {} THEN chain
    ELSE Append(chain, graph[Here(c, chain)])

(* A step of the walk: it ends where nothing is superseded, or what was    *)
(* visited already.                                                        *)
Onward(graph, c, chain) ==
    IF Successors(graph, Here(c, chain)) \subseteq ToSet(chain) THEN chain
    ELSE Append(chain, graph[Here(c, chain)])

(* find_amendment_chain(): what c supersedes, what that supersedes, and so *)
(* on; each step visits another circular, so that there are no more steps  *)
(* than circulars.                                                         *)
Chain(graph, c) ==
    LET walk[n \in Nat] == IF n = 0 THEN <<>> ELSE Onward(graph, c, walk[n - 1])
    IN  walk[Cardinality(DOMAIN graph)]

--------------------------------------------------------------------------------

(* What c supersedes, directly or through others: what is in every set     *)
(* that has the one it supersedes and, of any other, the one that it does. *)
Superseded(graph, c) ==
    LET Closed(S) == \A d \in S \cup {c} : graph[d] \in S \cup {None}
    IN  {d \in DOMAIN graph : \A S \in SUBSET DOMAIN graph : Closed(S) => d \in S}

(* The chain of a circular is its whole history, in order, without         *)
(* repetition, though supersedes_id may lead round in a circle: in which   *)
(* the circular itself may be the last of its own history.                 *)
ChainFits(graph, c) ==
    LET chain == Chain(graph, c) IN
    /\ IsInjective(chain)
    /\ \A n \in DOMAIN chain : graph[IF n = 1 THEN c ELSE chain[n - 1]] = chain[n]
    /\ Superseded(graph, c) = ToSet(chain)
================================================================================
