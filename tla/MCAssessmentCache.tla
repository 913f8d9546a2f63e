--------------------------- MODULE MCAssessmentCache ---------------------------
EXTENDS AssessmentCache

MCRows == {1}
MCPolicyOf == [a \in MCRows |-> "p1"]
MCClauseOf == <<"c1">>
MCReasoningOf == <<"a">>
MCReviews == {[status |-> "confirmed", note |-> NoNote],
              [status |-> "rejected", note |-> "n"]}
MCAsked == {[clause |-> c, policy |-> "p1"] : c \in {"c1"}}
MCVersions == 1..2
Symmetry == Permutations(Jobs) \cup Permutations(Reviewers)
================================================================================
