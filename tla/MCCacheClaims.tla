----------------------------- MODULE MCCacheClaims -----------------------------
(* Two assessments of one clause, as two uploads of a circular leave them. *)
EXTENDS CacheClaims

MCRows == 1..2
MCPolicyOf == <<"p1", "p1">>
MCClauseOf == <<"c1", "c1">>
MCReasoningOf == <<"a", "b">>
MCReviews == {[status |-> "confirmed", note |-> NoNote],
              [status |-> "rejected", note |-> NoNote]}
MCAsked == {[clause |-> "c2", policy |-> "p1"]}
================================================================================
