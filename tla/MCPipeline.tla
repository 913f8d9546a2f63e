------------------------------- MODULE MCPipeline -------------------------------
(* Two uploads that refer to each other: one has no chunk, one or two, the *)
(* other has one.  The chunks compete in the indexes.                      *)
EXTENDS Pipeline, TLC

CONSTANTS j1, j2, p1, c1, c2, c3

MCJobs == {j1, j2}
MCPolicies == {p1}
MCChunk == {c1, c2, c3}
MCDocuments == j1 :> {{}, {c1}, {c1, c2}} @@ j2 :> {{c3}}
MCReferences == j1 :> {j2} @@ j2 :> {j1}
================================================================================
