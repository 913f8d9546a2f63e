---------------------------- MODULE MCPipelineClaims ----------------------------
(* Two uploads with a chunk each, which refer to each other, and a server  *)
(* that may crash once.                                                    *)
EXTENDS PipelineClaims, TLC

CONSTANTS j1, j2, p1, c1, c2

MCJobs == {j1, j2}
MCPolicies == {p1}
MCChunk == {c1, c2}
MCDocuments == j1 :> {{c1}} @@ j2 :> {{c2}}
MCReferences == j1 :> {j2} @@ j2 :> {j1}
================================================================================
