----------------------------- MODULE MCVectorIndex -----------------------------
(* Two adds, of two chunks and of one, and a search, at once, in a process *)
(* that may be cold, and may crash once; the disk may fail once.           *)
EXTENDS VectorIndex, TLC

CONSTANTS a1, a2, s1, c1, c2, c3

MCAdders == {a1, a2}
MCSearchers == {s1}
MCChunk == {c1, c2, c3}
MCBatch == a1 :> <<c1, c2>> @@ a2 :> <<c3>>
================================================================================
