------------------------------- MODULE LLMClaims -------------------------------
(***************************************************************************)
(* What a docstring of llm_client.py says of call_llm_json, put to the     *)
(* code.                                                                   *)
(***************************************************************************)
EXTENDS LLMClient

(* llm_client.py:101-103: call_llm_json "Raises LLMUnavailableError if the *)
(* circuit breaker is open or all retries are exhausted - callers should   *)
(* catch this and use the rule-based fallback matcher instead of crashing".*)
(* No other error may come out of it.                                      *)
OnlyLLMUnavailable == \A t \in Threads : pc[t] # "crashed"
================================================================================
