------------------------------ MODULE CacheClaims ------------------------------
(***************************************************************************)
(* What feedback.py says of its signature, and the cache does not keep.    *)
(***************************************************************************)
EXTENDS AssessmentCache

(* feedback.py:58-60: the signature is "used so the LLM-response cache     *)
(* correctly invalidates when new feedback changes what would be injected, *)
(* instead of silently serving a stale pre-feedback answer". Then the      *)
(* answer that is served was made with the very examples that would be     *)
(* injected now.                                                           *)
PromptFits ==
    \A c \in Callers : At(c, "served") =>
        Prompt(calls[c].result.examples) = Prompt(calls[c].examples)
================================================================================
