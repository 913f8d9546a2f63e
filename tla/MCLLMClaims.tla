------------------------------ MODULE MCLLMClaims ------------------------------
EXTENDS LLMClaims

CONSTANTS t1, t2

MCThreads == {t1, t2}
MCBackoff == <<1>>
================================================================================
