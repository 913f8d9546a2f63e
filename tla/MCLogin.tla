-------------------------------- MODULE MCLogin --------------------------------
(* Two addresses, whose attempts are enough to lock an account and to keep *)
(* it locked if refused requests counted, and too few to bring both of the *)
(* accounts to their bounds at once.                                       *)
EXTENDS Login, TLC
================================================================================
