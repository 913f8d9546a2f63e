------------------------------- MODULE MCJobStore -------------------------------
(* Two workers, two clients that may poll either, and a Redis that may be  *)
(* down at first and is lost up to two times.                              *)
EXTENDS JobStore, TLC

CONSTANTS w1, w2, k1, k2

MCWorkers == {w1, w2}
MCClients == {k1, k2}
ClientSymmetry == Permutations(MCClients)
================================================================================
