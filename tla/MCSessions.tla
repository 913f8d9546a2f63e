------------------------------- MODULE MCSessions -------------------------------
(* The startup of a worker races the script.  Two clients are enough for a *)
(* demotion of the one during a request of the other, and for promotions   *)
(* and demotions of one user to cross.  A token lasts two seconds; the     *)
(* clock goes on for one, to when a key that is a second short were gone.  *)
EXTENDS Sessions, TLC

CONSTANTS boss, ann, kyc, c1, c2

MCOrders ==
    [kind : {"role"}, user : {ann}, to : {"admin", "viewer"}]
        \cup {[kind |-> "role", user |-> boss, to |-> "viewer"],
              [kind |-> "policy", name |-> kyc]}

Symmetric == Permutations({c1, c2})
================================================================================
