-------------------------------- MODULE Accounts --------------------------------
(***************************************************************************)
(* The tables of users and policies, and what fills them before a request  *)
(* is served: seed_admin_if_empty() of app/main.py, which every worker     *)
(* runs when it starts, and scripts/seed.py, which may be run at any time. *)
(* Each looks before it inserts, in steps of their own; the column of the  *)
(* emails is unique, so that the second of two inserts fails.              *)
(***************************************************************************)
EXTENDS Naturals

CONSTANTS
    Workers,
    Users,      \* emails
    Seeded,     \* admin@regwatch.demo
    Names,      \* of policies; those of data/seed_policies.json
    NoUser,     \* the role of an email that is not registered
    MaxRows     \* bound: policies of one name

Roles == {"admin", "reviewer", "viewer"}

ASSUME AccountsAssumption ==
    Seeded \in Users /\ NoUser \notin Roles /\ MaxRows \in Nat

VARIABLES
    role,       \* email -> the role stored with it
    policies,   \* name -> rows of that name
    worker,     \* worker -> where its startup is
    script,     \* where scripts/seed.py is
    missing     \* names that the script did not find

tables == <<role, policies>>
startup == <<worker, script, missing>>

AccountsTypeOK ==
    /\ role \in [Users -> Roles \cup {NoUser}]
    /\ policies \in [Names -> 0..MaxRows]
    /\ worker \in [Workers -> {"down", "insert", "serving"}]
    /\ script \in {"off", "policies", "admin", "insert"}
    /\ missing \subseteq Names

AccountsInit ==
    /\ role = [u \in Users |-> NoUser]
    /\ policies = [n \in Names |-> 0]
    /\ worker = [w \in Workers |-> "down"]
    /\ script = "off"
    /\ missing = {}

--------------------------------------------------------------------------------

Registered(u) == role[u] # NoUser

(* An insert of a user: it fails when the email has been taken.            *)
Insert(u, r) == ~Registered(u) /\ role' = [role EXCEPT ![u] = r]

Become(w, label) == worker' = [worker EXCEPT ![w] = label]

(* Mutant of Start: requests are served before the admin is seeded.        *)
StartUnseeded(w) ==
    /\ worker[w] = "down"
    /\ Become(w, "serving")
    /\ UNCHANGED <<tables, script, missing>>

(* on_startup() of a worker: is there the demo admin?                      *)
Start(w) ==
    /\ worker[w] = "down"
    /\ Become(w, IF Registered(Seeded) THEN "serving" ELSE "insert")
    /\ UNCHANGED <<tables, script, missing>>

(* There was none: a worker whose insert fails does not come up.           *)
StartInsert(w) ==
    /\ worker[w] = "insert"
    /\ \/ Insert(Seeded, "admin") /\ Become(w, "serving")
       \/ Registered(Seeded) /\ Become(w, "down") /\ UNCHANGED role
    /\ UNCHANGED <<policies, script, missing>>

(* seed_policies(): the names in the table ...                             *)
SeedLook ==
    /\ script = "off"
    /\ script' = "policies"
    /\ missing' = {n \in Names : policies[n] = 0}
    /\ UNCHANGED <<tables, worker>>

(* ... and one commit of the policies that were not among them.            *)
SeedPolicies ==
    /\ script = "policies"
    /\ \A n \in missing : policies[n] < MaxRows
    /\ policies' = [n \in Names |-> policies[n] + IF n \in missing THEN 1 ELSE 0]
    /\ script' = "admin"
    /\ missing' = {}
    /\ UNCHANGED <<role, worker>>

(* seed_admin_user() looks for the demo admin ...                          *)
SeedAdminLook ==
    /\ script = "admin"
    /\ script' = IF Registered(Seeded) THEN "off" ELSE "insert"
    /\ UNCHANGED <<tables, worker, missing>>

(* ... and inserts it, or fails and ends all the same.                     *)
SeedAdmin ==
    /\ script = "insert"
    /\ \/ Insert(Seeded, "admin")
       \/ Registered(Seeded) /\ UNCHANGED role
    /\ script' = "off"
    /\ UNCHANGED <<policies, worker, missing>>

Seed == SeedLook \/ SeedPolicies \/ SeedAdminLook \/ SeedAdmin
================================================================================
