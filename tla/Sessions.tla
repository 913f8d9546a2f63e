-------------------------------- MODULE Sessions --------------------------------
(***************************************************************************)
(* Who may do what: app/auth.py, with the endpoints that hand out tokens,  *)
(* revoke them and change roles (app/api/auth_routes.py, app/api/routes.py)*)
(* and the clients that keep a token (frontend/streamlit_app.py).          *)
(*                                                                         *)
(* A request passes through steps of its own: its token is decoded, Redis  *)
(* is asked whether it was revoked, the user is loaded, the role checked,  *)
(* and the change committed.  Roles, the clock and Redis may change in     *)
(* between.  Time is in half seconds, as a token ends at a whole second    *)
(* and the key that revokes it lives for a whole number of seconds.        *)
(***************************************************************************)
EXTENDS Accounts, Sequences, FiniteSets

CONSTANTS
    Clients,
    Orders,      \* what clients ask for with their tokens
    TokenLife,   \* jwt_expire_minutes, in seconds
    MaxTokens,   \* bound: tokens handed out
    MaxTime      \* bound: the clock stops here

(* PATCH /users/{user_id}/role and POST /policies.                         *)
RoleOrders == [kind : {"role"}, user : Users, to : Roles]
PolicyOrders == [kind : {"policy"}, name : Names]

ASSUME SessionsAssumption ==
    /\ Orders \subseteq RoleOrders \cup PolicyOrders
    /\ TokenLife \in Nat \ {0} /\ MaxTokens \in Nat /\ MaxTime \in Nat

VARIABLES
    clock,       \* utcnow(), in half seconds
    tokens,      \* the tokens handed out: whose, with which role, until when
    session,     \* client -> its token (0: none)
    up,          \* Redis answers
    revoked,     \* token -> when its key in Redis ends (0: there is no key)
    request,     \* client -> its request, where it is and what it has loaded
    (* history *)
    loggedOut    \* tokens revoked in Redis, if its data was not lost since

redis == <<up, revoked>>
vars == <<tables, startup, clock, tokens, session, redis, request, loggedOut>>

Idle == [step |-> "idle"]

Requests ==
    {Idle}
      \cup [step : {"register"}, worker : Workers, user : Users]
      \cup [step : {"revocation", "load", "handle", "commit"}, worker : Workers,
            token : 1..MaxTokens, order : Orders,
            loaded : Roles \cup {NoUser}, held : SUBSET Roles]

TypeOK ==
    /\ AccountsTypeOK
    /\ clock \in 0..MaxTime
    /\ tokens \in Seq([user : Users, role : Roles, exp : Nat])
    /\ Len(tokens) <= MaxTokens
    /\ session \in [Clients -> 0..Len(tokens)]
    /\ up \in BOOLEAN
    /\ revoked \in [1..MaxTokens -> Nat]
    /\ request \in [Clients -> Requests]
    /\ loggedOut \subseteq DOMAIN tokens

Init ==
    /\ AccountsInit
    /\ clock = 0
    /\ tokens = <<>>
    /\ session = [c \in Clients |-> 0]
    /\ up = TRUE
    /\ revoked = [i \in 1..MaxTokens |-> 0]
    /\ request = [c \in Clients |-> Idle]
    /\ loggedOut = {}

--------------------------------------------------------------------------------

(* create_access_token(): the end is cut to a whole second.                *)
Token(u, r) == [user |-> u, role |-> r, exp |-> (clock + 2 * TokenLife) \div 2]

(* A client gets a token, and keeps it.                                    *)
HandOut(c, u, r) ==
    /\ Len(tokens) < MaxTokens
    /\ tokens' = Append(tokens, Token(u, r))
    /\ session' = [session EXCEPT ![c] = Len(tokens) + 1]

Ends(c) == request' = [request EXCEPT ![c] = Idle]

(* register(): the email is looked for ...                                 *)
Register(c) ==
    /\ request[c] = Idle
    /\ \E w \in Workers, u \in Users :
        /\ worker[w] = "serving"
        /\ ~Registered(u)
        /\ request' = [request EXCEPT ![c] =
                          [step |-> "register", worker |-> w, user |-> u]]
    /\ UNCHANGED <<tables, startup, clock, tokens, session, redis, loggedOut>>

(* ... and inserted, for the role of a viewer and no other.                *)
RegisterCommit(c) ==
    /\ request[c].step = "register"
    /\ LET u == request[c].user IN
       \/ Insert(u, "viewer") /\ HandOut(c, u, "viewer")
       \/ Registered(u) /\ UNCHANGED <<role, tokens, session>>
    /\ Ends(c)
    /\ UNCHANGED <<policies, startup, clock, redis, loggedOut>>

(* login(), whose limits are in Login.                                     *)
LogIn(c) ==
    /\ request[c] = Idle
    /\ session[c] = 0
    /\ \E w \in Workers : worker[w] = "serving"
    /\ \E u \in Users : Registered(u) /\ HandOut(c, u, role[u])
    /\ UNCHANGED <<tables, startup, clock, redis, request, loggedOut>>

(* "Log out" of the front end drops the token, and tells nobody.           *)
Drop(c) ==
    /\ request[c] = Idle
    /\ session[c] # 0
    /\ session' = [session EXCEPT ![c] = 0]
    /\ UNCHANGED <<tables, startup, clock, tokens, redis, request, loggedOut>>

(* jwt.decode(): a token is good through the second in which it ends.      *)
Expired(i) == clock \div 2 > tokens[i].exp

AtLeast(n, m) == IF n < m THEN m ELSE n

(* Mutant of KeyEnds: a second is lost.                                    *)
KeyEndsEarly(i) == clock + 2 * AtLeast((2 * tokens[i].exp - clock) \div 2 - 1, 1)

(* revoke_token(): the key is to live for what is left of the token.       *)
KeyEnds(i) == clock + 2 * AtLeast((2 * tokens[i].exp - clock) \div 2, 1)

(* POST /auth/logout: while Redis is down, it is answered like any other.  *)
LogOut(c) ==
    /\ request[c] = Idle
    /\ session[c] # 0
    /\ \E w \in Workers : worker[w] = "serving"
    /\ LET i == session[c] IN
        /\ ~Expired(i)
        /\ IF up THEN /\ revoked' = [revoked EXCEPT ![i] = KeyEnds(i)]
                      /\ loggedOut' = loggedOut \cup {i}
                 ELSE UNCHANGED <<revoked, loggedOut>>
    /\ UNCHANGED <<tables, startup, clock, tokens, session, up, request>>

--------------------------------------------------------------------------------

User(c) == tokens[request[c].token].user

(* A request with a token that has not expired.                            *)
Arrive(c) ==
    /\ request[c] = Idle
    /\ session[c] # 0
    /\ ~Expired(session[c])
    /\ \E w \in Workers, o \in Orders :
        /\ worker[w] = "serving"
        /\ request' = [request EXCEPT ![c] =
                          [step |-> "revocation", worker |-> w,
                           token |-> session[c], order |-> o, loaded |-> NoUser,
                           held |-> {role[tokens[session[c]].user]}]]
    /\ UNCHANGED <<tables, startup, clock, tokens, session, redis, loggedOut>>

Goes(c, step) == request' = [request EXCEPT ![c].step = step]

(* is_token_revoked(): no, if Redis cannot be asked.                       *)
CheckRevoked(c) ==
    /\ request[c].step = "revocation"
    /\ IF up /\ revoked[request[c].token] > clock THEN Ends(c) ELSE Goes(c, "load")
    /\ UNCHANGED <<tables, startup, clock, tokens, session, redis, loggedOut>>

(* Mutant of LoadedRole: the role is taken from the token.                 *)
LoadedRoleOfToken(c) == tokens[request[c].token].role

LoadedRole(c) == role[User(c)]

(* get_current_user() loads the user, require_role() checks the role.      *)
LoadUser(c) ==
    /\ request[c].step = "load"
    /\ IF LoadedRole(c) = "admin"
       THEN request' = [request EXCEPT ![c].step = "handle",
                                       ![c].loaded = LoadedRole(c)]
       ELSE Ends(c)
    /\ UNCHANGED <<tables, startup, clock, tokens, session, redis, loggedOut>>

(* update_user_role() loads the user whose role is to change: if that is   *)
(* who asks, the row it has loaded is not loaded again.                    *)
LoadTarget(c) ==
    /\ request[c].step = "handle"
    /\ request[c].order.kind = "role"
    /\ LET target == request[c].order.user IN
       IF ~Registered(target) THEN Ends(c)
       ELSE request' = [request EXCEPT
                ![c].step = "commit",
                ![c].loaded = IF target = User(c) THEN @ ELSE role[target]]
    /\ UNCHANGED <<tables, startup, clock, tokens, session, redis, loggedOut>>

(* What requests under way have seen of user u when its role becomes r.    *)
Noting(u, r, c) ==
    [d \in Clients |->
        IF d = c THEN Idle
        ELSE IF "token" \in DOMAIN request[d] /\ User(d) = u
             THEN [request[d] EXCEPT !.held = @ \cup {r}]
             ELSE request[d]]

(* The session writes the column only if it is not what was loaded.        *)
SetRole(c) ==
    /\ request[c].step = "commit"
    /\ LET o == request[c].order IN
       \/ /\ o.to # request[c].loaded
          /\ role' = [role EXCEPT ![o.user] = o.to]
          /\ request' = Noting(o.user, o.to, c)
       \/ o.to = request[c].loaded /\ UNCHANGED role /\ Ends(c)
    /\ UNCHANGED <<policies, startup, clock, tokens, session, redis, loggedOut>>

(* create_policy(): names are not unique.                                  *)
CreatePolicy(c) ==
    /\ request[c].step = "handle"
    /\ request[c].order.kind = "policy"
    /\ LET n == request[c].order.name IN
        /\ policies[n] < MaxRows
        /\ policies' = [policies EXCEPT ![n] = @ + 1]
    /\ Ends(c)
    /\ UNCHANGED <<role, startup, clock, tokens, session, redis, loggedOut>>

--------------------------------------------------------------------------------

(* A worker stops, and the requests that it serves with it.                *)
Stop(w) ==
    /\ worker[w] = "serving"
    /\ Become(w, "down")
    /\ request' = [c \in Clients |->
                      IF request[c] # Idle /\ request[c].worker = w
                      THEN Idle ELSE request[c]]
    /\ UNCHANGED <<tables, script, missing, clock, tokens, session, redis, loggedOut>>

Tick ==
    /\ clock < MaxTime
    /\ clock' = clock + 1
    /\ UNCHANGED <<tables, startup, tokens, session, redis, request, loggedOut>>

GoDown ==
    /\ up
    /\ up' = FALSE
    /\ UNCHANGED <<tables, startup, clock, tokens, session, revoked, request, loggedOut>>

(* Redis comes back, with its data or without.                             *)
ComeUp ==
    /\ ~up
    /\ up' = TRUE
    /\ \/ UNCHANGED <<revoked, loggedOut>>
       \/ revoked' = [i \in 1..MaxTokens |-> 0] /\ loggedOut' = {}
    /\ UNCHANGED <<tables, startup, clock, tokens, session, request>>

Served(c) ==
    \/ Register(c) \/ RegisterCommit(c) \/ LogIn(c) \/ Drop(c) \/ LogOut(c)
    \/ Arrive(c) \/ CheckRevoked(c) \/ LoadUser(c)
    \/ LoadTarget(c) \/ SetRole(c) \/ CreatePolicy(c)

Starting ==
    /\ Seed \/ \E w \in Workers : Start(w) \/ StartInsert(w)
    /\ UNCHANGED <<clock, tokens, session, redis, request, loggedOut>>

Next ==
    \/ \E c \in Clients : Served(c)
    \/ Starting
    \/ \E w \in Workers : Stop(w)
    \/ Tick \/ GoDown \/ ComeUp

Spec == Init /\ [][Next]_vars

--------------------------------------------------------------------------------

(* A user becomes an admin, or ceases to be one, and a policy is added,    *)
(* only by a request whose own user was an admin at some moment of it, or  *)
(* by the seeding: never by what a token says, by a registration, or by    *)
(* one who was demoted before the request came in ("only an existing admin *)
(* can promote/demote", routes.py:47).                                     *)
ByAdmin ==
    \E c \in Clients :
        /\ request[c].step \in {"handle", "commit"}
        /\ request'[c] = Idle
        /\ "admin" \in request[c].held

ChangedByAdmins ==
    [][/\ \A u \in Users :
            Registered(u) /\ role'[u] # role[u] => ByAdmin
       /\ policies' # policies => script = "policies" \/ ByAdmin]_<<role, policies>>

(* The first to hold the demo admin's email is the demo admin: whoever     *)
(* registers, and however the startups of the workers and the script       *)
(* interleave, the email is not taken by a viewer before it is seeded.     *)
SeededAsAdmin == [][~Registered(Seeded) => role'[Seeded] = "admin"]_role

(* A request with a revoked token is refused, whichever worker serves it   *)
(* and however long ago the logout was, as long as Redis can be asked and  *)
(* has kept its data, up to the last second before the token ends.         *)
RevokedStaysRefused ==
    [][\A c \in Clients :
        /\ request[c].step = "revocation"
        /\ request[c].token \in loggedOut
        /\ up
        /\ clock <= 2 * tokens[request[c].token].exp - 2
        => request'[c].step # "load"]_request
================================================================================
