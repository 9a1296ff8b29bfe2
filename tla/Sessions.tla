------------------------------ MODULE Sessions ------------------------------
(***************************************************************************)
(* Tokens and what they open: the pairs that jwt.GenerateTokenPair signs   *)
(* for Register, Login and RefreshToken, the requests AuthMiddleware and   *)
(* RequireRole let through, and the account behind a token, which may      *)
(* change or go while the token lives.  Tokens are never stored by the     *)
(* server: a token is what its claims say.  The clock ticks in the unit of *)
(* the exp claim.                                                          *)
(*                                                                         *)
(* A request takes time: its token or its row is read first, and used      *)
(* later.  How a row is written is the business of module Accounts; here   *)
(* it is a role, or gone.                                                  *)
(***************************************************************************)
EXTENDS Config, FiniteSets

CONSTANTS
  Users,         \* account ids; an id is never given out again
  Procs,         \* goroutines that serve requests
  MaxLag,        \* how old an answer of a standby can be
  MaxStall,      \* how long a request can take between two of its steps
  AccessLimit,   \* the longest JWT_ACCESS_EXPIRY of any configuration
  RefreshLimit,  \* the longest JWT_REFRESH_EXPIRY of any configuration
  MaxTokens,     \* bound: tokens clients hold
  MaxTime        \* bound: ticks of the clock

ASSUME SessionsAssumption ==
  /\ MaxLag \in Nat /\ MaxStall \in Nat
  /\ AccessLimit \in Nat /\ RefreshLimit \in Nat /\ MaxTokens \in Nat /\ MaxTime \in Nat
  /\ \A c \in Configs : /\ c.JWTAccessExpiry \in Int /\ c.JWTAccessExpiry <= AccessLimit
                        /\ c.JWTRefreshExpiry \in Int /\ c.JWTRefreshExpiry <= RefreshLimit

VARIABLES
  now,     \* the clock
  cfg,     \* configurations of the running process: one, or none while it is down
  role,    \* role column of each account in the primary
  left,    \* when an account last stopped having a role
  tokens,  \* tokens clients hold
  proc     \* what each goroutine is doing

vars == <<now, cfg, role, left, tokens, proc>>

Roles == {"user", "admin"}
Idle == [at |-> "idle"]

\* A time before all that matters at the beginning.
Never == 0 - 1 - AccessLimit - RefreshLimit - MaxLag - 2 * MaxStall

\* A token's claims; a refresh token's carry neither email nor role, and
\* nothing else tells it from an access token.
Secrets == {c.JWTSecret : c \in Configs}
Claims == [user : Users, role : Roles \cup {""}, exp : Int, secret : Secrets]

\* A pair about to be signed for a row read earlier, and a request that got
\* past the middleware of its route.
Signing == [at : {"sign"}, user : Users, role : Roles, since : Nat]
Admitted == [at : {"admin", "plain"}, user : Users, since : Nat]

\* The type of every variable.
TypeOK ==
  /\ now \in Nat
  /\ cfg \subseteq Configs
  /\ role \in [Users -> Roles \cup {"none", "gone"}]
  /\ left \in [Users -> [Roles -> Int]]
  /\ tokens \subseteq Claims
  /\ proc \in [Procs -> {Idle} \cup Signing \cup Admitted]

\* The account had role r at some moment since t.
Held(u, r, t) == role[u] = r \/ left[u][r] >= t

-----------------------------------------------------------------------------
(* Tokens *)

\* Mutant of GenerateTokenPair: the refresh token carries the role as well.
GenerateTokenPairSame(c, u, r) ==
  {[user |-> u, role |-> r, exp |-> now + c.JWTAccessExpiry, secret |-> c.JWTSecret],
   [user |-> u, role |-> r, exp |-> now + c.JWTRefreshExpiry, secret |-> c.JWTSecret]}

GenerateTokenPair(c, u, r) ==
  {[user |-> u, role |-> r, exp |-> now + c.JWTAccessExpiry, secret |-> c.JWTSecret],
   [user |-> u, role |-> "", exp |-> now + c.JWTRefreshExpiry, secret |-> c.JWTSecret]}

\* The signature is checked with the process's own secret, and exp is set.
ValidateToken(c, tok) == tok.secret = c.JWTSecret /\ now < tok.exp

-----------------------------------------------------------------------------
(* Requests *)

Become(p, s) == proc' = [proc EXCEPT ![p] = s]

\* Login reads the row by email, at a standby up to MaxLag behind,
\* and compares the password.
Login(p, u, r) ==
  /\ cfg # {} /\ proc[p] = Idle
  /\ Held(u, r, now - MaxLag)
  /\ Become(p, [at |-> "sign", user |-> u, role |-> r, since |-> now])
  /\ UNCHANGED <<now, cfg, role, left, tokens>>

\* Mutant of RefreshToken: the claims are good enough, no row is read.
RefreshTokenUnread(p, tok, r) ==
  /\ \E c \in cfg : ValidateToken(c, tok)
  /\ proc[p] = Idle
  /\ Become(p, [at |-> "sign", user |-> tok.user, role |-> r, since |-> now])
  /\ UNCHANGED <<now, cfg, role, left, tokens>>

\* RefreshToken takes any valid token, an access token too, and the role from
\* the row, not from the token.  Without a row, or an answer, it is a 401.
RefreshToken(p, tok, r) ==
  /\ \E c \in cfg : ValidateToken(c, tok)
  /\ proc[p] = Idle
  /\ Held(tok.user, r, now - MaxLag)
  /\ Become(p, [at |-> "sign", user |-> tok.user, role |-> r, since |-> now])
  /\ UNCHANGED <<now, cfg, role, left, tokens>>

\* Register's own row needs no reading.
Register(p, u) ==
  /\ cfg # {} /\ proc[p] = Idle
  /\ role[u] = "none"
  /\ role' = [role EXCEPT ![u] = "user"]
  /\ Become(p, [at |-> "sign", user |-> u, role |-> "user", since |-> now])
  /\ UNCHANGED <<now, cfg, left, tokens>>

\* generateTokenPair, with the time of the signing, not of the reading.
Sign(p) ==
  /\ proc[p].at = "sign"
  /\ Cardinality(tokens) + 2 <= MaxTokens
  /\ \E c \in cfg :
       tokens' = tokens \cup GenerateTokenPair(c, proc[p].user, proc[p].role)
  /\ Become(p, Idle)
  /\ UNCHANGED <<now, cfg, role, left>>

\* AuthMiddleware puts the claims into the context of the request; what comes
\* later reads them there.  The routes under /me, /exchange, /events and
\* /auth/logout ask for no more.
AuthMiddleware(p, tok) ==
  /\ \E c \in cfg : ValidateToken(c, tok)
  /\ proc[p] = Idle
  /\ Become(p, [at |-> "plain", user |-> tok.user, since |-> now])
  /\ UNCHANGED <<now, cfg, role, left, tokens>>

\* The routes under /admin ask for the role "admin" in the same claims.
RequireRole(p, tok) ==
  /\ \E c \in cfg : ValidateToken(c, tok)
  /\ proc[p] = Idle
  /\ tok.role = "admin"
  /\ Become(p, [at |-> "admin", user |-> tok.user, since |-> now])
  /\ UNCHANGED <<now, cfg, role, left, tokens>>

SetRole(u, r) ==
  /\ role' = [role EXCEPT ![u] = r]
  /\ left' = IF role[u] \in Roles THEN [left EXCEPT ![u][role[u]] = now] ELSE left

\* The handler of a route without a role: nothing of an account's role or
\* life changes, and Logout changes nothing at all.
Handle(p) ==
  /\ proc[p].at = "plain"
  /\ Become(p, Idle)
  /\ UNCHANGED <<now, cfg, role, left, tokens>>

\* An admin's request: the list of users, or an account deleted, which may be
\* gone already.  Tokens of the account stay with its clients.
AdminHandle(p) ==
  /\ proc[p].at = "admin"
  /\ \/ UNCHANGED <<role, left>>
     \/ \E u \in Users : role[u] \in Roles /\ SetRole(u, "gone")
  /\ Become(p, Idle)
  /\ UNCHANGED <<now, cfg, tokens>>

-----------------------------------------------------------------------------
(* Outside *)

\* No operation changes a role: somebody does it in the database.
Promote(u) ==
  /\ role[u] \in Roles
  /\ \E r \in Roles \ {role[u]} : SetRole(u, r)
  /\ UNCHANGED <<now, cfg, tokens, proc>>

\* Mutant of Restart: the error of Load is ignored.
RestartAnyway(env) ==
  /\ cfg' = {Load(env)}
  /\ proc' = [p \in Procs |-> Idle]
  /\ UNCHANGED <<now, role, left, tokens>>

\* The process is restarted with another environment, or refuses to start.
\* Its requests are lost, not the tokens of its clients.
Restart(env) ==
  /\ cfg' = IF Loads(env) THEN {Load(env)} ELSE {}
  /\ proc' = [p \in Procs |-> Idle]
  /\ UNCHANGED <<now, role, left, tokens>>

\* A client throws a token away.
Forget(tok) ==
  /\ tokens' = tokens \ {tok}
  /\ UNCHANGED <<now, cfg, role, left, proc>>

\* Time passes while no request is over its MaxStall.
Tick ==
  /\ now < MaxTime
  /\ \A p \in Procs : proc[p] # Idle => now < proc[p].since + MaxStall
  /\ now' = now + 1
  /\ UNCHANGED <<cfg, role, left, tokens, proc>>

-----------------------------------------------------------------------------
Init ==
  /\ now = 0
  /\ cfg = {}
  /\ role = [u \in Users |-> "none"]
  /\ left = [u \in Users |-> [r \in Roles |-> Never]]
  /\ tokens = {}
  /\ proc = [p \in Procs |-> Idle]

Serve(p) ==
  \/ \E u \in Users : Register(p, u) \/ \E r \in Roles : Login(p, u, r)
  \/ \E tok \in tokens :
       AuthMiddleware(p, tok) \/ RequireRole(p, tok) \/ \E r \in Roles : RefreshToken(p, tok, r)
  \/ Sign(p) \/ Handle(p) \/ AdminHandle(p)

Next ==
  \/ \E p \in Procs : Serve(p)
  \/ \E u \in Users : Promote(u)
  \/ \E env \in Envs : Restart(env)
  \/ \E tok \in tokens : Forget(tok)
  \/ Tick

Spec == Init /\ [][Next]_vars

-----------------------------------------------------------------------------
(* Properties *)

\* What an admin's request does is done by someone who was an admin not long
\* ago: no longer than an access token lives, a standby lags, and the two
\* requests, for the token and with it, take.  Refreshing never extends it.
AdminBounded ==
  \A p \in Procs : proc[p].at = "admin" =>
    Held(proc[p].user, "admin", now + 1 - AccessLimit - MaxLag - 2 * MaxStall)

\* A request that needs a token works for an account that was there not long
\* ago.  A deleted account's clients get in for as long as a refresh token
\* lives, since AuthMiddleware takes that as well.
SessionBounded ==
  \A p \in Procs : proc[p].at \in {"admin", "plain"} =>
    \E r \in Roles : \E life \in {AccessLimit, RefreshLimit} :
      Held(proc[p].user, r, now + 1 - life - MaxLag - 2 * MaxStall)
=============================================================================
