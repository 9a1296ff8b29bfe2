--------------------------- MODULE SessionsProofs ---------------------------
(***************************************************************************)
(* How long a role outlives its end in tokens, for any configurations,     *)
(* accounts, goroutines, lags of standbys and stalls.                      *)
(***************************************************************************)
EXTENDS Sessions, TLAPS

Lives == {AccessLimit, RefreshLimit}

\* Held from a time on that has come: what stays true whoever loses a role.
HeldSince(u, r, t) == t <= now /\ Held(u, r, t)

\* A token's role was held when it was signed, or not much earlier; so was
\* some role by the account of any token.
TokenOK(tok) ==
  /\ tok.role = "admin" =>
       HeldSince(tok.user, "admin", tok.exp - AccessLimit - MaxLag - MaxStall)
  /\ \E r \in Roles, life \in Lives :
       HeldSince(tok.user, r, tok.exp - life - MaxLag - MaxStall)

\* What a request has read was true shortly before it read it.
StateOK(s) ==
  /\ s # Idle => s.since <= now /\ now <= s.since + MaxStall
  /\ s.at = "sign" => HeldSince(s.user, s.role, s.since - MaxLag)
  /\ s.at = "admin" =>
       HeldSince(s.user, "admin", s.since + 1 - AccessLimit - MaxLag - MaxStall)
  /\ s.at \in {"admin", "plain"} =>
       \E r \in Roles, life \in Lives :
         HeldSince(s.user, r, s.since + 1 - life - MaxLag - MaxStall)

SessionsInv ==
  /\ TypeOK
  /\ \A tok \in tokens : TokenOK(tok)
  /\ \A p \in Procs : StateOK(proc[p])

\* What a step may do to roles: whoever loses one has held it until now.
KeepsRoles ==
  /\ now' \in Nat /\ now' >= now
  /\ \A u \in Users, r \in Roles :
       /\ role[u] = r => role'[u] = r \/ left'[u][r] = now
       /\ left'[u][r] \in {left[u][r], now}

LEMMA ConstTypes ==
  /\ MaxLag \in Nat /\ MaxStall \in Nat /\ AccessLimit \in Nat /\ RefreshLimit \in Nat
  /\ \A life \in Lives : life \in Nat
BY SessionsAssumption DEF Lives

\* Where a goroutine is tells what it holds.
LEMMA StateTypes ==
  ASSUME NEW s \in {Idle} \cup Signing \cup Admitted
  PROVE  /\ s.at = "sign" => s \in Signing
         /\ s.at \in {"admin", "plain"} => s \in Admitted
         /\ s \in Signing => s.user \in Users /\ s.role \in Roles /\ s.since \in Nat /\ s.at = "sign"
         /\ s \in Admitted => s.user \in Users /\ s.since \in Nat /\ s.at \in {"admin", "plain"}
         /\ s # Idle => s \in Signing \cup Admitted
BY DEF Idle, Signing, Admitted

LEMMA HeldStays ==
  ASSUME TypeOK, KeepsRoles, NEW u \in Users, NEW r \in Roles, NEW t \in Int,
         HeldSince(u, r, t)
  PROVE  HeldSince(u, r, t)'
BY DEF TypeOK, KeepsRoles, HeldSince, Held

LEMMA HeldWeaker ==
  ASSUME TypeOK, NEW u \in Users, NEW r \in Roles, NEW t \in Int, NEW v \in Int,
         HeldSince(u, r, t), v <= t
  PROVE  HeldSince(u, r, v)
BY DEF TypeOK, HeldSince, Held

LEMMA TokenStays ==
  ASSUME TypeOK, KeepsRoles, NEW tok \in Claims, TokenOK(tok)
  PROVE  TokenOK(tok)'
<1> USE ConstTypes
<1>1. tok.user \in Users /\ tok.exp \in Int /\ "admin" \in Roles
  BY DEF Claims, Roles
<1>2. tok.role = "admin" => HeldSince(tok.user, "admin", tok.exp - AccessLimit - MaxLag - MaxStall)'
  <2> SUFFICES ASSUME tok.role = "admin"
               PROVE  HeldSince(tok.user, "admin", tok.exp - AccessLimit - MaxLag - MaxStall)'
    OBVIOUS
  <2> DEFINE t == tok.exp - AccessLimit - MaxLag - MaxStall
  <2>1. HeldSince(tok.user, "admin", t) /\ t \in Int
    BY <1>1 DEF TokenOK
  <2> HIDE DEF t
  <2>2. HeldSince(tok.user, "admin", t)'
    BY <1>1, <2>1, HeldStays
  <2> QED
    BY <2>2 DEF t
<1>3. PICK r \in Roles, life \in Lives : HeldSince(tok.user, r, tok.exp - life - MaxLag - MaxStall)
  BY DEF TokenOK
<1>4. HeldSince(tok.user, r, tok.exp - life - MaxLag - MaxStall)'
  <2> DEFINE t == tok.exp - life - MaxLag - MaxStall
  <2>1. HeldSince(tok.user, r, t) /\ t \in Int
    BY <1>1, <1>3
  <2> HIDE DEF t
  <2>2. HeldSince(tok.user, r, t)'
    BY <1>1, <2>1, HeldStays
  <2> QED
    BY <2>2 DEF t
<1> QED
  BY <1>2, <1>4 DEF TokenOK

\* The same for what a request has read, as long as it is within its stall.
LEMMA StateStays ==
  ASSUME TypeOK, KeepsRoles, NEW s \in {Idle} \cup Signing \cup Admitted, StateOK(s),
         s # Idle => now' <= s.since + MaxStall
  PROVE  StateOK(s)'
<1> USE ConstTypes
<1>0. now \in Nat /\ "admin" \in Roles
  BY DEF TypeOK, Roles
<1>1. s # Idle => s.since <= now' /\ s.since \in Nat
  BY <1>0, StateTypes DEF StateOK, KeepsRoles
<1>2. ASSUME s.at = "sign" PROVE HeldSince(s.user, s.role, s.since - MaxLag)'
  <2> DEFINE t == s.since - MaxLag
  <2>1. HeldSince(s.user, s.role, t) /\ t \in Int /\ s.user \in Users /\ s.role \in Roles
    BY <1>2, StateTypes DEF StateOK
  <2> HIDE DEF t
  <2>2. HeldSince(s.user, s.role, t)'
    BY <2>1, HeldStays
  <2> QED
    BY <2>2 DEF t
<1>3. ASSUME s.at = "admin"
      PROVE  HeldSince(s.user, "admin", s.since + 1 - AccessLimit - MaxLag - MaxStall)'
  <2> DEFINE t == s.since + 1 - AccessLimit - MaxLag - MaxStall
  <2>1. HeldSince(s.user, "admin", t) /\ t \in Int /\ s.user \in Users
    BY <1>3, StateTypes DEF StateOK
  <2> HIDE DEF t
  <2>2. HeldSince(s.user, "admin", t)'
    BY <1>0, <2>1, HeldStays
  <2> QED
    BY <2>2 DEF t
<1>4. ASSUME s.at \in {"admin", "plain"}
      PROVE  \E r \in Roles, life \in Lives :
               HeldSince(s.user, r, s.since + 1 - life - MaxLag - MaxStall)'
  <2>1. PICK r \in Roles, life \in Lives : HeldSince(s.user, r, s.since + 1 - life - MaxLag - MaxStall)
    BY <1>4 DEF StateOK
  <2> DEFINE t == s.since + 1 - life - MaxLag - MaxStall
  <2>2. HeldSince(s.user, r, t) /\ t \in Int /\ s.user \in Users
    BY <1>4, <2>1, StateTypes
  <2> HIDE DEF t
  <2>3. HeldSince(s.user, r, t)'
    BY <2>2, HeldStays
  <2> QED
    BY <2>3 DEF t
<1> QED
  BY <1>1, <1>2, <1>3, <1>4 DEF StateOK

LEMMA SessionsInit == Init => SessionsInv
<1> SUFFICES ASSUME Init PROVE SessionsInv
  OBVIOUS
<1>1. Never \in Int
  BY ConstTypes DEF Never
<1>2. TypeOK
  BY <1>1 DEF Init, TypeOK, Roles
<1>3. \A p \in Procs : proc[p] = Idle
  BY DEF Init
<1> QED
  BY <1>2, <1>3 DEF SessionsInv, StateOK, Idle, Init

\* A step that moves the goroutine p and leaves the tokens alone.
LEMMA MoveInv ==
  ASSUME SessionsInv, KeepsRoles, TypeOK', now' = now, UNCHANGED tokens,
         NEW p \in Procs, NEW s \in {Idle} \cup Signing \cup Admitted, Become(p, s), StateOK(s)'
  PROVE  SessionsInv'
<1>1. proc \in [Procs -> {Idle} \cup Signing \cup Admitted] /\ tokens \subseteq Claims /\ TypeOK
  BY DEF SessionsInv, TypeOK
<1>2. ASSUME NEW tok \in tokens' PROVE TokenOK(tok)'
  BY <1>1, TokenStays DEF SessionsInv
<1>3. ASSUME NEW q \in Procs PROVE StateOK(proc[q])'
  <2>1. CASE q = p
    <3>1. proc'[q] = s
      BY <1>1, <2>1 DEF Become
    <3> QED
      BY <3>1 DEF StateOK, HeldSince, Held
  <2>2. CASE q # p
    <3>1. proc'[q] = proc[q] /\ proc[q] \in {Idle} \cup Signing \cup Admitted /\ StateOK(proc[q])
      BY <1>1, <2>2 DEF Become, SessionsInv
    <3>2. PICK z : z = proc[q]
      OBVIOUS
    <3>3. StateOK(z)'
      BY <1>1, <3>1, <3>2, StateStays DEF StateOK
    <3> QED
      BY <3>1, <3>2, <3>3 DEF StateOK, HeldSince, Held
  <2> QED
    BY <2>1, <2>2
<1> QED
  BY <1>2, <1>3 DEF SessionsInv
\* A step that leaves roles alone.
LEMMA SameRoles ==
  ASSUME TypeOK, UNCHANGED <<role, left>>, now' \in Nat, now' >= now
  PROVE  KeepsRoles
BY DEF TypeOK, KeepsRoles

LEMMA MoveTypes ==
  ASSUME TypeOK, UNCHANGED <<now, cfg, role, left, tokens>>,
         NEW p \in Procs, NEW s \in {Idle} \cup Signing \cup Admitted, Become(p, s)
  PROVE  TypeOK' /\ KeepsRoles
BY SameRoles DEF TypeOK, Become

\* A role that changes was held until now.
LEMMA SetRoleKeeps ==
  ASSUME TypeOK, NEW u \in Users, NEW r \in Roles \cup {"gone"}, role[u] \in Roles,
         SetRole(u, r), now' = now
  PROVE  /\ KeepsRoles
         /\ role' \in [Users -> Roles \cup {"none", "gone"}]
         /\ left' \in [Users -> [Roles -> Int]]
<1>1. left' = [left EXCEPT ![u][role[u]] = now] /\ role' = [role EXCEPT ![u] = r]
  BY DEF SetRole
<1>2. role' \in [Users -> Roles \cup {"none", "gone"}] /\ left' \in [Users -> [Roles -> Int]]
  BY <1>1 DEF TypeOK
<1>3. ASSUME NEW v \in Users, NEW z \in Roles
      PROVE  /\ role[v] = z => role'[v] = z \/ left'[v][z] = now
             /\ left'[v][z] \in {left[v][z], now}
  BY <1>1 DEF TypeOK
<1> QED
  BY <1>2, <1>3 DEF TypeOK, KeepsRoles

\* Login and RefreshToken: the row was read within the lag of a standby.
LEMMA ReadInv ==
  ASSUME SessionsInv, NEW p \in Procs, NEW u \in Users, NEW r \in Roles,
         Held(u, r, now - MaxLag), UNCHANGED <<now, cfg, role, left, tokens>>,
         Become(p, [at |-> "sign", user |-> u, role |-> r, since |-> now])
  PROVE  SessionsInv'
<1> USE ConstTypes
<1>1. TypeOK /\ now \in Nat
  BY DEF SessionsInv, TypeOK
<1>2. PICK s : s = [at |-> "sign", user |-> u, role |-> r, since |-> now]
  OBVIOUS
<1>3. s \in Signing /\ s.at = "sign" /\ s.user = u /\ s.role = r /\ s.since = now
  BY <1>1, <1>2 DEF Signing
<1>4. HeldSince(s.user, s.role, s.since - MaxLag)
  BY <1>1, <1>3 DEF HeldSince
<1>5. StateOK(s)
  BY <1>1, <1>3, <1>4 DEF StateOK
<1>6. TypeOK' /\ KeepsRoles
  BY <1>1, <1>2, <1>3, MoveTypes
<1>7. StateOK(s)'
  BY <1>1, <1>3, <1>5, <1>6, StateStays
<1> QED
  BY <1>2, <1>3, <1>6, <1>7, MoveInv

\* A request with a valid token works for an account the token vouches for.
LEMMA AdmitInv ==
  ASSUME SessionsInv, NEW p \in Procs, NEW tok \in tokens, NEW at \in {"admin", "plain"},
         \E c \in cfg : ValidateToken(c, tok),
         at = "admin" => tok.role = "admin",
         UNCHANGED <<now, cfg, role, left, tokens>>,
         Become(p, [at |-> at, user |-> tok.user, since |-> now])
  PROVE  SessionsInv'
<1> USE ConstTypes
<1>1. TypeOK /\ now \in Nat /\ tok \in Claims /\ TokenOK(tok) /\ now < tok.exp
  BY DEF SessionsInv, TypeOK, ValidateToken
<1>2. tok.user \in Users /\ tok.exp \in Int /\ now + 1 <= tok.exp /\ "admin" \in Roles
  <2>1. tok.user \in Users /\ tok.exp \in Int
    BY <1>1 DEF Claims
  <2>2. "admin" \in Roles
    BY DEF Roles
  <2> QED
    BY <1>1, <2>1, <2>2
<1>3. PICK s : s = [at |-> at, user |-> tok.user, since |-> now]
  OBVIOUS
<1>4. s \in Admitted /\ s.at = at /\ s.user = tok.user /\ s.since = now
  BY <1>1, <1>2, <1>3 DEF Admitted
<1>5. at = "admin" => HeldSince(tok.user, "admin", now + 1 - AccessLimit - MaxLag - MaxStall)
  <2> SUFFICES ASSUME at = "admin"
               PROVE  HeldSince(tok.user, "admin", now + 1 - AccessLimit - MaxLag - MaxStall)
    OBVIOUS
  <2>1. PICK t : t = tok.exp - AccessLimit - MaxLag - MaxStall
    OBVIOUS
  <2>2. PICK v : v = now + 1 - AccessLimit - MaxLag - MaxStall
    OBVIOUS
  <2>3. t \in Int /\ v \in Int /\ v <= t /\ HeldSince(tok.user, "admin", t)
    BY <1>1, <1>2, <2>1, <2>2 DEF TokenOK
  <2>4. HeldSince(tok.user, "admin", v)
    BY <1>1, <1>2, <2>3, HeldWeaker
  <2> QED
    BY <2>2, <2>4
<1>6. PICK r \in Roles, life \in Lives : HeldSince(tok.user, r, tok.exp - life - MaxLag - MaxStall)
  BY <1>1 DEF TokenOK
<1>7. HeldSince(tok.user, r, now + 1 - life - MaxLag - MaxStall)
  <2>1. PICK t : t = tok.exp - life - MaxLag - MaxStall
    OBVIOUS
  <2>2. PICK v : v = now + 1 - life - MaxLag - MaxStall
    OBVIOUS
  <2>3. t \in Int /\ v \in Int /\ v <= t /\ HeldSince(tok.user, r, t)
    BY <1>1, <1>2, <1>6, <2>1, <2>2
  <2>4. HeldSince(tok.user, r, v)
    BY <1>1, <1>2, <2>3, HeldWeaker
  <2> QED
    BY <2>2, <2>4
<1>8. StateOK(s)
  BY <1>1, <1>4, <1>5, <1>7 DEF StateOK
<1>9. TypeOK' /\ KeepsRoles
  BY <1>1, <1>3, <1>4, MoveTypes
<1>10. StateOK(s)'
  BY <1>1, <1>4, <1>8, <1>9, StateStays
<1> QED
  BY <1>3, <1>4, <1>9, <1>10, MoveInv
\* The pair is signed for a role that was held when its row was read.
LEMMA SignInv ==
  ASSUME SessionsInv, NEW p \in Procs, Sign(p)
  PROVE  SessionsInv'
<1> USE ConstTypes
<1>1. TypeOK /\ now \in Nat /\ cfg \subseteq Configs /\ tokens \subseteq Claims
  BY DEF SessionsInv, TypeOK
<1>2. PICK c \in cfg : tokens' = tokens \cup GenerateTokenPair(c, proc[p].user, proc[p].role)
  BY DEF Sign
<1>3. /\ c.JWTSecret \in Secrets
      /\ c.JWTAccessExpiry \in Int /\ c.JWTAccessExpiry <= AccessLimit
      /\ c.JWTRefreshExpiry \in Int /\ c.JWTRefreshExpiry <= RefreshLimit
  BY <1>1, SessionsAssumption DEF Secrets
<1>4. PICK u, r, since : u = proc[p].user /\ r = proc[p].role /\ since = proc[p].since
  OBVIOUS
<1>5. /\ u \in Users /\ r \in Roles /\ since \in Nat
      /\ now <= since + MaxStall /\ HeldSince(u, r, since - MaxLag)
  <2>1. proc[p].at = "sign" /\ proc[p] \in {Idle} \cup Signing \cup Admitted /\ proc[p] # Idle
    BY <1>1 DEF Sign, TypeOK, Idle
  <2>2. StateOK(proc[p])
    BY DEF SessionsInv
  <2> QED
    BY <1>4, <2>1, <2>2, StateTypes DEF StateOK
<1>6. PICK a : a = [user |-> u, role |-> r, exp |-> now + c.JWTAccessExpiry, secret |-> c.JWTSecret]
  OBVIOUS
<1>7. PICK b : b = [user |-> u, role |-> "", exp |-> now + c.JWTRefreshExpiry, secret |-> c.JWTSecret]
  OBVIOUS
<1>8. tokens' = tokens \cup {a, b}
  BY <1>2, <1>4, <1>6, <1>7 DEF GenerateTokenPair
<1>9. a \in Claims /\ a.user = u /\ a.role = r /\ a.exp = now + c.JWTAccessExpiry /\ a.exp \in Int
  <2>1. now + c.JWTAccessExpiry \in Int
    BY <1>1, <1>3
  <2> QED
    BY <1>3, <1>5, <1>6, <2>1 DEF Claims
<1>10. b \in Claims /\ b.user = u /\ b.role = "" /\ b.exp = now + c.JWTRefreshExpiry /\ b.exp \in Int
  <2>1. now + c.JWTRefreshExpiry \in Int
    BY <1>1, <1>3
  <2> QED
    BY <1>3, <1>5, <1>7, <2>1 DEF Claims
<1>11. HeldSince(u, r, a.exp - AccessLimit - MaxLag - MaxStall)
  <2>1. PICK t, v : t = since - MaxLag /\ v = a.exp - AccessLimit - MaxLag - MaxStall
    OBVIOUS
  <2>2. HeldSince(u, r, t)
    BY <1>5, <2>1
  <2>3. t \in Int /\ v \in Int /\ v <= t
    <3>1. PICK life : life = c.JWTAccessExpiry
      OBVIOUS
    <3>2. life \in Int /\ life <= AccessLimit /\ a.exp = now + life
      BY <1>3, <1>9, <3>1
    <3> QED
      BY <1>1, <1>5, <2>1, <3>2
  <2> QED
    BY <1>1, <1>5, <2>1, <2>2, <2>3, HeldWeaker
<1>12. HeldSince(u, r, b.exp - RefreshLimit - MaxLag - MaxStall)
  <2>1. PICK t, v : t = since - MaxLag /\ v = b.exp - RefreshLimit - MaxLag - MaxStall
    OBVIOUS
  <2>2. HeldSince(u, r, t)
    BY <1>5, <2>1
  <2>3. t \in Int /\ v \in Int /\ v <= t
    <3>1. PICK life : life = c.JWTRefreshExpiry
      OBVIOUS
    <3>2. life \in Int /\ life <= RefreshLimit /\ b.exp = now + life
      BY <1>3, <1>10, <3>1
    <3> QED
      BY <1>1, <1>5, <2>1, <3>2
  <2> QED
    BY <1>1, <1>5, <2>1, <2>2, <2>3, HeldWeaker
<1>13. TokenOK(a) /\ TokenOK(b)
  BY <1>5, <1>9, <1>10, <1>11, <1>12 DEF TokenOK, Lives
<1>14. UNCHANGED <<now, cfg, role, left>> /\ Become(p, Idle)
  BY DEF Sign
<1>15. TypeOK'
  BY <1>1, <1>8, <1>9, <1>10, <1>14 DEF TypeOK, Become
<1>16. KeepsRoles
  BY <1>1, <1>14, SameRoles
<1>17. ASSUME NEW tok \in tokens' PROVE TokenOK(tok)'
  <2>1. tok \in Claims /\ TokenOK(tok)
    BY <1>1, <1>8, <1>9, <1>10, <1>13, <1>17 DEF SessionsInv
  <2> QED
    BY <1>1, <1>16, <2>1, TokenStays
<1>18. ASSUME NEW q \in Procs PROVE StateOK(proc[q])'
  <2>1. PICK z : z = proc'[q]
    OBVIOUS
  <2>2. z \in {Idle} \cup Signing \cup Admitted /\ StateOK(z)
    BY <1>1, <1>14, <2>1 DEF TypeOK, Become, SessionsInv, StateOK, Idle
  <2>3. StateOK(z)'
    BY <1>1, <1>14, <1>16, <2>2, StateStays DEF StateOK
  <2> QED
    BY <2>1, <2>3 DEF StateOK, HeldSince, Held
<1> QED
  BY <1>15, <1>17, <1>18 DEF SessionsInv
\* A step in which no goroutine that works is out of its stall, and each of
\* them goes on or is lost.
LEMMA WorldInv ==
  ASSUME SessionsInv, TypeOK', KeepsRoles, tokens' \subseteq tokens,
         \A p \in Procs : \/ proc'[p] = Idle
                         \/ /\ proc'[p] = proc[p]
                            /\ proc[p] # Idle => now' <= proc[p].since + MaxStall
  PROVE  SessionsInv'
<1>1. TypeOK /\ tokens \subseteq Claims
  BY DEF SessionsInv, TypeOK
<1>2. ASSUME NEW tok \in tokens' PROVE TokenOK(tok)'
  BY <1>1, TokenStays DEF SessionsInv
<1>3. ASSUME NEW q \in Procs PROVE StateOK(proc[q])'
  <2>1. PICK z : z = proc'[q]
    OBVIOUS
  <2>2. z \in {Idle} \cup Signing \cup Admitted /\ StateOK(z)
        /\ (z # Idle => now' <= z.since + MaxStall)
    BY <1>1, <2>1 DEF TypeOK, SessionsInv, StateOK, Idle
  <2>3. StateOK(z)'
    BY <1>1, <2>2, StateStays
  <2> QED
    BY <2>1, <2>3 DEF StateOK, HeldSince, Held
<1> QED
  BY <1>2, <1>3 DEF SessionsInv

LEMMA SessionsStep == SessionsInv /\ [Next]_vars => SessionsInv'
<1> SUFFICES ASSUME SessionsInv, [Next]_vars PROVE SessionsInv'
  OBVIOUS
<1>0. TypeOK /\ now \in Nat
  BY DEF SessionsInv, TypeOK
<1>1. ASSUME NEW p \in Procs, NEW u \in Users, NEW r \in Roles, Login(p, u, r) PROVE SessionsInv'
  BY <1>1, ReadInv DEF Login
<1>2. ASSUME NEW p \in Procs, NEW tok \in tokens, NEW r \in Roles, RefreshToken(p, tok, r)
      PROVE  SessionsInv'
  <2>1. tok.user \in Users
    BY <1>0 DEF TypeOK, Claims
  <2> QED
    BY <1>2, <2>1, ReadInv DEF RefreshToken
<1>3. ASSUME NEW p \in Procs, NEW u \in Users, Register(p, u) PROVE SessionsInv'
  <2>1. PICK s : s = [at |-> "sign", user |-> u, role |-> "user", since |-> now]
    OBVIOUS
  <2>2. s \in Signing /\ s.at = "sign" /\ s.user = u /\ s.role = "user" /\ s.since = now
    BY <1>0, <2>1 DEF Signing, Roles
  <2>3. Become(p, s) /\ role' = [role EXCEPT ![u] = "user"] /\ UNCHANGED <<now, cfg, left, tokens>>
    BY <1>3, <2>1 DEF Register
  <2>4. TypeOK'
    BY <1>0, <2>2, <2>3 DEF TypeOK, Become, Roles
  <2>5. KeepsRoles
    BY <1>0, <1>3, <2>3 DEF Register, TypeOK, KeepsRoles, Roles
  <2>6. StateOK(s)'
    <3>1. role'[u] = "user"
      BY <1>0, <2>3 DEF TypeOK
    <3>2. HeldSince(s.user, s.role, s.since - MaxLag)'
      BY <1>0, <2>2, <2>3, <3>1, ConstTypes DEF HeldSince, Held
    <3> QED
      BY <1>0, <2>2, <2>3, <3>2, ConstTypes DEF StateOK
  <2> QED
    BY <2>2, <2>3, <2>4, <2>5, <2>6, MoveInv
<1>4. ASSUME NEW p \in Procs, NEW tok \in tokens, AuthMiddleware(p, tok) PROVE SessionsInv'
  BY <1>4, AdmitInv DEF AuthMiddleware
<1>5. ASSUME NEW p \in Procs, NEW tok \in tokens, RequireRole(p, tok) PROVE SessionsInv'
  BY <1>5, AdmitInv DEF RequireRole
<1>6. ASSUME NEW p \in Procs, Handle(p) PROVE SessionsInv'
  <2>1. TypeOK' /\ KeepsRoles
    BY <1>0, <1>6, MoveTypes DEF Handle
  <2> QED
    BY <1>0, <1>6, <2>1, WorldInv DEF Handle, Become, TypeOK, SessionsInv, StateOK
<1>7. ASSUME NEW p \in Procs, AdminHandle(p) PROVE SessionsInv'
  <2>1. Become(p, Idle) /\ UNCHANGED <<now, cfg, tokens>>
    BY <1>7 DEF AdminHandle
  <2>2. KeepsRoles /\ role' \in [Users -> Roles \cup {"none", "gone"}]
        /\ left' \in [Users -> [Roles -> Int]]
    <3>1. CASE UNCHANGED <<role, left>>
      BY <1>0, <2>1, <3>1, SameRoles DEF TypeOK
    <3>2. CASE \E u \in Users : role[u] \in Roles /\ SetRole(u, "gone")
      BY <1>0, <2>1, <3>2, SetRoleKeeps
    <3> QED
      BY <1>7, <3>1, <3>2 DEF AdminHandle
  <2>3. TypeOK'
    BY <1>0, <2>1, <2>2 DEF TypeOK, Become
  <2> QED
    BY <1>0, <2>1, <2>2, <2>3, WorldInv DEF Become, TypeOK, SessionsInv, StateOK
<1>8. ASSUME NEW u \in Users, Promote(u) PROVE SessionsInv'
  <2>1. PICK r \in Roles : SetRole(u, r)
    BY <1>8 DEF Promote
  <2>2. UNCHANGED <<now, cfg, tokens, proc>> /\ role[u] \in Roles
    BY <1>8 DEF Promote
  <2>3. KeepsRoles /\ role' \in [Users -> Roles \cup {"none", "gone"}]
        /\ left' \in [Users -> [Roles -> Int]]
    BY <1>0, <2>1, <2>2, SetRoleKeeps
  <2>4. TypeOK'
    BY <1>0, <2>2, <2>3 DEF TypeOK
  <2> QED
    BY <2>2, <2>3, <2>4, WorldInv DEF SessionsInv, StateOK
<1>9. ASSUME NEW env \in Envs, Restart(env) PROVE SessionsInv'
  <2>1. cfg' \subseteq Configs
    BY <1>9 DEF Restart, Configs
  <2>2. (\A p \in Procs : proc'[p] = Idle) /\ proc' \in [Procs -> {Idle} \cup Signing \cup Admitted]
        /\ UNCHANGED <<now, role, left, tokens>>
    BY <1>9 DEF Restart
  <2>3. TypeOK' /\ KeepsRoles
    BY <1>0, <2>1, <2>2, SameRoles DEF TypeOK
  <2> QED
    BY <2>2, <2>3, WorldInv
<1>10. ASSUME NEW tok \in tokens, Forget(tok) PROVE SessionsInv'
  <2>1. tokens' \subseteq tokens /\ UNCHANGED <<now, cfg, role, left, proc>>
    BY <1>10 DEF Forget
  <2>2. TypeOK' /\ KeepsRoles
    BY <1>0, <2>1, SameRoles DEF TypeOK
  <2> QED
    BY <2>1, <2>2, WorldInv DEF SessionsInv, StateOK
<1>11. CASE Tick
  <2>1. now' = now + 1 /\ UNCHANGED <<cfg, role, left, tokens, proc>>
    BY <1>11 DEF Tick
  <2>2. TypeOK' /\ KeepsRoles
    BY <1>0, <2>1, SameRoles DEF TypeOK
  <2>3. ASSUME NEW p \in Procs, proc[p] # Idle PROVE now' <= proc[p].since + MaxStall
    <3>1. proc[p].since \in Nat /\ now < proc[p].since + MaxStall
      BY <1>0, <1>11, <2>3, StateTypes DEF Tick, TypeOK
    <3> QED
      BY <1>0, <2>1, <3>1, ConstTypes
  <2> QED
    BY <2>1, <2>2, <2>3, WorldInv
<1>12. CASE UNCHANGED vars
  <2>1. TypeOK' /\ KeepsRoles
    BY <1>0, <1>12, SameRoles DEF TypeOK, vars
  <2> QED
    BY <1>12, <2>1, WorldInv DEF vars, SessionsInv, StateOK
<1> QED
  BY <1>1, <1>2, <1>3, <1>4, <1>5, <1>6, <1>7, <1>8, <1>9, <1>10, <1>11, <1>12, SignInv
  DEF Next, Serve

LEMMA SessionsAlwaysInv == Spec => []SessionsInv
BY SessionsInit, SessionsStep, PTL DEF Spec

\* Tokens, requests and accounts keep their shape, and the process only ever
\* runs with a configuration that Load accepts.
THEOREM SessionsTypeCorrect == Spec => []TypeOK
<1>1. SessionsInv => TypeOK
  BY DEF SessionsInv
<1> QED
  BY <1>1, SessionsAlwaysInv, PTL

\* Whoever gets past RequireRole was an admin no longer ago than an access
\* token lives and the two requests and a standby take, however often the
\* token was refreshed and the server restarted with other settings.
THEOREM AdminAlwaysBounded == Spec => []AdminBounded
<1>1. SessionsInv => AdminBounded
  <2> SUFFICES ASSUME SessionsInv, NEW p \in Procs, proc[p].at = "admin"
               PROVE  Held(proc[p].user, "admin", now + 1 - AccessLimit - MaxLag - 2 * MaxStall)
    BY DEF AdminBounded
  <2>1. proc[p].user \in Users /\ proc[p].since \in Nat /\ now \in Nat /\ proc[p] # Idle /\ TypeOK
    BY StateTypes DEF SessionsInv, TypeOK, Idle
  <2>2. PICK t, v : /\ t = proc[p].since + 1 - AccessLimit - MaxLag - MaxStall
                    /\ v = now + 1 - AccessLimit - MaxLag - 2 * MaxStall
    OBVIOUS
  <2>3. now <= proc[p].since + MaxStall /\ HeldSince(proc[p].user, "admin", t)
    BY <2>1, <2>2 DEF SessionsInv, StateOK
  <2>4. t \in Int /\ v \in Int /\ v <= t
    BY <2>1, <2>2, <2>3, ConstTypes
  <2>5. HeldSince(proc[p].user, "admin", v)
    BY <2>1, <2>3, <2>4, HeldWeaker DEF Roles
  <2> QED
    BY <2>2, <2>5 DEF HeldSince
<1> QED
  BY <1>1, SessionsAlwaysInv, PTL

\* Whoever gets past AuthMiddleware has an account, or had one no longer ago
\* than a token of either kind lives and the two requests and a standby
\* take.
THEOREM SessionAlwaysBounded == Spec => []SessionBounded
<1>1. SessionsInv => SessionBounded
  <2> SUFFICES ASSUME SessionsInv, NEW p \in Procs, proc[p].at \in {"admin", "plain"}
               PROVE  \E r \in Roles : \E life \in Lives :
                        Held(proc[p].user, r, now + 1 - life - MaxLag - 2 * MaxStall)
    BY DEF SessionBounded, Lives
  <2>1. proc[p].user \in Users /\ proc[p].since \in Nat /\ now \in Nat /\ proc[p] # Idle /\ TypeOK
    BY StateTypes DEF SessionsInv, TypeOK, Idle
  <2>2. PICK r \in Roles, life \in Lives :
          HeldSince(proc[p].user, r, proc[p].since + 1 - life - MaxLag - MaxStall)
    BY DEF SessionsInv, StateOK
  <2>3. PICK t, v : /\ t = proc[p].since + 1 - life - MaxLag - MaxStall
                    /\ v = now + 1 - life - MaxLag - 2 * MaxStall
    OBVIOUS
  <2>4. now <= proc[p].since + MaxStall
    BY <2>1 DEF SessionsInv, StateOK
  <2>5. t \in Int /\ v \in Int /\ v <= t
    BY <2>1, <2>3, <2>4, ConstTypes
  <2>6. HeldSince(proc[p].user, r, v)
    BY <2>1, <2>2, <2>3, <2>5, HeldWeaker
  <2> QED
    BY <2>3, <2>6 DEF HeldSince
<1> QED
  BY <1>1, SessionsAlwaysInv, PTL

\* The row of u has role r, or had it and lost it.
EverHeld(u, r) == role[u] = r \/ left[u][r] # Never
Granted ==
  \A p \in Procs :
    /\ proc[p].at = "admin" => EverHeld(proc[p].user, "admin")
    /\ proc[p].at = "plain" => \E r \in Roles : EverHeld(proc[p].user, r)

\* No sequence of registrations, logins, refreshes and restarts gives an account
\* a right that was not in its row at some time: a request past RequireRole is
\* of an account that somebody had made an admin, and one past AuthMiddleware of
\* one that had been registered.
THEOREM NoEscalation == Spec => []Granted
<1>1. ASSUME TypeOK, NEW u \in Users, NEW r \in Roles, NEW life \in {AccessLimit, RefreshLimit},
             Held(u, r, now + 1 - life - MaxLag - 2 * MaxStall)
      PROVE  EverHeld(u, r)
  <2>1. now \in Nat /\ left[u][r] \in Int
    BY <1>1 DEF TypeOK
  <2>2. now + 1 - life - MaxLag - 2 * MaxStall > Never
    BY <1>1, <2>1, ConstTypes DEF Never
  <2> QED BY <1>1, <2>1, <2>2, ConstTypes DEF Held, EverHeld, Never
<1>2. ASSUME TypeOK, AdminBounded, SessionBounded, NEW p \in Procs
      PROVE  /\ proc[p].at = "admin" => EverHeld(proc[p].user, "admin")
             /\ proc[p].at = "plain" => \E r \in Roles : EverHeld(proc[p].user, r)
  <2>1. proc[p].at \in {"admin", "plain"} => proc[p].user \in Users
    BY <1>2 DEF TypeOK, Signing, Admitted, Idle
  <2>2. CASE proc[p].at = "admin"
    BY <1>1, <1>2, <2>1, <2>2 DEF AdminBounded, Roles
  <2>3. CASE proc[p].at = "plain"
    BY <1>1, <1>2, <2>1, <2>3 DEF SessionBounded
  <2> QED BY <2>2, <2>3
<1>3. TypeOK /\ AdminBounded /\ SessionBounded => Granted
  BY <1>2 DEF Granted
<1> QED
  BY <1>3, SessionsTypeCorrect, AdminAlwaysBounded, SessionAlwaysBounded, PTL
=============================================================================
