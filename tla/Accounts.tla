------------------------------ MODULE Accounts ------------------------------
(***************************************************************************)
(* The accounts of the API server: AuthService and UserService, the        *)
(* Postgres repository with its standbys, the Redis cache-aside            *)
(* repository and the in-process bloom filter, driven by concurrent        *)
(* request goroutines.  Every call to Postgres, to Redis or to the filter  *)
(* is one atomic step; anything may happen between two of them.            *)
(*                                                                         *)
(* AuthService is wired to the plain repository and UserService to the     *)
(* caching one (deps.go), so only CheckAvailability and Delete touch Redis.*)
(* gorm's dbresolver sends every write to the primary and every read to    *)
(* DATABASE_READ_URL, in the deployment a service in front of several      *)
(* standbys: each read may be served by another one, with another lag, so  *)
(* what a client reads may also go back in time.                           *)
(***************************************************************************)
EXTENDS Naturals, Sequences

CONSTANTS
  Procs,           \* request goroutines, HTTP or gRPC
  Emails,          \* the emails clients send
  Usernames,       \* the usernames clients send
  NoRow,           \* a nil *model.User, no row under an id, a cache miss
  Ops,             \* the operations clients call (a subset of AllOps)
  Faults,          \* the failures that may happen (a subset of AllFaults)
  FalsePositives,  \* values the bloom filter may report without an Add
  MaxUsers,        \* bound: rows ever inserted; a later insert fails
  MaxLag           \* bound: commits a standby may be behind; with 0,
                   \* DATABASE_READ_URL is the primary, the default

Kinds == {"email", "username"}
Blank == ""
Strings == Emails \cup Usernames \cup {Blank}
Ids == 1 .. MaxUsers
Row == [Kinds -> Strings]
Keys(emails, usernames) ==
  {row \in Row : row["email"] \in emails /\ row["username"] \in usernames}
FullKeys == Keys(Emails, Usernames)
EmailOnly == Keys(Emails \cup {Blank}, {Blank})
OptionalKeys == Keys(Emails \cup {Blank}, Usernames \cup {Blank})
Table == [Ids -> Row \cup {NoRow}]
Entry == [id : Ids, row : Row]
CacheKeys == ({"id"} \X Ids) \cup (Kinds \X Strings)

AllOps == {"register", "grpcRegister", "check", "delete", "update", "login",
           "loginWrong", "refresh", "profile", "list"}
\* db: a statement fails; commit: it commits but the answer is lost;
\* redis: a cache command fails; crash: the process restarts;
\* seed: seeding the filter fails at startup.
AllFaults == {"db", "commit", "redis", "crash", "seed"}

ASSUME AccountsAssumption ==
  /\ Blank \notin Emails \cup Usernames
  /\ NoRow \notin Row \cup Entry
  /\ Ops \subseteq AllOps
  /\ Faults \subseteq AllFaults
  /\ FalsePositives \subseteq Strings
  /\ MaxUsers \in Nat
  /\ MaxLag \in Nat

VARIABLES
  users,    \* the users table on the primary
  wal,      \* the past tables some standby may still show, oldest first
  nextId,   \* the sequence behind users.id
  cache,    \* Redis: key -> the JSON user without password, or NoRow
  filter,   \* the keys added to the bloom filter of this process
  pc,       \* where each request goroutine is
  req,      \* its parameters and local variables
  avail,    \* CheckAvailability's emailAvail and usernameAvail
  reply     \* the HTTP status sent in this very step, or 0

store == <<users, wal, nextId>>
vars == <<store, cache, filter, pc, req, avail, reply>>

Labels == {"idle", "regCheck", "regCreate", "regAdd", "chkFilter", "chkCache",
           "chkRead", "chkDone", "fillId", "fillEmail", "fillUsername",
           "delRead", "delEmailKey", "delRow", "delIdKey", "updRead", "updWrite",
           "login", "loginWrong", "refresh", "profile", "list"}
WithUser == {"fillId", "fillEmail", "fillUsername", "delEmailKey", "updWrite"}
WithId == {"regAdd", "delRead", "delRow", "delIdKey", "updRead", "refresh", "profile"}
Statuses == {0, 200, 201, 401, 404, 409, 500}
Verdicts == {"unknown", "free", "taken"}
Request == [id : Ids \cup {0}, keys : Row, user : Row \cup {NoRow}, phase : Kinds]

NoReq == [id |-> 0, keys |-> [k \in Kinds |-> Blank], user |-> NoRow, phase |-> "email"]
Undecided == [k \in Kinds |-> "unknown"]

StoreOK ==
  /\ users \in Table
  /\ wal \in Seq(Table)
  /\ nextId \in 1 .. MaxUsers + 1

CachesOK ==
  /\ cache \in [CacheKeys -> Entry \cup {NoRow}]
  /\ filter \subseteq Kinds \X Strings

LocalsOK ==
  /\ pc \in [Procs -> Labels]
  /\ req \in [Procs -> Request]
  /\ \A p \in Procs :
       /\ pc[p] \in WithUser => req[p].user \in Row
       /\ pc[p] \in WithUser \cup WithId => req[p].id \in Ids

\* The type of every variable, and what a goroutine's local variables hold at
\* each point: a stored user where a handler uses one, an id of the table where
\* it looks one up.
TypeOK ==
  /\ StoreOK
  /\ CachesOK
  /\ LocalsOK
  /\ avail \in [Procs -> [Kinds -> Verdicts]]
  /\ reply \in Statuses

-----------------------------------------------------------------------------
(* The database and the caches. *)

\* A row of table t has value v in column k.
Taken(t, k, v) == \E i \in Ids : t[i] # NoRow /\ t[i][k] = v

KeysOf(t) == {key \in Kinds \X Strings : Taken(t, key[1], key[2])}

\* Mutant of Conflict: only the email is UNIQUE, as before migration 003.
ConflictEmailOnly(row, i) ==
  \E j \in Ids \ {i} : users[j] # NoRow /\ users[j]["email"] = row["email"]

\* A unique constraint refuses row under id i.
Conflict(row, i) ==
  \E j \in Ids \ {i} : users[j] # NoRow /\ \E k \in Kinds : users[j][k] = row[k]

\* What a read may be served from: the primary's table or, on a standby that
\* lags, one that later commits have replaced.
Views == {users} \cup {wal[n] : n \in DOMAIN wal}

\* A transaction commits on the primary; standbys show the old table for a while.
Commit(t) ==
  /\ users' = t
  /\ IF MaxLag = 0
     THEN UNCHANGED wal
     ELSE Len(wal) < MaxLag /\ wal' = Append(wal, users)

\* The slowest standby replays the next commit.
Replicate ==
  /\ wal # <<>>
  /\ wal' = Tail(wal)
  /\ reply' = 0
  /\ UNCHANGED <<users, nextId, cache, filter, pc, req, avail>>

\* A failed Set or Del is logged at debug level and otherwise ignored.
CacheSet(key, entry) ==
  \/ cache' = [cache EXCEPT ![key] = entry]
  \/ "redis" \in Faults /\ UNCHANGED cache

CacheDel(key) ==
  \/ cache' = [cache EXCEPT ![key] = NoRow]
  \/ "redis" \in Faults /\ UNCHANGED cache

\* Mutant of Expire: a TTL of zero keeps the key for ever.
ExpireNever(key) == cache[key] # NoRow /\ FALSE

\* The TTL of a key runs out.
Expire(key) ==
  /\ cache[key] # NoRow
  /\ cache' = [cache EXCEPT ![key] = NoRow]
  /\ reply' = 0
  /\ UNCHANGED <<store, filter, pc, req, avail>>

-----------------------------------------------------------------------------
(* Control of a request goroutine. *)

Begin(p, label, id, keys) ==
  /\ pc[p] = "idle"
  /\ pc' = [pc EXCEPT ![p] = label]
  /\ req' = [req EXCEPT ![p] = [NoReq EXCEPT !.id = id, !.keys = keys]]
  /\ reply' = 0
  /\ UNCHANGED <<store, cache, filter, avail>>

Goto(p, label) == pc' = [pc EXCEPT ![p] = label] /\ reply' = 0

Answer(p, code) ==
  /\ pc' = [pc EXCEPT ![p] = "idle"]
  /\ req' = [req EXCEPT ![p] = NoReq]
  /\ reply' = code

\* A request arrives; bindings that fail (400) change nothing and are left out.
Arrive(p) ==
  \/ \E keys \in FullKeys :
       "register" \in Ops /\ Begin(p, "regCheck", 0, keys)
  \/ \E keys \in EmailOnly :  \* the gRPC handler sets no Username
       "grpcRegister" \in Ops /\ Begin(p, "regCheck", 0, keys)
  \/ \E keys \in OptionalKeys : "check" \in Ops /\ Begin(p, "chkFilter", 0, keys)
  \/ \E i \in Ids : "delete" \in Ops /\ Begin(p, "delRead", i, NoReq.keys)
  \/ \E i \in Ids, keys \in OptionalKeys :  \* the id comes from an issued token
       "update" \in Ops /\ i < nextId /\ Begin(p, "updRead", i, keys)
  \/ \E op \in {"login", "loginWrong"}, keys \in EmailOnly :
       op \in Ops /\ Begin(p, op, 0, keys)
  \/ \E i \in Ids : "refresh" \in Ops /\ i < nextId /\ Begin(p, "refresh", i, NoReq.keys)
  \/ \E i \in Ids : "profile" \in Ops /\ Begin(p, "profile", i, NoReq.keys)
  \/ "list" \in Ops /\ Begin(p, "list", 0, NoReq.keys)

-----------------------------------------------------------------------------
(* AuthService.Register *)

\* Once the lookup finds nobody, bcrypt may still refuse the password.
RegCheck(p) ==
  LET found(t) == Taken(t, "email", req[p].keys["email"]) IN
  /\ pc[p] = "regCheck"
  /\ \/ \E t \in Views : found(t) /\ Answer(p, 409)
     \/ /\ \E t \in Views : ~found(t)
        /\ (Goto(p, "regCreate") /\ UNCHANGED req) \/ Answer(p, 500)
     \/ "db" \in Faults /\ Answer(p, 500)
  /\ UNCHANGED <<store, cache, filter, avail>>

\* Mutant of RegCreate: the id handed back is the next one.
RegCreateWrongId(p) ==
  LET row == req[p].keys IN
  /\ pc[p] = "regCreate"
  /\ nextId \in Ids /\ ~Conflict(row, nextId)
  /\ Commit([users EXCEPT ![nextId] = row])
  /\ nextId' = nextId + 1
  /\ Goto(p, "regAdd")
  /\ req' = [req EXCEPT ![p].id = nextId + 1]
  /\ UNCHANGED <<cache, filter, avail>>

RegCreate(p) ==
  LET row == req[p].keys IN
  /\ pc[p] = "regCreate"
  /\ nextId \in Ids
  /\ ~Conflict(row, nextId)
  /\ Commit([users EXCEPT ![nextId] = row])
  /\ nextId' = nextId + 1
  /\ \/ /\ Goto(p, "regAdd")
        /\ req' = [req EXCEPT ![p].id = nextId]
     \/ "commit" \in Faults /\ Answer(p, 500)
  /\ UNCHANGED <<cache, filter, avail>>

\* isUniqueViolation compares with a text Postgres never sends, and the
\* handlers know only ErrEmailTaken: a refused insert is a 500 either way.
RegRefused(p) ==
  /\ pc[p] = "regCreate"
  /\ Conflict(req[p].keys, nextId) \/ nextId \notin Ids \/ "db" \in Faults
  /\ Answer(p, 500)
  /\ UNCHANGED <<store, cache, filter, avail>>

\* Mutant of RegAdd: only the email is added.
RegAddEmailOnly(p) ==
  /\ pc[p] = "regAdd"
  /\ filter' = filter \cup {<<"email", req[p].keys["email"]>>}
  /\ Answer(p, 201)
  /\ UNCHANGED <<store, cache, avail>>

\* filter.Add, first for the email and then for the username.
RegAdd(p) ==
  LET k == req[p].phase IN
  /\ pc[p] = "regAdd"
  /\ filter' = filter \cup {<<k, req[p].keys[k]>>}
  /\ \/ /\ k = "email"
        /\ req' = [req EXCEPT ![p].phase = "username"]
        /\ Goto(p, "regAdd")
     \/ k = "username" /\ Answer(p, 201)
  /\ UNCHANGED <<store, cache, avail>>

-----------------------------------------------------------------------------
(* UserService.CheckAvailability over the caching repository; phase is the *)
(* column being looked up.                                                 *)

Decide(p, verdict) ==
  LET k == req[p].phase IN
  /\ avail' = [avail EXCEPT ![p][k] = verdict]
  /\ \/ /\ k = "email"
        /\ Goto(p, "chkFilter")
        /\ req' = [req EXCEPT ![p].phase = "username"]
     \/ k = "username" /\ Goto(p, "chkDone") /\ UNCHANGED req

\* Mutant of ChkFilter: a positive of the filter is taken for an answer.
ChkFilterTrusted(p) ==
  LET k == req[p].phase
      v == req[p].keys[k]
  IN
  /\ pc[p] = "chkFilter"
  /\ \/ (v = Blank \/ <<k, v>> \notin filter) /\ Decide(p, "free")
     \/ v # Blank /\ (<<k, v>> \in filter \/ v \in FalsePositives) /\ Decide(p, "taken")
  /\ UNCHANGED <<store, cache, filter>>

ChkFilter(p) ==
  LET k == req[p].phase
      v == req[p].keys[k]
  IN
  /\ pc[p] = "chkFilter"
  /\ \/ (v = Blank \/ <<k, v>> \notin filter) /\ Decide(p, "free")
     \/ /\ v # Blank
        /\ <<k, v>> \in filter \/ v \in FalsePositives
        /\ Goto(p, "chkCache")
        /\ UNCHANGED <<req, avail>>
  /\ UNCHANGED <<store, cache, filter>>

ChkCache(p) ==
  LET key == <<req[p].phase, req[p].keys[req[p].phase]>> IN
  /\ pc[p] = "chkCache"
  /\ \/ cache[key] # NoRow /\ Decide(p, "taken")
     \/ /\ cache[key] = NoRow \/ "redis" \in Faults
        /\ Goto(p, "chkRead")
        /\ UNCHANGED <<req, avail>>
  /\ UNCHANGED <<store, cache, filter>>

ChkRead(p) ==
  LET k == req[p].phase
      v == req[p].keys[k]
  IN
  /\ pc[p] = "chkRead"
  /\ \/ (\E t \in Views : ~Taken(t, k, v)) /\ Decide(p, "free")
     \/ \E t \in Views, i \in Ids :
          /\ t[i] # NoRow /\ t[i][k] = v
          /\ req' = [req EXCEPT ![p].id = i, ![p].user = t[i]]
          /\ Goto(p, "fillId")
          /\ UNCHANGED avail
     \/ /\ "db" \in Faults
        /\ Answer(p, 500)
        /\ avail' = [avail EXCEPT ![p] = Undecided]
  /\ UNCHANGED <<store, cache, filter>>

\* The handler sends both verdicts.
ChkDone(p) ==
  /\ pc[p] = "chkDone"
  /\ Answer(p, 200)
  /\ avail' = [avail EXCEPT ![p] = Undecided]
  /\ UNCHANGED <<store, cache, filter>>

\* cacheUser: three Redis commands, the last one only for a username.
CachedUser(p) == [id |-> req[p].id, row |-> req[p].user]

FillId(p) ==
  /\ pc[p] = "fillId"
  /\ CacheSet(<<"id", req[p].id>>, CachedUser(p))
  /\ Goto(p, "fillEmail")
  /\ UNCHANGED <<store, filter, req, avail>>

FillEmail(p) ==
  /\ pc[p] = "fillEmail"
  /\ CacheSet(<<"email", req[p].user["email"]>>, CachedUser(p))
  /\ Goto(p, "fillUsername")
  /\ UNCHANGED <<store, filter, req, avail>>

FillUsername(p) ==
  LET username == req[p].user["username"] IN
  /\ pc[p] = "fillUsername"
  /\ \/ username = Blank /\ UNCHANGED cache
     \/ username # Blank /\ CacheSet(<<"username", username>>, CachedUser(p))
  /\ Decide(p, "taken")
  /\ UNCHANGED <<store, filter>>

-----------------------------------------------------------------------------
(* UserService.Delete over the caching repository *)

DelRead(p) ==
  LET rows == {t[req[p].id] : t \in Views} IN
  /\ pc[p] = "delRead"
  /\ \/ \E row \in rows \ {NoRow} :
          /\ req' = [req EXCEPT ![p].user = row]
          /\ Goto(p, "delEmailKey")
     \/ /\ NoRow \in rows \/ "db" \in Faults
        /\ Goto(p, "delRow")
        /\ UNCHANGED req
  /\ UNCHANGED <<store, cache, filter, avail>>

DelEmailKey(p) ==
  /\ pc[p] = "delEmailKey"
  /\ CacheDel(<<"email", req[p].user["email"]>>)
  /\ Goto(p, "delRow")
  /\ UNCHANGED <<store, filter, req, avail>>

DelRow(p) ==
  LET id == req[p].id IN
  /\ pc[p] = "delRow"
  /\ \/ /\ users[id] # NoRow
        /\ Commit([users EXCEPT ![id] = NoRow])
        /\ \/ Goto(p, "delIdKey") /\ UNCHANGED req
           \/ "commit" \in Faults /\ Answer(p, 500)
     \/ users[id] = NoRow /\ Answer(p, 404) /\ UNCHANGED <<users, wal>>
     \/ "db" \in Faults /\ Answer(p, 500) /\ UNCHANGED <<users, wal>>
  /\ UNCHANGED <<nextId, cache, filter, avail>>

DelIdKey(p) ==
  /\ pc[p] = "delIdKey"
  /\ CacheDel(<<"id", req[p].id>>)
  /\ Answer(p, 200)
  /\ UNCHANGED <<store, filter, avail>>

-----------------------------------------------------------------------------
(* AuthService.UpdateProfile: a read, a merge in memory, an UPDATE of every *)
(* column.  A request for the name alone has two blank keys.               *)

\* Mutant of Merged: fields the request leaves out are overwritten as well.
MergedAll(row, keys) == keys

Merged(row, keys) == [k \in Kinds |-> IF keys[k] # Blank THEN keys[k] ELSE row[k]]

\* Mutant of UpdRead: the merged user is cached before it is written.
UpdReadCachesEarly(p) ==
  /\ pc[p] = "updRead"
  /\ \E t \in Views :
       LET merged == Merged(t[req[p].id], req[p].keys) IN
       /\ t[req[p].id] # NoRow
       /\ req' = [req EXCEPT ![p].user = merged]
       /\ CacheSet(<<"email", merged["email"]>>, [id |-> req[p].id, row |-> merged])
  /\ Goto(p, "updWrite")
  /\ UNCHANGED <<store, filter, avail>>

UpdRead(p) ==
  LET rows == {t[req[p].id] : t \in Views} IN
  /\ pc[p] = "updRead"
  /\ \/ \E row \in rows \ {NoRow} :
          /\ req' = [req EXCEPT ![p].user = Merged(row, req[p].keys)]
          /\ Goto(p, "updWrite")
     \/ NoRow \in rows /\ Answer(p, 404)
     \/ "db" \in Faults /\ Answer(p, 500)
  /\ UNCHANGED <<store, cache, filter, avail>>

\* Mutant of UpdWrite: the statement is an upsert.
UpdWriteUpsert(p) ==
  /\ pc[p] = "updWrite"
  /\ ~Conflict(req[p].user, req[p].id)
  /\ Commit([users EXCEPT ![req[p].id] = req[p].user])
  /\ Answer(p, 200)
  /\ UNCHANGED <<nextId, cache, filter, avail>>

UpdWrite(p) ==
  LET id == req[p].id
      row == req[p].user
  IN
  /\ pc[p] = "updWrite"
  /\ \/ /\ users[id] # NoRow /\ ~Conflict(row, id)
        /\ Commit([users EXCEPT ![id] = row])
        /\ Answer(p, 200) \/ ("commit" \in Faults /\ Answer(p, 500))
     \/ /\ users[id] = NoRow
        /\ Answer(p, 404)
        /\ UNCHANGED <<users, wal>>
     \/ /\ (users[id] # NoRow /\ Conflict(row, id)) \/ "db" \in Faults
        /\ Answer(p, 500)
        /\ UNCHANGED <<users, wal>>
  /\ UNCHANGED <<nextId, cache, filter, avail>>

-----------------------------------------------------------------------------
(* The operations that only read *)

Login(p) ==
  LET found(t) == Taken(t, "email", req[p].keys["email"]) IN
  /\ \/ pc[p] = "login" /\ (\E t \in Views : found(t)) /\ Answer(p, 200)
     \/ pc[p] = "login" /\ (\E t \in Views : ~found(t)) /\ Answer(p, 401)
     \/ pc[p] = "loginWrong" /\ Answer(p, 401)
     \/ pc[p] \in {"login", "loginWrong"} /\ "db" \in Faults /\ Answer(p, 500)
  /\ UNCHANGED <<store, cache, filter, avail>>

\* Every error of GetByID is answered as an invalid refresh token.
RefreshToken(p) ==
  /\ pc[p] = "refresh"
  /\ \/ (\E t \in Views : t[req[p].id] # NoRow) /\ Answer(p, 200)
     \/ (\E t \in Views : t[req[p].id] = NoRow) /\ Answer(p, 401)
     \/ "db" \in Faults /\ Answer(p, 401)
  /\ UNCHANGED <<store, cache, filter, avail>>

\* Mutant of GetProfile: every error is answered as a missing account, the way
\* RefreshToken does it.
GetProfileBlind(p) ==
  /\ pc[p] = "profile"
  /\ \/ (\E t \in Views : t[req[p].id] # NoRow) /\ Answer(p, 200)
     \/ (\E t \in Views : t[req[p].id] = NoRow) /\ Answer(p, 404)
     \/ "db" \in Faults /\ Answer(p, 404)
  /\ UNCHANGED <<store, cache, filter, avail>>

GetProfile(p) ==
  /\ pc[p] = "profile"
  /\ \/ (\E t \in Views : t[req[p].id] # NoRow) /\ Answer(p, 200)
     \/ (\E t \in Views : t[req[p].id] = NoRow) /\ Answer(p, 404)
     \/ "db" \in Faults /\ Answer(p, 500)
  /\ UNCHANGED <<store, cache, filter, avail>>

List(p) ==
  /\ pc[p] = "list"
  /\ Answer(p, 200) \/ ("db" \in Faults /\ Answer(p, 500))
  /\ UNCHANGED <<store, cache, filter, avail>>

-----------------------------------------------------------------------------
\* Mutant of Restart: the new process forgets to seed its filter.
RestartUnseeded ==
  /\ "crash" \in Faults
  /\ filter' = {}
  /\ pc' = [p \in Procs |-> "idle"]
  /\ req' = [p \in Procs |-> NoReq]
  /\ avail' = [p \in Procs |-> Undecided]
  /\ reply' = 0
  /\ UNCHANGED <<store, cache>>

\* The process dies and starts again: NewDependencies seeds a new filter.
Restart ==
  /\ "crash" \in Faults
  /\ \/ \E t \in Views : filter' = KeysOf(t)
     \/ "seed" \in Faults /\ filter' = {}
  /\ pc' = [p \in Procs |-> "idle"]
  /\ req' = [p \in Procs |-> NoReq]
  /\ avail' = [p \in Procs |-> Undecided]
  /\ reply' = 0
  /\ UNCHANGED <<store, cache>>

Init ==
  /\ users = [i \in Ids |-> NoRow]
  /\ wal = <<>>
  /\ nextId = 1
  /\ cache = [key \in CacheKeys |-> NoRow]
  /\ filter = {}
  /\ pc = [p \in Procs |-> "idle"]
  /\ req = [p \in Procs |-> NoReq]
  /\ avail = [p \in Procs |-> Undecided]
  /\ reply = 0

\* A step of a handler that has begun.
Step(p) ==
  \/ RegCheck(p) \/ RegCreate(p) \/ RegRefused(p) \/ RegAdd(p)
  \/ ChkFilter(p) \/ ChkCache(p) \/ ChkRead(p) \/ ChkDone(p)
  \/ FillId(p) \/ FillEmail(p) \/ FillUsername(p)
  \/ DelRead(p) \/ DelEmailKey(p) \/ DelRow(p) \/ DelIdKey(p)
  \/ UpdRead(p) \/ UpdWrite(p)
  \/ Login(p) \/ RefreshToken(p) \/ GetProfile(p) \/ List(p)

Next ==
  \/ \E p \in Procs : Arrive(p) \/ Step(p)
  \/ Replicate
  \/ \E key \in CacheKeys : Expire(key)
  \/ Restart

Spec == Init /\ [][Next]_vars

\* Goroutines are scheduled, the standbys catch up, TTLs run out.
FairSpec ==
  /\ Spec
  /\ \A p \in Procs : WF_vars(Step(p))
  /\ WF_vars(Replicate)
  /\ \A key \in CacheKeys : WF_vars(Expire(key))
-----------------------------------------------------------------------------
(* Properties *)

\* The users table behaves as UserDirectory whatever the requests, the lag of
\* the standbys and the failures: Register, UpdateProfile and Delete, checking
\* on a possibly stale table first, never break uniqueness, never revive a
\* deleted row and never touch a row they were not asked about.
Directory == INSTANCE UserDirectory WITH table <- users, next <- nextId
ImplementsDirectory == Directory!Spec

\* An id that stood for a deleted account, in a token still valid or in a
\* request half done, never comes to name an account again: no interleaving of
\* Register, UpdateProfile and Delete brings it back.
DeletedStaysDeleted == Directory!NoRevival

\* No two accounts share an email or a username, though Register looks at a
\* table that may be stale and UpdateProfile does not look at all.
AccountsUnique == Directory!Unique

\* What requests read may be old, but an email or a username never finds two
\* accounts, on no standby.
LookupsUnambiguous ==
  \A t \in Views, i, j \in Ids, k \in Kinds :
    (t[i] # NoRow /\ t[j] # NoRow /\ t[i][k] = t[j][k]) => i = j

\* The row of i is committed and its Register, if still running, has added
\* both of its keys to the filter.
Settled(i) ==
  /\ users[i] # NoRow
  /\ \A q \in Procs : ~(pc[q] = "regAdd" /\ req[q].id = i)

SettledHolds(k, v) == \E i \in Ids : Settled(i) /\ users[i][k] = v

\* CheckAvailability never calls an email or a username free that a settled
\* account holds at that moment: filter.Contains answering false is definitive.
\* It holds only under FilterTrustworthy.
NoFalseAvailable ==
  [][\A p \in Procs, k \in Kinds :
       (avail[p][k] = "unknown" /\ avail'[p][k] = "free" /\ req[p].keys[k] # Blank)
         => ~SettledHolds(k, req[p].keys[k])]_vars

\* What keeps the filter complete: reads go to the primary, profiles are not
\* renamed (UpdateProfile adds nothing to the filter), every commit is
\* acknowledged, and the filter is seeded at startup.
FilterTrustworthy ==
  MaxLag = 0 /\ "update" \notin Ops /\ {"commit", "seed"} \cap Faults = {}

\* Two invariants behind it.  A row's keys are in the filter unless its
\* Register has yet to add them.
FilterCovers ==
  \A i \in Ids, k \in Kinds :
    users[i] # NoRow =>
      \/ <<k, users[i][k]>> \in filter
      \/ \E q \in Procs :
           /\ pc[q] = "regAdd" /\ req[q].id = i /\ req[q].keys = users[i]
           /\ k = "email" => req[q].phase = "email"

\* The step sends p's client one of these statuses.
Answered(p, codes) == pc[p] # "idle" /\ pc'[p] = "idle" /\ reply' \in codes

\* The step tells a client that the account i is missing: Login refuses the
\* email it has, GetProfile or UpdateProfile does not find its id.
ToldMissing(i) ==
  \E p \in Procs :
    \/ pc[p] = "login" /\ users[i]["email"] = req[p].keys["email"] /\ Answered(p, {401})
    \/ pc[p] \in {"profile", "updRead"} /\ req[p].id = i /\ Answered(p, {404})

\* An account that stays is found in the end: right after a Register or a rename
\* its owner may be told that it is missing, because any read may be served by a
\* standby that has not heard of it, again after another has; but once the row
\* has come to rest Login, GetProfile and UpdateProfile say so only finitely
\* often, whatever statements fail.  (RefreshToken is left out: it takes every
\* database error for a missing account.)
EventuallyFound ==
  \A i \in Ids :
    (<>[](users[i] # NoRow) /\ <>[][users'[i] = users[i]]_vars)
      => <>[][users[i] # NoRow => ~ToldMissing(i)]_vars

\* Cached copies of a deleted user leave Redis for good: Delete forgets the
\* username key and races with fills, so only the TTL sees to it.
DeletedLeavesCache ==
  \A i \in Ids :
    (i < nextId /\ users[i] = NoRow)
      ~> [](\A key \in CacheKeys : cache[key] # NoRow => cache[key].id # i)

-----------------------------------------------------------------------------
(* What the repository's comments and tests say and the code does not do *)

\* gRPC Register creates a new user (grpc/auth.go): it is not refused while
\* its email is free and the table has room.
GrpcRegisterCreates ==
  [][\A p \in Procs :
       (pc[p] = "regCreate" /\ req[p].keys["username"] = Blank /\ Answered(p, {500}))
         => nextId \notin Ids \/ Taken(users, "email", req[p].keys["email"])]_vars
=============================================================================
