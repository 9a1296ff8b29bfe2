-------------------------- MODULE AccountsHistory --------------------------
(***************************************************************************)
(* Accounts with a history variable, to say that what the cache holds and  *)
(* what CheckAvailability reports was once true of the users table.        *)
(***************************************************************************)
EXTENDS Accounts

VARIABLE held  \* every version a committed row ever had

hvars == <<vars, held>>

Versions(t) == {[id |-> i, row |-> t[i]] : i \in {j \in Ids : t[j] # NoRow}}

HInit == Init /\ held = {}

HNext == Next /\ held' = held \cup Versions(users')

HSpec == HInit /\ [][HNext]_hvars

-----------------------------------------------------------------------------
\* CheckAvailability never calls a key taken that no row ever had, however far
\* the standbys lag and whatever the bloom filter falsely reports.
NoPhantomTaken ==
  [][\A p \in Procs, k \in Kinds :
       (avail[p][k] = "unknown" /\ avail'[p][k] = "taken")
         => \E e \in held : e.row[k] = req[p].keys[k]]_hvars

\* What Redis holds under a key is a version the row of that id really had, and
\* the key is one of that version's own: concurrent fills never mix two users.
Names(key, e) ==
  \/ key[1] = "id" /\ key[2] = e.id
  \/ key[1] \in Kinds /\ key[2] = e.row[key[1]]

CacheTruthful ==
  \A key \in CacheKeys : cache[key] # NoRow => cache[key] \in held /\ Names(key, cache[key])

\* A value UpdateProfile was asked to put into column k, and one the account of
\* that id had in it before.
Asked(p, k, v) == v # Blank /\ req[p].keys[k] = v
Had(i, k, v) == \E e \in held : e.id = i /\ e.row[k] = v

\* UpdateProfile writes back all it read, from a standby that may lag, so of two
\* updates one may be undone.  But no column of an account ever changes to a
\* value that its own update did not ask for and the account never had.
NoForeignValues ==
  [][\A i \in Ids, k \in Kinds :
       (users[i] # NoRow /\ users'[i] # NoRow /\ users'[i][k] # users[i][k])
         => \/ Had(i, k, users'[i][k])
            \/ \E p \in Procs :
                 pc[p] = "updWrite" /\ req[p].id = i /\ Asked(p, k, users'[i][k])]_hvars

\* The account p's Register was asked for, under the id it got.
CreatedUser(p) == [id |-> req[p].id, row |-> req[p].keys]

\* What a client is told has been done was done, although the standbys lag and
\* others update and delete between a statement and its answer.  Register's 201
\* names an account that had the id and the keys it was asked for; Delete's 200
\* one that existed and is gone for good; UpdateProfile's 200 a row with all
\* that was asked for; and a 409 an email that an account really had.
AcknowledgedHappened ==
  [][\A p \in Procs :
       LET id == req[p].id
           keys == req[p].keys
       IN
       /\ (pc[p] = "regAdd" /\ Answered(p, {201})) => CreatedUser(p) \in held
       /\ (pc[p] = "delIdKey" /\ Answered(p, {200}))
            => users[id] = NoRow /\ \E e \in held : e.id = id
       /\ (pc[p] = "updWrite" /\ Answered(p, {200}))
            => \A k \in Kinds : Asked(p, k, keys[k]) => users'[id][k] = keys[k]
       /\ (pc[p] = "regCheck" /\ Answered(p, {409}))
            => \E e \in held : e.row["email"] = keys["email"]]_hvars

\* What keeps them: every table a read may be served from, and every user a
\* handler is about to cache, is a past version, found under the key asked for;
\* what an update is about to write was asked for or read.
Filling == {"fillId", "fillEmail", "fillUsername"}

Known(t) == \A i \in Ids : t[i] # NoRow => [id |-> i, row |-> t[i]] \in held

WriteInv ==
  \A p \in Procs : pc[p] = "updWrite" =>
    \A k \in Kinds : Asked(p, k, req[p].user[k]) \/ Had(req[p].id, k, req[p].user[k])

\* Between a statement and the answer: the row a Register has inserted was there,
\* the one a Delete has removed stays away.
AcknowledgeInv ==
  \A p \in Procs :
    /\ pc[p] = "regAdd" => CreatedUser(p) \in held
    /\ pc[p] = "delIdKey" => /\ users[req[p].id] = NoRow /\ req[p].id < nextId
                             /\ \E e \in held : e.id = req[p].id
    /\ pc[p] = "updWrite" => \A k \in Kinds :
                               Asked(p, k, req[p].keys[k]) => req[p].user[k] = req[p].keys[k]

HistoryInv ==
  /\ held \subseteq Entry
  /\ \A t \in Views : Known(t)
  /\ CacheTruthful
  /\ \A p \in Procs : pc[p] \in Filling =>
       /\ CachedUser(p) \in held
       /\ req[p].user[req[p].phase] = req[p].keys[req[p].phase]
  /\ WriteInv
============================================================================
