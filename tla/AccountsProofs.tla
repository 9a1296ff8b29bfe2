--------------------------- MODULE AccountsProofs ---------------------------
(***************************************************************************)
(* Proofs, for every value of the constants, of what Accounts and          *)
(* AccountsHistory are checked for on small instances.                     *)
(***************************************************************************)
EXTENDS AccountsHistory, TLAPS

(***************************************************************************)
(* Types.                                                                  *)
(***************************************************************************)

\* A commit leaves the users table and those the standbys show well typed.
LEMMA CommitType ==
  ASSUME StoreOK, NEW t \in Table, Commit(t)
  PROVE  users' \in Table /\ wal' \in Seq(Table)
BY AccountsAssumption DEF StoreOK, Commit

\* What a read is served from is a table.
LEMMA ViewsType == ASSUME StoreOK, NEW t \in Views PROVE t \in Table
BY DEF StoreOK, Views

\* The empty request is a request.
LEMMA NoReqType == NoReq \in Request /\ NoReq.keys \in Row /\ NoReq.user = NoRow
BY DEF NoReq, Request, Row, Strings, Kinds

\* One goroutine moves to a label whose needs its local variables meet.
LEMMA MoveType ==
  ASSUME LocalsOK, NEW p \in Procs, NEW l \in Labels, NEW r \in Request,
         pc' = [pc EXCEPT ![p] = l],
         req' = [req EXCEPT ![p] = r],
         l \in WithUser => r.user \in Row,
         l \in WithUser \cup WithId => r.id \in Ids
  PROVE  LocalsOK'
BY DEF LocalsOK

\* The same with the helper the actions use.
LEMMA GotoWithType ==
  ASSUME LocalsOK, NEW p \in Procs, NEW l \in Labels, NEW r \in Request,
         Goto(p, l),
         req' = [req EXCEPT ![p] = r],
         l \in WithUser => r.user \in Row,
         l \in WithUser \cup WithId => r.id \in Ids
  PROVE  LocalsOK' /\ reply' \in Statuses
BY MoveType DEF Goto, Statuses

\* One goroutine moves to a label and keeps its local variables.
LEMMA GotoType ==
  ASSUME LocalsOK, NEW p \in Procs, NEW l \in Labels,
         Goto(p, l), UNCHANGED req,
         l \in WithUser => req[p].user \in Row,
         l \in WithUser \cup WithId => req[p].id \in Ids
  PROVE  LocalsOK' /\ reply' \in Statuses
BY DEF LocalsOK, Goto, Statuses

\* A goroutine answers and forgets its local variables.
LEMMA AnswerType ==
  ASSUME LocalsOK, NEW p \in Procs, NEW code \in Statuses, Answer(p, code)
  PROVE  LocalsOK' /\ reply' \in Statuses
<1>1. "idle" \in Labels /\ "idle" \notin WithUser \cup WithId
  BY DEF Labels, WithUser, WithId
<1>2. pc' = [pc EXCEPT ![p] = "idle"] /\ req' = [req EXCEPT ![p] = NoReq]
  BY DEF Answer
<1>3. LocalsOK'
  BY <1>1, <1>2, NoReqType, MoveType
<1> QED BY <1>3 DEF Answer

\* Each kind of step preserves the type invariant.
LEMMA ArriveType == ASSUME TypeOK, NEW p \in Procs, Arrive(p) PROVE TypeOK'
<1>1. PICK label \in Labels, id \in Ids \cup {0}, keys \in Row :
        /\ Begin(p, label, id, keys)
        /\ label \notin WithUser
        /\ label \in WithId => id \in Ids
  BY NoReqType DEF Arrive, FullKeys, EmailOnly, OptionalKeys, Keys, Labels, WithUser, WithId
<1> DEFINE r == [NoReq EXCEPT !.id = id, !.keys = keys]
<1>2. r \in Request /\ r.id = id
  BY NoReqType DEF Request, NoReq, Kinds
<1>3. LocalsOK'
  BY <1>1, <1>2, MoveType DEF Begin, TypeOK
<1> QED BY <1>1, <1>3 DEF Begin, TypeOK, StoreOK, CachesOK, store, Statuses

LEMMA RegisterType ==
  ASSUME TypeOK, NEW p \in Procs,
         RegCheck(p) \/ RegCreate(p) \/ RegRefused(p) \/ RegAdd(p)
  PROVE  TypeOK'
<1> USE AccountsAssumption DEF TypeOK
<1>1. req[p] \in Request /\ req[p].keys \in Row /\ req[p].phase \in Kinds
  BY DEF LocalsOK, Request
<1>2. CASE RegCheck(p)
  <2>1. LocalsOK' /\ reply' \in Statuses
    <3>1. CASE Answer(p, 409) \/ Answer(p, 500)
      BY <3>1, AnswerType DEF Statuses
    <3>2. CASE Goto(p, "regCreate") /\ UNCHANGED req
      BY <3>2, GotoType DEF Labels, WithUser, WithId
    <3> QED BY <1>2, <3>1, <3>2 DEF RegCheck
  <2> QED BY <1>2, <2>1 DEF RegCheck, StoreOK, CachesOK, store
<1>3. CASE RegCreate(p)
  <2> DEFINE t == [users EXCEPT ![nextId] = req[p].keys]
  <2>1. t \in Table /\ nextId \in Ids
    BY <1>1, <1>3 DEF RegCreate, StoreOK, Table
  <2>2. StoreOK'
    <3>1. Commit(t) /\ nextId' = nextId + 1
      BY <1>3 DEF RegCreate
    <3> HIDE DEF t
    <3> QED BY <2>1, <3>1, CommitType DEF StoreOK, Ids
  <2>3. LocalsOK' /\ reply' \in Statuses
    <3>1. CASE Answer(p, 500)
      BY <3>1, AnswerType DEF Statuses
    <3>2. CASE Goto(p, "regAdd") /\ req' = [req EXCEPT ![p].id = nextId]
      <4> DEFINE r == [req[p] EXCEPT !.id = nextId]
      <4>1. r \in Request /\ r.id \in Ids /\ req' = [req EXCEPT ![p] = r]
        BY <1>1, <2>1, <3>2 DEF LocalsOK, Request
      <4>2. "regAdd" \in Labels /\ "regAdd" \notin WithUser
        BY DEF Labels, WithUser
      <4> HIDE DEF r
      <4> QED BY <3>2, <4>1, <4>2, GotoWithType
    <3> QED BY <1>3, <3>1, <3>2 DEF RegCreate
  <2> QED BY <1>3, <2>2, <2>3 DEF RegCreate, CachesOK
<1>4. CASE RegRefused(p)
  <2>1. LocalsOK' /\ reply' \in Statuses
    BY <1>4, AnswerType DEF RegRefused, Statuses
  <2> QED BY <1>4, <2>1 DEF RegRefused, StoreOK, CachesOK, store
<1>5. CASE RegAdd(p)
  <2>1. LocalsOK' /\ reply' \in Statuses
    <3>1. CASE Answer(p, 201)
      BY <3>1, AnswerType DEF Statuses
    <3>2. CASE Goto(p, "regAdd") /\ req' = [req EXCEPT ![p].phase = "username"]
      <4> DEFINE r == [req[p] EXCEPT !.phase = "username"]
      <4>1. r \in Request /\ r.id \in Ids /\ req' = [req EXCEPT ![p] = r]
        BY <1>1, <1>5, <3>2 DEF LocalsOK, Request, RegAdd, WithId, Kinds
      <4>2. "regAdd" \in Labels /\ "regAdd" \notin WithUser
        BY DEF Labels, WithUser
      <4> HIDE DEF r
      <4> QED BY <3>2, <4>1, <4>2, GotoWithType
    <3> QED BY <1>5, <3>1, <3>2 DEF RegAdd
  <2>2. req[p].keys[req[p].phase] \in Strings
    BY <1>1 DEF Row
  <2> QED BY <1>1, <1>5, <2>1, <2>2 DEF RegAdd, StoreOK, CachesOK, store
<1> QED BY <1>2, <1>3, <1>4, <1>5

\* A verdict moves CheckAvailability to the next column or to its end.
LEMMA DecideType ==
  ASSUME TypeOK, NEW p \in Procs, NEW v \in Verdicts, Decide(p, v)
  PROVE  LocalsOK' /\ reply' \in Statuses /\ avail' \in [Procs -> [Kinds -> Verdicts]]
<1>1. req[p] \in Request /\ req[p].phase \in Kinds
  BY DEF TypeOK, LocalsOK, Request
<1>2. avail' \in [Procs -> [Kinds -> Verdicts]]
  BY <1>1 DEF TypeOK, Decide
<1>3. CASE Goto(p, "chkDone") /\ UNCHANGED req
  BY <1>2, <1>3, GotoType DEF TypeOK, Labels, WithUser, WithId
<1>4. CASE Goto(p, "chkFilter") /\ req' = [req EXCEPT ![p].phase = "username"]
  <2> DEFINE r == [req[p] EXCEPT !.phase = "username"]
  <2>1. r \in Request /\ req' = [req EXCEPT ![p] = r]
    BY <1>1, <1>4 DEF TypeOK, LocalsOK, Request, Kinds
  <2>2. "chkFilter" \in Labels /\ "chkFilter" \notin WithUser \cup WithId
    BY DEF Labels, WithUser, WithId
  <2> HIDE DEF r
  <2> QED BY <1>2, <1>4, <2>1, <2>2, GotoWithType DEF TypeOK
<1> QED BY <1>3, <1>4 DEF Decide

LEMMA CheckType ==
  ASSUME TypeOK, NEW p \in Procs,
         ChkFilter(p) \/ ChkCache(p) \/ ChkRead(p) \/ ChkDone(p)
  PROVE  TypeOK'
<1> USE DEF TypeOK
<1>1. LocalsOK' /\ reply' \in Statuses /\ avail' \in [Procs -> [Kinds -> Verdicts]]
  <2>1. CASE Decide(p, "free") \/ Decide(p, "taken")
    BY <2>1, DecideType DEF Verdicts
  <2>2. CASE (Goto(p, "chkCache") \/ Goto(p, "chkRead")) /\ UNCHANGED <<req, avail>>
    BY <2>2, GotoType DEF Labels, WithUser, WithId
  <2>3. CASE (Answer(p, 500) \/ Answer(p, 200)) /\ avail' = [avail EXCEPT ![p] = Undecided]
    BY <2>3, AnswerType DEF Statuses, Undecided, Verdicts
  <2>4. ASSUME NEW t \in Views, NEW i \in Ids, t[i] # NoRow, Goto(p, "fillId"), UNCHANGED avail,
               req' = [req EXCEPT ![p].id = i, ![p].user = t[i]]
        PROVE  LocalsOK' /\ reply' \in Statuses /\ avail' \in [Procs -> [Kinds -> Verdicts]]
    <3> DEFINE r == [req[p] EXCEPT !.id = i, !.user = t[i]]
    <3>1. t[i] \in Row
      BY <2>4, ViewsType DEF Table
    <3>2. r \in Request /\ r.id \in Ids /\ r.user \in Row /\ req' = [req EXCEPT ![p] = r]
      BY <2>4, <3>1 DEF LocalsOK, Request
    <3>3. "fillId" \in Labels
      BY DEF Labels
    <3> HIDE DEF r
    <3> QED BY <2>4, <3>2, <3>3, GotoWithType
  <2> QED BY <2>1, <2>2, <2>3, <2>4 DEF ChkFilter, ChkCache, ChkRead, ChkDone
<1> QED BY <1>1 DEF ChkFilter, ChkCache, ChkRead, ChkDone, StoreOK, CachesOK, store

\* What a handler caches is a user, under a key of the cache.
LEMMA CacheSetType ==
  ASSUME CachesOK, NEW key, NEW e \in Entry \cup {NoRow}, UNCHANGED filter,
         CacheSet(key, e) \/ CacheDel(key) \/ UNCHANGED cache
  PROVE  CachesOK'
BY DEF CachesOK, CacheSet, CacheDel

LEMMA FillType ==
  ASSUME TypeOK, NEW p \in Procs, FillId(p) \/ FillEmail(p) \/ FillUsername(p)
  PROVE  TypeOK'
<1> USE DEF TypeOK
<1>1. req[p].id \in Ids /\ req[p].user \in Row
  BY DEF LocalsOK, FillId, FillEmail, FillUsername, WithUser
<1>2. CachedUser(p) \in Entry
  BY <1>1 DEF CachedUser, Entry
<1>3. CachesOK'
  BY <1>2, CacheSetType DEF FillId, FillEmail, FillUsername
<1>4. CASE FillId(p) \/ FillEmail(p)
  <2>1. LocalsOK' /\ reply' \in Statuses
    BY <1>1, <1>4, GotoType DEF FillId, FillEmail, Labels
  <2> QED BY <1>3, <1>4, <2>1 DEF FillId, FillEmail, StoreOK, store
<1>5. CASE FillUsername(p)
  BY <1>3, <1>5, DecideType DEF FillUsername, StoreOK, store, Verdicts
<1> QED BY <1>4, <1>5

LEMMA DeleteType ==
  ASSUME TypeOK, NEW p \in Procs,
         DelRead(p) \/ DelEmailKey(p) \/ DelRow(p) \/ DelIdKey(p)
  PROVE  TypeOK'
<1> USE DEF TypeOK
<1>1. req[p].id \in Ids
  BY DEF LocalsOK, DelRead, DelEmailKey, DelRow, DelIdKey, WithUser, WithId
<1>2. CASE DelRead(p)
  <2>1. LocalsOK' /\ reply' \in Statuses
    <3>1. CASE Goto(p, "delRow") /\ UNCHANGED req
      BY <1>1, <3>1, GotoType DEF Labels, WithUser
    <3>2. ASSUME NEW t \in Views, t[req[p].id] # NoRow,
                 req' = [req EXCEPT ![p].user = t[req[p].id]], Goto(p, "delEmailKey")
          PROVE  LocalsOK' /\ reply' \in Statuses
      <4> DEFINE r == [req[p] EXCEPT !.user = t[req[p].id]]
      <4>1. t[req[p].id] \in Row
        BY <1>1, <3>2, ViewsType DEF Table
      <4>2. r \in Request /\ r.id \in Ids /\ r.user \in Row /\ req' = [req EXCEPT ![p] = r]
        BY <1>1, <3>2, <4>1 DEF LocalsOK, Request
      <4>3. "delEmailKey" \in Labels
        BY DEF Labels
      <4> HIDE DEF r
      <4> QED BY <3>2, <4>2, <4>3, GotoWithType
    <3> QED BY <1>2, <3>1, <3>2 DEF DelRead
  <2> QED BY <1>2, <2>1 DEF DelRead, StoreOK, CachesOK, store
<1>3. CASE DelEmailKey(p)
  <2>1. LocalsOK' /\ reply' \in Statuses
    BY <1>1, <1>3, GotoType DEF DelEmailKey, Labels, WithUser
  <2>2. CachesOK'
    BY <1>3, CacheSetType DEF DelEmailKey
  <2> QED BY <1>3, <2>1, <2>2 DEF DelEmailKey, StoreOK, store
<1>4. CASE DelRow(p)
  <2> DEFINE t == [users EXCEPT ![req[p].id] = NoRow]
  <2>1. t \in Table
    BY DEF StoreOK, Table
  <2>2. UNCHANGED nextId /\ (Commit(t) \/ UNCHANGED <<users, wal>>)
    BY <1>4 DEF DelRow
  <2>3. StoreOK'
    <3> HIDE DEF t
    <3> QED BY <2>1, <2>2, CommitType DEF StoreOK
  <2>4. LocalsOK' /\ reply' \in Statuses
    <3>1. CASE Goto(p, "delIdKey") /\ UNCHANGED req
      BY <1>1, <3>1, GotoType DEF Labels, WithUser
    <3>2. CASE Answer(p, 500) \/ Answer(p, 404)
      BY <3>2, AnswerType DEF Statuses
    <3> QED BY <1>4, <3>1, <3>2 DEF DelRow
  <2> QED BY <1>4, <2>3, <2>4 DEF DelRow, CachesOK
<1>5. CASE DelIdKey(p)
  <2>1. LocalsOK' /\ reply' \in Statuses
    BY <1>5, AnswerType DEF DelIdKey, Statuses
  <2>2. CachesOK'
    BY <1>5, CacheSetType DEF DelIdKey
  <2> QED BY <1>5, <2>1, <2>2 DEF DelIdKey, StoreOK, store
<1> QED BY <1>2, <1>3, <1>4, <1>5

LEMMA UpdateType ==
  ASSUME TypeOK, NEW p \in Procs, UpdRead(p) \/ UpdWrite(p)
  PROVE  TypeOK'
<1> USE DEF TypeOK
<1>1. req[p] \in Request /\ req[p].id \in Ids /\ req[p].keys \in Row
  BY DEF LocalsOK, Request, UpdRead, UpdWrite, WithUser, WithId
<1>2. CASE UpdRead(p)
  <2>1. LocalsOK' /\ reply' \in Statuses
    <3>1. ASSUME NEW t \in Views, t[req[p].id] # NoRow, Goto(p, "updWrite"),
                 req' = [req EXCEPT ![p].user = Merged(t[req[p].id], req[p].keys)]
          PROVE  LocalsOK' /\ reply' \in Statuses
      <4> DEFINE m == Merged(t[req[p].id], req[p].keys)
                 r == [req[p] EXCEPT !.user = m]
      <4>1. m \in Row
        BY <1>1, <3>1, ViewsType DEF Table, Merged, Row
      <4>2. r \in Request /\ r.id \in Ids /\ r.user \in Row /\ req' = [req EXCEPT ![p] = r]
        <5>1. req' = [req EXCEPT ![p].user = m]
          BY <3>1
        <5> HIDE DEF m
        <5> QED BY <1>1, <5>1, <4>1 DEF LocalsOK, Request
      <4>3. "updWrite" \in Labels
        BY DEF Labels
      <4> HIDE DEF r
      <4> QED BY <3>1, <4>2, <4>3, GotoWithType
    <3>2. CASE Answer(p, 404) \/ Answer(p, 500)
      BY <3>2, AnswerType DEF Statuses
    <3> QED BY <1>2, <3>1, <3>2 DEF UpdRead
  <2> QED BY <1>2, <2>1 DEF UpdRead, StoreOK, CachesOK, store
<1>3. CASE UpdWrite(p)
  <2> DEFINE t == [users EXCEPT ![req[p].id] = req[p].user]
  <2>1. t \in Table
    BY <1>1, <1>3 DEF UpdWrite, LocalsOK, WithUser, StoreOK, Table
  <2>2. UNCHANGED nextId /\ (Commit(t) \/ UNCHANGED <<users, wal>>)
    BY <1>3 DEF UpdWrite
  <2>3. StoreOK'
    <3> HIDE DEF t
    <3> QED BY <2>1, <2>2, CommitType DEF StoreOK
  <2>4. LocalsOK' /\ reply' \in Statuses
    BY <1>3, AnswerType DEF UpdWrite, Statuses
  <2> QED BY <1>3, <2>3, <2>4 DEF UpdWrite, CachesOK
<1> QED BY <1>2, <1>3

LEMMA ReadType ==
  ASSUME TypeOK, NEW p \in Procs,
         Login(p) \/ RefreshToken(p) \/ GetProfile(p) \/ List(p)
  PROVE  TypeOK'
<1> USE DEF TypeOK
<1>1. LocalsOK' /\ reply' \in Statuses
  BY AnswerType DEF Login, RefreshToken, GetProfile, List, Statuses
<1> QED BY <1>1 DEF Login, RefreshToken, GetProfile, List, StoreOK, CachesOK, store

LEMMA SystemType ==
  ASSUME TypeOK, Replicate \/ (\E key \in CacheKeys : Expire(key)) \/ Restart
  PROVE  TypeOK'
<1> USE DEF TypeOK, Statuses
<1>1. CASE Replicate
  BY <1>1 DEF Replicate, StoreOK, CachesOK, LocalsOK
<1>2. CASE \E key \in CacheKeys : Expire(key)
  BY <1>2 DEF Expire, StoreOK, CachesOK, LocalsOK, store
<1>3. CASE Restart
  <2>1. LocalsOK'
    BY <1>3, NoReqType DEF Restart, LocalsOK, Labels, WithUser, WithId
  <2>2. CachesOK'
    BY <1>3 DEF Restart, CachesOK, KeysOf
  <2> QED BY <1>3, <2>1, <2>2 DEF Restart, StoreOK, store, Undecided, Verdicts
<1> QED BY <1>1, <1>2, <1>3

\* The type invariant is inductive.
LEMMA TypeStep == TypeOK /\ [Next]_vars => TypeOK'
<1> SUFFICES ASSUME TypeOK, [Next]_vars PROVE TypeOK'
  OBVIOUS
<1>1. CASE UNCHANGED vars
  BY <1>1 DEF vars, store, TypeOK, StoreOK, CachesOK, LocalsOK
<1>2. CASE Next
  BY <1>2, ArriveType, RegisterType, CheckType, FillType, DeleteType, UpdateType,
     ReadType, SystemType DEF Next, Step
<1> QED BY <1>1, <1>2

LEMMA TypeInit == Init => TypeOK
BY AccountsAssumption, NoReqType
   DEF Init, TypeOK, StoreOK, CachesOK, LocalsOK, Table, Labels, WithUser, WithId,
       Undecided, Verdicts, Statuses, Ids

\* Every behaviour keeps the types, whatever the operations, the failures and
\* the bounds: no handler uses a user or an id it has not got.
THEOREM TypeCorrect == Spec => []TypeOK
BY TypeInit, TypeStep, PTL DEF Spec

(***************************************************************************)
(* The users table implements UserDirectory.                               *)
(***************************************************************************)

\* A step that commits a table changes one row the way the directory allows,
\* and no other step touches the table or the id sequence.
LEMMA DirectoryStep ==
  ASSUME TypeOK, [Next]_vars
  PROVE  [Directory!Next]_(Directory!dvars)
<1> USE DEF Directory!dvars
<1>1. CASE UNCHANGED <<users, nextId>>
  BY <1>1
<1>2. ASSUME NEW p \in Procs, RegCreate(p) PROVE Directory!Next
  <2>1. req[p].keys \in Row
    BY DEF TypeOK, LocalsOK, Request
  <2>2. Directory!Insert(req[p].keys)
    BY <1>2 DEF RegCreate, Commit, Conflict, Directory!Insert, Directory!Clash, Directory!Ids, Ids
  <2> QED BY <2>1, <2>2 DEF Directory!Next
<1>3. ASSUME NEW p \in Procs, UpdWrite(p), ~UNCHANGED <<users, nextId>> PROVE Directory!Next
  <2>1. req[p].user \in Row /\ req[p].id \in Directory!Ids
    BY <1>3 DEF TypeOK, LocalsOK, UpdWrite, WithUser, Directory!Ids, Ids
  <2>2. Directory!Change(req[p].id, req[p].user)
    BY <1>3 DEF UpdWrite, Commit, Conflict, Directory!Change, Directory!Clash, Directory!Ids, Ids
  <2> QED BY <2>1, <2>2 DEF Directory!Next
<1>4. ASSUME NEW p \in Procs, DelRow(p), ~UNCHANGED <<users, nextId>> PROVE Directory!Next
  <2>1. req[p].id \in Directory!Ids
    BY <1>4 DEF TypeOK, LocalsOK, DelRow, WithId, Directory!Ids, Ids
  <2>2. Directory!Remove(req[p].id)
    BY <1>4 DEF DelRow, Commit, Directory!Remove
  <2> QED BY <2>1, <2>2 DEF Directory!Next
<1>5. CASE Next
  <2>1. CASE Replicate \/ (\E key \in CacheKeys : Expire(key)) \/ Restart
    BY <2>1, <1>1 DEF Replicate, Expire, Restart, store
  <2>2. ASSUME NEW p \in Procs, Arrive(p) PROVE UNCHANGED <<users, nextId>>
    BY <2>2 DEF Arrive, Begin, store
  <2>3. ASSUME NEW p \in Procs, Step(p), ~RegCreate(p), ~UpdWrite(p), ~DelRow(p)
        PROVE  UNCHANGED <<users, nextId>>
    BY <2>3 DEF Step, RegCheck, RegRefused, RegAdd, ChkFilter, ChkCache, ChkRead, ChkDone,
       FillId, FillEmail, FillUsername, DelRead, DelEmailKey, DelIdKey, UpdRead,
       Login, RefreshToken, GetProfile, List, store
  <2> QED BY <1>1, <1>2, <1>3, <1>4, <1>5, <2>1, <2>2, <2>3 DEF Next
<1>6. CASE UNCHANGED vars
  BY <1>6 DEF vars, store
<1> QED BY <1>5, <1>6

\* Whatever the interleaving of Register, UpdateProfile and Delete, however far
\* the standbys they read lag and whatever fails, the users table is a
\* UserDirectory: unique keys, no id reused, no deleted row revived.
THEOREM AccountsImplementDirectory == Spec => ImplementsDirectory
<1>1. Init => Directory!Init
  BY DEF Init, Directory!Init, Directory!Ids, Ids
<1>2. TypeOK /\ [Next]_vars => [Directory!Next]_(Directory!dvars)
  BY DirectoryStep
<1> QED BY <1>1, <1>2, TypeCorrect, PTL DEF Spec, ImplementsDirectory, Directory!Spec

\* The unique constraints hold only together with the emptiness of the ids the
\* sequence has not handed out.
DirectoryInv == AccountsUnique /\ Directory!FreshIdsEmpty

LEMMA DirectoryInvStep ==
  ASSUME TypeOK, DirectoryInv, [Next]_vars
  PROVE  DirectoryInv'
<1> USE DEF Directory!Ids, Ids
<1>0. users \in Table /\ nextId \in 1 .. MaxUsers + 1 /\ MaxUsers \in Nat
  BY AccountsAssumption DEF TypeOK, StoreOK
<1>1. [Directory!Next]_(Directory!dvars)
  BY DirectoryStep
<1>2. ASSUME NEW row \in Row, Directory!Insert(row) PROVE DirectoryInv'
  <2>1. AccountsUnique'
    BY <1>0, <1>2 DEF Directory!Insert, Directory!Clash, DirectoryInv, AccountsUnique,
                     Directory!Unique, Table
  <2> QED BY <1>0, <1>2, <2>1 DEF Directory!Insert, DirectoryInv, Directory!FreshIdsEmpty, Table
<1>3. ASSUME NEW i \in Ids, NEW row \in Row, Directory!Change(i, row) PROVE DirectoryInv'
  <2>1. AccountsUnique'
    BY <1>0, <1>3 DEF Directory!Change, Directory!Clash, DirectoryInv, AccountsUnique,
                     Directory!Unique, Table
  <2> QED BY <1>0, <1>3, <2>1 DEF Directory!Change, DirectoryInv, Directory!FreshIdsEmpty, Table
<1>4. ASSUME NEW i \in Ids, Directory!Remove(i) PROVE DirectoryInv'
  BY <1>0, <1>4 DEF Directory!Remove, DirectoryInv, AccountsUnique, Directory!Unique,
                   Directory!FreshIdsEmpty, Table
<1>5. CASE UNCHANGED Directory!dvars
  BY <1>5 DEF Directory!dvars, DirectoryInv, AccountsUnique, Directory!Unique,
             Directory!FreshIdsEmpty
<1> QED BY <1>1, <1>2, <1>3, <1>4, <1>5 DEF Directory!Next

LEMMA DirectoryAlways == Spec => []DirectoryInv
<1>1. Init => DirectoryInv
  BY DEF Init, DirectoryInv, AccountsUnique, Directory!Unique, Directory!FreshIdsEmpty,
         Directory!Ids, Ids
<1>2. TypeOK /\ DirectoryInv /\ [Next]_vars => DirectoryInv'
  BY DirectoryInvStep
<1> QED BY <1>1, <1>2, TypeCorrect, PTL DEF Spec

\* No two accounts ever share an email or a username, whatever the lag of the
\* standbys Register looks at and whatever the failures.
THEOREM AlwaysUnique == Spec => []AccountsUnique
<1>1. DirectoryInv => AccountsUnique
  BY DEF DirectoryInv
<1> QED BY <1>1, DirectoryAlways, PTL

\* Nothing is ever stored again under the id of a deleted account: neither an
\* UpdateProfile that read it before, nor a Register, brings it back.
THEOREM NeverRevived == Spec => DeletedStaysDeleted
<1>1. TypeOK /\ [Next]_vars
        => [\A i \in Directory!Ids : (i < nextId /\ users[i] = NoRow)
              => users'[i] = NoRow]_(Directory!dvars)
  <2> SUFFICES ASSUME TypeOK, [Next]_vars, ~UNCHANGED Directory!dvars,
                      NEW i \in Directory!Ids, i < nextId, users[i] = NoRow
               PROVE  users'[i] = NoRow
    BY DEF Directory!dvars
  <2>1. users \in Table /\ nextId \in 1 .. MaxUsers + 1 /\ MaxUsers \in Nat
    BY AccountsAssumption DEF TypeOK, StoreOK
  <2>2. Directory!Next
    BY DirectoryStep
  <2> QED BY <2>1, <2>2 DEF Directory!Next, Directory!Insert, Directory!Change,
                            Directory!Remove, Directory!Ids, Table, Ids
<1> QED BY <1>1, TypeCorrect, PTL DEF Spec, DeletedStaysDeleted, Directory!NoRevival

(***************************************************************************)
(* What the cache holds and what CheckAvailability reports was once true.  *)
(***************************************************************************)

\* A step leaves the database alone, commits a table, or lets a standby replay.
LEMMA StoreCases ==
  ASSUME TypeOK, [Next]_vars
  PROVE  \/ UNCHANGED <<users, wal>>
         \/ users' \in Table /\ Commit(users')
         \/ wal # <<>> /\ wal' = Tail(wal) /\ UNCHANGED users
<1>1. TypeOK'
  BY TypeStep
<1>2. ASSUME NEW p \in Procs, RegCreate(p) PROVE Commit(users')
  BY <1>2 DEF RegCreate, Commit
<1>3. ASSUME NEW p \in Procs, UpdWrite(p) PROVE Commit(users') \/ UNCHANGED <<users, wal>>
  BY <1>3 DEF UpdWrite, Commit
<1>4. ASSUME NEW p \in Procs, DelRow(p) PROVE Commit(users') \/ UNCHANGED <<users, wal>>
  BY <1>4 DEF DelRow, Commit
<1>5. ASSUME NEW p \in Procs, Step(p), ~RegCreate(p), ~UpdWrite(p), ~DelRow(p)
      PROVE  UNCHANGED <<users, wal>>
  BY <1>5 DEF Step, RegCheck, RegRefused, RegAdd, ChkFilter, ChkCache, ChkRead, ChkDone,
     FillId, FillEmail, FillUsername, DelRead, DelEmailKey, DelIdKey, UpdRead,
     Login, RefreshToken, GetProfile, List, store
<1>6. ASSUME NEW p \in Procs, Arrive(p) PROVE UNCHANGED <<users, wal>>
  BY <1>6 DEF Arrive, Begin, store
<1>7. CASE Restart \/ (\E key \in CacheKeys : Expire(key)) \/ UNCHANGED vars
  BY <1>7 DEF Restart, Expire, vars, store
<1>8. CASE Replicate
  BY <1>8 DEF Replicate
<1> QED BY <1>1, <1>2, <1>3, <1>4, <1>5, <1>6, <1>7, <1>8 DEF Next, TypeOK, StoreOK

\* Nothing is read after a step but what could be read before, and what the
\* step has committed.
LEMMA ViewsStep ==
  ASSUME TypeOK, [Next]_vars
  PROVE  users' \in Views' /\ Views' \subseteq Views \cup {users'}
<1>0. wal \in Seq(Table) /\ users \in Table
  BY DEF TypeOK, StoreOK
<1>1. CASE UNCHANGED <<users, wal>>
  BY <1>1 DEF Views
<1>2. CASE wal' = Append(wal, users)
  <2>1. \A n \in DOMAIN wal' : wal'[n] = users \/ (n \in DOMAIN wal /\ wal'[n] = wal[n])
    BY <1>0, <1>2
  <2> QED BY <2>1 DEF Views
<1>3. CASE wal' = wal
  BY <1>3 DEF Views
<1>4. CASE wal # <<>> /\ wal' = Tail(wal)
  <2>1. \A n \in DOMAIN wal' : n + 1 \in DOMAIN wal /\ wal'[n] = wal[n + 1]
    BY <1>0, <1>4
  <2> QED BY <2>1 DEF Views
<1> QED BY <1>1, <1>2, <1>3, <1>4, StoreCases DEF Commit

\* A step changes a cache key only by dropping it or by storing the user some
\* handler has just read, under a key of that user.
LEMMA CacheCases ==
  ASSUME TypeOK, [Next]_vars, NEW key \in CacheKeys
  PROVE  \/ cache'[key] = cache[key]
         \/ cache'[key] = NoRow
         \/ \E p \in Procs : /\ pc[p] \in Filling
                            /\ cache'[key] = CachedUser(p)
                            /\ Names(key, CachedUser(p))
<1> USE DEF TypeOK, CachesOK
<1>1. ASSUME NEW p \in Procs, FillId(p) \/ FillEmail(p) \/ FillUsername(p)
      PROVE  \/ cache'[key] = cache[key]
             \/ pc[p] \in Filling /\ cache'[key] = CachedUser(p) /\ Names(key, CachedUser(p))
  BY <1>1 DEF FillId, FillEmail, FillUsername, CacheSet, CachedUser, Names, Filling, Kinds
<1>2. ASSUME NEW p \in Procs, DelEmailKey(p) \/ DelIdKey(p)
      PROVE  cache'[key] = cache[key] \/ cache'[key] = NoRow
  BY <1>2 DEF DelEmailKey, DelIdKey, CacheDel
<1>3. ASSUME NEW k \in CacheKeys, Expire(k)
      PROVE  cache'[key] = cache[key] \/ cache'[key] = NoRow
  BY <1>3 DEF Expire
<1>4. ASSUME NEW p \in Procs, Step(p), ~FillId(p), ~FillEmail(p), ~FillUsername(p),
             ~DelEmailKey(p), ~DelIdKey(p)
      PROVE  UNCHANGED cache
  BY <1>4 DEF Step, RegCheck, RegCreate, RegRefused, RegAdd, ChkFilter, ChkCache, ChkRead, ChkDone,
     DelRead, DelRow, UpdRead, UpdWrite, Login, RefreshToken, GetProfile, List
<1>5. ASSUME NEW p \in Procs, Arrive(p) PROVE UNCHANGED cache
  BY <1>5 DEF Arrive, Begin
<1>6. CASE Restart \/ Replicate \/ UNCHANGED vars
  BY <1>6 DEF Restart, Replicate, vars
<1> QED BY <1>1, <1>2, <1>3, <1>4, <1>5, <1>6 DEF Next

\* A verdict moves only the goroutine that reached it, out of the filling.
LEMMA DecideMove ==
  ASSUME LocalsOK, NEW p \in Procs, NEW v, Decide(p, v)
  PROVE  /\ pc'[p] \in {"chkFilter", "chkDone"}
         /\ pc'[p] \notin Filling
         /\ \A q \in Procs \ {p} : pc'[q] = pc[q] /\ req'[q] = req[q]
BY DEF LocalsOK, Decide, Goto, Filling

\* A step of one goroutine leaves the others where they are.
LEMMA OthersKeep ==
  ASSUME LocalsOK, NEW p \in Procs, NEW q \in Procs, q # p, Step(p) \/ Arrive(p)
  PROVE  req'[q] = req[q] /\ pc'[q] = pc[q]
<1> USE DEF LocalsOK
<1>1. CASE Arrive(p)
  BY <1>1 DEF Arrive, Begin
<1>2. CASE RegCheck(p) \/ RegCreate(p) \/ RegRefused(p) \/ RegAdd(p)
  BY <1>2 DEF RegCheck, RegCreate, RegRefused, RegAdd, Goto, Answer
<1>3. CASE ChkFilter(p) \/ ChkCache(p) \/ ChkRead(p) \/ ChkDone(p)
  <2>1. CASE Decide(p, "free") \/ Decide(p, "taken")
    BY <2>1, DecideMove
  <2>2. ASSUME ~Decide(p, "free"), ~Decide(p, "taken")
        PROVE  req'[q] = req[q] /\ pc'[q] = pc[q]
    <3>1. CASE ChkFilter(p) \/ ChkCache(p) \/ ChkDone(p)
      BY <2>2, <3>1 DEF ChkFilter, ChkCache, ChkDone, Goto, Answer
    <3>2. CASE ChkRead(p)
      <4>1. CASE Answer(p, 500)
        BY <4>1 DEF Answer
      <4>2. ASSUME NEW i \in Ids, NEW t \in Views, Goto(p, "fillId"),
                   req' = [req EXCEPT ![p].id = i, ![p].user = t[i]]
            PROVE  req'[q] = req[q] /\ pc'[q] = pc[q]
        BY <4>2 DEF Goto
      <4> QED BY <2>2, <3>2, <4>1, <4>2 DEF ChkRead
    <3> QED BY <1>3, <3>1, <3>2
  <2> QED BY <2>1, <2>2
<1>4. CASE FillId(p) \/ FillEmail(p) \/ FillUsername(p)
  BY <1>4 DEF FillId, FillEmail, FillUsername, Decide, Goto
<1>5. CASE DelRead(p) \/ DelEmailKey(p) \/ DelRow(p) \/ DelIdKey(p)
  <2>1. CASE DelRead(p) \/ DelEmailKey(p)
    BY <2>1 DEF DelRead, DelEmailKey, Goto
  <2>2. CASE DelRow(p) \/ DelIdKey(p)
    BY <2>2 DEF DelRow, DelIdKey, Goto, Answer
  <2> QED BY <1>5, <2>1, <2>2
<1>6. CASE UpdRead(p) \/ UpdWrite(p)
  BY <1>6 DEF UpdRead, UpdWrite, Goto, Answer
<1>7. CASE Login(p) \/ RefreshToken(p) \/ GetProfile(p) \/ List(p)
  BY <1>7 DEF Login, RefreshToken, GetProfile, List, Answer
<1> QED BY <1>1, <1>2, <1>3, <1>4, <1>5, <1>6, <1>7 DEF Step

\* A handler that is filling the cache was filling it before the step with the
\* same user, or has just read that user from the database.
LEMMA FillingCases ==
  ASSUME TypeOK, [Next]_vars, NEW q \in Procs, pc'[q] \in Filling
  PROVE  \/ pc[q] \in Filling /\ req'[q] = req[q]
         \/ \E t \in Views, i \in Ids :
              /\ t[i] # NoRow
              /\ req'[q].id = i /\ req'[q].user = t[i]
              /\ req'[q].user[req'[q].phase] = req'[q].keys[req'[q].phase]
<1> USE DEF TypeOK, LocalsOK
<1>3. CASE ChkRead(q)
  <2>1. ~Decide(q, "free")
    BY DecideMove
  <2>2. ~Answer(q, 500)
    BY DEF Answer, Filling
  <2>3. PICK t \in Views, i \in Ids :
               /\ t[i] # NoRow
               /\ t[i][req[q].phase] = req[q].keys[req[q].phase]
               /\ req' = [req EXCEPT ![q].id = i, ![q].user = t[i]]
    BY <1>3, <2>1, <2>2 DEF ChkRead
  <2>4. req'[q] = [req[q] EXCEPT !.id = i, !.user = t[i]] /\ req[q] \in Request
    BY <2>3
  <2> QED BY <2>3, <2>4 DEF Request
<1>4. CASE FillId(q) \/ FillEmail(q) \/ FillUsername(q)
  BY <1>4 DEF FillId, FillEmail, FillUsername, Decide, Goto, Filling
<1>5. CASE Arrive(q)
  BY <1>5 DEF Arrive, Begin, Filling
<1>6. ASSUME Step(q), ~ChkRead(q), ~FillId(q), ~FillEmail(q), ~FillUsername(q) PROVE FALSE
  <2>1. ~(RegCheck(q) \/ RegCreate(q) \/ RegRefused(q) \/ RegAdd(q))
    BY DEF RegCheck, RegCreate, RegRefused, RegAdd, Goto, Answer, Filling
  <2>2. ~(ChkFilter(q) \/ ChkCache(q) \/ ChkDone(q))
    BY DEF ChkFilter, ChkCache, ChkDone, Decide, Goto, Answer, Filling
  <2>3. ~(DelRead(q) \/ DelEmailKey(q) \/ DelRow(q) \/ DelIdKey(q))
    BY DEF DelRead, DelEmailKey, DelRow, DelIdKey, Goto, Answer, Filling
  <2>4. ~(UpdRead(q) \/ UpdWrite(q))
    BY DEF UpdRead, UpdWrite, Goto, Answer, Filling
  <2>5. ~(Login(q) \/ RefreshToken(q) \/ GetProfile(q) \/ List(q))
    BY DEF Login, RefreshToken, GetProfile, List, Answer, Filling
  <2> QED BY <1>6, <2>1, <2>2, <2>3, <2>4, <2>5 DEF Step
<1>7. CASE Restart \/ Replicate \/ (\E key \in CacheKeys : Expire(key)) \/ UNCHANGED vars
  BY <1>7 DEF Restart, Replicate, Expire, vars, Filling
<1> QED BY OthersKeep, <1>3, <1>4, <1>5, <1>6, <1>7 DEF Next

\* A handler about to write a profile was so before the step, with the same
\* row, or has just merged its request into a row it read.
LEMMA WritingCases ==
  ASSUME TypeOK, [Next]_vars, NEW q \in Procs, pc'[q] = "updWrite"
  PROVE  \/ pc[q] = "updWrite" /\ req'[q] = req[q]
         \/ \E t \in Views :
              /\ req[q].id \in Ids /\ t[req[q].id] # NoRow
              /\ req'[q].id = req[q].id /\ req'[q].keys = req[q].keys
              /\ req'[q].user = Merged(t[req[q].id], req[q].keys)
<1> USE DEF TypeOK, LocalsOK
<1>1. CASE UpdRead(q)
  <2>1. ~Answer(q, 404) /\ ~Answer(q, 500)
    BY DEF Answer
  <2>2. PICK t \in Views :
               /\ t[req[q].id] # NoRow
               /\ req' = [req EXCEPT ![q].user = Merged(t[req[q].id], req[q].keys)]
    BY <1>1, <2>1 DEF UpdRead
  <2>3. req'[q] = [req[q] EXCEPT !.user = Merged(t[req[q].id], req[q].keys)]
        /\ req[q] \in Request /\ req[q].id \in Ids
    BY <1>1, <2>2 DEF UpdRead, WithId
  <2> QED BY <2>2, <2>3 DEF Request
<1>2. CASE Arrive(q)
  BY <1>2 DEF Arrive, Begin
<1>3. ASSUME Step(q), ~UpdRead(q) PROVE FALSE
  <2>1. ~(RegCheck(q) \/ RegCreate(q) \/ RegRefused(q) \/ RegAdd(q))
    BY DEF RegCheck, RegCreate, RegRefused, RegAdd, Goto, Answer
  <2>2. ~(ChkFilter(q) \/ ChkCache(q) \/ ChkRead(q) \/ ChkDone(q))
    <3>1. ~(ChkFilter(q) \/ ChkCache(q) \/ ChkDone(q))
      BY DEF ChkFilter, ChkCache, ChkDone, Decide, Goto, Answer
    <3>2. ~Decide(q, "free") /\ ~Goto(q, "fillId") /\ ~Answer(q, 500)
      BY DEF Decide, Goto, Answer
    <3> QED BY <3>1, <3>2 DEF ChkRead
  <2>3. ~(FillId(q) \/ FillEmail(q) \/ FillUsername(q))
    BY DecideMove DEF FillId, FillEmail, FillUsername, Goto
  <2>4. ~(DelRead(q) \/ DelEmailKey(q) \/ DelRow(q) \/ DelIdKey(q))
    BY DEF DelRead, DelEmailKey, DelRow, DelIdKey, Goto, Answer
  <2>5. ~UpdWrite(q)
    BY DEF UpdWrite, Answer
  <2>6. ~(Login(q) \/ RefreshToken(q) \/ GetProfile(q) \/ List(q))
    BY DEF Login, RefreshToken, GetProfile, List, Answer
  <2> QED BY <1>3, <2>1, <2>2, <2>3, <2>4, <2>5, <2>6 DEF Step
<1>4. CASE Restart \/ Replicate \/ (\E key \in CacheKeys : Expire(key)) \/ UNCHANGED vars
  BY <1>4 DEF Restart, Replicate, Expire, vars
<1> QED BY OthersKeep, <1>1, <1>2, <1>3, <1>4 DEF Next

\* What a handler is about to write into a profile was asked for or was there.
LEMMA WriteStep ==
  ASSUME TypeOK, HistoryInv, [Next]_vars, held \subseteq held'
  PROVE  WriteInv'
<1> SUFFICES ASSUME NEW q \in Procs, pc'[q] = "updWrite", NEW k \in Kinds
             PROVE  Asked(q, k, req[q].user[k])' \/ Had(req[q].id, k, req[q].user[k])'
  BY DEF WriteInv
<1>1. CASE pc[q] = "updWrite" /\ req'[q] = req[q]
  BY <1>1 DEF HistoryInv, WriteInv, Asked, Had
<1>2. ASSUME NEW t \in Views, req[q].id \in Ids, t[req[q].id] # NoRow,
             req'[q].id = req[q].id, req'[q].keys = req[q].keys,
             req'[q].user = Merged(t[req[q].id], req[q].keys)
      PROVE  Asked(q, k, req[q].user[k])' \/ Had(req[q].id, k, req[q].user[k])'
  <2>1. CASE req[q].keys[k] # Blank
    BY <1>2, <2>1 DEF Merged, Asked
  <2>2. CASE req[q].keys[k] = Blank
    <3>1. req'[q].user[k] = t[req[q].id][k]
      BY <1>2, <2>2 DEF Merged
    <3>2. [id |-> req[q].id, row |-> t[req[q].id]] \in held'
      BY <1>2 DEF HistoryInv, Known
    <3> QED BY <1>2, <3>1, <3>2 DEF Had
  <2> QED BY <2>1, <2>2
<1> QED BY <1>1, <1>2, WritingCases

\* The history invariant is inductive.
LEMMA HistoryStep ==
  ASSUME TypeOK, HistoryInv, [HNext]_hvars
  PROVE  HistoryInv'
<1>0. CASE UNCHANGED hvars
  <2>1. UNCHANGED <<users, wal, cache, pc, req, held>>
    BY <1>0 DEF hvars, vars, store
  <2>2. CacheTruthful'
    BY <2>1 DEF CacheTruthful, HistoryInv
  <2>3. /\ \A p \in Procs : CachedUser(p)' = CachedUser(p)
        /\ \A p \in Procs, k \in Kinds :
             /\ Asked(p, k, req[p].user[k])' = Asked(p, k, req[p].user[k])
             /\ Had(req[p].id, k, req[p].user[k])' = Had(req[p].id, k, req[p].user[k])
    BY <2>1 DEF CachedUser, Asked, Had
  <2>4. Views' = Views
    BY <2>1 DEF Views
  <2> QED BY <2>1, <2>2, <2>3, <2>4 DEF HistoryInv, WriteInv, Known
<1>1. CASE HNext
  <2>1. [Next]_vars /\ held' = held \cup Versions(users')
    BY <1>1 DEF HNext
  <2>2. TypeOK'
    BY <2>1, TypeStep
  <2>3. held \subseteq held'
    BY <2>1
  <2>4. held' \subseteq Entry
    BY <2>1, <2>2 DEF HistoryInv, Versions, Entry, TypeOK, StoreOK, Table
  <2>5. Known(users)'
    BY <2>1, <2>2 DEF Known, Versions, TypeOK, StoreOK, Table
  <2>6. \A t \in Views' : Known(t)'
    BY <2>1, <2>3, <2>5, ViewsStep DEF HistoryInv, Known
  <2>7. \A p \in Procs : pc[p] \in Filling => CachedUser(p) \in held
    BY DEF HistoryInv
  <2>8. CacheTruthful'
    <3> SUFFICES ASSUME NEW key \in CacheKeys, cache'[key] # NoRow
                 PROVE  cache'[key] \in held' /\ Names(key, cache'[key])
      BY DEF CacheTruthful, Names
    <3> QED BY <2>1, <2>3, <2>7, CacheCases DEF HistoryInv, CacheTruthful
  <2>9. ASSUME NEW q \in Procs, pc'[q] \in Filling
        PROVE  /\ CachedUser(q)' \in held'
               /\ req'[q].user[req'[q].phase] = req'[q].keys[req'[q].phase]
    <3>1. CASE pc[q] \in Filling /\ req'[q] = req[q]
      BY <2>3, <3>1 DEF HistoryInv, CachedUser
    <3>2. ASSUME NEW t \in Views, NEW i \in Ids, t[i] # NoRow, req'[q].id = i, req'[q].user = t[i],
                 req'[q].user[req'[q].phase] = req'[q].keys[req'[q].phase]
          PROVE  CachedUser(q)' \in held'
      BY <2>3, <3>2 DEF HistoryInv, Known, CachedUser
    <3> QED BY <2>1, <2>9, <3>1, <3>2, FillingCases
  <2>10. WriteInv'
    BY <2>1, <2>3, WriteStep
  <2> QED BY <2>4, <2>6, <2>8, <2>9, <2>10 DEF HistoryInv
<1> QED BY <1>0, <1>1

LEMMA HistoryInit == HInit => TypeOK /\ HistoryInv
BY TypeInit DEF HInit, Init, HistoryInv, WriteInv, CacheTruthful, Known, Views, Filling

LEMMA HistoryTypeStep == TypeOK /\ [HNext]_hvars => TypeOK'
<1>1. [HNext]_hvars => [Next]_vars
  BY DEF HNext, hvars
<1> QED BY <1>1, TypeStep

LEMMA HistoryCorrect == HSpec => [](TypeOK /\ HistoryInv)
<1>1. TypeOK /\ HistoryInv /\ [HNext]_hvars => (TypeOK /\ HistoryInv)'
  BY HistoryStep, HistoryTypeStep
<1> QED BY <1>1, HistoryInit, PTL DEF HSpec

\* Redis never holds a user who did not exist, nor one under another's key,
\* under any interleaving of fills, deletes, renames, lag and failures.
THEOREM CacheIsTruthful == HSpec => []CacheTruthful
<1>1. HistoryInv => CacheTruthful
  BY DEF HistoryInv
<1> QED BY <1>1, HistoryCorrect, PTL

\* How CheckAvailability reaches a verdict on column k.
LEMMA VerdictCases ==
  ASSUME TypeOK, [Next]_vars, NEW p \in Procs, NEW k \in Kinds,
         avail[p][k] = "unknown", avail'[p][k] # "unknown"
  PROVE  /\ k = req[p].phase
         /\ avail'[p][k] = "taken"
              => \/ cache[<<k, req[p].keys[k]>>] # NoRow
                 \/ pc[p] \in Filling
         /\ avail'[p][k] = "free"
              => \/ req[p].keys[k] = Blank
                 \/ <<k, req[p].keys[k]>> \notin filter
                 \/ \E t \in Views : ~Taken(t, k, req[p].keys[k])
<1> USE DEF TypeOK
<1>1. ASSUME NEW q \in Procs, avail' = [avail EXCEPT ![q] = Undecided] PROVE FALSE
  BY <1>1 DEF Undecided
<1>2. ASSUME UNCHANGED avail PROVE FALSE
  BY <1>2
<1>3. ASSUME NEW q \in Procs, NEW v, Decide(q, v)
      PROVE  q = p /\ k = req[p].phase /\ avail'[p][k] = v
  <2>1. req[q].phase \in Kinds
    BY DEF LocalsOK, Request
  <2> QED BY <1>3, <2>1 DEF Decide
<1>4. ASSUME NEW q \in Procs, Arrive(q) PROVE FALSE
  BY <1>2, <1>4 DEF Arrive, Begin
<1>5. CASE Restart \/ Replicate \/ (\E key \in CacheKeys : Expire(key)) \/ UNCHANGED vars
  BY <1>2, <1>5 DEF Restart, Replicate, Expire, vars, Undecided
<1>6. ASSUME NEW q \in Procs, ChkFilter(q)
      PROVE  \/ Decide(q, "free") /\ (req[q].keys[req[q].phase] = Blank
                                      \/ <<req[q].phase, req[q].keys[req[q].phase]>> \notin filter)
             \/ UNCHANGED avail
  BY <1>6 DEF ChkFilter
<1>7. ASSUME NEW q \in Procs, ChkCache(q)
      PROVE  \/ Decide(q, "taken") /\ cache[<<req[q].phase, req[q].keys[req[q].phase]>>] # NoRow
             \/ UNCHANGED avail
  BY <1>7 DEF ChkCache
<1>8. ASSUME NEW q \in Procs, ChkRead(q)
      PROVE  \/ /\ Decide(q, "free")
                /\ \E t \in Views : ~Taken(t, req[q].phase, req[q].keys[req[q].phase])
             \/ UNCHANGED avail
             \/ avail' = [avail EXCEPT ![q] = Undecided]
  BY <1>8 DEF ChkRead
<1>9. ASSUME NEW q \in Procs, FillUsername(q)
      PROVE  Decide(q, "taken") /\ pc[q] \in Filling
  BY <1>9 DEF FillUsername, Filling
<1>10. ASSUME NEW q \in Procs, ChkDone(q) PROVE FALSE
  BY <1>1, <1>10 DEF ChkDone
<1>11. ASSUME NEW q \in Procs, Step(q), ~ChkFilter(q), ~ChkCache(q), ~ChkRead(q), ~ChkDone(q),
              ~FillUsername(q)
       PROVE  UNCHANGED avail
  BY <1>11 DEF Step, RegCheck, RegCreate, RegRefused, RegAdd, FillId, FillEmail,
     DelRead, DelEmailKey, DelRow, DelIdKey, UpdRead, UpdWrite,
     Login, RefreshToken, GetProfile, List
<1>12. ASSUME NEW q \in Procs, Step(q)
       PROVE  \/ Decide(q, "free") /\ (\/ req[q].keys[req[q].phase] = Blank
                                        \/ <<req[q].phase, req[q].keys[req[q].phase]>> \notin filter
                                        \/ \E t \in Views :
                                             ~Taken(t, req[q].phase, req[q].keys[req[q].phase]))
              \/ Decide(q, "taken") /\ (\/ cache[<<req[q].phase, req[q].keys[req[q].phase]>>] # NoRow
                                         \/ pc[q] \in Filling)
  BY <1>1, <1>2, <1>6, <1>7, <1>8, <1>9, <1>10, <1>11, <1>12
<1>13. CASE \E q \in Procs : Step(q)
  <2>1. PICK q \in Procs : Step(q)
    BY <1>13
  <2>2. CASE Decide(q, "free")
    <3>1. q = p /\ k = req[p].phase /\ avail'[p][k] = "free"
      BY <1>3, <2>2
    <3>2. ~Decide(q, "taken")
      BY <1>3, <3>1
    <3> QED BY <1>12, <2>1, <3>1, <3>2
  <2>3. CASE Decide(q, "taken")
    <3>1. q = p /\ k = req[p].phase /\ avail'[p][k] = "taken"
      BY <1>3, <2>3
    <3>2. ~Decide(q, "free")
      BY <1>3, <3>1
    <3> QED BY <1>12, <2>1, <3>1, <3>2
  <2> QED BY <1>12, <2>1, <2>2, <2>3
<1> QED BY <1>4, <1>5, <1>13 DEF Next

\* CheckAvailability never reports as taken a key that no row ever had.
THEOREM NeverPhantomTaken == HSpec => NoPhantomTaken
<1>1. ASSUME TypeOK, HistoryInv, [HNext]_hvars
      PROVE  [\A p \in Procs, k \in Kinds :
                (avail[p][k] = "unknown" /\ avail'[p][k] = "taken")
                  => \E e \in held : e.row[k] = req[p].keys[k]]_hvars
  <2> SUFFICES ASSUME NEW p \in Procs, NEW k \in Kinds,
                      avail[p][k] = "unknown", avail'[p][k] = "taken"
               PROVE  \E e \in held : e.row[k] = req[p].keys[k]
    OBVIOUS
  <2>1. [Next]_vars
    BY <1>1 DEF HNext, hvars
  <2>2. k = req[p].phase /\ (cache[<<k, req[p].keys[k]>>] # NoRow \/ pc[p] \in Filling)
    BY <1>1, <2>1, VerdictCases
  <2>3. CASE pc[p] \in Filling
    BY <1>1, <2>2, <2>3 DEF HistoryInv, CachedUser
  <2>4. CASE cache[<<k, req[p].keys[k]>>] # NoRow
    <3>1. <<k, req[p].keys[k]>> \in CacheKeys
      BY <1>1 DEF TypeOK, LocalsOK, Request, Row, CacheKeys
    <3>2. cache[<<k, req[p].keys[k]>>] \in held
          /\ Names(<<k, req[p].keys[k]>>, cache[<<k, req[p].keys[k]>>])
      BY <1>1, <2>4, <3>1 DEF HistoryInv, CacheTruthful
    <3> QED BY <3>2 DEF Names, Kinds
  <2> QED BY <2>2, <2>3, <2>4
<1>2. TypeOK /\ HistoryInv /\ [HNext]_hvars
        => [\A p \in Procs, k \in Kinds :
              (avail[p][k] = "unknown" /\ avail'[p][k] = "taken")
                => \E e \in held : e.row[k] = req[p].keys[k]]_hvars
  BY <1>1
<1> QED BY <1>2, HistoryCorrect, PTL DEF HSpec, NoPhantomTaken

\* Only the UPDATE of a profile changes a row that is there and stays.
LEMMA ChangeCases ==
  ASSUME TypeOK, DirectoryInv, [Next]_vars, NEW i \in Ids,
         users[i] # NoRow, users'[i] # NoRow, users'[i] # users[i]
  PROVE  \E p \in Procs : pc[p] = "updWrite" /\ req[p].id = i /\ users'[i] = req[p].user
<1> USE DEF TypeOK, StoreOK, Table
<1>1. ASSUME NEW p \in Procs, RegCreate(p) PROVE FALSE
  <2>1. i = nextId
    BY <1>1 DEF RegCreate, Commit
  <2> QED BY <2>1 DEF DirectoryInv, Directory!FreshIdsEmpty, Directory!Ids, Ids
<1>2. ASSUME NEW p \in Procs, DelRow(p) PROVE FALSE
  BY <1>2 DEF DelRow, Commit
<1>3. ASSUME NEW p \in Procs, UpdWrite(p)
      PROVE  pc[p] = "updWrite" /\ req[p].id = i /\ users'[i] = req[p].user
  BY <1>3 DEF UpdWrite, Commit
<1>4. ASSUME NEW p \in Procs, Step(p), ~RegCreate(p), ~UpdWrite(p), ~DelRow(p)
      PROVE  UNCHANGED users
  BY <1>4 DEF Step, RegCheck, RegRefused, RegAdd, ChkFilter, ChkCache, ChkRead, ChkDone,
     FillId, FillEmail, FillUsername, DelRead, DelEmailKey, DelIdKey, UpdRead,
     Login, RefreshToken, GetProfile, List, store
<1>5. ASSUME NEW p \in Procs, Arrive(p) PROVE UNCHANGED users
  BY <1>5 DEF Arrive, Begin, store
<1>6. CASE Restart \/ Replicate \/ (\E key \in CacheKeys : Expire(key)) \/ UNCHANGED vars
  BY <1>6 DEF Restart, Replicate, Expire, vars, store
<1> QED BY <1>1, <1>2, <1>3, <1>4, <1>5, <1>6 DEF Next

\* UpdateProfile may undo another update, having read a row of the past, but
\* never gives an account a value it neither had nor was asked to take, for any
\* number of users and updates and any lag of the standbys.
THEOREM NeverForeignValues == HSpec => NoForeignValues
<1> DEFINE Legal ==
      \A i \in Ids, k \in Kinds :
        (users[i] # NoRow /\ users'[i] # NoRow /\ users'[i][k] # users[i][k])
          => \/ Had(i, k, users'[i][k])
             \/ \E p \in Procs :
                  pc[p] = "updWrite" /\ req[p].id = i /\ Asked(p, k, users'[i][k])
<1>1. ASSUME TypeOK, DirectoryInv, HistoryInv, [HNext]_hvars PROVE [Legal]_hvars
  <2> SUFFICES ASSUME NEW i \in Ids, NEW k \in Kinds,
                      users[i] # NoRow, users'[i] # NoRow, users'[i][k] # users[i][k]
               PROVE  \/ Had(i, k, users'[i][k])
                      \/ \E p \in Procs :
                           pc[p] = "updWrite" /\ req[p].id = i /\ Asked(p, k, users'[i][k])
    OBVIOUS
  <2>1. [Next]_vars
    BY <1>1 DEF HNext, hvars
  <2>2. PICK p \in Procs : pc[p] = "updWrite" /\ req[p].id = i /\ users'[i] = req[p].user
    BY <1>1, <2>1, ChangeCases
  <2> QED BY <1>1, <2>2 DEF HistoryInv, WriteInv
<1>2. TypeOK /\ DirectoryInv /\ HistoryInv /\ [HNext]_hvars => [Legal]_hvars
  BY <1>1
<1>3. HSpec => Spec
  <2>1. [HNext]_hvars => [Next]_vars
    BY DEF HNext, hvars
  <2> QED BY <2>1, PTL DEF HSpec, HInit, Spec
<1> QED BY <1>2, <1>3, DirectoryAlways, HistoryCorrect, PTL DEF HSpec, NoForeignValues

(***************************************************************************)
(* What is acknowledged has happened.                                      *)
(***************************************************************************)

LEMMA HistoryDirectory == HSpec => []DirectoryInv
<1>1. [HNext]_hvars => [Next]_vars
  BY DEF HNext, hvars
<1>2. HSpec => Spec
  BY <1>1, PTL DEF HSpec, HInit, Spec
<1> QED BY <1>2, DirectoryAlways, PTL

\* A handler is between its statement and its answer because it was so before,
\* or because it has just executed the statement.
LEMMA AddingCases ==
  ASSUME TypeOK, [Next]_vars, NEW q \in Procs, pc'[q] = "regAdd"
  PROVE  \/ pc[q] = "regAdd" /\ req'[q].id = req[q].id /\ req'[q].keys = req[q].keys
         \/ /\ nextId \in Ids /\ users'[nextId] = req[q].keys /\ req[q].keys \in Row
            /\ req'[q].id = nextId /\ req'[q].keys = req[q].keys
<1> USE DEF TypeOK, LocalsOK
<1>0. req[q] \in Request
  OBVIOUS
<1>1. CASE RegCreate(q)
  <2>1. ~Answer(q, 500)
    BY DEF Answer
  <2>2. /\ nextId \in Ids /\ Commit([users EXCEPT ![nextId] = req[q].keys])
        /\ req' = [req EXCEPT ![q].id = nextId]
    BY <1>1, <2>1 DEF RegCreate
  <2>3. req'[q] = [req[q] EXCEPT !.id = nextId]
    BY <2>2
  <2>4. users'[nextId] = req[q].keys
    BY <2>2 DEF Commit, StoreOK, Table
  <2> QED BY <1>0, <2>2, <2>3, <2>4 DEF Request
<1>2. CASE RegAdd(q)
  <2>1. ~Answer(q, 201)
    BY DEF Answer
  <2>2. pc[q] = "regAdd" /\ req' = [req EXCEPT ![q].phase = "username"]
    BY <1>2, <2>1 DEF RegAdd
  <2>3. req'[q] = [req[q] EXCEPT !.phase = "username"]
    BY <2>2
  <2> QED BY <1>0, <2>2, <2>3 DEF Request
<1>3. CASE Arrive(q)
  BY <1>3 DEF Arrive, Begin
<1>4. ASSUME Step(q), ~RegCreate(q), ~RegAdd(q) PROVE FALSE
  <2>1. ~(RegCheck(q) \/ RegRefused(q))
    BY DEF RegCheck, RegRefused, Goto, Answer
  <2>2. ~(ChkFilter(q) \/ ChkCache(q) \/ ChkRead(q) \/ ChkDone(q))
    <3>1. ~(ChkFilter(q) \/ ChkCache(q) \/ ChkDone(q))
      BY DEF ChkFilter, ChkCache, ChkDone, Decide, Goto, Answer
    <3>2. ~Decide(q, "free") /\ ~Goto(q, "fillId") /\ ~Answer(q, 500)
      BY DEF Decide, Goto, Answer
    <3> QED BY <3>1, <3>2 DEF ChkRead
  <2>3. ~(FillId(q) \/ FillEmail(q) \/ FillUsername(q))
    BY DecideMove DEF FillId, FillEmail, FillUsername, Goto
  <2>4. ~(DelRead(q) \/ DelEmailKey(q) \/ DelRow(q) \/ DelIdKey(q))
    BY DEF DelRead, DelEmailKey, DelRow, DelIdKey, Goto, Answer
  <2>5. ~(UpdRead(q) \/ UpdWrite(q))
    BY DEF UpdRead, UpdWrite, Goto, Answer
  <2>6. ~(Login(q) \/ RefreshToken(q) \/ GetProfile(q) \/ List(q))
    BY DEF Login, RefreshToken, GetProfile, List, Answer
  <2> QED BY <1>4, <2>1, <2>2, <2>3, <2>4, <2>5, <2>6 DEF Step
<1>5. CASE Restart \/ Replicate \/ (\E key \in CacheKeys : Expire(key)) \/ UNCHANGED vars
  BY <1>5 DEF Restart, Replicate, Expire, vars
<1> QED BY OthersKeep, <1>1, <1>2, <1>3, <1>4, <1>5 DEF Next

LEMMA DeletingCases ==
  ASSUME TypeOK, [Next]_vars, NEW q \in Procs, pc'[q] = "delIdKey"
  PROVE  \/ pc[q] = "delIdKey" /\ req'[q] = req[q]
         \/ /\ req[q].id \in Ids /\ users[req[q].id] # NoRow
            /\ users'[req[q].id] = NoRow /\ nextId' = nextId /\ req'[q] = req[q]
<1> USE DEF TypeOK, LocalsOK
<1>1. CASE DelRow(q)
  <2>1. ~Answer(q, 500) /\ ~Answer(q, 404)
    BY DEF Answer
  <2>2. req[q].id \in Ids
    BY <1>1 DEF DelRow, WithId
  <2>3. /\ users[req[q].id] # NoRow /\ Commit([users EXCEPT ![req[q].id] = NoRow])
        /\ nextId' = nextId /\ req' = req
    BY <1>1, <2>1 DEF DelRow
  <2> QED BY <2>2, <2>3 DEF Commit, StoreOK, Table
<1>2. CASE Arrive(q)
  BY <1>2 DEF Arrive, Begin
<1>3. ASSUME Step(q), ~DelRow(q) PROVE FALSE
  <2>1. ~(RegCheck(q) \/ RegCreate(q) \/ RegRefused(q) \/ RegAdd(q))
    BY DEF RegCheck, RegCreate, RegRefused, RegAdd, Goto, Answer
  <2>2. ~(ChkFilter(q) \/ ChkCache(q) \/ ChkRead(q) \/ ChkDone(q))
    <3>1. ~(ChkFilter(q) \/ ChkCache(q) \/ ChkDone(q))
      BY DEF ChkFilter, ChkCache, ChkDone, Decide, Goto, Answer
    <3>2. ~Decide(q, "free") /\ ~Goto(q, "fillId") /\ ~Answer(q, 500)
      BY DEF Decide, Goto, Answer
    <3> QED BY <3>1, <3>2 DEF ChkRead
  <2>3. ~(FillId(q) \/ FillEmail(q) \/ FillUsername(q))
    BY DecideMove DEF FillId, FillEmail, FillUsername, Goto
  <2>4. ~(DelRead(q) \/ DelEmailKey(q) \/ DelIdKey(q))
    BY DEF DelRead, DelEmailKey, DelIdKey, Goto, Answer
  <2>5. ~(UpdRead(q) \/ UpdWrite(q))
    BY DEF UpdRead, UpdWrite, Goto, Answer
  <2>6. ~(Login(q) \/ RefreshToken(q) \/ GetProfile(q) \/ List(q))
    BY DEF Login, RefreshToken, GetProfile, List, Answer
  <2> QED BY <1>3, <2>1, <2>2, <2>3, <2>4, <2>5, <2>6 DEF Step
<1>4. CASE Restart \/ Replicate \/ (\E key \in CacheKeys : Expire(key)) \/ UNCHANGED vars
  BY <1>4 DEF Restart, Replicate, Expire, vars
<1> QED BY OthersKeep, <1>1, <1>2, <1>3, <1>4 DEF Next

\* An id handed out that names no account never will.
LEMMA GoneStays ==
  ASSUME TypeOK, [Next]_vars, NEW i \in Ids, i < nextId, users[i] = NoRow
  PROVE  users'[i] = NoRow /\ i < nextId'
<1>1. users \in Table /\ nextId \in 1 .. MaxUsers + 1 /\ MaxUsers \in Nat
  BY AccountsAssumption DEF TypeOK, StoreOK
<1>2. [Directory!Next]_(Directory!dvars)
  BY DirectoryStep
<1>3. CASE UNCHANGED Directory!dvars
  BY <1>3 DEF Directory!dvars
<1>4. CASE Directory!Next
  BY <1>1, <1>4 DEF Directory!Next, Directory!Insert, Directory!Change, Directory!Remove,
                    Directory!Ids, Table, Ids
<1> QED BY <1>2, <1>3, <1>4

LEMMA AcknowledgeStep ==
  ASSUME TypeOK, TypeOK', DirectoryInv, HistoryInv, HistoryInv', AcknowledgeInv,
         [Next]_vars, held \subseteq held'
  PROVE  AcknowledgeInv'
<1>1. ASSUME NEW q \in Procs, pc'[q] = "regAdd" PROVE CreatedUser(q)' \in held'
  <2>1. CASE pc[q] = "regAdd" /\ req'[q].id = req[q].id /\ req'[q].keys = req[q].keys
    BY <2>1 DEF AcknowledgeInv, CreatedUser
  <2>2. CASE /\ nextId \in Ids /\ users'[nextId] = req[q].keys /\ req[q].keys \in Row
             /\ req'[q].id = nextId /\ req'[q].keys = req[q].keys
    <3>1. users'[nextId] # NoRow
      BY <2>2, AccountsAssumption
    <3>2. [id |-> nextId, row |-> users'[nextId]] \in held'
      BY <2>2, <3>1 DEF HistoryInv, Known, Views
    <3> QED BY <2>2, <3>2 DEF CreatedUser
  <2> QED BY <1>1, <2>1, <2>2, AddingCases
<1>2. ASSUME NEW q \in Procs, pc'[q] = "delIdKey"
      PROVE  /\ users'[req'[q].id] = NoRow /\ req'[q].id < nextId'
             /\ \E e \in held' : e.id = req'[q].id
  <2>1. CASE pc[q] = "delIdKey" /\ req'[q] = req[q]
    <3>1. req[q].id \in Ids
      BY <2>1 DEF TypeOK, LocalsOK, WithId
    <3> QED BY <2>1, <3>1, GoneStays DEF AcknowledgeInv
  <2>2. CASE /\ req[q].id \in Ids /\ users[req[q].id] # NoRow
             /\ users'[req[q].id] = NoRow /\ nextId' = nextId /\ req'[q] = req[q]
    <3>1. req[q].id < nextId
      BY <2>2, AccountsAssumption DEF DirectoryInv, Directory!FreshIdsEmpty, Directory!Ids, Ids,
                                     TypeOK, StoreOK
    <3>2. [id |-> req[q].id, row |-> users[req[q].id]] \in held
      BY <2>2 DEF HistoryInv, Known, Views
    <3> QED BY <2>2, <3>1, <3>2
  <2> QED BY <1>2, <2>1, <2>2, DeletingCases
<1>3. ASSUME NEW q \in Procs, pc'[q] = "updWrite", NEW k \in Kinds, req'[q].keys[k] # Blank
      PROVE  req'[q].user[k] = req'[q].keys[k]
  <2>1. CASE pc[q] = "updWrite" /\ req'[q] = req[q]
    BY <1>3, <2>1 DEF AcknowledgeInv, Asked
  <2>2. CASE \E t \in Views : /\ req'[q].keys = req[q].keys
                             /\ req'[q].user = Merged(t[req[q].id], req[q].keys)
    BY <1>3, <2>2 DEF Merged
  <2> QED BY <1>3, <2>1, <2>2, WritingCases
<1> QED BY <1>1, <1>2, <1>3 DEF AcknowledgeInv, Asked

LEMMA AcknowledgeAlways == HSpec => []AcknowledgeInv
<1>1. HInit => AcknowledgeInv
  BY DEF HInit, Init, AcknowledgeInv
<1>2. ASSUME TypeOK, TypeOK', DirectoryInv, HistoryInv, HistoryInv', AcknowledgeInv, [HNext]_hvars
      PROVE  AcknowledgeInv'
  <2>1. [Next]_vars /\ held \subseteq held'
    BY <1>2 DEF HNext, hvars
  <2> QED BY <1>2, <2>1, AcknowledgeStep
<1>3. TypeOK /\ TypeOK' /\ DirectoryInv /\ HistoryInv /\ HistoryInv' /\ AcknowledgeInv /\ [HNext]_hvars
        => AcknowledgeInv'
  BY <1>2
<1> QED BY <1>1, <1>3, HistoryDirectory, HistoryCorrect, PTL DEF HSpec

\* The handler a client's request runs in is the one that answers it.
LEMMA AnswerCases ==
  ASSUME TypeOK, [Next]_vars, NEW p \in Procs, Answered(p, {200, 201, 409})
  PROVE  /\ pc[p] = "updWrite" => UpdWrite(p)
         /\ pc[p] = "regCheck" => RegCheck(p)
<1>1. pc'[p] # pc[p] /\ reply' # 0
  BY DEF Answered
<1>2. ~UNCHANGED vars /\ ~Replicate /\ ~Restart /\ ~(\E key \in CacheKeys : Expire(key))
  BY <1>1 DEF vars, Replicate, Restart, Expire
<1>3. ASSUME NEW q \in Procs, Arrive(q) PROVE FALSE
  BY <1>1, <1>3 DEF Arrive, Begin
<1>4. PICK q \in Procs : Step(q)
  BY <1>2, <1>3 DEF Next
<1>5. q = p
  <2>1. LocalsOK
    BY DEF TypeOK
  <2> QED BY <1>1, <1>4, <2>1, OthersKeep
<1>6. CASE UpdWrite(p) \/ RegCheck(p)
  BY <1>6 DEF UpdWrite, RegCheck
<1>7. CASE RegCreate(p) \/ RegRefused(p) \/ RegAdd(p)
  BY <1>7 DEF RegCreate, RegRefused, RegAdd
<1>8. CASE ChkFilter(p) \/ ChkCache(p) \/ ChkRead(p) \/ ChkDone(p)
  BY <1>8 DEF ChkFilter, ChkCache, ChkRead, ChkDone
<1>9. CASE FillId(p) \/ FillEmail(p) \/ FillUsername(p)
  BY <1>9 DEF FillId, FillEmail, FillUsername
<1>10. CASE DelRead(p) \/ DelEmailKey(p) \/ DelRow(p) \/ DelIdKey(p)
  BY <1>10 DEF DelRead, DelEmailKey, DelRow, DelIdKey
<1>11. CASE UpdRead(p) \/ Login(p) \/ RefreshToken(p) \/ GetProfile(p) \/ List(p)
  BY <1>11 DEF UpdRead, Login, RefreshToken, GetProfile, List
<1> QED BY <1>4, <1>5, <1>6, <1>7, <1>8, <1>9, <1>10, <1>11 DEF Step

\* No handler claims what did not happen, for any number of users and requests,
\* any lag of the standbys and any failures: between the statement and the
\* answer nobody brings a deleted account back, gives an id to two accounts or
\* loses a field that was asked for.
THEOREM AcknowledgedAlwaysHappened == HSpec => AcknowledgedHappened
<1> DEFINE True(p) ==
      /\ (pc[p] = "regAdd" /\ Answered(p, {201})) => CreatedUser(p) \in held
      /\ (pc[p] = "delIdKey" /\ Answered(p, {200}))
           => users[req[p].id] = NoRow /\ \E e \in held : e.id = req[p].id
      /\ (pc[p] = "updWrite" /\ Answered(p, {200}))
           => \A k \in Kinds : Asked(p, k, req[p].keys[k]) => users'[req[p].id][k] = req[p].keys[k]
      /\ (pc[p] = "regCheck" /\ Answered(p, {409}))
           => \E e \in held : e.row["email"] = req[p].keys["email"]
<1>1. ASSUME TypeOK, HistoryInv, AcknowledgeInv, [HNext]_hvars, NEW p \in Procs PROVE True(p)
  <2>1. [Next]_vars
    BY <1>1 DEF HNext, hvars
  <2>2. ASSUME pc[p] = "updWrite", Answered(p, {200}), NEW k \in Kinds, Asked(p, k, req[p].keys[k])
        PROVE  users'[req[p].id][k] = req[p].keys[k]
    <3>1. UpdWrite(p)
      BY <1>1, <2>1, <2>2, AnswerCases DEF Answered
    <3>2. req[p].id \in Ids /\ users \in Table
      BY <1>1, <2>2 DEF TypeOK, StoreOK, LocalsOK, WithUser
    <3>3. users'[req[p].id] = req[p].user
      BY <2>2, <3>1, <3>2 DEF UpdWrite, Commit, Table, Answer, Answered
    <3> QED BY <1>1, <2>2, <3>3 DEF AcknowledgeInv
  <2>3. ASSUME pc[p] = "regCheck", Answered(p, {409})
        PROVE  \E e \in held : e.row["email"] = req[p].keys["email"]
    <3>1. RegCheck(p)
      BY <1>1, <2>1, <2>3, AnswerCases DEF Answered
    <3>2. \E t \in Views : Taken(t, "email", req[p].keys["email"])
      BY <2>3, <3>1 DEF RegCheck, Answer, Answered, Goto
    <3> QED BY <1>1, <3>2 DEF Taken, HistoryInv, Known
  <2> QED BY <1>1, <2>2, <2>3 DEF AcknowledgeInv
<1>2. TypeOK /\ HistoryInv /\ AcknowledgeInv /\ [HNext]_hvars => [\A p \in Procs : True(p)]_hvars
  BY <1>1
<1> QED BY <1>2, HistoryCorrect, AcknowledgeAlways, PTL DEF HSpec, AcknowledgedHappened

(***************************************************************************)
(* A deleted account leaves the cache: the safety part.                    *)
(***************************************************************************)

\* The account of id i is deleted, all standbys have heard of it, and no handler
\* holds a copy read before.
Forgotten(i) ==
  /\ i < nextId
  /\ \A t \in Views : t[i] = NoRow
  /\ \A p \in Procs : pc[p] \in Filling => req[p].id # i

LEMMA ForgottenStep ==
  ASSUME TypeOK, [Next]_vars, NEW i \in Ids, Forgotten(i)
  PROVE  Forgotten(i)'
<1>1. users'[i] = NoRow /\ i < nextId'
  BY GoneStays DEF Forgotten, Views
<1>3. \A t \in Views' : t[i] = NoRow
  BY <1>1, ViewsStep DEF Forgotten
<1>4. ASSUME NEW q \in Procs, pc'[q] \in Filling PROVE req'[q].id # i
  BY <1>4, FillingCases DEF Forgotten
<1> QED BY <1>1, <1>3, <1>4 DEF Forgotten

\* Once every standby has heard of a deletion and no handler holds a copy read
\* before it, no request ever puts the account into Redis again, under any key:
\* its copies only disappear.  What DeletedLeavesCache adds is that this comes
\* to pass and that the TTL then ends it.
THEOREM DeletedNeverCachedAgain ==
  Spec => [][\A i \in Ids : Forgotten(i) =>
               /\ Forgotten(i)'
               /\ \A key \in CacheKeys : (cache'[key] # NoRow /\ cache'[key].id = i)
                    => cache'[key] = cache[key]]_vars
<1>1. ASSUME TypeOK, [Next]_vars, NEW i \in Ids, Forgotten(i), NEW key \in CacheKeys,
             cache'[key] # NoRow, cache'[key].id = i
      PROVE  cache'[key] = cache[key]
  <2>1. ASSUME NEW p \in Procs, pc[p] \in Filling, cache'[key] = CachedUser(p) PROVE FALSE
    BY <1>1, <2>1 DEF Forgotten, CachedUser
  <2> QED BY <1>1, <2>1, CacheCases
<1>2. TypeOK /\ [Next]_vars
        => [\A i \in Ids : Forgotten(i) =>
              /\ Forgotten(i)'
              /\ \A key \in CacheKeys : (cache'[key] # NoRow /\ cache'[key].id = i)
                   => cache'[key] = cache[key]]_vars
  BY <1>1, ForgottenStep
<1> QED BY <1>2, TypeCorrect, PTL DEF Spec

(***************************************************************************)
(* The bloom filter is definitive under FilterTrustworthy.                 *)
(***************************************************************************)

\* FilterCovers is preserved only together with what it reads: reads go to
\* the primary, no handler renames, and an insert starts with the email.
FilterInv ==
  /\ wal = <<>>
  /\ \A p \in Procs : pc[p] \notin {"updRead", "updWrite"}
  /\ \A p \in Procs : pc[p] \in {"regCheck", "regCreate"} => req[p].phase = "email"
  /\ FilterCovers

\* Register i has yet to add the key of column k to the filter.
Pending(q, i, k) ==
  /\ pc[q] = "regAdd" /\ req[q].id = i /\ req[q].keys = users[i]
  /\ k = "email" => req[q].phase = "email"

\* Without lag no read is served from a table of the past.
LEMMA FilterStore ==
  ASSUME TypeOK, FilterTrustworthy, FilterInv, [Next]_vars
  PROVE  wal' = <<>>
BY StoreCases DEF FilterInv, FilterTrustworthy, Commit

\* No handler reaches UpdateProfile, and Register sets out with the email.
LEMMA FilterLocals ==
  ASSUME TypeOK, FilterTrustworthy, FilterInv, [Next]_vars, NEW q \in Procs
  PROVE  /\ pc'[q] \notin {"updRead", "updWrite"}
         /\ pc'[q] \in {"regCheck", "regCreate"} => req'[q].phase = "email"
<1> DEFINE Goal == /\ pc'[q] \notin {"updRead", "updWrite"}
                   /\ pc'[q] \in {"regCheck", "regCreate"} => req'[q].phase = "email"
<1> USE DEF TypeOK, LocalsOK
<1>1. ASSUME NEW p \in Procs, p # q, Step(p) \/ Arrive(p) PROVE Goal
  BY <1>1, OthersKeep DEF FilterInv
<1>2. CASE Arrive(q)
  <2>1. PICK label \in Labels \ {"updRead", "updWrite"} : \E id, keys : Begin(q, label, id, keys)
    BY <1>2 DEF Arrive, FilterTrustworthy, Labels
  <2>2. pc'[q] = label /\ req'[q].phase = "email"
    BY <2>1 DEF Begin, NoReq
  <2> QED BY <2>2
<1>3. CASE Step(q)
  <2>1. CASE RegCheck(q)
    BY <2>1 DEF RegCheck, Goto, Answer, FilterInv
  <2>2. CASE RegCreate(q) \/ RegRefused(q) \/ RegAdd(q)
    BY <2>2 DEF RegCreate, RegRefused, RegAdd, Goto, Answer
  <2>3. CASE ChkFilter(q) \/ ChkCache(q) \/ ChkRead(q) \/ ChkDone(q)
    <3>1. CASE Decide(q, "free") \/ Decide(q, "taken")
      BY <3>1, DecideMove
    <3>2. CASE Goto(q, "chkCache") \/ Goto(q, "chkRead") \/ Goto(q, "fillId")
      BY <3>2 DEF Goto
    <3>3. CASE Answer(q, 500) \/ Answer(q, 200)
      BY <3>3 DEF Answer
    <3> QED BY <2>3, <3>1, <3>2, <3>3 DEF ChkFilter, ChkCache, ChkRead, ChkDone
  <2>4. CASE FillId(q) \/ FillEmail(q) \/ FillUsername(q)
    BY <2>4 DEF FillId, FillEmail, FillUsername, Decide, Goto
  <2>5. CASE DelRead(q) \/ DelEmailKey(q) \/ DelRow(q) \/ DelIdKey(q)
    BY <2>5 DEF DelRead, DelEmailKey, DelRow, DelIdKey, Goto, Answer
  <2>6. CASE UpdRead(q) \/ UpdWrite(q)
    BY <2>6 DEF UpdRead, UpdWrite, FilterInv
  <2>7. CASE Login(q) \/ RefreshToken(q) \/ GetProfile(q) \/ List(q)
    BY <2>7 DEF Login, RefreshToken, GetProfile, List, Answer
  <2> QED BY <1>3, <2>1, <2>2, <2>3, <2>4, <2>5, <2>6, <2>7 DEF Step
<1>4. CASE Restart \/ Replicate \/ (\E key \in CacheKeys : Expire(key)) \/ UNCHANGED vars
  BY <1>4 DEF Restart, Replicate, Expire, vars, FilterInv
<1> QED BY <1>1, <1>2, <1>3, <1>4 DEF Next

\* A Register that has yet to add a key keeps that duty until it adds it, the
\* row changes, or the process dies.
LEMMA PendingKept ==
  ASSUME TypeOK, [Next]_vars, NEW q \in Procs, NEW i \in Ids, NEW k \in Kinds,
         Pending(q, i, k), users'[i] = users[i], ~Restart
  PROVE  \/ Pending(q, i, k)'
         \/ <<k, users'[i][k]>> \in filter'
<1> USE DEF TypeOK, LocalsOK
<1>1. ASSUME NEW p \in Procs, p # q, Step(p) \/ Arrive(p) PROVE Pending(q, i, k)'
  BY <1>1, OthersKeep DEF Pending
<1>2. CASE RegAdd(q)
  <2>1. CASE req[q].phase = k
    BY <1>2, <2>1 DEF RegAdd, Pending
  <2>2. CASE req[q].phase # k
    <3>1. k = "username" /\ req[q].phase = "email"
      BY <2>2 DEF Pending, Kinds, Request
    <3>2. req' = [req EXCEPT ![q].phase = "username"] /\ Goto(q, "regAdd")
      BY <1>2, <3>1 DEF RegAdd
    <3>3. req'[q].id = req[q].id /\ req'[q].keys = req[q].keys /\ pc'[q] = "regAdd"
      BY <3>2 DEF Goto, Request
    <3> QED BY <3>1, <3>3 DEF Pending
  <2> QED BY <2>1, <2>2
<1>3. ASSUME Step(q) \/ Arrive(q), ~RegAdd(q) PROVE FALSE
  BY <1>3 DEF Pending, Step, Arrive, Begin, RegCheck, RegCreate, RegRefused,
     ChkFilter, ChkCache, ChkRead, ChkDone, FillId, FillEmail, FillUsername,
     DelRead, DelEmailKey, DelRow, DelIdKey, UpdRead, UpdWrite,
     Login, RefreshToken, GetProfile, List
<1>4. CASE Replicate \/ (\E key \in CacheKeys : Expire(key)) \/ UNCHANGED vars
  BY <1>4 DEF Replicate, Expire, vars, store, Pending
<1> QED BY <1>1, <1>2, <1>3, <1>4 DEF Next

\* Only a restart makes the filter forget a key.
LEMMA FilterGrows ==
  ASSUME TypeOK, [Next]_vars, ~Restart
  PROVE  filter \subseteq filter'
<1>1. ASSUME NEW p \in Procs, Step(p), ~RegAdd(p) PROVE UNCHANGED filter
  BY <1>1 DEF Step, RegCheck, RegCreate, RegRefused, ChkFilter, ChkCache, ChkRead, ChkDone,
     FillId, FillEmail, FillUsername, DelRead, DelEmailKey, DelRow, DelIdKey, UpdRead, UpdWrite,
     Login, RefreshToken, GetProfile, List
<1>2. ASSUME NEW p \in Procs, Arrive(p) PROVE UNCHANGED filter
  BY <1>2 DEF Arrive, Begin
<1>3. ASSUME NEW p \in Procs, RegAdd(p) PROVE filter \subseteq filter'
  BY <1>3 DEF RegAdd
<1>4. CASE Replicate \/ (\E key \in CacheKeys : Expire(key)) \/ UNCHANGED vars
  BY <1>4 DEF Replicate, Expire, vars
<1> QED BY <1>1, <1>2, <1>3, <1>4 DEF Next

\* Under FilterTrustworthy a row is only changed by the insert of a Register
\* that goes on to the filter, or by a delete.
LEMMA RowCases ==
  ASSUME TypeOK, FilterTrustworthy, FilterInv, [Next]_vars, NEW i \in Ids, users'[i] # NoRow
  PROVE  \/ users'[i] = users[i]
         \/ \A k \in Kinds : \E q \in Procs : Pending(q, i, k)'
<1> USE DEF TypeOK, LocalsOK
<1>1. ASSUME NEW p \in Procs, RegCreate(p), users'[i] # users[i]
      PROVE  \A k \in Kinds : Pending(p, i, k)'
  <2>1. i = nextId /\ users'[i] = req[p].keys
    BY <1>1 DEF RegCreate, Commit, StoreOK, Table
  <2>2. Goto(p, "regAdd") /\ req' = [req EXCEPT ![p].id = nextId]
    BY <1>1 DEF RegCreate, FilterTrustworthy
  <2>3. req'[p].id = i /\ req'[p].keys = req[p].keys /\ req'[p].phase = "email" /\ pc'[p] = "regAdd"
    BY <1>1, <2>1, <2>2 DEF Goto, Request, FilterInv, RegCreate
  <2> QED BY <2>1, <2>3 DEF Pending
<1>2. ASSUME NEW p \in Procs, DelRow(p) PROVE users'[i] = users[i]
  BY <1>2 DEF DelRow, Commit, StoreOK, Table
<1>3. ASSUME NEW p \in Procs, UpdWrite(p) PROVE FALSE
  BY <1>3 DEF UpdWrite, FilterInv
<1>4. ASSUME NEW p \in Procs, Step(p), ~RegCreate(p), ~UpdWrite(p), ~DelRow(p)
      PROVE  UNCHANGED users
  BY <1>4 DEF Step, RegCheck, RegRefused, RegAdd, ChkFilter, ChkCache, ChkRead, ChkDone,
     FillId, FillEmail, FillUsername, DelRead, DelEmailKey, DelIdKey, UpdRead,
     Login, RefreshToken, GetProfile, List, store
<1>5. ASSUME NEW p \in Procs, Arrive(p) PROVE UNCHANGED users
  BY <1>5 DEF Arrive, Begin, store
<1>6. CASE Restart \/ Replicate \/ (\E key \in CacheKeys : Expire(key)) \/ UNCHANGED vars
  BY <1>6 DEF Restart, Replicate, Expire, vars, store
<1> QED BY <1>1, <1>2, <1>3, <1>4, <1>5, <1>6 DEF Next

LEMMA FilterStep ==
  ASSUME TypeOK, FilterTrustworthy, FilterInv, [Next]_vars
  PROVE  FilterInv'
<1>1. TypeOK'
  BY TypeStep
<1>2. ASSUME NEW i \in Ids, NEW k \in Kinds, users'[i] # NoRow
      PROVE  <<k, users'[i][k]>> \in filter' \/ \E q \in Procs : Pending(q, i, k)'
  <2>1. CASE Restart
    <3>1. filter' = KeysOf(users) /\ users' = users
      BY <2>1 DEF Restart, FilterTrustworthy, FilterInv, Views, store
    <3>2. <<k, users[i][k]>> \in Kinds \X Strings
      BY <1>2, <3>1 DEF TypeOK, StoreOK, Table, Row
    <3> QED BY <1>2, <3>1, <3>2 DEF KeysOf, Taken
  <2>2. CASE ~Restart /\ users'[i] = users[i]
    BY <1>2, <2>2, PendingKept, FilterGrows DEF FilterInv, FilterCovers, Pending
  <2> QED BY <1>2, <2>1, <2>2, RowCases
<1>3. FilterCovers'
  BY <1>2 DEF FilterCovers, Pending
<1> QED BY <1>3, FilterStore, FilterLocals DEF FilterInv

LEMMA FilterInit == Init => FilterInv
BY DEF Init, FilterInv, FilterCovers

\* Under the same assumptions every committed row is in the bloom filter, or
\* its Register is about to add it, across crashes and restarts too.
THEOREM FilterComplete == ASSUME FilterTrustworthy PROVE Spec => []FilterCovers
<1>1. TypeOK /\ FilterInv /\ [Next]_vars => FilterInv'
  BY FilterStep
<1>2. FilterInv => FilterCovers
  BY DEF FilterInv
<1> QED BY <1>1, <1>2, FilterInit, TypeCorrect, PTL DEF Spec

\* Where reads go to the primary, profiles are not renamed, commits are
\* acknowledged and the filter is seeded, a negative of the bloom filter is
\* definitive: no settled account's email or username is ever called free.
THEOREM NeverFalseAvailable == ASSUME FilterTrustworthy PROVE Spec => NoFalseAvailable
<1>1. TypeOK /\ FilterInv /\ [Next]_vars => FilterInv'
  BY FilterStep
<1>2. ASSUME TypeOK, FilterInv, [Next]_vars, NEW p \in Procs, NEW k \in Kinds,
             avail[p][k] = "unknown", avail'[p][k] = "free", req[p].keys[k] # Blank
      PROVE  ~SettledHolds(k, req[p].keys[k])
  <2>1. <<k, req[p].keys[k]>> \notin filter \/ ~Taken(users, k, req[p].keys[k])
    BY <1>2, VerdictCases DEF FilterInv, Views
  <2> QED BY <1>2, <2>1 DEF SettledHolds, Settled, FilterInv, FilterCovers, Taken
<1>3. TypeOK /\ FilterInv /\ [Next]_vars
        => [\A p \in Procs, k \in Kinds :
              (avail[p][k] = "unknown" /\ avail'[p][k] = "free" /\ req[p].keys[k] # Blank)
                => ~SettledHolds(k, req[p].keys[k])]_vars
  BY <1>2
<1> QED BY <1>1, <1>3, FilterInit, TypeCorrect, PTL DEF Spec, NoFalseAvailable

(***************************************************************************)
(* What requests read: old perhaps, but never ambiguous, and never without *)
(* an account that every standby has heard of.                             *)
(***************************************************************************)

\* On no standby, however far behind, does an email or a username find two
\* accounts: Login and CheckAvailability, which look users up by them, never
\* have to choose.
THEOREM AlwaysUnambiguous == Spec => []LookupsUnambiguous
<1>1. Init => LookupsUnambiguous
  BY DEF Init, LookupsUnambiguous, Views
<1>2. ASSUME TypeOK, DirectoryInv', LookupsUnambiguous, [Next]_vars PROVE LookupsUnambiguous'
  <2>1. \A i, j \in Ids, k \in Kinds :
          (users'[i] # NoRow /\ users'[j] # NoRow /\ users'[i][k] = users'[j][k]) => i = j
    BY <1>2 DEF DirectoryInv, AccountsUnique, Directory!Unique, Directory!Ids, Ids
  <2>2. \A t \in Views' : t \in Views \/ t = users'
    BY <1>2, ViewsStep
  <2> QED BY <1>2, <2>1, <2>2 DEF LookupsUnambiguous
<1>3. TypeOK /\ DirectoryInv' /\ LookupsUnambiguous /\ [Next]_vars => LookupsUnambiguous'
  BY <1>2
<1> QED BY <1>1, <1>3, TypeCorrect, DirectoryAlways, PTL DEF Spec

\* Only p's own handler answers p.
LEMMA AnsweredBy ==
  ASSUME TypeOK, [Next]_vars, NEW p \in Procs,
         pc[p] \in {"login", "profile", "updRead"}, Answered(p, {401, 404})
  PROVE  Login(p) \/ GetProfile(p) \/ UpdRead(p)
<1>1. pc'[p] # pc[p] /\ reply' # 0
  BY DEF Answered
<1>2. ~UNCHANGED vars /\ ~Replicate /\ ~Restart /\ ~(\E key \in CacheKeys : Expire(key))
  BY <1>1 DEF vars, Replicate, Restart, Expire
<1>3. ASSUME NEW q \in Procs, Arrive(q) PROVE FALSE
  BY <1>1, <1>3 DEF Arrive, Begin
<1>4. PICK q \in Procs : Step(q)
  BY <1>2, <1>3 DEF Next
<1>5. q = p
  <2>1. LocalsOK
    BY DEF TypeOK
  <2> QED BY <1>1, <1>4, <2>1, OthersKeep
<1> QED BY <1>4, <1>5 DEF Step, RegCheck, RegCreate, RegRefused, RegAdd, ChkFilter, ChkCache,
     ChkRead, ChkDone, FillId, FillEmail, FillUsername, DelRead, DelEmailKey, DelRow, DelIdKey,
     UpdWrite, RefreshToken, List

\* The row of i is there, and all standbys show it as it is.
Everywhere(i) == users[i] # NoRow /\ \A t \in Views : t[i] = users[i]

\* The safety part of EventuallyFound, for any number of users and standbys and
\* any lag.  Once every standby shows an account as it is, they do until its row
\* changes, whatever else is committed; and meanwhile no failing statement makes
\* Login, GetProfile or UpdateProfile tell its owner that it is missing.
THEOREM FoundWhileEverywhere ==
  Spec => [][\A i \in Ids : Everywhere(i) =>
               /\ users'[i] = users[i] => Everywhere(i)'
               /\ ~ToldMissing(i)]_vars
<1>1. ASSUME TypeOK, [Next]_vars, NEW i \in Ids, Everywhere(i), users'[i] = users[i]
      PROVE  Everywhere(i)'
  BY <1>1, ViewsStep DEF Everywhere
<1>2. ASSUME TypeOK, [Next]_vars, NEW i \in Ids, Everywhere(i), NEW p \in Procs,
             pc[p] = "login", users[i]["email"] = req[p].keys["email"], Answered(p, {401})
      PROVE  FALSE
  <2>1. Login(p)
    BY <1>2, AnsweredBy DEF Answered, GetProfile, UpdRead
  <2>2. PICK t \in Views : ~Taken(t, "email", req[p].keys["email"])
    BY <1>2, <2>1 DEF Login, Answer, Answered
  <2> QED BY <1>2, <2>2 DEF Everywhere, Taken
<1>3. ASSUME TypeOK, [Next]_vars, NEW i \in Ids, Everywhere(i), NEW p \in Procs,
             pc[p] \in {"profile", "updRead"}, req[p].id = i, Answered(p, {404})
      PROVE  FALSE
  <2>1. GetProfile(p) \/ UpdRead(p)
    BY <1>3, AnsweredBy DEF Answered, Login
  <2>2. PICK t \in Views : t[req[p].id] = NoRow
    BY <1>3, <2>1 DEF GetProfile, UpdRead, Answer, Answered, Goto
  <2> QED BY <1>3, <2>2 DEF Everywhere
<1>4. TypeOK /\ [Next]_vars
        => [\A i \in Ids : Everywhere(i) =>
              /\ users'[i] = users[i] => Everywhere(i)'
              /\ ~ToldMissing(i)]_vars
  BY <1>1, <1>2, <1>3 DEF ToldMissing
<1> QED BY <1>4, TypeCorrect, PTL DEF Spec

(***************************************************************************)
(* Every request ends after a bounded number of calls.                     *)
(***************************************************************************)

\* The calls to Postgres, Redis and the filter a handler at label l with the
\* column k before it has left at most, its answer included.
Calls(l, k) ==
  LET again == IF k = "email" THEN 6 ELSE 0 IN
  CASE l = "idle" -> 0
    [] l \in {"delIdKey", "updWrite", "login", "loginWrong", "refresh", "profile", "list"} -> 1
    [] l \in {"delRow", "updRead"} -> 2
    [] l = "delEmailKey" -> 3
    [] l = "delRead" -> 4
    [] l = "regCheck" -> 4
    [] l = "regCreate" -> 3
    [] l = "regAdd" -> IF k = "email" THEN 2 ELSE 1
    [] l = "chkDone" -> 1
    [] l = "fillUsername" -> 2 + again
    [] l = "fillEmail" -> 3 + again
    [] l = "fillId" -> 4 + again
    [] l = "chkRead" -> 5 + again
    [] l = "chkCache" -> 6 + again
    [] l = "chkFilter" -> 7 + again

CallsLeft(p) == Calls(pc[p], req[p].phase)

LEMMA CallsBounded ==
  ASSUME NEW l \in Labels, NEW k \in Kinds
  PROVE  Calls(l, k) \in 0 .. 13 /\ (Calls(l, k) = 0 <=> l = "idle")
<1>1. l = "idle" => Calls(l, k) = 0
  BY DEF Calls
<1>2. l \in {"delIdKey", "updWrite", "login", "loginWrong", "refresh", "profile", "list"}
        => Calls(l, k) = 1
  BY DEF Calls
<1>3. l \in {"delRow", "updRead"} => Calls(l, k) = 2
  BY DEF Calls
<1>4. l \in {"delEmailKey", "delRead", "regCheck", "regCreate", "regAdd", "chkDone"}
        => Calls(l, k) \in 1 .. 4
  BY DEF Calls
<1>5. l \in {"fillUsername", "fillEmail", "fillId", "chkRead", "chkCache", "chkFilter"}
        => Calls(l, k) \in 1 .. 13
  BY DEF Calls
<1> QED BY <1>1, <1>2, <1>3, <1>4, <1>5 DEF Labels

\* Where a step of p leaves it.
LEMMA CallsFall ==
  ASSUME TypeOK, TypeOK', NEW p \in Procs, Step(p)
  PROVE  CallsLeft(p)' < CallsLeft(p)
<1> DEFINE k == req[p].phase
<1>0. /\ pc[p] \in Labels /\ k \in Kinds /\ pc'[p] \in Labels /\ req'[p].phase \in Kinds
      /\ req[p] \in Request
  BY DEF TypeOK, LocalsOK, Request
<1>1. pc[p] # "idle"
  BY DEF Step, RegCheck, RegCreate, RegRefused, RegAdd, ChkFilter, ChkCache, ChkRead, ChkDone,
     FillId, FillEmail, FillUsername, DelRead, DelEmailKey, DelRow, DelIdKey, UpdRead, UpdWrite,
     Login, RefreshToken, GetProfile, List
<1>2. ASSUME pc'[p] = "idle" PROVE CallsLeft(p)' < CallsLeft(p)
  <2>1. Calls(pc'[p], req'[p].phase) = 0
    BY <1>0, <1>2, CallsBounded
  <2>2. Calls(pc[p], k) \in 0 .. 13 /\ Calls(pc[p], k) # 0
    BY <1>0, <1>1, CallsBounded
  <2> QED BY <2>1, <2>2 DEF CallsLeft
<1>3. ASSUME NEW code, Answer(p, code) PROVE CallsLeft(p)' < CallsLeft(p)
  BY <1>2, <1>3 DEF Answer, TypeOK, LocalsOK
<1>4. ASSUME NEW l \in Labels, Goto(p, l) PROVE pc'[p] = l
  BY <1>4 DEF Goto, TypeOK, LocalsOK
<1>5. ASSUME NEW v, Decide(p, v), pc[p] \in {"chkFilter", "chkCache", "chkRead", "fillUsername"}
      PROVE  CallsLeft(p)' < CallsLeft(p)
  <2>1. CASE k = "email"
    <3>1. pc'[p] = "chkFilter" /\ req'[p].phase = "username"
      BY <1>0, <1>5, <2>1 DEF Decide, Goto, TypeOK, LocalsOK, Request
    <3> QED BY <1>5, <2>1, <3>1 DEF CallsLeft, Calls
  <2>2. CASE k = "username"
    <3>1. pc'[p] = "chkDone"
      BY <1>0, <1>5, <2>2 DEF Decide, Goto, TypeOK, LocalsOK
    <3> QED BY <1>5, <2>2, <3>1 DEF CallsLeft, Calls
  <2> QED BY <1>0, <2>1, <2>2 DEF Kinds
<1>6. CASE RegCheck(p) \/ RegRefused(p)
  <2>1. CASE pc[p] = "regCheck" /\ Goto(p, "regCreate")
    BY <2>1, <1>4 DEF CallsLeft, Calls, Labels
  <2> QED BY <1>3, <1>6, <2>1 DEF RegCheck, RegRefused
<1>7. CASE RegCreate(p)
  <2>1. CASE pc[p] = "regCreate" /\ Goto(p, "regAdd")
    BY <2>1, <1>4 DEF CallsLeft, Calls, Labels
  <2> QED BY <1>3, <1>7, <2>1 DEF RegCreate
<1>8. CASE RegAdd(p)
  <2>1. CASE /\ pc[p] = "regAdd" /\ k = "email" /\ Goto(p, "regAdd")
             /\ req' = [req EXCEPT ![p].phase = "username"]
    <3>1. req'[p].phase = "username" /\ pc'[p] = "regAdd"
      BY <1>0, <1>4, <2>1 DEF TypeOK, LocalsOK, Request, Labels
    <3> QED BY <2>1, <3>1 DEF CallsLeft, Calls
  <2> QED BY <1>3, <1>8, <2>1 DEF RegAdd
<1>9. CASE ChkFilter(p)
  <2>1. CASE pc[p] = "chkFilter" /\ Goto(p, "chkCache") /\ UNCHANGED req
    BY <1>0, <1>4, <2>1 DEF CallsLeft, Calls, Labels
  <2> QED BY <1>5, <1>9, <2>1 DEF ChkFilter
<1>10. CASE ChkCache(p)
  <2>1. CASE pc[p] = "chkCache" /\ Goto(p, "chkRead") /\ UNCHANGED req
    BY <1>0, <1>4, <2>1 DEF CallsLeft, Calls, Labels
  <2> QED BY <1>5, <1>10, <2>1 DEF ChkCache
<1>11. CASE ChkRead(p)
  <2>1. ASSUME NEW i \in Ids, NEW t \in Views, pc[p] = "chkRead", Goto(p, "fillId"),
               req' = [req EXCEPT ![p].id = i, ![p].user = t[i]]
        PROVE  CallsLeft(p)' < CallsLeft(p)
    <3>1. req'[p].phase = k /\ pc'[p] = "fillId"
      BY <1>0, <1>4, <2>1 DEF TypeOK, LocalsOK, Request, Labels
    <3> QED BY <1>0, <2>1, <3>1 DEF CallsLeft, Calls
  <2> QED BY <1>3, <1>5, <1>11, <2>1 DEF ChkRead
<1>12. CASE FillId(p) \/ FillEmail(p) \/ FillUsername(p)
  <2>1. CASE pc[p] = "fillId" /\ Goto(p, "fillEmail") /\ UNCHANGED req
    BY <1>0, <1>4, <2>1 DEF CallsLeft, Calls, Labels
  <2>2. CASE pc[p] = "fillEmail" /\ Goto(p, "fillUsername") /\ UNCHANGED req
    BY <1>0, <1>4, <2>2 DEF CallsLeft, Calls, Labels
  <2> QED BY <1>5, <1>12, <2>1, <2>2 DEF FillId, FillEmail, FillUsername
<1>13. CASE DelRead(p) \/ DelEmailKey(p) \/ DelRow(p) \/ DelIdKey(p)
  <2>1. ASSUME NEW l \in {"delEmailKey", "delRow", "delIdKey"}, Goto(p, l),
               pc[p] \in {"delRead", "delEmailKey", "delRow"}, pc[p] # l,
               pc[p] = "delRow" => l = "delIdKey"
        PROVE  CallsLeft(p)' < CallsLeft(p)
    BY <1>4, <2>1 DEF CallsLeft, Calls, Labels
  <2>2. CASE DelRead(p)
    BY <2>1, <2>2 DEF DelRead
  <2>3. CASE DelEmailKey(p)
    BY <2>1, <2>3 DEF DelEmailKey
  <2>4. CASE DelRow(p)
    BY <1>3, <2>1, <2>4 DEF DelRow
  <2>5. CASE DelIdKey(p)
    BY <1>3, <2>5 DEF DelIdKey
  <2> QED BY <1>13, <2>2, <2>3, <2>4, <2>5
<1>14. CASE UpdRead(p) \/ UpdWrite(p)
  <2>1. CASE pc[p] = "updRead" /\ Goto(p, "updWrite")
    BY <1>4, <2>1 DEF CallsLeft, Calls, Labels
  <2> QED BY <1>3, <1>14, <2>1 DEF UpdRead, UpdWrite
<1>15. CASE Login(p) \/ RefreshToken(p) \/ GetProfile(p) \/ List(p) \/ ChkDone(p)
  BY <1>3, <1>15 DEF Login, RefreshToken, GetProfile, List, ChkDone
<1> QED BY <1>6, <1>7, <1>8, <1>9, <1>10, <1>11, <1>12, <1>13, <1>14, <1>15 DEF Step

\* Whatever Postgres and Redis answer and whatever the other requests do, a
\* handler makes at most 13 calls: each one lowers what is left to do, and
\* nothing anybody else does adds to it, so no lookup and no cache fill can
\* keep a request going for ever.
THEOREM RequestsBounded ==
  Spec => /\ [](\A p \in Procs : CallsLeft(p) \in 0 .. 13 /\ (CallsLeft(p) = 0 <=> pc[p] = "idle"))
          /\ [][\A p \in Procs :
                  /\ Step(p) => CallsLeft(p)' < CallsLeft(p)
                  /\ pc[p] # "idle" => CallsLeft(p)' <= CallsLeft(p)]_vars
<1> DEFINE Bounded == \A p \in Procs : CallsLeft(p) \in 0 .. 13 /\ (CallsLeft(p) = 0 <=> pc[p] = "idle")
           Falls == \A p \in Procs : /\ Step(p) => CallsLeft(p)' < CallsLeft(p)
                                     /\ pc[p] # "idle" => CallsLeft(p)' <= CallsLeft(p)
<1>1. TypeOK => Bounded
  BY CallsBounded DEF TypeOK, LocalsOK, Request, CallsLeft
<1>2. ASSUME TypeOK, TypeOK', Bounded, Bounded', [Next]_vars, NEW p \in Procs, pc[p] # "idle"
      PROVE  CallsLeft(p)' <= CallsLeft(p)
  <2>1. CallsLeft(p) \in 0 .. 13 /\ CallsLeft(p)' \in 0 .. 13
    BY <1>2
  <2>2. CASE Step(p)
    BY <1>2, <2>1, <2>2, CallsFall
  <2>3. ASSUME NEW q \in Procs, q # p, Step(q) \/ Arrive(q) PROVE CallsLeft(p)' = CallsLeft(p)
    BY <1>2, <2>3, OthersKeep DEF TypeOK, CallsLeft
  <2>4. ~Arrive(p)
    BY <1>2 DEF Arrive, Begin
  <2>5. CASE Replicate \/ (\E key \in CacheKeys : Expire(key)) \/ UNCHANGED vars
    <3>1. UNCHANGED <<pc, req>>
      BY <2>5 DEF Replicate, Expire, vars
    <3> QED BY <2>1, <3>1 DEF CallsLeft
  <2>6. CASE Restart
    <3>1. pc'[p] = "idle"
      BY <2>6 DEF Restart
    <3>2. CallsLeft(p)' = 0
      BY <1>2, <3>1
    <3> QED BY <2>1, <3>2
  <2> QED BY <1>2, <2>1, <2>2, <2>3, <2>4, <2>5, <2>6 DEF Next
<1>3. ASSUME TypeOK, TypeOK', Bounded, Bounded', [Next]_vars PROVE [Falls]_vars
  BY <1>2, <1>3, CallsFall
<1>4. TypeOK /\ TypeOK' /\ Bounded /\ Bounded' /\ [Next]_vars => [Falls]_vars
  BY <1>3
<1> HIDE DEF Bounded, Falls
<1>5. Spec => []Bounded /\ [][Falls]_vars
  BY <1>1, <1>4, TypeCorrect, PTL DEF Spec
<1> QED BY <1>5 DEF Bounded, Falls
=============================================================================
