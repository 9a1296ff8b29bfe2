--------------------------- MODULE ExchangeProofs ---------------------------
(***************************************************************************)
(* What module Exchange promises, for any currencies, goroutines, caches   *)
(* and stalls.                                                             *)
(***************************************************************************)
EXTENDS Exchange, TLAPS

\* Every goroutine is within its stall, and holds a quote of the currency it
\* asks for.
ProcOK(p) ==
  /\ proc[p] # Idle => now <= proc[p].since + MaxStall
  /\ proc[p].at \in {"set", "answer"} => proc[p].quote.base = proc[p].base

\* A quote that is yet to be stored has just been fetched, and one that is yet
\* to be answered was stored, or found, before it was too old.
QuoteFresh(p) ==
  /\ proc[p].at = "set" => proc[p].since <= proc[p].quote.at
  /\ proc[p].at = "answer" => proc[p].since < proc[p].quote.at + ttl + MaxStall

\* An entry belongs to its key, and ends before its quote is too old.
EntryFresh(k) == cache[k].exp # Forever /\ cache[k].exp <= cache[k].quote.at + ttl + MaxStall

ExchangeInv ==
  /\ TypeOK
  /\ \A p \in Procs : ProcOK(p)
  /\ \A k \in DOMAIN cache : cache[k].quote.base = k
  /\ ttl > 0 => (\A p \in Procs : QuoteFresh(p)) /\ (\A k \in DOMAIN cache : EntryFresh(k))

\* Where a goroutine is tells what it holds.
LEMMA ProcTypes ==
  ASSUME TypeOK, NEW p \in Procs
  PROVE  /\ proc[p].at \in {"get", "fetch"} => proc[p] \in Asking
         /\ proc[p].at \in {"set", "answer"} => proc[p] \in Holding
         /\ proc[p] \in Asking => proc[p].at \in {"get", "fetch"} /\ proc[p].base \in Codes /\ proc[p].since \in Nat
         /\ proc[p] \in Holding =>
              /\ proc[p].at \in {"set", "answer"} /\ proc[p].base \in Codes /\ proc[p].since \in Nat
              /\ proc[p].quote \in Quote /\ proc[p].quote.base \in Codes /\ proc[p].quote.at \in Nat
         /\ proc[p] = Idle => proc[p].at = "idle"
BY DEF TypeOK, Idle, Asking, Holding, Quote

\* The same for the entries of the cache.
LEMMA EntryTypes ==
  ASSUME TypeOK, NEW k \in DOMAIN cache
  PROVE  /\ k \in Codes /\ cache[k].quote \in Quote /\ cache[k].quote.at \in Nat
         /\ cache[k].exp \in Nat \cup {Forever}
BY DEF TypeOK, Entry, Quote

LEMMA ExchangeInit == Init => ExchangeInv
<1> SUFFICES ASSUME Init PROVE ExchangeInv
  OBVIOUS
<1>1. DOMAIN cache = {}
  BY DEF Init
<1>2. ttl \in Int
  BY ExchangeAssumption DEF Init
<1>3. \A p \in Procs : proc[p] = Idle /\ proc[p].at = "idle"
  BY DEF Init, Idle
<1>4. TypeOK
  BY <1>1, <1>2 DEF Init, TypeOK
<1> QED
  BY <1>1, <1>3, <1>4 DEF ExchangeInv, ProcOK, QuoteFresh

\* A step in which only the goroutine p moves, to a state that is as it should
\* be, and the cache stays as it is.
LEMMA MoveInv ==
  ASSUME ExchangeInv, UNCHANGED <<now, ttl, cache>>,
         NEW p \in Procs, NEW s \in {Idle} \cup Asking \cup Holding, Become(p, s),
         s # Idle => now <= s.since + MaxStall,
         s.at \in {"set", "answer"} => s.quote.base = s.base,
         ttl > 0 => /\ s.at = "set" => s.since <= s.quote.at
                    /\ s.at = "answer" => s.since < s.quote.at + ttl + MaxStall
  PROVE  ExchangeInv'
<1>1. proc' \in [Procs -> {Idle} \cup Asking \cup Holding] /\ proc'[p] = s
  BY DEF ExchangeInv, TypeOK, Become
<1>2. \A q \in Procs : q # p => proc'[q] = proc[q]
  BY DEF ExchangeInv, TypeOK, Become
<1>3. TypeOK'
  BY <1>1 DEF ExchangeInv, TypeOK, Entry
<1>4. ASSUME NEW q \in Procs PROVE ProcOK(q)'
  BY <1>1, <1>2 DEF ExchangeInv, ProcOK
<1>5. ASSUME ttl > 0, NEW q \in Procs PROVE QuoteFresh(q)'
  BY <1>1, <1>2, <1>5 DEF ExchangeInv, QuoteFresh
<1>6. ASSUME ttl > 0, NEW k \in DOMAIN cache PROVE EntryFresh(k)'
  BY <1>6 DEF ExchangeInv, EntryFresh
<1> QED
  BY <1>3, <1>4, <1>5, <1>6 DEF ExchangeInv

LEMMA ExchangeStep == ExchangeInv /\ [Next]_vars => ExchangeInv'
<1> SUFFICES ASSUME ExchangeInv, [Next]_vars PROVE ExchangeInv'
  OBVIOUS
<1> USE ExchangeAssumption
<1>0. TypeOK /\ now \in Nat /\ ttl \in Int /\ MaxStall \in Nat
  BY DEF ExchangeInv, TypeOK
<1>1. ASSUME NEW p \in Procs, NEW name \in Names, GetRates(p, name) PROVE ExchangeInv'
  <2>1. Ask("get", Code[name]) \in Asking
    BY <1>0 DEF Ask, Asking, Codes
  <2> QED
    BY <1>0, <1>1, <2>1, MoveInv DEF GetRates, Ask
<1>2. ASSUME NEW p \in Procs, CacheHit(p) PROVE ExchangeInv'
  <2> DEFINE k == RatesKey(proc[p].base)
             s == Hold("answer", p, cache[k].quote)
  <2>1. k \in DOMAIN cache /\ k = proc[p].base /\ (cache[k].exp = Forever \/ now < cache[k].exp)
    BY <1>2 DEF CacheHit, Live, RatesKey
  <2>2. s \in Holding /\ s.since = now /\ s.quote = cache[k].quote /\ s.base = k /\ s.at = "answer"
    BY <1>0, <1>2, <2>1, EntryTypes DEF Hold, Holding
  <2>3. s.quote.base = s.base
    BY <2>1, <2>2 DEF ExchangeInv
  <2>4. ttl > 0 => s.since < s.quote.at + ttl + MaxStall
    BY <1>0, <2>1, <2>2, EntryTypes DEF ExchangeInv, EntryFresh, Forever
  <2>5. Become(p, s) /\ UNCHANGED <<now, ttl, cache>>
    BY <1>2 DEF CacheHit
  <2>6. now <= s.since + MaxStall
    BY <1>0, <2>2
  <2> HIDE DEF s
  <2> QED
    BY <2>2, <2>3, <2>4, <2>5, <2>6, MoveInv
<1>3. ASSUME NEW p \in Procs, CacheMiss(p) PROVE ExchangeInv'
  <2>1. Ask("fetch", proc[p].base) \in Asking
    BY <1>0, <1>3, ProcTypes DEF CacheMiss, Ask, Asking
  <2> QED
    BY <1>0, <1>3, <2>1, MoveInv DEF CacheMiss, Ask
<1>4. ASSUME NEW p \in Procs, Fetch(p) PROVE ExchangeInv'
  <2> DEFINE s == Hold("set", p, [base |-> proc[p].base, at |-> now])
  <2>1. s \in Holding
    BY <1>0, <1>4, ProcTypes DEF Fetch, Hold, Holding, Quote
  <2> QED
    BY <1>0, <1>4, <2>1, MoveInv DEF Fetch, Hold
<1>5. ASSUME NEW p \in Procs, FetchFails(p) \/ Answer(p) PROVE ExchangeInv'
  BY <1>5, MoveInv DEF FetchFails, Answer, Idle
<1>6. ASSUME NEW p \in Procs, CacheSet(p) \/ CacheSetFails(p),
             NEW s, s = Hold("answer", p, proc[p].quote)
      PROVE  /\ proc[p].quote \in Quote /\ proc[p].base \in Codes /\ proc[p].quote.base = proc[p].base
             /\ s \in Holding /\ s.at = "answer" /\ s.since = now
             /\ s.quote = proc[p].quote /\ s.base = proc[p].base
             /\ now <= s.since + MaxStall
             /\ ttl > 0 => now <= s.quote.at + MaxStall /\ s.since < s.quote.at + ttl + MaxStall
  <2>1. proc[p].at = "set" /\ proc[p] \in Holding /\ proc[p] # Idle
    BY <1>0, <1>6, ProcTypes DEF CacheSet, CacheSetFails
  <2>2. s \in Holding /\ s.at = "answer" /\ s.since = now /\ s.quote = proc[p].quote /\ s.base = proc[p].base
    BY <1>0, <1>6, <2>1, ProcTypes DEF Hold, Holding
  <2>3. now <= proc[p].since + MaxStall /\ proc[p].quote.base = proc[p].base
    BY <2>1 DEF ExchangeInv, ProcOK
  <2>4. ttl > 0 => proc[p].since <= proc[p].quote.at
    BY <2>1 DEF ExchangeInv, QuoteFresh
  <2> QED
    BY <1>0, <2>1, <2>2, <2>3, <2>4, ProcTypes
<1>7. ASSUME NEW p \in Procs, CacheSetFails(p) PROVE ExchangeInv'
  <2>1. PICK s : s = Hold("answer", p, proc[p].quote)
    OBVIOUS
  <2>2. Become(p, s) /\ UNCHANGED <<now, ttl, cache>>
    BY <1>7, <2>1 DEF CacheSetFails
  <2> QED
    BY <1>6, <1>7, <2>1, <2>2, MoveInv
<1>8. ASSUME NEW p \in Procs, CacheSet(p) PROVE ExchangeInv'
  <2>1. PICK s : s = Hold("answer", p, proc[p].quote)
    OBVIOUS
  <2>2. PICK k : k = proc[p].base
    OBVIOUS
  <2>3. PICK e : e = [quote |-> proc[p].quote, exp |-> IF ttl > 0 THEN now + ttl ELSE Forever]
    OBVIOUS
  <2>4. Become(p, s) /\ cache' = [c \in DOMAIN cache \cup {k} |-> IF c = k THEN e ELSE cache[c]]
        /\ UNCHANGED <<now, ttl>>
    BY <1>8, <2>1, <2>2, <2>3 DEF CacheSet, RatesKey
  <2>5. proc' \in [Procs -> {Idle} \cup Asking \cup Holding] /\ proc'[p] = s
    BY <1>0, <1>6, <1>8, <2>1, <2>4 DEF TypeOK, Become
  <2>6. \A q \in Procs : q # p => proc'[q] = proc[q]
    BY <1>0, <2>4 DEF TypeOK, Become
  <2>7. e \in Entry /\ e.quote = proc[p].quote /\ (ttl > 0 => e.exp = now + ttl)
    BY <1>0, <1>6, <1>8, <2>1, <2>3 DEF Entry
  <2>8. DOMAIN cache' = DOMAIN cache \cup {k} /\ cache'[k] = e
        /\ \A c \in DOMAIN cache : c # k => cache'[c] = cache[c]
    BY <2>4
  <2>9. TypeOK'
    BY <1>0, <1>6, <1>8, <2>1, <2>2, <2>4, <2>5, <2>7, <2>8 DEF TypeOK
  <2>10. ASSUME NEW q \in Procs PROVE ProcOK(q)'
    BY <1>6, <1>8, <2>1, <2>4, <2>5, <2>6 DEF ExchangeInv, ProcOK
  <2>11. ASSUME NEW c \in DOMAIN cache' PROVE cache'[c].quote.base = c
    BY <1>6, <1>8, <2>1, <2>2, <2>7, <2>8 DEF ExchangeInv
  <2>12. ASSUME ttl > 0, NEW q \in Procs PROVE QuoteFresh(q)'
    BY <1>6, <1>8, <2>1, <2>4, <2>5, <2>6, <2>12 DEF ExchangeInv, QuoteFresh
  <2>13. ASSUME ttl > 0, NEW c \in DOMAIN cache' PROVE EntryFresh(c)'
    <3>1. CASE c = k
      <4>1. now <= e.quote.at + MaxStall /\ e.quote.at \in Nat
        BY <1>6, <1>8, <2>1, <2>7, <2>13 DEF Quote
      <4> QED
        BY <1>0, <2>4, <2>7, <2>8, <2>13, <3>1, <4>1 DEF EntryFresh, Forever
    <3>2. CASE c # k
      BY <2>4, <2>8, <2>13, <3>2 DEF ExchangeInv, EntryFresh
    <3> QED
      BY <3>1, <3>2
  <2> QED
    BY <2>4, <2>9, <2>10, <2>11, <2>12, <2>13 DEF ExchangeInv
<1>9. ASSUME NEW k \in Codes, Evict(k) PROVE ExchangeInv'
  <2>1. DOMAIN cache' \subseteq DOMAIN cache /\ \A c \in DOMAIN cache' : cache'[c] = cache[c]
    BY <1>9 DEF Evict
  <2>2. UNCHANGED <<now, ttl, proc>>
    BY <1>9 DEF Evict
  <2>3. TypeOK'
    BY <1>0, <2>1, <2>2 DEF TypeOK
  <2> QED
    BY <2>1, <2>2, <2>3 DEF ExchangeInv, ProcOK, QuoteFresh, EntryFresh
<1>10. CASE Tick
  <2>1. now' = now + 1 /\ UNCHANGED <<ttl, cache, proc>>
    BY <1>10 DEF Tick
  <2>2. TypeOK'
    BY <1>0, <2>1 DEF TypeOK
  <2>3. ASSUME NEW p \in Procs PROVE ProcOK(p)'
    <3>1. proc[p] # Idle => now < proc[p].since + MaxStall /\ proc[p].since \in Nat
      BY <1>0, <1>10, ProcTypes DEF Tick, TypeOK
    <3> QED
      BY <1>0, <2>1, <3>1 DEF ExchangeInv, ProcOK
  <2> QED
    BY <2>1, <2>2, <2>3 DEF ExchangeInv, QuoteFresh, EntryFresh
<1>11. CASE UNCHANGED vars
  BY <1>11 DEF vars, ExchangeInv, TypeOK, ProcOK, QuoteFresh, EntryFresh
<1> QED
  BY <1>1, <1>2, <1>3, <1>4, <1>5, <1>7, <1>8, <1>9, <1>10, <1>11
  DEF Next, Step, HttpConvert, GrpcConvert, GrpcGetRates, Convert

LEMMA ExchangeAlwaysInv == Spec => []ExchangeInv
BY ExchangeInit, ExchangeStep, PTL DEF Spec

\* Every goroutine of GetRates and every entry of the cache keeps its shape.
THEOREM ExchangeTypeCorrect == Spec => []TypeOK
<1>1. ExchangeInv => TypeOK
  BY DEF ExchangeInv
<1> QED
  BY <1>1, ExchangeAlwaysInv, PTL

\* An answer comes from rates of the currency that was asked for, although all
\* requests share the entries exchange:rates:* and none of them locks.
THEOREM AlwaysRatesOfBase == Spec => []RatesOfBase
<1>1. ExchangeInv => RatesOfBase
  BY DEF ExchangeInv, ProcOK, RatesOfBase
<1> QED
  BY <1>1, ExchangeAlwaysInv, PTL

\* An answer is never older than CACHE_TTL and two stalls, for any ttl above
\* zero and any number of requests that fill the same entry.
THEOREM AlwaysRatesFresh == Spec => []RatesFresh
<1>1. ExchangeInv => RatesFresh
  <2> SUFFICES ASSUME ExchangeInv, ttl > 0, NEW p \in Procs, proc[p].at = "answer"
               PROVE  now < proc[p].quote.at + ttl + 2 * MaxStall
    BY DEF RatesFresh
  <2>1. proc[p] \in Holding /\ proc[p] # Idle /\ now \in Nat /\ ttl \in Int
    BY ProcTypes DEF ExchangeInv, TypeOK
  <2>2. now <= proc[p].since + MaxStall /\ proc[p].since < proc[p].quote.at + ttl + MaxStall
    BY <2>1 DEF ExchangeInv, ProcOK, QuoteFresh
  <2> QED
    BY <2>1, <2>2, ProcTypes, ExchangeAssumption DEF ExchangeInv
<1> QED
  BY <1>1, ExchangeAlwaysInv, PTL

-----------------------------------------------------------------------------
(* When a request is over *)

\* How many of Redis and the API's answers, and of its own steps, the request
\* of p still waits for.
Waits(p) ==
  CASE proc[p].at = "get" -> 4
    [] proc[p].at = "fetch" -> 3
    [] proc[p].at = "set" -> 2
    [] proc[p].at = "answer" -> 1
    [] OTHER -> 0

\* The latest time at which the request of p can be over.
Deadline(p) == proc[p].since + Waits(p) * MaxStall

LEMMA WaitsValues ==
  ASSUME TypeOK, NEW p \in Procs
  PROVE  /\ Waits(p) \in 0..4 /\ (proc[p] = Idle <=> Waits(p) = 0)
         /\ proc[p].at = "get" => Waits(p) = 4
         /\ proc[p].at = "fetch" => Waits(p) = 3
         /\ proc[p].at = "set" => Waits(p) = 2
         /\ proc[p].at = "answer" => Waits(p) = 1
         /\ proc[p].at \notin {"get", "fetch", "set", "answer"} => Waits(p) = 0
<1>1. proc[p] = Idle \/ proc[p].at \in {"get", "fetch", "set", "answer"}
  BY ProcTypes DEF TypeOK
<1>2. proc[p] = Idle => proc[p].at = "idle"
  BY DEF Idle
<1> QED
  BY <1>1, <1>2 DEF Waits

\* A step of p's own request takes it further, and starts its next wait now.
LEMMA StepWaits ==
  ASSUME ExchangeInv, NEW p \in Procs, Step(p)
  PROVE  /\ Waits(p)' < Waits(p) /\ now' = now /\ proc[p] # Idle
         /\ proc'[p] = Idle \/ proc'[p].since = now
         /\ \A q \in Procs : q # p => proc'[q] = proc[q]
<1>0. TypeOK /\ TypeOK' /\ proc' \in [Procs -> {Idle} \cup Asking \cup Holding]
  <2>1. [Next]_vars
    BY DEF Next
  <2> QED
    BY <2>1, ExchangeStep DEF ExchangeInv, TypeOK
<1>1. \A q \in Procs : q # p => proc'[q] = proc[q]
  BY <1>0 DEF Step, CacheHit, CacheMiss, Fetch, FetchFails, CacheSet, CacheSetFails, Answer, Become, TypeOK
<1>2. ASSUME NEW s, Become(p, s) PROVE proc'[p] = s
  BY <1>0, <1>2 DEF Become, TypeOK
<1>3. now' = now
  BY DEF Step, CacheHit, CacheMiss, Fetch, FetchFails, CacheSet, CacheSetFails, Answer
<1>4. \/ proc[p].at = "get" /\ proc'[p].at \in {"fetch", "answer"} /\ proc'[p].since = now
      \/ proc[p].at = "fetch" /\ proc'[p].at = "set" /\ proc'[p].since = now
      \/ proc[p].at = "set" /\ proc'[p].at = "answer" /\ proc'[p].since = now
      \/ proc[p].at \in {"fetch", "answer"} /\ proc'[p] = Idle
  <2>1. CASE CacheHit(p) \/ CacheMiss(p)
    BY <1>2, <2>1 DEF CacheHit, CacheMiss, Hold, Ask
  <2>2. CASE Fetch(p) \/ CacheSet(p) \/ CacheSetFails(p)
    BY <1>2, <2>2 DEF Fetch, CacheSet, CacheSetFails, Hold
  <2>3. CASE FetchFails(p) \/ Answer(p)
    BY <1>2, <2>3 DEF FetchFails, Answer
  <2> QED
    BY <2>1, <2>2, <2>3 DEF Step
<1>5. /\ Waits(p)' \in 0..4 /\ (proc'[p] = Idle => Waits(p)' = 0)
      /\ proc'[p].at = "fetch" => Waits(p)' = 3
      /\ proc'[p].at = "set" => Waits(p)' = 2
      /\ proc'[p].at = "answer" => Waits(p)' = 1
  BY <1>0 DEF Waits, Idle
<1> QED
  BY <1>0, <1>1, <1>3, <1>4, <1>5, WaitsValues

\* Every request is over four stalls after it arrived: its deadline, four
\* stalls ahead when it begins, is never passed and never put off, whatever the
\* other requests, the clock, Redis and the API do, and each of its own steps
\* brings it closer to its answer.  With steps that are taken at all, which is
\* what Answered assumes, GetRates and Convert always come back.
THEOREM AnsweredInTime ==
  Spec => /\ [](\A p \in Procs : proc[p] # Idle => now <= Deadline(p))
          /\ [][\A p \in Procs :
                  /\ Step(p) => Waits(p)' < Waits(p)
                  /\ proc[p] = Idle /\ proc'[p] # Idle => Deadline(p)' = now + 4 * MaxStall
                  /\ proc[p] # Idle /\ proc'[p] # Idle =>
                       Waits(p)' <= Waits(p) /\ Deadline(p)' <= Deadline(p)]_vars
<1> USE ExchangeAssumption
<1> DEFINE Meets(p) == proc[p] # Idle => now <= Deadline(p)
           Closer(p) ==
             /\ Step(p) => Waits(p)' < Waits(p)
             /\ proc[p] = Idle /\ proc'[p] # Idle => Deadline(p)' = now + 4 * MaxStall
             /\ proc[p] # Idle /\ proc'[p] # Idle =>
                  Waits(p)' <= Waits(p) /\ Deadline(p)' <= Deadline(p)
<1>1. ASSUME ExchangeInv, NEW p \in Procs PROVE Meets(p)
  <2> SUFFICES ASSUME proc[p] # Idle PROVE now <= Deadline(p)
    OBVIOUS
  <2>1. Waits(p) \in 1..4 /\ proc[p].since \in Nat /\ now \in Nat
    BY <1>1, WaitsValues, ProcTypes DEF ExchangeInv, TypeOK
  <2>2. now <= proc[p].since + MaxStall
    BY <1>1 DEF ExchangeInv, ProcOK
  <2>3. MaxStall <= Waits(p) * MaxStall
    BY <2>1
  <2> QED
    BY <2>1, <2>2, <2>3 DEF Deadline
<1>2. ASSUME ExchangeInv, ExchangeInv', [Next]_vars, NEW p \in Procs PROVE Closer(p)
  <2>0. TypeOK /\ now \in Nat /\ Waits(p) \in 0..4 /\ (proc[p] = Idle <=> Waits(p) = 0)
        /\ (proc[p] # Idle => proc[p].since \in Nat)
    BY <1>2, WaitsValues, ProcTypes DEF ExchangeInv, TypeOK
  <2>1. ASSUME proc'[p] = proc[p], ~Step(p) PROVE Closer(p)
    <3>1. Waits(p)' = Waits(p) /\ Deadline(p)' = Deadline(p)
      BY <2>1 DEF Waits, Deadline
    <3>2. proc[p] # Idle => Deadline(p) \in Int
      BY <2>0 DEF Deadline
    <3> QED
      BY <2>0, <2>1, <3>1, <3>2
  <2>2. CASE Step(p)
    <3>1. Waits(p)' < Waits(p) /\ now' = now /\ proc[p] # Idle /\ (proc'[p] = Idle \/ proc'[p].since = now)
      BY <1>2, <2>2, StepWaits
    <3>2. TypeOK' => Waits(p)' \in 0..4
      BY DEF Waits
    <3>3. ASSUME proc'[p] # Idle PROVE Deadline(p)' <= Deadline(p)
      <4>1. now <= proc[p].since + MaxStall
        BY <1>2, <3>1 DEF ExchangeInv, ProcOK
      <4>2. Waits(p)' \in 0..4
        BY <1>2, <3>2 DEF ExchangeInv
      <4>3. PICK w \in 0..4 : w = Waits(p)'
        BY <4>2
      <4>4. w * MaxStall + MaxStall <= Waits(p) * MaxStall
        <5>1. w + 1 <= Waits(p)
          BY <2>0, <3>1, <4>3
        <5> QED
          BY <2>0, <5>1
      <4>5. Deadline(p)' = now + w * MaxStall
        BY <3>1, <3>3, <4>3 DEF Deadline
      <4>6. PICK a \in Int, b \in Int : a = w * MaxStall /\ b = Waits(p) * MaxStall
        BY <2>0, <4>3
      <4>7. Deadline(p) = proc[p].since + b
        BY <4>6 DEF Deadline
      <4> QED
        BY <2>0, <3>1, <4>1, <4>4, <4>5, <4>6, <4>7
    <3> QED
      BY <1>2, <2>0, <3>1, <3>2, <3>3 DEF ExchangeInv
  <2>3. ASSUME NEW q \in Procs, Step(q), q # p PROVE proc'[p] = proc[p]
    BY <1>2, <2>3, StepWaits
  <2>4. ASSUME NEW q \in Procs, NEW name \in Names, GetRates(q, name), ~Step(p) PROVE Closer(p)
    <3>1. CASE q # p
      BY <2>0, <2>1, <2>4, <3>1 DEF GetRates, Become, TypeOK
    <3>2. CASE q = p
      <4>1. proc'[p] = Ask("get", Code[name]) /\ proc[p] = Idle
        BY <2>0, <2>4, <3>2 DEF GetRates, Become, TypeOK
      <4>2. proc'[p].at = "get" /\ proc'[p].since = now
        BY <4>1 DEF Ask
      <4>3. Waits(p)' = 4
        BY <4>2 DEF Waits
      <4> QED
        BY <2>0, <2>4, <4>1, <4>2, <4>3 DEF Deadline
    <3> QED
      BY <3>1, <3>2
  <2>5. CASE (\E k \in Codes : Evict(k)) \/ Tick \/ UNCHANGED vars
    BY <2>1, <2>2, <2>5 DEF Evict, Tick, vars
  <2> QED
    BY <1>2, <2>1, <2>2, <2>3, <2>4, <2>5 DEF Next, HttpConvert, GrpcConvert, GrpcGetRates, Convert
<1>3. ExchangeInv => \A p \in Procs : Meets(p)
  BY <1>1
<1>4. ExchangeInv /\ ExchangeInv' /\ [Next]_vars => [\A p \in Procs : Closer(p)]_vars
  BY <1>2
<1> QED
  BY <1>3, <1>4, ExchangeAlwaysInv, PTL DEF Spec
=============================================================================
