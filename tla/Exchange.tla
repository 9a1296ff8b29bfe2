------------------------------ MODULE Exchange ------------------------------
(***************************************************************************)
(* Exchange rates: Convert and GetRates over HTTP and gRPC, the client     *)
(* that asks the rate API and the Redis cache in front of it, which all    *)
(* requests share and none of them locks.  A quote is a table of rates the *)
(* API made up at some time.  What it lists is left out, since an answer   *)
(* is a function of the quote alone: the rate, or "unsupported currency"   *)
(* when the table, which may be empty, has none.                           *)
(***************************************************************************)
EXTENDS Config

CONSTANTS
  Code,      \* currency code of each name a client may send, in upper case
  Short,     \* the names with three letters
  Procs,     \* goroutines that serve requests
  MaxStall,  \* how long a request can take between two of its steps
  MaxTime    \* bound: ticks of the clock

Names == DOMAIN Code
Codes == {Code[n] : n \in Names}

ASSUME ExchangeAssumption ==
  /\ Short \subseteq Names
  /\ MaxStall \in Nat /\ MaxTime \in Nat
  /\ \A c \in Configs : c.CacheTTL \in Int

VARIABLES
  now,    \* the clock
  ttl,    \* cfg.CacheTTL
  cache,  \* the entries under exchange:rates:*, until Redis drops them
  proc    \* what each goroutine is doing

vars == <<now, ttl, cache, proc>>

Quote == [base : Codes, at : Nat]
Forever == -1
Entry == [quote : Quote, exp : Nat \cup {Forever}]

Idle == [at |-> "idle"]
Asking == [at : {"get", "fetch"}, base : Codes, since : Nat]
Holding == [at : {"set", "answer"}, base : Codes, since : Nat, quote : Quote]

\* The type of every variable.
TypeOK ==
  /\ now \in Nat
  /\ ttl \in Int
  /\ DOMAIN cache \subseteq Codes /\ \A k \in DOMAIN cache : cache[k] \in Entry
  /\ proc \in [Procs -> {Idle} \cup Asking \cup Holding]

Become(p, s) == proc' = [proc EXCEPT ![p] = s]
Ask(at, base) == [at |-> at, base |-> base, since |-> now]
Hold(at, p, q) == [at |-> at, base |-> proc[p].base, since |-> now, quote |-> q]

-----------------------------------------------------------------------------
(* Requests *)

\* Mutant of GetRates: the name is used as it is spelled.
GetRatesAsSpelled(p, base) ==
  /\ proc[p] = Idle
  /\ Become(p, Ask("get", base))
  /\ UNCHANGED <<now, ttl, cache>>

\* The service makes the name of the currency upper case.
GetRates(p, base) ==
  /\ proc[p] = Idle
  /\ Become(p, Ask("get", Code[base]))
  /\ UNCHANGED <<now, ttl, cache>>

\* Convert asks for the rates of from.
Convert(p, from) == GetRates(p, from)

\* HTTP refuses a name that has not three letters; gRPC leaves it to the API.
HttpConvert(p, from) == from \in Short /\ Convert(p, from)
GrpcConvert(p, from) == Convert(p, from)
GrpcGetRates(p, base) == GetRates(p, base)

\* Mutant of RatesKey: the currency is left out.
RatesKeyShared(base) == CHOOSE c \in Codes : TRUE

RatesKey(base) == base

Live(k) == k \in DOMAIN cache /\ (cache[k].exp = Forever \/ now < cache[k].exp)

\* Mutant of CacheHit: reading an entry keeps it alive.
CacheHitSliding(p) ==
  /\ proc[p].at = "get"
  /\ LET k == RatesKey(proc[p].base) IN
     /\ Live(k)
     /\ Become(p, Hold("answer", p, cache[k].quote))
     /\ cache' = [cache EXCEPT ![k].exp = IF ttl > 0 THEN now + ttl ELSE Forever]
  /\ UNCHANGED <<now, ttl>>

CacheHit(p) ==
  /\ proc[p].at = "get"
  /\ LET k == RatesKey(proc[p].base) IN
     Live(k) /\ Become(p, Hold("answer", p, cache[k].quote))
  /\ UNCHANGED <<now, ttl, cache>>

\* No entry, or no answer from Redis.
CacheMiss(p) ==
  /\ proc[p].at = "get"
  /\ Become(p, Ask("fetch", proc[p].base))
  /\ UNCHANGED <<now, ttl, cache>>

\* The API makes up a table.  Rates missing from an answer whose result is
\* "success" are no error, and are cached like any others.
Fetch(p) ==
  /\ proc[p].at = "fetch"
  /\ Become(p, Hold("set", p, [base |-> proc[p].base, at |-> now]))
  /\ UNCHANGED <<now, ttl, cache>>

\* Mutant of FetchFails: the request starts over, until it works.
FetchFailsRetry(p) ==
  /\ proc[p].at = "fetch"
  /\ Become(p, Ask("get", proc[p].base))
  /\ UNCHANGED <<now, ttl, cache>>

\* Ten seconds went by, the connection failed, the status was not 200, the
\* body was no JSON or its result no success: the request fails.
FetchFails(p) ==
  /\ proc[p].at = "fetch"
  /\ Become(p, Idle)
  /\ UNCHANGED <<now, ttl, cache>>

\* The entry replaces what another request has put there since.  With a ttl
\* that is not positive Redis keeps it for ever.
CacheSet(p) ==
  /\ proc[p].at = "set"
  /\ LET k == RatesKey(proc[p].base)
         e == [quote |-> proc[p].quote, exp |-> IF ttl > 0 THEN now + ttl ELSE Forever] IN
     cache' = [c \in DOMAIN cache \cup {k} |-> IF c = k THEN e ELSE cache[c]]
  /\ Become(p, Hold("answer", p, proc[p].quote))
  /\ UNCHANGED <<now, ttl>>

CacheSetFails(p) ==
  /\ proc[p].at = "set"
  /\ Become(p, Hold("answer", p, proc[p].quote))
  /\ UNCHANGED <<now, ttl, cache>>

\* The rate and what the amount comes to, or "unsupported currency" when the
\* quote does not list it, an answer like any other.
Answer(p) ==
  /\ proc[p].at = "answer"
  /\ Become(p, Idle)
  /\ UNCHANGED <<now, ttl, cache>>

-----------------------------------------------------------------------------
(* Outside *)

\* Redis drops an entry, at its time or for want of memory.
Evict(k) ==
  /\ k \in DOMAIN cache
  /\ cache' = [c \in DOMAIN cache \ {k} |-> cache[c]]
  /\ UNCHANGED <<now, ttl, proc>>

Tick ==
  /\ now < MaxTime
  /\ \A p \in Procs : proc[p] # Idle => now < proc[p].since + MaxStall
  /\ now' = now + 1
  /\ UNCHANGED <<ttl, cache, proc>>

-----------------------------------------------------------------------------
Init ==
  /\ now = 0
  /\ \E c \in Configs : ttl = c.CacheTTL
  /\ cache = <<>>
  /\ proc = [p \in Procs |-> Idle]

Step(p) ==
  \/ CacheHit(p) \/ CacheMiss(p) \/ Fetch(p) \/ FetchFails(p)
  \/ CacheSet(p) \/ CacheSetFails(p) \/ Answer(p)

Next ==
  \/ \E p \in Procs, name \in Names :
       HttpConvert(p, name) \/ GrpcConvert(p, name) \/ GrpcGetRates(p, name)
  \/ \E p \in Procs : Step(p)
  \/ \E k \in Codes : Evict(k)
  \/ Tick

Spec == Init /\ [][Next]_vars

\* A request that has begun goes on: Redis commands and the call of the API
\* have timeouts.
FairSpec == Spec /\ \A p \in Procs : WF_vars(Step(p))

-----------------------------------------------------------------------------
(* Properties *)

\* A request is answered from a quote no older than CACHE_TTL and the time it
\* takes to store and to answer it, whoever fetched it, however often it is
\* read, and although a slow request may put its quote over a later one.
RatesFresh ==
  ttl > 0 => \A p \in Procs : proc[p].at = "answer" => now < proc[p].quote.at + ttl + 2 * MaxStall

\* A request is answered from rates of the currency it asked for, in whatever
\* spelling it did, and never from another request's.
RatesOfBase == \A p \in Procs : proc[p].at = "answer" => proc[p].quote.base = proc[p].base

\* Every request is answered, with rates or with an error, however often Redis
\* and the API fail.
Answered == \A p \in Procs : (proc[p] # Idle) ~> (proc[p] = Idle)
=============================================================================
