---------------------------- MODULE RateLimiter ----------------------------
(***************************************************************************)
(* middleware.RateLimiter: a map of token buckets by client IP, guarded by *)
(* a mutex; a request looks its limiter up under the mutex and calls Allow *)
(* after releasing it, while a background goroutine evicts idle entries.   *)
(*                                                                         *)
(* Time is counted in ticks, a tick earns a bucket one unit, and a request *)
(* costs Cost units, so that Limit requests a minute makes a minute of     *)
(* Limit * Cost ticks, which is also the size of a bucket (ratePerMin and  *)
(* the burst the router passes).  A limit of zero is rate.Inf: every       *)
(* request is free.                                                        *)
(***************************************************************************)
EXTENDS Naturals, Sequences

CONSTANTS
  IPs,       \* client addresses
  Procs,     \* request goroutines
  Limit,     \* AUTH_RATE_LIMIT or API_RATE_LIMIT
  Cost,      \* units per request
  Idle,      \* ticks after which an unseen visitor is evicted (10 minutes)
  Period,    \* ticks between two sweeps (5 minutes)
  MaxStall,  \* bound: ticks a goroutine may spend between get and Allow
  MaxTime    \* bound: the last tick

Burst == Limit * Cost
Price == IF Limit = 0 THEN 0 ELSE Cost

\* The eviction age exceeds the time a bucket takes to fill up (ten minutes
\* against one), by more than a goroutine can be held up between two calls.
ASSUME LimiterAssumption ==
  /\ Limit \in Nat /\ Cost \in Nat \ {0}
  /\ Period \in Nat \ {0}
  /\ MaxStall \in Nat /\ MaxTime \in Nat
  /\ Idle \in Nat /\ Burst + MaxStall <= Idle

VARIABLES
  now,       \* the clock
  heap,      \* the rate.Limiter objects ever made: units and when last paid
  visitors,  \* ip -> its limiter, an index of heap or 0, and lastSeen
  calls,     \* requests between get and Allow, and when they left get
  sweepAt,   \* when the ticker of cleanupLoop fires next
  out,       \* ip -> the answer it gets in this very step
  window     \* observer: ip -> when it began to count, requests admitted since

vars == <<now, heap, visitors, calls, sweepAt, out, window>>

Ticks == 0 .. MaxTime
Answers == {"none", "ok", "limited"}
Bucket == [tokens : 0 .. Burst, last : Ticks]
Call == [proc : Procs, ip : IPs, lim : Nat \ {0}, at : Ticks]
Quiet == [ip \in IPs |-> "none"]
Gone == [lim |-> 0, seen |-> 0]

\* Every variable has its type; in particular no bucket is ever overdrawn.
TypeOK ==
  /\ now \in Ticks
  /\ heap \in Seq(Bucket)
  /\ visitors \in [IPs -> [lim : Nat, seen : Ticks]]
  /\ calls \subseteq Call
  /\ sweepAt \in Nat
  /\ out \in [IPs -> Answers]
  /\ window \in [IPs -> [since : Ticks, count : Nat]]

-----------------------------------------------------------------------------
\* The units a bucket holds now.
Level(b) ==
  LET units == b.tokens + (now - b.last) IN IF units > Burst THEN Burst ELSE units

\* Mutant of Get: lastSeen is set only when the visitor is new.
GetForgetful(p, ip) ==
  /\ \A c \in calls : c.proc # p
  /\ \/ /\ visitors[ip].lim = 0
        /\ heap' = Append(heap, [tokens |-> Burst, last |-> now])
        /\ visitors' = [visitors EXCEPT ![ip] = [lim |-> Len(heap) + 1, seen |-> now]]
     \/ visitors[ip].lim # 0 /\ UNCHANGED <<heap, visitors>>
  /\ calls' = calls \cup {[proc |-> p, ip |-> ip, lim |-> visitors'[ip].lim, at |-> now]}
  /\ out' = Quiet
  /\ UNCHANGED <<now, sweepAt, window>>

\* Under the mutex: find or make the limiter of ip and mark it as seen.
Get(p, ip) ==
  /\ \A c \in calls : c.proc # p
  /\ \/ /\ visitors[ip].lim = 0
        /\ heap' = Append(heap, [tokens |-> Burst, last |-> now])
        /\ visitors' = [visitors EXCEPT ![ip] = [lim |-> Len(heap) + 1, seen |-> now]]
     \/ /\ visitors[ip].lim # 0
        /\ visitors' = [visitors EXCEPT ![ip].seen = now]
        /\ UNCHANGED heap
  /\ calls' = calls \cup {[proc |-> p, ip |-> ip, lim |-> visitors'[ip].lim, at |-> now]}
  /\ out' = Quiet
  /\ UNCHANGED <<now, sweepAt, window>>

\* Mutant of Allow: it spends units the bucket may not have.
AllowUnpaid(c) ==
  /\ c \in calls
  /\ heap' = [heap EXCEPT ![c.lim] = [tokens |-> Level(heap[c.lim]) - Price, last |-> now]]
  /\ window' = [window EXCEPT ![c.ip].count = @ + 1]
  /\ out' = [Quiet EXCEPT ![c.ip] = "ok"]
  /\ calls' = calls \ {c}
  /\ UNCHANGED <<now, visitors, sweepAt>>

\* The mutex is free again: Allow, on the limiter get returned.  A refused
\* request leaves the bucket as it is.
Allow(c) ==
  /\ c \in calls
  /\ Level(heap[c.lim]) >= Price
  /\ heap' = [heap EXCEPT ![c.lim] = [tokens |-> Level(heap[c.lim]) - Price, last |-> now]]
  /\ window' = [window EXCEPT ![c.ip].count = @ + 1]
  /\ out' = [Quiet EXCEPT ![c.ip] = "ok"]
  /\ calls' = calls \ {c}
  /\ UNCHANGED <<now, visitors, sweepAt>>

\* Mutant of Refuse: the last request a bucket can pay for is refused too.
RefuseLast(c) ==
  /\ c \in calls
  /\ Level(heap[c.lim]) <= Price
  /\ out' = [Quiet EXCEPT ![c.ip] = "limited"]
  /\ calls' = calls \ {c}
  /\ UNCHANGED <<now, heap, visitors, sweepAt, window>>

Refuse(c) ==
  /\ c \in calls
  /\ Level(heap[c.lim]) < Price
  /\ out' = [Quiet EXCEPT ![c.ip] = "limited"]
  /\ calls' = calls \ {c}
  /\ UNCHANGED <<now, heap, visitors, sweepAt, window>>

\* Mutant of Sweep: every second sweep is skipped.
SweepRarely ==
  /\ now >= sweepAt
  /\ visitors' = [ip \in IPs |-> IF now - visitors[ip].seen > Idle THEN Gone ELSE visitors[ip]]
  /\ sweepAt' = sweepAt + 2 * Period
  /\ out' = Quiet
  /\ UNCHANGED <<now, heap, calls, window>>

\* cleanupLoop, under the mutex, when the ticker fires.
Sweep ==
  /\ now >= sweepAt
  /\ visitors' = [ip \in IPs |-> IF now - visitors[ip].seen > Idle THEN Gone ELSE visitors[ip]]
  /\ sweepAt' = sweepAt + Period
  /\ out' = Quiet
  /\ UNCHANGED <<now, heap, calls, window>>

\* Time passes.  A sweep takes place in the tick it is due, and no goroutine
\* is held up between get and Allow for more than MaxStall.
Tick ==
  /\ now < MaxTime /\ now < sweepAt
  /\ \A c \in calls : now - c.at < MaxStall
  /\ now' = now + 1
  /\ out' = Quiet
  /\ UNCHANGED <<heap, visitors, calls, sweepAt, window>>

\* Someone starts counting the requests of ip that are admitted.
Observe(ip) ==
  /\ window[ip] # [since |-> now, count |-> 0]
  /\ window' = [window EXCEPT ![ip] = [since |-> now, count |-> 0]]
  /\ out' = Quiet
  /\ UNCHANGED <<now, heap, visitors, calls, sweepAt>>

Init ==
  /\ now = 0
  /\ heap = <<>>
  /\ visitors = [ip \in IPs |-> Gone]
  /\ calls = {}
  /\ sweepAt = Period
  /\ out = Quiet
  /\ window = [ip \in IPs |-> [since |-> 0, count |-> 0]]

Next ==
  \/ \E p \in Procs, ip \in IPs : Get(p, ip)
  \/ \E c \in calls : Allow(c) \/ Refuse(c)
  \/ Sweep
  \/ Tick
  \/ \E ip \in IPs : Observe(ip)

Spec == Init /\ [][Next]_vars

-----------------------------------------------------------------------------
(* Properties *)

\* A limiter is never evicted between get and Allow: two requests of one IP
\* are never metered by two buckets.
NoOrphan == \A c \in calls : visitors[c.ip].lim = c.lim

\* Eviction is invisible: each IP is metered as by one TokenBucket kept for
\* ever, so cleanupLoop never hands a client a fresh burst early.
LevelOf == [ip \in IPs |->
  IF visitors[ip].lim = 0 THEN Burst ELSE Level(heap[visitors[ip].lim])]
Ideal == INSTANCE TokenBucket WITH level <- LevelOf
ImplementsBucket == Ideal!Spec

\* Over any stretch of time, however requests and sweeps interleave, an IP is
\* admitted at most a full burst plus what the stretch earns.
WindowBound ==
  \A ip \in IPs : Price * window[ip].count <= Burst + (now - window[ip].since)

\* The map does not leak: a visitor is gone after at most a period more than
\* the eviction age.
StaleEvicted ==
  \A ip \in IPs : visitors[ip].lim # 0 => now - visitors[ip].seen <= Idle + Period

\* What keeps all of them: entries name distinct limiters; a bucket was last
\* paid from no later than MaxStall after its visitor was seen, so it is full
\* when the visitor is evicted; whoever holds a limiter got it recently.
LimiterInv ==
  /\ TypeOK
  /\ \A n \in DOMAIN heap : heap[n].last <= now
  /\ \A ip \in IPs : visitors[ip].lim # 0 =>
       /\ visitors[ip].lim \in DOMAIN heap
       /\ visitors[ip].seen <= now
       /\ heap[visitors[ip].lim].last <= visitors[ip].seen + MaxStall
       /\ sweepAt <= visitors[ip].seen + Idle + Period
       /\ \A other \in IPs \ {ip} : visitors[other].lim # visitors[ip].lim
  /\ \A c \in calls :
       /\ visitors[c.ip].lim = c.lim
       /\ c.at <= visitors[c.ip].seen
       /\ now - c.at <= MaxStall
  /\ now <= sweepAt /\ sweepAt <= now + Period
  /\ \A ip \in IPs :
       /\ window[ip].since <= now
       /\ LevelOf[ip] + Price * window[ip].count <= Burst + (now - window[ip].since)

=============================================================================
