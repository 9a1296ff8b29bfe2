------------------------- MODULE RateLimiterProofs -------------------------
(***************************************************************************)
(* The rate limiter implements one everlasting token bucket per client,    *)
(* for every limit, eviction age, sweep period and number of clients that  *)
(* satisfy LimiterAssumption.                                              *)
(***************************************************************************)
EXTENDS RateLimiter, TLAPS

\* The derived constants are natural numbers.
LEMMA UnitsType == Burst \in Nat /\ Price \in Nat
BY LimiterAssumption DEF Burst, Price

\* What the requests admitted cost.
LEMMA PriceSum ==
  /\ Price * 0 = 0
  /\ \A n \in Nat : Price * n \in Nat /\ Price * (n + 1) = Price * n + Price
<1>1. Price \in Nat
  BY UnitsType
<1>2. Price * 0 = 0
  BY <1>1
<1>3. ASSUME NEW n \in Nat PROVE Price * n \in Nat /\ Price * (n + 1) = Price * n + Price
  BY <1>1
<1> QED BY <1>2, <1>3

\* What a limiter on the heap looks like.
LEMMA HeapType ==
  ASSUME NEW h \in Seq(Bucket), NEW n \in DOMAIN h
  PROVE  h[n] \in Bucket /\ h[n].last \in Nat /\ h[n].tokens \in 0 .. Burst
<1>1. h[n] \in Bucket
  OBVIOUS
<1> QED BY <1>1 DEF Bucket, Ticks

\* What is recorded for a client.
LEMMA ClientType ==
  ASSUME TypeOK, NEW ip \in IPs
  PROVE  /\ now \in Nat /\ sweepAt \in Nat
         /\ visitors[ip].lim \in Nat /\ visitors[ip].seen \in Nat
         /\ window[ip].since \in Nat /\ window[ip].count \in Nat
<1>1. visitors[ip] \in [lim : Nat, seen : Ticks] /\ window[ip] \in [since : Ticks, count : Nat]
  BY DEF TypeOK
<1> QED BY <1>1 DEF TypeOK, Ticks

\* A bucket never holds more than a burst, and is full after a burst's ticks.
LEMMA LevelType ==
  ASSUME now \in Ticks, NEW b \in Bucket, b.last <= now
  PROVE  Level(b) \in 0 .. Burst /\ (now - b.last >= Burst => Level(b) = Burst)
BY UnitsType, LimiterAssumption DEF Level, Bucket, Ticks

\* The level of a client is a number of units in its bucket.
LEMMA LevelOfType ==
  ASSUME LimiterInv
  PROVE  LevelOf \in [IPs -> 0 .. Burst]
<1>1. ASSUME NEW ip \in IPs, visitors[ip].lim # 0
      PROVE  Level(heap[visitors[ip].lim]) \in 0 .. Burst
  <2>1. now \in Ticks /\ heap[visitors[ip].lim] \in Bucket /\ heap[visitors[ip].lim].last <= now
    BY <1>1 DEF LimiterInv, TypeOK
  <2> QED BY <2>1, LevelType
<1> QED BY <1>1, UnitsType DEF LevelOf

LEMMA InitInv == Init => LimiterInv
BY UnitsType, PriceSum, LimiterAssumption
   DEF Init, LimiterInv, TypeOK, Ticks, Gone, Quiet, Answers, LevelOf

\* get changes no client's level: a new limiter is as full as an absent one.
LEMMA GetStep ==
  ASSUME LimiterInv, NEW p \in Procs, NEW ip \in IPs, Get(p, ip)
  PROVE  LimiterInv' /\ LevelOf' = LevelOf
<1> USE UnitsType, LimiterAssumption
<1> DEFINE new == [proc |-> p, ip |-> ip, lim |-> visitors'[ip].lim, at |-> now]
<1>1. /\ now' = now /\ sweepAt' = sweepAt /\ window' = window
      /\ out' = Quiet /\ calls' = calls \cup {new}
  BY DEF Get
<1>2. /\ heap' \in Seq(Bucket)
      /\ DOMAIN heap \subseteq DOMAIN heap'
      /\ \A n \in DOMAIN heap : heap'[n] = heap[n]
      /\ \A n \in DOMAIN heap' : heap'[n].last <= now
      /\ visitors'[ip].lim \in DOMAIN heap' /\ visitors'[ip].lim # 0
      /\ visitors'[ip].seen = now
      /\ visitors' \in [IPs -> [lim : Nat, seen : Ticks]]
      /\ \A o \in IPs \ {ip} : visitors'[o] = visitors[o]
      /\ IF visitors[ip].lim = 0
         THEN /\ heap'[visitors'[ip].lim] = [tokens |-> Burst, last |-> now]
              /\ visitors'[ip].lim \notin DOMAIN heap
         ELSE visitors'[ip].lim = visitors[ip].lim
  <2> DEFINE b == [tokens |-> Burst, last |-> now]
  <2>1. /\ heap \in Seq(Bucket) /\ b \in Bucket /\ now \in Ticks /\ now \in Nat /\ b.last = now
        /\ visitors \in [IPs -> [lim : Nat, seen : Ticks]]
        /\ \A n \in DOMAIN heap : heap[n].last <= now
        /\ visitors[ip].lim # 0 => visitors[ip].lim \in DOMAIN heap
    BY DEF LimiterInv, TypeOK, Bucket, Ticks
  <2>2. CASE visitors[ip].lim = 0
    <3> DEFINE v == [lim |-> Len(heap) + 1, seen |-> now]
    <3>1. heap' = Append(heap, b) /\ visitors' = [visitors EXCEPT ![ip] = v]
      BY <2>2 DEF Get
    <3> HIDE DEF b
    <3>2. /\ heap' \in Seq(Bucket)
          /\ DOMAIN heap' = DOMAIN heap \cup {Len(heap) + 1}
          /\ Len(heap) + 1 \notin DOMAIN heap /\ Len(heap) + 1 \in Nat \ {0}
          /\ \A n \in DOMAIN heap : heap'[n] = heap[n]
          /\ heap'[Len(heap) + 1] = b
      BY <2>1, <3>1
    <3>3. v \in [lim : Nat, seen : Ticks] /\ v.lim = Len(heap) + 1 /\ v.seen = now
      BY <2>1, <3>2
    <3>4. visitors'[ip] = v /\ \A o \in IPs \ {ip} : visitors'[o] = visitors[o]
      BY <2>1, <3>1
    <3>5. visitors' \in [IPs -> [lim : Nat, seen : Ticks]]
      BY <2>1, <3>1, <3>3
    <3>6. \A n \in DOMAIN heap' : heap'[n].last <= now
      BY <2>1, <3>2
    <3> HIDE DEF v
    <3> QED BY <2>2, <3>2, <3>3, <3>4, <3>5, <3>6 DEF b
  <2>3. CASE visitors[ip].lim # 0
    <3>1. heap' = heap /\ visitors' = [visitors EXCEPT ![ip].seen = now]
      BY <2>3 DEF Get
    <3>2. /\ visitors'[ip].lim = visitors[ip].lim /\ visitors'[ip].seen = now
          /\ \A o \in IPs \ {ip} : visitors'[o] = visitors[o]
          /\ visitors' \in [IPs -> [lim : Nat, seen : Ticks]]
      BY <2>1, <3>1
    <3> QED BY <2>1, <2>3, <3>1, <3>2
  <2> QED BY <2>2, <2>3
<1>3. new \in Call
  BY <1>2 DEF LimiterInv, TypeOK, Call
<1>4. TypeOK'
  BY <1>1, <1>2, <1>3 DEF LimiterInv, TypeOK, Quiet, Answers
<1>5. ASSUME NEW o \in IPs, visitors'[o].lim # 0
      PROVE  /\ visitors'[o].lim \in DOMAIN heap'
             /\ visitors'[o].seen <= now
             /\ heap'[visitors'[o].lim].last <= visitors'[o].seen + MaxStall
             /\ sweepAt <= visitors'[o].seen + Idle + Period
             /\ \A other \in IPs \ {o} : visitors'[other].lim # visitors'[o].lim
  <2>3. now \in Nat /\ sweepAt \in Nat /\ sweepAt <= now + Period
    BY DEF LimiterInv, TypeOK, Ticks
  <2>4. \A i \in IPs : visitors[i].seen \in Nat /\ visitors[i].lim \in Nat
    BY ClientType DEF LimiterInv
  <2>0. /\ now \in Nat /\ sweepAt \in Nat /\ sweepAt <= now + Period
        /\ \A i \in IPs : visitors[i].seen \in Nat /\ visitors[i].lim \in Nat
        /\ \A i \in IPs : visitors[i].lim # 0 =>
             /\ visitors[i].lim \in DOMAIN heap
             /\ visitors[i].seen <= now
             /\ heap[visitors[i].lim].last <= visitors[i].seen + MaxStall
             /\ sweepAt <= visitors[i].seen + Idle + Period
             /\ \A other \in IPs \ {i} : visitors[other].lim # visitors[i].lim
    BY <2>3, <2>4 DEF LimiterInv
  <2>1. CASE o # ip
    <3>1. visitors'[o] = visitors[o] /\ visitors[o].lim # 0
      BY <1>2, <1>5, <2>1
    <3>2. visitors[o].lim \in DOMAIN heap
      BY <2>0, <3>1
    <3>3. visitors[o].lim \in DOMAIN heap' /\ heap'[visitors[o].lim] = heap[visitors[o].lim]
      BY <1>2, <3>2
    <3>4. visitors'[ip].lim # visitors[o].lim
      <4>1. CASE visitors[ip].lim = 0
        BY <1>2, <3>2, <4>1
      <4>2. CASE visitors[ip].lim # 0
        BY <1>2, <2>0, <2>1, <3>1, <4>2
      <4> QED BY <4>1, <4>2
    <3>5. \A other \in IPs \ {o} : visitors'[other].lim # visitors[o].lim
      BY <1>2, <2>0, <3>1, <3>4
    <3> QED BY <2>0, <3>1, <3>3, <3>5
  <2>2. CASE o = ip
    <3>1. visitors'[ip].lim \in DOMAIN heap' /\ visitors'[ip].seen = now
      BY <1>2
    <3>2. heap'[visitors'[ip].lim].last <= now
      BY <1>2
    <3>3. now <= now + MaxStall /\ sweepAt <= now + Idle + Period
      BY <2>0
    <3>4. heap'[visitors'[ip].lim].last \in Nat
      BY <3>1, <1>2, HeapType
    <3>5. heap'[visitors'[ip].lim].last <= now + MaxStall
      BY <2>0, <3>2, <3>4
    <3>6. \A other \in IPs \ {ip} : visitors'[other].lim # visitors'[ip].lim
      BY <1>2, <2>0
    <3> QED BY <2>0, <2>2, <3>1, <3>3, <3>5, <3>6
  <2> QED BY <2>1, <2>2
<1>6. ASSUME NEW c \in calls'
      PROVE  visitors'[c.ip].lim = c.lim /\ c.at <= visitors'[c.ip].seen /\ now - c.at <= MaxStall
  <2>1. CASE c = new
    BY <1>2, <2>1 DEF LimiterInv, TypeOK, Ticks
  <2>2. CASE c \in calls
    <3>1. c.ip \in IPs /\ c.lim # 0 /\ c.at \in Ticks
      BY <2>2 DEF LimiterInv, TypeOK, Call
    <3>2. visitors[c.ip].lim = c.lim /\ c.at <= visitors[c.ip].seen /\ now - c.at <= MaxStall
      BY <2>2 DEF LimiterInv
    <3>3. visitors[c.ip].seen <= now /\ visitors[c.ip].seen \in Nat /\ now \in Nat
      BY <3>1, <3>2 DEF LimiterInv, TypeOK, Ticks
    <3>4. CASE c.ip = ip
      BY <1>2, <3>1, <3>2, <3>3, <3>4 DEF Ticks
    <3>5. CASE c.ip # ip
      BY <1>2, <3>1, <3>2, <3>5
    <3> QED BY <3>4, <3>5
  <2> QED BY <1>1, <2>1, <2>2
<1>7. LevelOf' = LevelOf
  <2>1. \A b : Level(b)' = Level(b)
    BY <1>1 DEF Level
  <2>2. Level([tokens |-> Burst, last |-> now]) = Burst
    BY DEF Level, LimiterInv, TypeOK, Ticks
  <2>3. ASSUME NEW o \in IPs PROVE LevelOf'[o] = LevelOf[o]
    <3>1. CASE o = ip /\ visitors[ip].lim = 0
      <4>1. LevelOf'[o] = Level([tokens |-> Burst, last |-> now])'
        BY <1>1, <1>2, <3>1 DEF LevelOf
      <4> QED BY <1>1, <2>1, <2>2, <3>1, <4>1 DEF LevelOf, Level
    <3>2. CASE visitors[o].lim # 0
      <4>1. visitors'[o].lim = visitors[o].lim /\ heap'[visitors[o].lim] = heap[visitors[o].lim]
        BY <1>2, <3>2 DEF LimiterInv
      <4> QED BY <1>1, <3>2, <4>1 DEF LevelOf, Level
    <3>3. CASE o # ip /\ visitors[o].lim = 0
      BY <1>2, <3>3 DEF LevelOf
    <3> QED BY <3>1, <3>2, <3>3
  <2> QED BY <2>3 DEF LevelOf
<1> QED BY <1>1, <1>2, <1>4, <1>5, <1>6, <1>7 DEF LimiterInv

\* An admitted request pays for itself out of its client's level, and nobody
\* else's level moves.
LEMMA AllowStep ==
  ASSUME LimiterInv, NEW c \in calls, Allow(c)
  PROVE  /\ LimiterInv'
         /\ c.ip \in IPs /\ LevelOf[c.ip] >= Price
         /\ LevelOf' = [LevelOf EXCEPT ![c.ip] = @ - Price]
<1> USE UnitsType, LimiterAssumption
<1> DEFINE l == Level(heap[c.lim])
           b == [tokens |-> l - Price, last |-> now]
<1>1. /\ c \in Call /\ c.ip \in IPs /\ c.lim # 0 /\ c.at \in Nat
      /\ visitors[c.ip].lim = c.lim /\ c.at <= visitors[c.ip].seen /\ now - c.at <= MaxStall
      /\ c.lim \in DOMAIN heap /\ heap[c.lim] \in Bucket /\ heap[c.lim].last <= now
  <2>1. c \in Call /\ heap \in Seq(Bucket)
    BY DEF LimiterInv, TypeOK
  <2>2. c.ip \in IPs /\ c.lim # 0 /\ c.at \in Nat
    BY <2>1 DEF Call, Ticks
  <2>3. visitors[c.ip].lim = c.lim /\ c.at <= visitors[c.ip].seen /\ now - c.at <= MaxStall
    BY DEF LimiterInv
  <2>4. c.lim \in DOMAIN heap /\ heap[c.lim].last <= now
    BY <2>2, <2>3 DEF LimiterInv
  <2> QED BY <2>1, <2>2, <2>3, <2>4, HeapType
<1>2. now \in Ticks /\ now \in Nat /\ heap \in Seq(Bucket)
  BY DEF LimiterInv, TypeOK, Ticks
<1>3. l \in 0 .. Burst /\ l >= Price /\ LevelOf[c.ip] = l
  BY <1>1, <1>2, LevelType DEF Allow, LevelOf
<1>4. /\ now' = now /\ visitors' = visitors /\ sweepAt' = sweepAt
      /\ calls' = calls \ {c} /\ heap' = [heap EXCEPT ![c.lim] = b]
      /\ window' = [window EXCEPT ![c.ip].count = @ + 1]
      /\ out' = [Quiet EXCEPT ![c.ip] = "ok"]
  BY DEF Allow
<1> HIDE DEF l
<1>5. b \in Bucket /\ b.last = now /\ b.tokens = l - Price
  BY <1>2, <1>3 DEF Bucket
<1> HIDE DEF b
<1>7. /\ heap' \in Seq(Bucket) /\ DOMAIN heap' = DOMAIN heap /\ heap'[c.lim] = b
      /\ \A n \in DOMAIN heap \ {c.lim} : heap'[n] = heap[n]
  BY <1>1, <1>2, <1>4, <1>5
<1>8. \A n \in DOMAIN heap' : heap'[n].last <= now
  BY <1>2, <1>5, <1>7 DEF LimiterInv
<1>9. /\ window' \in [IPs -> [since : Ticks, count : Nat]]
      /\ window'[c.ip].since = window[c.ip].since
      /\ window'[c.ip].count = window[c.ip].count + 1
      /\ \A ip \in IPs \ {c.ip} : window'[ip] = window[ip]
  <2>1. window \in [IPs -> [since : Ticks, count : Nat]]
    BY DEF LimiterInv, TypeOK
  <2> QED BY <1>1, <1>4, <2>1
<1>10. TypeOK'
  BY <1>4, <1>7, <1>9 DEF LimiterInv, TypeOK, Quiet, Answers
<1>12. LevelOf' = [LevelOf EXCEPT ![c.ip] = @ - Price]
  <2>1. ASSUME NEW ip \in IPs \ {c.ip} PROVE LevelOf'[ip] = LevelOf[ip]
    <3>1. CASE visitors[ip].lim = 0
      BY <1>4, <2>1, <3>1 DEF LevelOf
    <3>2. CASE visitors[ip].lim # 0
      <4>1. visitors[ip].lim \in DOMAIN heap \ {c.lim}
        BY <1>1, <2>1, <3>2 DEF LimiterInv
      <4>2. heap'[visitors[ip].lim] = heap[visitors[ip].lim]
        BY <1>7, <4>1
      <4> QED BY <1>4, <2>1, <3>2, <4>2 DEF LevelOf, Level
    <3> QED BY <3>1, <3>2
  <2>2. LevelOf'[c.ip] = LevelOf[c.ip] - Price
    <3> DEFINE u == b.tokens + (now - b.last)
    <3>1. LevelOf'[c.ip] = IF u > Burst THEN Burst ELSE u
      BY <1>1, <1>4, <1>7 DEF LevelOf, Level
    <3>2. u = l - Price /\ ~(u > Burst)
      BY <1>2, <1>3, <1>5
    <3> QED BY <1>3, <3>1, <3>2
  <2>3. LevelOf' = [ip \in IPs |-> LevelOf'[ip]] /\ LevelOf = [ip \in IPs |-> LevelOf[ip]]
    BY DEF LevelOf
  <2> QED BY <1>1, <2>1, <2>2, <2>3
<1>13. ASSUME NEW o \in IPs, visitors[o].lim # 0
       PROVE  /\ visitors[o].lim \in DOMAIN heap'
              /\ visitors[o].seen <= now
              /\ heap'[visitors[o].lim].last <= visitors[o].seen + MaxStall
              /\ sweepAt <= visitors[o].seen + Idle + Period
              /\ \A other \in IPs \ {o} : visitors[other].lim # visitors[o].lim
  <2>1. /\ visitors[o].lim \in DOMAIN heap
        /\ visitors[o].seen <= now
        /\ heap[visitors[o].lim].last <= visitors[o].seen + MaxStall
        /\ sweepAt <= visitors[o].seen + Idle + Period
        /\ \A other \in IPs \ {o} : visitors[other].lim # visitors[o].lim
    BY <1>13 DEF LimiterInv
  <2>2. CASE o = c.ip
    <3>1. visitors[c.ip].seen \in Nat
      BY <1>1, ClientType DEF LimiterInv
    <3> DEFINE s == visitors[c.ip].seen
    <3>2. s \in Nat /\ c.at \in Nat /\ c.at <= s /\ now - c.at <= MaxStall
      BY <1>1, <3>1
    <3> HIDE DEF s
    <3>3. now <= s + MaxStall
      BY <1>2, <3>2
    <3> QED BY <1>1, <1>5, <1>7, <2>1, <2>2, <3>3 DEF s
  <2>3. CASE o # c.ip
    <3>1. visitors[o].lim # c.lim
      BY <1>1, <2>1, <2>3
    <3> QED BY <1>7, <2>1, <3>1
  <2> QED BY <2>2, <2>3
<1>14. ASSUME NEW o \in IPs
       PROVE  /\ window'[o].since <= now
              /\ LevelOf'[o] + Price * window'[o].count <= Burst + (now - window'[o].since)
  <2>1. /\ window[o].since <= now
        /\ LevelOf[o] + Price * window[o].count <= Burst + (now - window[o].since)
    BY DEF LimiterInv
  <2>2. CASE o # c.ip
    <3>1. LevelOf'[o] = LevelOf[o] /\ window'[o] = window[o]
      BY <1>9, <1>12, <2>2, LevelOfType
    <3> QED BY <2>1, <3>1
  <2>3. CASE o = c.ip
    <3>1. LevelOf'[o] = LevelOf[o] - Price /\ LevelOf[o] \in Nat
      BY <1>12, <2>3, LevelOfType
    <3>2. window[o].count \in Nat /\ window[o].since \in Nat
      BY ClientType DEF LimiterInv
    <3> DEFINE x == Price * window[o].count
               y == Price * window'[o].count
    <3>3. x \in Nat /\ y = x + Price
      BY <1>9, <2>3, <3>2, PriceSum
    <3>4. window'[o].since = window[o].since
      BY <1>9, <2>3
    <3>5. LevelOf[o] + x <= Burst + (now - window[o].since)
      BY <2>1
    <3> HIDE DEF x, y
    <3>6. LevelOf'[o] + y <= Burst + (now - window'[o].since)
      BY <1>2, <3>1, <3>2, <3>3, <3>4, <3>5
    <3> QED BY <2>1, <3>4, <3>6 DEF y
  <2> QED BY <2>2, <2>3
<1>15. LimiterInv'
  BY <1>4, <1>8, <1>10, <1>13, <1>14 DEF LimiterInv
<1> QED BY <1>1, <1>3, <1>12, <1>15

\* A refused request could not have been paid for, and changes no level.
LEMMA RefuseStep ==
  ASSUME LimiterInv, NEW c \in calls, Refuse(c)
  PROVE  /\ LimiterInv'
         /\ c.ip \in IPs /\ LevelOf[c.ip] < Price
         /\ LevelOf' = LevelOf
<1>1. /\ now' = now /\ visitors' = visitors /\ sweepAt' = sweepAt
      /\ heap' = heap /\ window' = window
      /\ calls' = calls \ {c} /\ out' = [Quiet EXCEPT ![c.ip] = "limited"]
      /\ Level(heap[c.lim]) < Price
  BY DEF Refuse
<1>2. c.ip \in IPs /\ c.lim # 0 /\ visitors[c.ip].lim = c.lim
  BY DEF LimiterInv, TypeOK, Call
<1>3. LevelOf' = LevelOf
  BY <1>1 DEF LevelOf, Level
<1>4. TypeOK'
  BY <1>1 DEF LimiterInv, TypeOK, Quiet, Answers
<1>5. LimiterInv'
  BY <1>1, <1>3, <1>4 DEF LimiterInv
<1> QED BY <1>1, <1>2, <1>3, <1>5 DEF LevelOf

\* What cleanupLoop evicts is a full bucket that no request holds.
LEMMA SweepStep ==
  ASSUME LimiterInv, Sweep
  PROVE  LimiterInv' /\ LevelOf' = LevelOf
<1> USE LimiterAssumption, UnitsType
<1> DEFINE Old(ip) == now - visitors[ip].seen > Idle
<1>1. /\ now' = now /\ heap' = heap /\ calls' = calls /\ window' = window
      /\ sweepAt' = sweepAt + Period /\ out' = Quiet
      /\ \A ip \in IPs : visitors'[ip] = IF Old(ip) THEN Gone ELSE visitors[ip]
      /\ now >= sweepAt
  BY DEF Sweep
<1>2. now \in Nat /\ now \in Ticks /\ sweepAt \in Nat /\ sweepAt = now
  BY <1>1 DEF LimiterInv, TypeOK, Ticks
<1>3. Gone \in [lim : Nat, seen : Ticks] /\ Gone.lim = 0
  BY DEF Gone, Ticks
<1>4. visitors' \in [IPs -> [lim : Nat, seen : Ticks]]
  BY <1>3 DEF Sweep, LimiterInv, TypeOK
<1>5. TypeOK'
  BY <1>1, <1>2, <1>4 DEF LimiterInv, TypeOK, Quiet, Answers
<1>6. ASSUME NEW o \in IPs, visitors'[o].lim # 0
      PROVE  visitors'[o] = visitors[o] /\ sweepAt + Period <= visitors[o].seen + Idle + Period
  <2>1. visitors[o].seen \in Nat
    BY ClientType DEF LimiterInv
  <2>2. ~Old(o)
    BY <1>1, <1>3, <1>6
  <2> QED BY <1>1, <1>2, <2>1, <2>2
<1>7. ASSUME NEW o \in IPs, visitors'[o].lim # 0
      PROVE  /\ visitors'[o].lim \in DOMAIN heap'
             /\ visitors'[o].seen <= now'
             /\ heap'[visitors'[o].lim].last <= visitors'[o].seen + MaxStall
             /\ sweepAt' <= visitors'[o].seen + Idle + Period
             /\ \A other \in IPs \ {o} : visitors'[other].lim # visitors'[o].lim
  <2>1. /\ visitors[o].lim \in DOMAIN heap
        /\ visitors[o].seen <= now
        /\ heap[visitors[o].lim].last <= visitors[o].seen + MaxStall
        /\ \A other \in IPs \ {o} : visitors[other].lim # visitors[o].lim
    BY <1>6, <1>7 DEF LimiterInv
  <2>2. \A other \in IPs \ {o} : visitors'[other].lim # visitors'[o].lim
    BY <1>6, <1>7, <2>1
  <2> QED BY <1>1, <1>6, <1>7, <2>1, <2>2
<1>8. ASSUME NEW c \in calls
      PROVE  visitors'[c.ip].lim = c.lim /\ c.at <= visitors'[c.ip].seen /\ now - c.at <= MaxStall
  <2>1. c.ip \in IPs /\ c.at \in Nat
    BY DEF LimiterInv, TypeOK, Call, Ticks
  <2>2. visitors[c.ip].lim = c.lim /\ c.at <= visitors[c.ip].seen /\ now - c.at <= MaxStall
    BY DEF LimiterInv
  <2>3. visitors[c.ip].seen \in Nat
    BY <2>1, ClientType DEF LimiterInv
  <2>4. ~Old(c.ip)
    BY <1>2, <2>1, <2>2, <2>3
  <2> QED BY <1>1, <2>1, <2>2, <2>4
<1>9. ASSUME NEW o \in IPs PROVE LevelOf'[o] = LevelOf[o]
  <2>1. CASE visitors[o].lim = 0
    BY <1>1, <1>3, <2>1 DEF LevelOf
  <2>2. CASE visitors[o].lim # 0 /\ ~Old(o)
    BY <1>1, <2>2 DEF LevelOf, Level
  <2>3. CASE visitors[o].lim # 0 /\ Old(o)
    <3> DEFINE b == heap[visitors[o].lim]
    <3>1. b \in Bucket /\ b.last <= now /\ b.last \in Nat /\ b.last <= visitors[o].seen + MaxStall
      BY <2>3, HeapType DEF LimiterInv, TypeOK
    <3>2. visitors[o].seen \in Nat
      BY ClientType DEF LimiterInv
    <3> HIDE DEF b
    <3>3. now - b.last >= Burst
      BY <1>2, <2>3, <3>1, <3>2
    <3>4. Level(b) = Burst
      BY <1>2, <3>1, <3>3, LevelType
    <3>5. LevelOf'[o] = Burst
      BY <1>1, <1>3, <2>3 DEF LevelOf
    <3> QED BY <2>3, <3>4, <3>5 DEF LevelOf, b
  <2> QED BY <2>1, <2>2, <2>3
<1>10. LevelOf' = LevelOf
  BY <1>9 DEF LevelOf
<1>11. now' <= sweepAt' /\ sweepAt' <= now' + Period
  BY <1>1, <1>2
<1>12. LimiterInv'
  BY <1>1, <1>5, <1>7, <1>8, <1>10, <1>11 DEF LimiterInv
<1> QED BY <1>10, <1>12

\* Every bucket earns a unit, if there is room for it.
LEMMA TickStep ==
  ASSUME LimiterInv, Tick
  PROVE  LimiterInv' /\ LevelOf' = [ip \in IPs |-> Ideal!Capped(LevelOf[ip] + 1)]
<1> USE LimiterAssumption, UnitsType
<1>1. /\ now' = now + 1 /\ heap' = heap /\ calls' = calls /\ window' = window
      /\ sweepAt' = sweepAt /\ out' = Quiet /\ visitors' = visitors
      /\ now < sweepAt /\ now < MaxTime
      /\ \A c \in calls : now - c.at < MaxStall
  BY DEF Tick
<1>2. now \in Nat /\ now \in Ticks /\ now + 1 \in Ticks /\ sweepAt \in Nat
  BY <1>1 DEF LimiterInv, TypeOK, Ticks
<1>3. TypeOK'
  BY <1>1, <1>2 DEF LimiterInv, TypeOK, Quiet, Answers
<1>5. ASSUME NEW o \in IPs PROVE LevelOf'[o] = Ideal!Capped(LevelOf[o] + 1)
  <2>1. CASE visitors[o].lim = 0
    BY <1>1, <2>1 DEF LevelOf, Ideal!Capped
  <2>2. CASE visitors[o].lim # 0
    <3> DEFINE b == heap[visitors[o].lim]
               u == b.tokens + (now - b.last)
               v == b.tokens + (now' - b.last)
    <3>1. b \in Bucket /\ b.last <= now /\ b.last \in Nat /\ b.tokens \in Nat
      BY <2>2, HeapType DEF LimiterInv, TypeOK
    <3>2. LevelOf[o] = IF u > Burst THEN Burst ELSE u
      BY <2>2 DEF LevelOf, Level
    <3>3. LevelOf'[o] = IF v > Burst THEN Burst ELSE v
      BY <1>1, <2>2 DEF LevelOf, Level
    <3>4. u \in Nat /\ v = u + 1
      <4> HIDE DEF b
      <4> QED BY <1>1, <1>2, <3>1
    <3> HIDE DEF u, v
    <3> QED BY <3>2, <3>3, <3>4 DEF Ideal!Capped
  <2> QED BY <2>1, <2>2
<1>6. LevelOf' = [ip \in IPs |-> Ideal!Capped(LevelOf[ip] + 1)]
  BY <1>5 DEF LevelOf
<1>7. ASSUME NEW o \in IPs
      PROVE  /\ window'[o].since <= now'
             /\ LevelOf'[o] + Price * window'[o].count <= Burst + (now' - window'[o].since)
  <2>1. window[o].since \in Nat /\ window[o].count \in Nat
    BY ClientType DEF LimiterInv
  <2> DEFINE x == Price * window[o].count
  <2>2. x \in Nat
    BY <2>1, PriceSum
  <2>3. window[o].since <= now /\ LevelOf[o] + x <= Burst + (now - window[o].since)
    BY DEF LimiterInv
  <2>4. LevelOf[o] \in Nat /\ LevelOf'[o] \in Nat /\ LevelOf'[o] <= LevelOf[o] + 1
    <3>1. LevelOf[o] \in Nat
      BY LevelOfType
    <3> QED BY <1>5, <3>1 DEF Ideal!Capped
  <2> HIDE DEF x
  <2>5. window[o].since <= now + 1 /\ LevelOf'[o] + x <= Burst + ((now + 1) - window[o].since)
    BY <1>2, <2>1, <2>2, <2>3, <2>4
  <2> QED BY <1>1, <2>5 DEF x
<1>8. ASSUME NEW c \in calls PROVE now' - c.at <= MaxStall
  <2>1. c.at \in Nat
    BY DEF LimiterInv, TypeOK, Call, Ticks
  <2> QED BY <1>1, <1>2, <2>1
<1>9. \A n \in DOMAIN heap : heap[n].last <= now + 1
  <2>1. ASSUME NEW n \in DOMAIN heap PROVE heap[n].last <= now + 1
    <3>1. heap[n].last \in Nat /\ heap[n].last <= now
      BY HeapType DEF LimiterInv, TypeOK
    <3> QED BY <1>2, <3>1
  <2> QED BY <2>1
<1>10. \A ip \in IPs : visitors[ip].lim # 0 => visitors[ip].seen <= now + 1
  <2>1. ASSUME NEW ip \in IPs, visitors[ip].lim # 0 PROVE visitors[ip].seen <= now + 1
    <3>1. visitors[ip].seen \in Nat /\ visitors[ip].seen <= now
      BY <2>1, ClientType DEF LimiterInv
    <3> QED BY <1>2, <3>1
  <2> QED BY <2>1
<1>11. now + 1 <= sweepAt /\ sweepAt <= (now + 1) + Period
  BY <1>1, <1>2 DEF LimiterInv
<1>12. LimiterInv'
  BY <1>1, <1>3, <1>7, <1>8, <1>9, <1>10, <1>11 DEF LimiterInv
<1> QED BY <1>6, <1>12

\* Counting the requests admitted changes nothing.
LEMMA ObserveStep ==
  ASSUME LimiterInv, NEW ip \in IPs, Observe(ip)
  PROVE  LimiterInv' /\ LevelOf' = LevelOf
<1> USE LimiterAssumption, UnitsType
<1>1. /\ now' = now /\ heap' = heap /\ calls' = calls /\ visitors' = visitors
      /\ sweepAt' = sweepAt /\ out' = Quiet
      /\ window' = [window EXCEPT ![ip] = [since |-> now, count |-> 0]]
  BY DEF Observe
<1>2. window \in [IPs -> [since : Ticks, count : Nat]] /\ now \in Ticks /\ now \in Nat
  BY DEF LimiterInv, TypeOK, Ticks
<1>3. TypeOK'
  <2>1. [since |-> now, count |-> 0] \in [since : Ticks, count : Nat]
    BY <1>2
  <2> QED BY <1>1, <1>2, <2>1 DEF LimiterInv, TypeOK, Quiet, Answers
<1>4. LevelOf' = LevelOf
  BY <1>1 DEF LevelOf, Level
<1>5. ASSUME NEW o \in IPs
      PROVE  /\ window'[o].since <= now
             /\ LevelOf[o] + Price * window'[o].count <= Burst + (now - window'[o].since)
  <2>1. CASE o = ip
    <3>1. window'[o].since = now /\ window'[o].count = 0
      BY <1>1, <1>2, <2>1
    <3>2. LevelOf[o] \in 0 .. Burst
      BY LevelOfType
    <3> DEFINE x == Price * window'[o].count
    <3>3. x = 0
      BY <3>1, PriceSum
    <3> HIDE DEF x
    <3>4. LevelOf[o] + x <= Burst + (now - now)
      BY <1>2, <3>2, <3>3
    <3> QED BY <1>2, <3>1, <3>4 DEF x
  <2>2. CASE o # ip
    <3>1. window'[o] = window[o]
      BY <1>1, <1>2, <2>2
    <3> QED BY <3>1 DEF LimiterInv
  <2> QED BY <2>1, <2>2
<1>6. LimiterInv'
  BY <1>1, <1>3, <1>4, <1>5 DEF LimiterInv
<1> QED BY <1>4, <1>6

\* Every step keeps the invariant and is a step of the ideal bucket.
LEMMA LimiterStep ==
  ASSUME LimiterInv, [Next]_vars
  PROVE  LimiterInv' /\ [Ideal!Next]_(Ideal!bvars)
<1>1. ASSUME NEW p \in Procs, NEW ip \in IPs, Get(p, ip)
      PROVE  LimiterInv' /\ Ideal!Rest
  <2>1. out' = Quiet
    BY <1>1 DEF Get
  <2> QED BY <1>1, <2>1, GetStep DEF Ideal!Rest, Ideal!Quiet, Quiet
<1>2. ASSUME NEW c \in calls, Allow(c)
      PROVE  LimiterInv' /\ c.ip \in IPs /\ Ideal!Admit(c.ip)
  <2>1. out' = [Quiet EXCEPT ![c.ip] = "ok"]
    BY <1>2 DEF Allow
  <2> QED BY <1>2, <2>1, AllowStep DEF Ideal!Admit, Ideal!Quiet, Quiet
<1>3. ASSUME NEW c \in calls, Refuse(c)
      PROVE  LimiterInv' /\ c.ip \in IPs /\ Ideal!Refuse(c.ip)
  <2>1. out' = [Quiet EXCEPT ![c.ip] = "limited"]
    BY <1>3 DEF Refuse
  <2> QED BY <1>3, <2>1, RefuseStep DEF Ideal!Refuse, Ideal!Quiet, Quiet
<1>4. ASSUME Sweep PROVE LimiterInv' /\ Ideal!Rest
  <2>1. out' = Quiet
    BY <1>4 DEF Sweep
  <2> QED BY <1>4, <2>1, SweepStep DEF Ideal!Rest, Ideal!Quiet, Quiet
<1>5. ASSUME Tick PROVE LimiterInv' /\ Ideal!Earn
  <2>1. out' = Quiet
    BY <1>5 DEF Tick
  <2> QED BY <1>5, <2>1, TickStep DEF Ideal!Earn, Ideal!Quiet, Quiet
<1>6. ASSUME NEW ip \in IPs, Observe(ip) PROVE LimiterInv' /\ Ideal!Rest
  <2>1. out' = Quiet
    BY <1>6 DEF Observe
  <2> QED BY <1>6, <2>1, ObserveStep DEF Ideal!Rest, Ideal!Quiet, Quiet
<1>7. ASSUME UNCHANGED vars PROVE LimiterInv' /\ UNCHANGED Ideal!bvars
  <2>1. LevelOf' = LevelOf
    BY <1>7 DEF vars, LevelOf, Level
  <2>2. TypeOK'
    BY <1>7 DEF vars, LimiterInv, TypeOK
  <2>3. LimiterInv'
    BY <1>7, <2>1, <2>2 DEF vars, LimiterInv
  <2> QED BY <1>7, <2>1, <2>3 DEF vars, Ideal!bvars
<1>8. CASE Next
  BY <1>1, <1>2, <1>3, <1>4, <1>5, <1>6, <1>8 DEF Next, Ideal!Next
<1> QED BY <1>7, <1>8

LEMMA LimiterAlways == Spec => []LimiterInv
BY InitInv, LimiterStep, PTL DEF Spec

\* Every variable keeps its type; in particular Limiter.Allow never overdraws a
\* bucket, whatever goes on between get and Allow.
THEOREM LimiterTypeCorrect == Spec => []TypeOK
<1>1. LimiterInv => TypeOK
  BY DEF LimiterInv
<1> QED BY <1>1, LimiterAlways, PTL

\* Requests of one IP are metered by one bucket: cleanupLoop never evicts a
\* limiter that a request has got and not yet asked.
THEOREM NeverOrphaned == Spec => []NoOrphan
<1>1. LimiterInv => NoOrphan
  BY DEF LimiterInv, NoOrphan
<1> QED BY <1>1, LimiterAlways, PTL

\* However requests, sweeps and time interleave, an IP is admitted at most a
\* full burst plus what the time earns.
THEOREM NeverOverAdmitted == Spec => []WindowBound
<1>1. ASSUME LimiterInv PROVE WindowBound
  <2>1. ASSUME NEW ip \in IPs
        PROVE  Price * window[ip].count <= Burst + (now - window[ip].since)
    <3> DEFINE x == Price * window[ip].count
    <3>1. window[ip].count \in Nat /\ window[ip].since \in Nat /\ now \in Nat
      BY <1>1, ClientType DEF LimiterInv
    <3>2. x \in Nat /\ LevelOf[ip] \in Nat
      BY <1>1, <3>1, PriceSum, LevelOfType, UnitsType
    <3>3. LevelOf[ip] + x <= Burst + (now - window[ip].since)
      BY <1>1 DEF LimiterInv
    <3> HIDE DEF x
    <3>4. x <= Burst + (now - window[ip].since)
      BY <3>1, <3>2, <3>3, UnitsType
    <3> QED BY <3>4 DEF x
  <2> QED BY <2>1 DEF WindowBound
<1> QED BY <1>1, LimiterAlways, PTL

\* The map of visitors does not leak: cleanupLoop evicts every stale entry
\* within a period of its coming of age.
THEOREM StaleAlwaysEvicted == Spec => []StaleEvicted
<1>1. ASSUME LimiterInv PROVE StaleEvicted
  <2>1. ASSUME NEW ip \in IPs, visitors[ip].lim # 0
        PROVE  now - visitors[ip].seen <= Idle + Period
    <3>1. visitors[ip].seen \in Nat /\ now \in Nat /\ sweepAt \in Nat
      BY <1>1, ClientType DEF LimiterInv
    <3>2. now <= sweepAt /\ sweepAt <= visitors[ip].seen + Idle + Period
      BY <1>1, <2>1 DEF LimiterInv
    <3> QED BY <3>1, <3>2, LimiterAssumption
  <2> QED BY <2>1 DEF StaleEvicted
<1> QED BY <1>1, LimiterAlways, PTL

\* Eviction is invisible to clients: with its map, mutex and cleanupLoop the
\* limiter meters each IP as one token bucket kept for ever would.
THEOREM LimiterImplementsBucket == Spec => ImplementsBucket
<1>1. Init => Ideal!Init
  BY DEF Init, Ideal!Init, LevelOf, Gone, Quiet, Ideal!Quiet
<1> QED BY <1>1, LimiterAlways, LimiterStep, PTL DEF Spec, ImplementsBucket, Ideal!Spec
=============================================================================
