---------------------------- MODULE TokenBucket ----------------------------
(***************************************************************************)
(* What the rate limiter promises each client IP: it is metered as if one  *)
(* token bucket had been kept for it for ever.  The bucket is full at the  *)
(* start, earns one unit per tick up to Burst, and a request is admitted   *)
(* exactly when the bucket can pay for it.                                 *)
(***************************************************************************)
EXTENDS Naturals

CONSTANTS
  IPs,    \* the clients
  Burst,  \* the units of a full bucket
  Price   \* the units a request costs

VARIABLES
  level,  \* ip -> units in its bucket
  out     \* ip -> what it is told in this very step

bvars == <<level, out>>

Answers == {"none", "ok", "limited"}
Quiet == [ip \in IPs |-> "none"]
Capped(n) == IF n > Burst THEN Burst ELSE n

Init == level = [ip \in IPs |-> Burst] /\ out = Quiet

Earn == level' = [ip \in IPs |-> Capped(level[ip] + 1)] /\ out' = Quiet

Admit(ip) ==
  /\ level[ip] >= Price
  /\ level' = [level EXCEPT ![ip] = @ - Price]
  /\ out' = [Quiet EXCEPT ![ip] = "ok"]

Refuse(ip) ==
  /\ level[ip] < Price
  /\ out' = [Quiet EXCEPT ![ip] = "limited"]
  /\ UNCHANGED level

Rest == out' = Quiet /\ UNCHANGED level

Next == Earn \/ Rest \/ \E ip \in IPs : Admit(ip) \/ Refuse(ip)

Spec == Init /\ [][Next]_bvars
=============================================================================
