----------------------------- MODULE MCExchange -----------------------------
(***************************************************************************)
(* Exchange with two currencies, one of them spelled in two ways and one   *)
(* whose name HTTP refuses, and caches that expire or do not.              *)
(***************************************************************************)
EXTENDS Exchange, TLC

MCCode == [usd |-> "USD", USD |-> "USD", euro |-> "EURO"]
MCShort == {"usd", "USD"}
MCEnvs == {[CACHE_TTL |-> 2], [CACHE_TTL |-> 0]}
=============================================================================
