----------------------------- MODULE MCSessions -----------------------------
(***************************************************************************)
(* Sessions with interchangeable goroutines, started in development, in    *)
(* production with two secrets and lifetimes, and with environments Load   *)
(* refuses.  A minute and a day are one tick, so that the accesses expire  *)
(* after one or two ticks and the refresh tokens after three.              *)
(***************************************************************************)
EXTENDS Sessions, TLC

MCEnvs ==
  {[JWT_ACCESS_EXPIRY |-> 1, JWT_REFRESH_EXPIRY |-> 3],
   [APP_ENV |-> "production", JWT_SECRET |-> "s", JWT_ACCESS_EXPIRY |-> 2, JWT_REFRESH_EXPIRY |-> 3],
   [APP_ENV |-> "production"],
   [APP_ENV |-> "test", CACHE_TTL |-> Junk]}

Symmetry == Permutations(Procs)
=============================================================================
