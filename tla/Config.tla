------------------------------- MODULE Config -------------------------------
(***************************************************************************)
(* config.Load: which environments the server starts with, and what it     *)
(* makes of them.  An environment is a function from the names of the      *)
(* variables that are set, and not empty, to their values.  Numbers no     *)
(* other module reads (timeouts, pool sizes, the Redis database) are       *)
(* parsed and dropped; so are the strings that only name servers, topics   *)
(* and formats.  Durations are taken to fit into 64 bits.                  *)
(***************************************************************************)
EXTENDS Integers

CONSTANTS
  Envs,     \* environments an operator starts the server with
  Junk,     \* a value strconv.Atoi refuses
  Minute,   \* the clock ticks of a minute
  Day       \* the clock ticks of a day

ASSUME ConfigAssumption ==
  /\ Junk \notin Int
  /\ Minute \in Nat \ {0} /\ Day \in Nat \ {0}

defaultJWTSecret == "change-me-in-production"

NumericVars ==
  {"SERVER_TIMEOUT", "DB_MAX_CONNS", "DB_MIN_CONNS", "JWT_ACCESS_EXPIRY",
   "JWT_REFRESH_EXPIRY", "REDIS_DB", "CACHE_TTL", "AUTH_RATE_LIMIT", "API_RATE_LIMIT"}

\* os.Getenv answers "" for a variable that is not set, and "" is not a value.
getEnv(env, key, fallback) == IF key \in DOMAIN env THEN env[key] ELSE fallback

\* The parsing goes wrong with the first variable that is not a number; the
\* default secret, or none, is good enough for development and tests only.
Loads(env) ==
  /\ \A v \in NumericVars : getEnv(env, v, 0) \in Int
  /\ getEnv(env, "JWT_SECRET", defaultJWTSecret) = defaultJWTSecret
       => getEnv(env, "APP_ENV", "development") \in {"development", "test"}

\* Load, for an environment that Loads.
Load(env) ==
  [JWTSecret        |-> getEnv(env, "JWT_SECRET", defaultJWTSecret),
   JWTAccessExpiry  |-> getEnv(env, "JWT_ACCESS_EXPIRY", 15) * Minute,
   JWTRefreshExpiry |-> getEnv(env, "JWT_REFRESH_EXPIRY", 7) * Day,
   CacheTTL         |-> getEnv(env, "CACHE_TTL", 600)]

\* Every configuration the server can run with.
Configs == {Load(env) : env \in {e \in Envs : Loads(e)}}
=============================================================================
