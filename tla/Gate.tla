-------------------------------- MODULE Gate --------------------------------
(***************************************************************************)
(* What a request passes before its handler runs, in one worker: the size  *)
(* limit of proxy/sizelimit.py, the keys of proxy/auth.py and              *)
(* proxy/tenants.py, and the rate limiter that _create_limiter of          *)
(* proxy/ratelimit.py chose when the worker started.                       *)
(*                                                                         *)
(* A request is one step, inside which a check that fails keeps it from    *)
(* the ones behind.  Between two middlewares the event loop may run other  *)
(* requests; the limiter and the keys have no state in common, so it makes *)
(* no difference in which order they are asked.  The memory limiter is the *)
(* one of MemoryRateLimiter; the Redis limiter has variables of its own.   *)
(***************************************************************************)
EXTENDS MemoryRateLimiter

CONSTANTS
    Tokens,             \* what comes after "Bearer "
    Versions,           \* sets of tokens: the keys in the versions of tenants.json
    ProxyKeys,          \* PROXY_API_KEY: at most one token, none when it is not set
    KeepAlive, Behind, Ahead,   \* of the Redis limiter
    RedisClients,       \* the clients of the proxy when it has Redis
    MaxEdits            \* bound of the model

\* Without a limit the limiter is not asked at all, and nothing is left to say of it.
ASSUME GateAssumption ==
    /\ RPM > 0
    /\ ProxyKeys \subseteq Tokens /\ Versions \subseteq SUBSET Tokens
    /\ MaxEdits \in Nat

VARIABLES
    limiter,    \* what _create_limiter returned
    zset, touched, passed,      \* of the Redis limiter
    file,       \* tenants.json
    tenants,    \* _tenants_cache, Absent for None
    edits,
    served,     \* history: the tokens tenants were recognised by
    opened      \* history: whether, since then, a request got in as nobody's

redis == <<zset, touched, passed>>
access == <<tenants, served, opened>>
gateVars == <<vars, redis, limiter, file, edits, access>>

Redis == INSTANCE RedisRateLimiter WITH Clients <- RedisClients

ASSUME RedisLimiterAssumption == Redis!RedisAssumption

\* There is no file, or it is no JSON (yet), or it has an entry for each of some keys.
Absent == [state |-> "absent", keys |-> {}]
Broken == [state |-> "broken", keys |-> {}]
Files == {Absent, Broken} \cup [state : {"json"}, keys : Versions]

GateTypeOK ==
    /\ TypeOK
    /\ Redis!TypeOK
    /\ limiter \in {"memory", "redis"}
    /\ file \in Files
    /\ tenants \in Files \ {Broken}
    /\ edits \in 0 .. MaxEdits
    /\ served \in SUBSET Tokens
    /\ opened \in BOOLEAN

GateInit ==
    /\ Init
    /\ Redis!Init
    /\ limiter \in {"memory", "redis"}
    /\ file \in Files
    /\ tenants = Absent
    /\ edits = 0
    /\ served = {} /\ opened = FALSE
-----------------------------------------------------------------------------
\* The limiter is asked.
Limited(c) ==
    \/ limiter = "memory" /\ c \in Clients /\ (Pass(c) \/ Limit(c)) /\ UNCHANGED redis
    \/ limiter = "redis" /\ c \in RedisClients /\ Redis!is_rate_limited(c) /\ UNCHANGED vars

\* Mutated form of Loaded: the file is read for every request.
LoadedAfresh == file

\* _load_tenants: what was once read is kept, were it an empty object.
Loaded == IF tenants # Absent THEN tenants ELSE file

\* json.load() raises, and the request ends with a 500.
Readable == Loaded # Broken

MultiTenant == Loaded.keys # {}

\* The path is /health, exempt from everything.
Health(c) == Bypass(c) /\ UNCHANGED <<redis, limiter, file, edits, access>>

\* One of the other EXEMPT_PATHS, which the limiter knows nothing of.
Exempt(c) == Limited(c) /\ UNCHANGED <<limiter, file, edits, access>>

TenantEnters(c, token) ==
    /\ Readable /\ MultiTenant /\ token \in Loaded.keys
    /\ Limited(c)
    /\ tenants' = Loaded
    /\ served' = served \cup {token}
    /\ UNCHANGED <<limiter, file, edits, opened>>

\* No tenants: the one key decides, if there is one.
AnyoneEnters(c, token) ==
    /\ Readable /\ ~MultiTenant
    /\ ProxyKeys = {} \/ token \in ProxyKeys
    /\ Limited(c)
    /\ tenants' = Loaded
    /\ opened' = (served # {})
    /\ UNCHANGED <<limiter, file, edits, served>>

\* 401.  A request that is too large, 413, does not get this far.
Denied(token) ==
    /\ Readable
    /\ IF MultiTenant THEN token \notin Loaded.keys ELSE ProxyKeys # {} /\ token \notin ProxyKeys
    /\ tenants' = Loaded
    /\ UNCHANGED <<vars, redis, limiter, file, edits, served, opened>>

\* An operator, or a program that is writing the file.
Edit ==
    /\ edits < MaxEdits
    /\ edits' = edits + 1
    /\ file' \in Files \ {file}
    /\ UNCHANGED <<vars, redis, limiter, access>>

Time == Tick /\ UNCHANGED <<redis, limiter, file, edits, access>>

GateNext ==
    \/ \E c \in Clients : Health(c)
    \/ \E c \in Clients \cup RedisClients : Exempt(c)
    \/ \E c \in Clients \cup RedisClients, token \in Tokens : TenantEnters(c, token) \/ AnyoneEnters(c, token)
    \/ \E token \in Tokens : Denied(token)
    \/ Edit \/ Time

GateSpec == GateInit /\ [][GateNext]_gateVars
-----------------------------------------------------------------------------
(***************************************************************************)
(* However tenants.json is edited, a worker recognises the keys of one     *)
(* version of it until it is restarted, and once it has recognised one it  *)
(* never again lets a request in without a tenant: not when the file is    *)
(* removed, emptied or half written.                                       *)
(***************************************************************************)
OneVersion ==
    served # {} => ~opened /\ served \subseteq tenants.keys

RedisWindowRespected == Redis!WindowRespected
RedisSilenceReopens == Redis!SilenceReopens
=============================================================================
