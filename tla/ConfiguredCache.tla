-------------------------- MODULE ConfiguredCache --------------------------
(***************************************************************************)
(* The cache that _create_cache of proxy/cache.py chose when the worker    *)
(* started: Redis if there is one that answers, else the one in memory.    *)
(* The choice is never made again.  Each keeps the promise of              *)
(* ResponseCache, which is all the request handler knows of either.        *)
(***************************************************************************)
EXTENDS MemoryCache

CONSTANTS
    Workers,
    MaxGets     \* bound of the model

ASSUME RedisAssumption == MaxGets \in Nat

VARIABLES
    chosen,     \* what _create_cache returned
    data, counting, hitCount, missCount, redisAnswer, gets  \* of the Redis cache

redis == <<data, counting, hitCount, missCount, redisAnswer, gets>>
cacheVars == <<vars, redis, chosen>>

Redis == INSTANCE RedisCache WITH answer <- redisAnswer

CacheTypeOK ==
    /\ TypeOK
    /\ Redis!TypeOK
    /\ chosen \in {"memory", "redis"}

CacheInit ==
    /\ Init
    /\ Redis!Init
    /\ chosen \in {"memory", "redis"}

Get(k) ==
    /\ chosen = "memory"
    /\ GetAbsent(k) \/ GetExpired(k) \/ GetHit(k)
    /\ UNCHANGED <<redis, chosen>>

Store(k, e) == chosen = "memory" /\ Put(k, e) /\ UNCHANGED <<redis, chosen>>

Shared == chosen = "redis" /\ Redis!Next /\ UNCHANGED <<vars, chosen>>

Time == Tick /\ UNCHANGED <<redis, chosen>>

CacheNext ==
    \/ \E k \in Keys : Get(k)
    \/ \E k \in Keys, e \in Entries : Store(k, e)
    \/ Shared \/ Time

CacheSpec == CacheInit /\ [][CacheNext]_cacheVars
-----------------------------------------------------------------------------
(***************************************************************************)
(* The promise of ResponseCache is kept by Redis too, for all workers: a   *)
(* get that interleaves with another worker's put, or with the end of an   *)
(* entry's time, returns an entry that was there when Redis was asked.     *)
(***************************************************************************)
RedisKeepsPromise == Redis!KeepsPromise
=============================================================================
