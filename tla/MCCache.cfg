SPECIFICATION CacheSpec

CONSTANTS
    Keys = {k1, k2, k3}
    Entries = {e1, e2}
    NoEntry = NoEntry
    MaxEntries = 2
    TTL = 1
    MaxTime = 4
    MaxUses = 6
    MaxMisses = 3
    Workers = {w1, w2}
    MaxGets = 3

INVARIANTS
    CacheTypeOK
    Bounded

PROPERTIES
    EvictsLeastRecentlyUsed
    KeepsPromise
    RedisKeepsPromise

SYMMETRY Symmetry

CHECK_DEADLOCK FALSE
