---------------------------- MODULE MemoryCache ----------------------------
(***************************************************************************)
(* The in-memory cache of proxy/cache.py: an OrderedDict from keys to      *)
(* (time stamp, entry) pairs, least recently used first.  It implements    *)
(* ResponseCache: what a get would return is the entry of an item that has *)
(* not expired, although expired items stay until someone asks for them.   *)
(*                                                                         *)
(* put() ignores a response that is not a 200; Put is the other case.      *)
(***************************************************************************)
EXTENDS Integers, FiniteSets, SequencesExt

CONSTANTS
    Keys,
    Entries,
    NoEntry,        \* None
    MaxEntries,     \* CACHE_MAX_ENTRIES
    TTL,            \* CACHE_TTL_S
    MaxTime, MaxUses, MaxMisses     \* bounds of the model

ASSUME CacheAssumption ==
    /\ NoEntry \notin Entries
    /\ MaxEntries \in Nat /\ TTL \in Nat
    /\ MaxTime \in Nat /\ MaxUses \in Nat /\ MaxMisses \in Nat

VARIABLES
    items,      \* _cache
    hits, misses,
    now,        \* time.time()
    answer,     \* what the last get returned, or what the last put was given
    uses,       \* history: how many gets hit and puts there were...
    lastUse     \* ... and which of them was the last of each key, 0 if none

vars == <<items, hits, misses, now, answer, uses, lastUse>>

ItemType == [key : Keys, ts : 0 .. MaxTime, entry : Entries]

TypeOK ==
    /\ items \in Seq(ItemType)
    /\ \A i \in DOMAIN items : items[i].ts <= now
    /\ hits \in 0 .. MaxUses /\ misses \in 0 .. MaxMisses
    /\ now \in 0 .. MaxTime
    /\ answer \in Entries \cup {NoEntry} \cup Keys \X Entries
    /\ uses \in 0 .. MaxUses
    /\ lastUse \in [Keys -> 0 .. MaxUses]

Init ==
    /\ items = <<>>
    /\ hits = 0 /\ misses = 0
    /\ now = 0
    /\ answer = NoEntry
    /\ uses = 0
    /\ lastUse = [k \in Keys |-> 0]

Held(k) == \E i \in DOMAIN items : items[i].key = k
Position(k) == CHOOSE i \in DOMAIN items : items[i].key = k
Expired(item) == now - item.ts > TTL

\* The dictionary without a key, keeping the order of the others.
Removed(k) == IF Held(k) THEN RemoveAt(items, Position(k)) ELSE items

\* Not a line of the source: the bookkeeping of the history variables.
Use(k) ==
    /\ uses < MaxUses
    /\ uses' = uses + 1
    /\ lastUse' = [lastUse EXCEPT ![k] = uses + 1]

Miss ==
    /\ misses < MaxMisses
    /\ misses' = misses + 1
    /\ answer' = NoEntry
    /\ UNCHANGED <<hits, now, uses, lastUse>>

GetAbsent(k) == ~Held(k) /\ Miss /\ UNCHANGED items

GetExpired(k) ==
    /\ Held(k) /\ Expired(items[Position(k)])
    /\ items' = Removed(k)
    /\ Miss

\* Mutated form of GetHit: the item is not moved to the end.
GetHitInPlace(k) ==
    /\ Held(k) /\ ~Expired(items[Position(k)])
    /\ hits' = hits + 1
    /\ answer' = items[Position(k)].entry
    /\ Use(k)
    /\ UNCHANGED <<items, misses, now>>

\* Mutated form of GetHit: the age is not looked at.
GetHitAnyAge(k) ==
    /\ Held(k)
    /\ items' = Append(Removed(k), items[Position(k)])
    /\ hits' = hits + 1
    /\ answer' = items[Position(k)].entry
    /\ Use(k)
    /\ UNCHANGED <<misses, now>>

GetHit(k) ==
    /\ Held(k) /\ ~Expired(items[Position(k)])
    /\ items' = Append(Removed(k), items[Position(k)])
    /\ hits' = hits + 1
    /\ answer' = items[Position(k)].entry
    /\ Use(k)
    /\ UNCHANGED <<misses, now>>

\* Mutated form of Evicted: one item too many is left.
EvictedLate(s) ==
    IF Len(s) > MaxEntries + 1 THEN SubSeq(s, Len(s) - MaxEntries, Len(s)) ELSE s

\* popitem(last=False) while there are too many.
Evicted(s) ==
    IF Len(s) > MaxEntries THEN SubSeq(s, Len(s) - MaxEntries + 1, Len(s)) ELSE s

\* Mutated form of Put: the time of expiry is stored instead of the time of the put.
PutExpiry(k, e) ==
    /\ items' = Evicted(Append(Removed(k), [key |-> k, ts |-> now + TTL, entry |-> e]))
    /\ answer' = <<k, e>>
    /\ Use(k)
    /\ UNCHANGED <<hits, misses, now>>

Put(k, e) ==
    /\ items' = Evicted(Append(Removed(k), [key |-> k, ts |-> now, entry |-> e]))
    /\ answer' = <<k, e>>
    /\ Use(k)
    /\ UNCHANGED <<hits, misses, now>>

Tick ==
    /\ now < MaxTime
    /\ now' = now + 1
    /\ UNCHANGED <<items, hits, misses, answer, uses, lastUse>>

Next ==
    \/ \E k \in Keys : GetAbsent(k) \/ GetExpired(k) \/ GetHit(k)
    \/ \E k \in Keys, e \in Entries : Put(k, e)
    \/ Tick

Spec == Init /\ [][Next]_vars
-----------------------------------------------------------------------------
(***************************************************************************)
(* The cache never holds more than CACHE_MAX_ENTRIES responses, nor two    *)
(* for one key, whatever expires and is put again in between.              *)
(***************************************************************************)
Bounded ==
    /\ Len(items) <= MaxEntries
    /\ \A i, j \in DOMAIN items : items[i].key = items[j].key => i = j

(***************************************************************************)
(* A put makes room only when the cache is full and for a key it did not   *)
(* hold, were it an expired one; what goes is what was neither put nor hit *)
(* for the longest time.                                                   *)
(***************************************************************************)
EvictsLeastRecentlyUsed ==
    [][\A k \in Keys : Held(k) /\ ~Held(k)' /\ UNCHANGED misses =>
          /\ Len(items) = MaxEntries
          /\ \E j \in Keys : ~Held(j) /\ Held(j)'
          /\ \A j \in Keys : Held(j)' => lastUse'[j] > lastUse[k]]_vars

(***************************************************************************)
(* The promise of ResponseCache: no get ever returns an entry that has     *)
(* expired or that a later put replaced, and what is gone stays gone.      *)
(***************************************************************************)
Available(k) == Held(k) /\ ~Expired(items[Position(k)])
Promise == INSTANCE ResponseCache
    WITH store <- [k \in Keys |-> IF Available(k) THEN items[Position(k)].entry ELSE NoEntry]

KeepsPromise == Promise!Spec
=============================================================================
