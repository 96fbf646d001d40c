----------------------------- MODULE RedisCache -----------------------------
(***************************************************************************)
(* RedisCache of proxy/cache.py, shared by all workers.  A get is two      *)
(* commands, GET and then INCR of a counter, and other workers' commands   *)
(* come in between; the worker itself waits for each.  A put is one, and   *)
(* its entry goes when its time is over, not when someone asks.            *)
(*                                                                         *)
(* Any command may fail, with an exception the caller does not expect.     *)
(***************************************************************************)
EXTENDS Naturals

CONSTANTS
    Keys, Entries, NoEntry, TTL,
    Workers,
    MaxTime, MaxGets    \* bounds of the model

VARIABLES
    data,       \* llmproxy:cache:<key>
    counting,   \* per worker, what its GET returned whose INCR is still to come, or Idle
    hitCount, missCount,    \* llmproxy:cache_hits, llmproxy:cache_misses
    now,        \* the time of Redis
    answer,     \* what the last GET returned, or what the last SETEX was given
    gets        \* history: how many there were

redisVars == <<data, counting, hitCount, missCount, answer, gets>>

Idle == "idle"
Value == [entry : Entries, until : 0 .. MaxTime + TTL]
Nothing == [entry |-> NoEntry, until |-> 0]

TypeOK ==
    /\ data \in [Keys -> Value \cup {Nothing}]
    /\ counting \in [Workers -> {Idle, "hit", "miss"}]
    /\ hitCount \in 0 .. MaxGets /\ missCount \in 0 .. MaxGets
    /\ answer \in Entries \cup {NoEntry} \cup Keys \X Entries
    /\ gets \in 0 .. MaxGets

Init ==
    /\ data = [k \in Keys |-> Nothing]
    /\ counting = [w \in Workers |-> Idle]
    /\ hitCount = 0 /\ missCount = 0
    /\ answer = NoEntry
    /\ gets = 0

Live(k) == IF now < data[k].until THEN data[k].entry ELSE NoEntry

GetOne(w, k) ==
    /\ counting[w] = Idle /\ gets < MaxGets
    /\ gets' = gets + 1
    /\ answer' = Live(k)
    /\ counting' = [counting EXCEPT ![w] = IF Live(k) = NoEntry THEN "miss" ELSE "hit"]
    /\ UNCHANGED <<data, hitCount, missCount>>

Count(w) ==
    /\ counting[w] # Idle
    /\ counting' = [counting EXCEPT ![w] = Idle]
    /\ hitCount' = IF counting[w] = "hit" THEN hitCount + 1 ELSE hitCount
    /\ missCount' = IF counting[w] = "miss" THEN missCount + 1 ELSE missCount
    /\ UNCHANGED <<data, answer, gets>>

\* Redis has gone, or the worker: the answer is lost with the count.
CountFails(w) ==
    /\ counting[w] # Idle
    /\ counting' = [counting EXCEPT ![w] = Idle]
    /\ UNCHANGED <<data, hitCount, missCount, answer, gets>>

\* Mutated form of SetEx: what is there is not replaced.
SetIfAbsent(k, e) ==
    data' = [data EXCEPT ![k] = IF Live(k) = NoEntry THEN [entry |-> e, until |-> now + TTL] ELSE @]

SetEx(k, e) == data' = [data EXCEPT ![k] = [entry |-> e, until |-> now + TTL]]

PutOne(w, k, e) ==
    /\ counting[w] = Idle
    /\ SetEx(k, e)
    /\ answer' = <<k, e>>
    /\ UNCHANGED <<counting, hitCount, missCount, gets>>

Next ==
    \/ \E w \in Workers, k \in Keys : GetOne(w, k)
    \/ \E w \in Workers : Count(w) \/ CountFails(w)
    \/ \E w \in Workers, k \in Keys, e \in Entries : PutOne(w, k, e)
-----------------------------------------------------------------------------
(***************************************************************************)
(* The promise of ResponseCache, by all workers together.                  *)
(***************************************************************************)
Promise == INSTANCE ResponseCache WITH store <- [k \in Keys |-> Live(k)]

KeepsPromise == Promise!Spec
=============================================================================
