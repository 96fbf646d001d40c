-------------------------- MODULE RedisRateLimiter --------------------------
(***************************************************************************)
(* RedisRateLimiter of proxy/ratelimit.py: one sorted set per client,      *)
(* shared by all workers.  A worker reads its own clock, then Redis        *)
(* executes the pipeline as one transaction, which adds the request to the *)
(* set whatever the verdict is going to be.                                *)
(*                                                                         *)
(* A member of the set is its time stamp, so equal stamps are one member.  *)
(* Clocks differ, and a pipeline travels: when it is executed its stamp    *)
(* may be Behind the time of Redis, or Ahead of it.                        *)
(*                                                                         *)
(* This is the client of one Redis server.  With REDIS_CLUSTER=true the    *)
(* pipeline of a RedisCluster client is not a transaction, so commands of  *)
(* other workers may come in between its own; that is not modelled.        *)
(***************************************************************************)
EXTENDS Integers, FiniteSets

CONSTANTS
    Clients, Window, RPM,
    KeepAlive,      \* the 70 seconds of expire
    Behind, Ahead,  \* how far the clocks and the network are off
    MaxTime         \* bound of the model

RedisAssumption ==
    /\ Window \in Nat \ {0} /\ RPM \in Int
    /\ Behind \in Nat /\ Ahead \in Nat
    /\ KeepAlive \in Nat /\ KeepAlive >= Window + Behind + Ahead
    /\ MaxTime \in Nat

VARIABLES
    zset,       \* the members of llmproxy:rl:<client>
    touched,    \* when its expiry was last set
    now,        \* the time of Redis
    passed      \* history: when a request of the last window was let through, with which stamp

redisVars == <<zset, touched, passed>>

Times == 0 .. MaxTime
AllStamps == 0 .. MaxTime + Ahead

TypeOK ==
    /\ zset \in [Clients -> SUBSET AllStamps]
    /\ touched \in [Clients -> Times]
    /\ passed \in [Clients -> SUBSET [at : Times, stamp : AllStamps]]

Init ==
    /\ zset = [c \in Clients |-> {}]
    /\ touched = [c \in Clients |-> 0]
    /\ passed = [c \in Clients |-> {}]

Stamps == {t \in AllStamps : now - Behind <= t /\ t <= now + Ahead}

Members(c) == IF now - touched[c] < KeepAlive THEN zset[c] ELSE {}

\* Mutated form of Kept: the oldest stamp of the window is removed as well.
KeptYounger(c, stamp) == {s \in Members(c) : s > stamp - Window + 1}

\* Mutated form of Kept: what expire keeps is counted.
KeptAll(c, stamp) == Members(c)

\* zremrangebyscore
Kept(c, stamp) == {s \in Members(c) : s > stamp - Window}

\* zadd and expire, with the removal before them.
Execute(c, stamp) ==
    /\ zset' = [zset EXCEPT ![c] = Kept(c, stamp) \cup {stamp}]
    /\ touched' = [touched EXCEPT ![c] = now]

Pass(c, stamp) ==
    /\ Cardinality(Kept(c, stamp)) < RPM
    /\ Execute(c, stamp)
    /\ passed' = [passed EXCEPT ![c] = {p \in @ : p.at > now - Window}
                                            \cup {[at |-> now, stamp |-> stamp]}]

Limit(c, stamp) ==
    /\ Cardinality(Kept(c, stamp)) >= RPM
    /\ Execute(c, stamp)
    /\ UNCHANGED passed

\* The connection breaks, and execute() raises, after the transaction.
Lose(c, stamp) == Execute(c, stamp) /\ UNCHANGED passed

is_rate_limited(c) ==
    RPM > 0 /\ \E stamp \in Stamps : Pass(c, stamp) \/ Limit(c, stamp) \/ Lose(c, stamp)
-----------------------------------------------------------------------------
(***************************************************************************)
(* However the workers' clocks differ, requests let through in a stretch   *)
(* of time shorter than the window by that difference have at most RPM     *)
(* different stamps: a worker whose clock is fast removes members that     *)
(* still count for the others, but not so early.                           *)
(***************************************************************************)
Through(c, t) ==
    {p.stamp : p \in {q \in passed[c] : t <= q.at /\ q.at < t + Window - Behind - Ahead}}

WindowRespected == \A c \in Clients, t \in Times : RPM > 0 => Cardinality(Through(c, t)) <= RPM

(***************************************************************************)
(* A client that keeps trying RPM times in every window is refused for as  *)
(* long as it does, since refused requests are members too.  But silence   *)
(* helps: a request that comes one window, and the difference of the       *)
(* clocks, after the last one is let through, or lost.                     *)
(***************************************************************************)
SilenceReopens ==
    \A c \in Clients, stamp \in Stamps :
        now - touched[c] >= Window + Behind + Ahead => Kept(c, stamp) = {}
=============================================================================
