----------------------------- MODULE GateProofs -----------------------------
(***************************************************************************)
(* The in-memory rate limiter, and the middleware in front of the handler  *)
(* that asks it, for any number of clients, tokens and edits of            *)
(* tenants.json, and any clocks of the workers.                            *)
(*                                                                         *)
(* The first part is about the limiter alone: it implements the sliding    *)
(* window, and no window ever holds more than RPM requests of a client,    *)
(* for every limit and every length of the window.  The limiter runs       *)
(* inside the gate undisturbed, so that what is proved of its steps holds  *)
(* of the gate: that, and the gate itself, is the second part.             *)
(***************************************************************************)
EXTENDS Gate, FiniteSetTheorems, TLAPS

(***************************************************************************)
(* The list a client has holds only stamps of requests that were counted,  *)
(* and all of those that are still in the window; no stamp is of the       *)
(* future, and no two requests share one.                                  *)
(***************************************************************************)
ListIsWindow ==
    \A c \in Clients :
        /\ IsFiniteSet(admitted[c])
        /\ \A s \in admitted[c] : s.t <= now /\ s.n <= Cardinality(admitted[c])
        /\ requests[c] \subseteq admitted[c]
        /\ Promise!Recent(c) \subseteq requests[c]

\* The cardinality the promise speaks of is the usual one.
LEMMA SameCardinality == \A S : Promise!Cardinality(S) = Cardinality(S)
  BY DEF Cardinality, Promise!Cardinality

\* What the limiter counts is what the promise counts.
LEMMA PrunedIsRecent ==
  ASSUME ListIsWindow, NEW c \in Clients
  PROVE  Pruned(c) = Promise!Recent(c)
  BY DEF ListIsWindow, Pruned, Promise!Recent

\* Counting one more request adds exactly one stamp, of now.
LEMMA StampIsNew ==
  ASSUME TypeOK, ListIsWindow, NEW c \in Clients
  PROVE  /\ Promise!Stamp(c) \notin admitted[c]
         /\ IsFiniteSet(admitted[c] \cup {Promise!Stamp(c)})
         /\ Cardinality(admitted[c]) \in Nat
         /\ Cardinality(admitted[c] \cup {Promise!Stamp(c)}) = Cardinality(admitted[c]) + 1
<1>1. IsFiniteSet(admitted[c])
  BY DEF ListIsWindow
<1>2. Cardinality(admitted[c]) \in Nat
  BY <1>1, FS_CardinalityType
<1>3. Promise!Stamp(c) \notin admitted[c]
  BY <1>2, SameCardinality DEF ListIsWindow, Promise!Stamp, TypeOK, Stamps
<1>4. QED
  BY <1>1, <1>2, <1>3, FS_AddElement

\* One more request and the stamps stay in their ranges.
LEMMA StampType ==
  ASSUME TypeOK, ListIsWindow, NEW c \in Clients, Cardinality(admitted[c]) < MaxAdmitted
  PROVE  Promise!Stamp(c) \in Stamps
<1>1. now \in 0 .. MaxTime
  BY DEF TypeOK
<1>2. Cardinality(admitted[c]) + 1 \in 1 .. MaxAdmitted
  <2>1. Cardinality(admitted[c]) \in Nat
    BY StampIsNew
  <2>2. MaxAdmitted \in Nat
    BY LimiterAssumption
  <2>3. QED
    BY <2>1, <2>2
<1>3. QED
  BY <1>1, <1>2, SameCardinality DEF Promise!Stamp, Stamps

\* Every step keeps the types.
LEMMA TypeStep == TypeOK /\ ListIsWindow /\ [Next]_vars => TypeOK'
<1> SUFFICES ASSUME TypeOK, ListIsWindow, [Next]_vars PROVE TypeOK'
  OBVIOUS
<1>1. \A c \in Clients, b \in BOOLEAN : <<c, b>> \in Verdicts
  BY DEF Verdicts
<1>2. ASSUME NEW c \in Clients, Bypass(c) PROVE TypeOK'
  BY <1>1, <1>2 DEF Bypass, Promise!Says, TypeOK
<1>3. ASSUME NEW c \in Clients, Pass(c) PROVE TypeOK'
  <2>1. Promise!Stamp(c) \in Stamps
    BY <1>3, StampType DEF Pass
  <2>2. Pruned(c) \subseteq Stamps
    BY DEF Pruned, TypeOK
  <2>3. QED
    BY <1>1, <1>3, <2>1, <2>2 DEF Pass, Promise!Says, TypeOK
<1>4. ASSUME NEW c \in Clients, Limit(c) PROVE TypeOK'
  BY <1>1, <1>4 DEF Limit, Pruned, Promise!Says, TypeOK
<1>5. CASE Tick
  BY <1>5, LimiterAssumption DEF Tick, TypeOK
<1>6. CASE UNCHANGED vars
  BY <1>6 DEF vars, TypeOK
<1>7. QED
  BY <1>2, <1>3, <1>4, <1>5, <1>6 DEF Next

\* Every step keeps the list the window: a stamp is pruned only when it has left it.
LEMMA ListStep == TypeOK /\ ListIsWindow /\ [Next]_vars => ListIsWindow'
<1> SUFFICES ASSUME TypeOK, ListIsWindow, [Next]_vars, NEW d \in Clients
             PROVE  /\ IsFiniteSet(admitted'[d])
                    /\ \A s \in admitted'[d] : s.t <= now' /\ s.n <= Cardinality(admitted'[d])
                    /\ requests'[d] \subseteq admitted'[d]
                    /\ Promise!Recent(d)' \subseteq requests'[d]
  BY DEF ListIsWindow
<1>1. /\ IsFiniteSet(admitted[d])
      /\ \A s \in admitted[d] : s.t <= now /\ s.n <= Cardinality(admitted[d])
      /\ requests[d] \subseteq admitted[d]
      /\ \A s \in admitted[d] : s.t > now - Window => s \in requests[d]
  BY DEF ListIsWindow, Promise!Recent
<1>2. /\ now \in Nat /\ Window \in Nat
      /\ \A s \in admitted[d] : s.t \in Nat /\ s.n \in Nat
  BY LimiterAssumption DEF TypeOK, Stamps
<1>3. ASSUME NEW c \in Clients, Pass(c), c = d
      PROVE  /\ IsFiniteSet(admitted'[d])
             /\ \A s \in admitted'[d] : s.t <= now' /\ s.n <= Cardinality(admitted'[d])
             /\ requests'[d] \subseteq admitted'[d]
             /\ Promise!Recent(d)' \subseteq requests'[d]
  <2>1. /\ requests'[d] = Pruned(d) \cup {Promise!Stamp(d)}
        /\ admitted'[d] = admitted[d] \cup {Promise!Stamp(d)}
        /\ now' = now
    BY <1>3 DEF Pass, TypeOK
  <2>2. /\ IsFiniteSet(admitted'[d])
        /\ Cardinality(admitted'[d]) = Cardinality(admitted[d]) + 1
        /\ Cardinality(admitted[d]) \in Nat
    BY <2>1, StampIsNew
  <2>3. /\ Promise!Stamp(d).t = now
        /\ Promise!Stamp(d).n = Cardinality(admitted[d]) + 1
    BY SameCardinality DEF Promise!Stamp
  <2>4. \A s \in admitted'[d] : s.t <= now' /\ s.n <= Cardinality(admitted'[d])
    BY <1>1, <1>2, <2>1, <2>2, <2>3
  <2>5. requests'[d] \subseteq admitted'[d]
    BY <1>1, <2>1 DEF Pruned
  <2>6. Promise!Recent(d)' \subseteq requests'[d]
    BY <1>1, <2>1 DEF Pruned, Promise!Recent
  <2>7. QED
    BY <2>2, <2>4, <2>5, <2>6
<1>4. ASSUME NEW c \in Clients, Limit(c), c = d
      PROVE  /\ IsFiniteSet(admitted'[d])
             /\ \A s \in admitted'[d] : s.t <= now' /\ s.n <= Cardinality(admitted'[d])
             /\ requests'[d] \subseteq admitted'[d]
             /\ Promise!Recent(d)' \subseteq requests'[d]
  <2>1. requests'[d] = Pruned(d) /\ admitted'[d] = admitted[d] /\ now' = now
    BY <1>4 DEF Limit, TypeOK
  <2>2. Promise!Recent(d)' \subseteq requests'[d]
    BY <1>1, <2>1 DEF Pruned, Promise!Recent
  <2>3. requests'[d] \subseteq admitted'[d]
    BY <1>1, <2>1 DEF Pruned
  <2>4. /\ IsFiniteSet(admitted'[d])
        /\ \A s \in admitted'[d] : s.t <= now' /\ s.n <= Cardinality(admitted'[d])
    BY <1>1, <2>1
  <2>5. QED
    BY <2>2, <2>3, <2>4
<1>5. CASE Tick
  <2>1. requests' = requests /\ admitted' = admitted /\ now' = now + 1
    BY <1>5 DEF Tick
  <2>2. \A s \in admitted[d] : s.t <= now + 1
    BY <1>1, <1>2
  <2>3. requests'[d] = requests[d] /\ admitted'[d] = admitted[d]
    BY <2>1
  <2>4. Promise!Recent(d)' \subseteq requests'[d]
    <3>1. ASSUME NEW s \in admitted[d], s.t > now' - Window PROVE s \in requests[d]
      <4>1. s.t > now - Window
        BY <1>2, <2>1, <3>1
      <4>2. QED
        BY <1>1, <4>1
    <3>2. QED
      BY <2>3, <3>1 DEF Promise!Recent
  <2>5. QED
    BY <1>1, <2>1, <2>2, <2>3, <2>4
<1>6. ASSUME NEW c \in Clients, Pass(c) \/ Limit(c), c # d
      PROVE  requests'[d] = requests[d] /\ admitted'[d] = admitted[d] /\ now' = now
  BY <1>6 DEF Pass, Limit, TypeOK
<1>7. ASSUME (\E c \in Clients : Bypass(c)) \/ UNCHANGED vars
      PROVE  requests'[d] = requests[d] /\ admitted'[d] = admitted[d] /\ now' = now
  BY <1>7 DEF Bypass, vars
<1>8. ASSUME requests'[d] = requests[d], admitted'[d] = admitted[d], now' = now
      PROVE  /\ IsFiniteSet(admitted'[d])
             /\ \A s \in admitted'[d] : s.t <= now' /\ s.n <= Cardinality(admitted'[d])
             /\ requests'[d] \subseteq admitted'[d]
             /\ Promise!Recent(d)' \subseteq requests'[d]
  BY <1>1, <1>8 DEF Promise!Recent
<1>9. QED
  BY <1>3, <1>4, <1>5, <1>6, <1>7, <1>8 DEF Next

\* Both invariants hold when the worker starts.
LEMMA InitList == Init => TypeOK /\ ListIsWindow
<1>1. Cardinality({}) = 0 /\ IsFiniteSet({})
  BY FS_EmptySet
<1>2. QED
  BY <1>1, LimiterAssumption DEF Init, TypeOK, ListIsWindow, Promise!Recent

\* The invariant both theorems rest on.
LEMMA Listed == Spec => [](TypeOK /\ ListIsWindow)
  BY InitList, TypeStep, ListStep, PTL DEF Spec

(***************************************************************************)
(* Type correctness: no stamp is ever later than the clock's range allows, *)
(* and every verdict names a client.                                       *)
(***************************************************************************)
THEOREM LimiterTyping == Spec => []TypeOK
  BY Listed, PTL
-----------------------------------------------------------------------------
(***************************************************************************)
(* The limiter implements its promise: a request is refused exactly when   *)
(* the window before it holds RPM requests that were let through.          *)
(***************************************************************************)
THEOREM LimiterImplementsWindow == Spec => ImplementsWindow
<1>1. Init => Promise!Init
  BY DEF Init, Promise!Init
<1>2. TypeOK /\ ListIsWindow /\ [Next]_vars => [Promise!Next]_(Promise!limitVars)
  <2> SUFFICES ASSUME TypeOK, ListIsWindow, [Next]_vars
               PROVE  [Promise!Next]_(Promise!limitVars)
    OBVIOUS
  <2>1. ASSUME NEW c \in Clients, Bypass(c) PROVE Promise!Uncounted(c)
    BY <2>1 DEF Bypass, Promise!Uncounted
  <2>2. ASSUME NEW c \in Clients, Pass(c) PROVE Promise!Admit(c)
    BY <2>2, PrunedIsRecent, SameCardinality DEF Pass, Promise!Admit
  <2>3. ASSUME NEW c \in Clients, Limit(c) PROVE Promise!Reject(c)
    BY <2>3, PrunedIsRecent, SameCardinality DEF Limit, Promise!Reject
  <2>4. Tick => Promise!Tick
    BY DEF Tick, Promise!Tick
  <2>5. UNCHANGED vars => UNCHANGED Promise!limitVars
    BY DEF vars, Promise!limitVars
  <2>6. QED
    BY <2>1, <2>2, <2>3, <2>4, <2>5 DEF Next, Promise!Next
<1>3. QED
  BY <1>1, <1>2, Listed, PTL DEF Spec, ImplementsWindow, Promise!Spec
-----------------------------------------------------------------------------
\* A window that ends before now keeps its requests; one that does not holds,
\* besides the new request, only recent ones.
LEMMA WindowStep == TypeOK /\ ListIsWindow /\ WindowRespected /\ [Next]_vars => WindowRespected'
<1> SUFFICES ASSUME TypeOK, ListIsWindow, WindowRespected, [Next]_vars, RPM > 0,
                    NEW d \in Clients, NEW t \in -Window .. MaxTime
             PROVE  Cardinality(Promise!Within(d, t)') <= RPM
  BY DEF WindowRespected
<1>1. Cardinality(Promise!Within(d, t)) <= RPM
  BY DEF WindowRespected
<1>2. t \in Int /\ now \in Nat /\ Window \in Nat /\ RPM \in Nat
  BY LimiterAssumption DEF TypeOK
<1>3. CASE admitted'[d] = admitted[d]
  BY <1>1, <1>3 DEF Promise!Within
<1>4. CASE Pass(d)
  <2>1. admitted'[d] = admitted[d] \cup {Promise!Stamp(d)} /\ Promise!Stamp(d).t = now
    BY <1>4 DEF Pass, TypeOK, Promise!Stamp
  <2>2. CASE ~(t < now /\ now <= t + Window)
    <3>1. Promise!Within(d, t)' = Promise!Within(d, t)
      BY <2>1, <2>2 DEF Promise!Within
    <3>2. QED
      BY <1>1, <3>1
  <2>3. CASE t < now /\ now <= t + Window
    <3>1. Promise!Within(d, t)' = Promise!Within(d, t) \cup {Promise!Stamp(d)}
      BY <2>1, <2>3 DEF Promise!Within
    <3>2. \A s \in admitted[d] : s.t \in Nat
      BY DEF TypeOK, Stamps
    <3>3. \A s \in admitted[d] : t < s.t => s.t > now - Window
      BY <1>2, <2>3, <3>2
    <3>4. Promise!Within(d, t) \subseteq Pruned(d)
      BY <3>3, PrunedIsRecent DEF Promise!Within, Promise!Recent
    <3>5. IsFiniteSet(Pruned(d))
      <4>1. Pruned(d) \subseteq admitted[d] /\ IsFiniteSet(admitted[d])
        BY DEF Pruned, ListIsWindow
      <4>2. QED
        BY <4>1, FS_Subset
    <3>6. /\ IsFiniteSet(Promise!Within(d, t))
          /\ Cardinality(Promise!Within(d, t)) <= Cardinality(Pruned(d))
      BY <3>4, <3>5, FS_Subset
    <3>7. /\ Cardinality(Promise!Within(d, t)) \in Nat
          /\ Cardinality(Pruned(d)) \in Nat
          /\ Cardinality(Pruned(d)) < RPM
      BY <1>4, <3>5, <3>6, FS_CardinalityType DEF Pass
    <3>8. Cardinality(Promise!Within(d, t)') <= Cardinality(Promise!Within(d, t)) + 1
      <4>1. \/ Cardinality(Promise!Within(d, t)') = Cardinality(Promise!Within(d, t)) + 1
            \/ Cardinality(Promise!Within(d, t)') = Cardinality(Promise!Within(d, t))
        BY <3>1, <3>6, FS_AddElement
      <4>2. QED
        BY <3>7, <4>1
    <3>9. Cardinality(Promise!Within(d, t)') \in Nat
      BY <3>1, <3>6, FS_AddElement, FS_CardinalityType
    <3>10. QED
      BY <1>2, <3>6, <3>7, <3>8, <3>9
  <2>4. QED
    BY <2>2, <2>3
<1>5. admitted'[d] = admitted[d] \/ Pass(d)
  <2>1. ASSUME NEW c \in Clients, Pass(c), c # d PROVE admitted'[d] = admitted[d]
    BY <2>1 DEF Pass, TypeOK
  <2>2. ASSUME (\E c \in Clients : Bypass(c) \/ Limit(c)) \/ Tick \/ UNCHANGED vars
        PROVE  admitted'[d] = admitted[d]
    BY <2>2 DEF Bypass, Limit, Tick, vars
  <2>3. QED
    BY <2>1, <2>2 DEF Next
<1>6. QED
  BY <1>3, <1>4, <1>5

(***************************************************************************)
(* The rate limit holds over every stretch of one window, not only over    *)
(* the windows that end at a request.                                      *)
(***************************************************************************)
THEOREM WindowSafe == Spec => []WindowRespected
<1>1. Init => WindowRespected
  <2>1. ASSUME NEW c \in Clients, NEW t \in -Window .. MaxTime, Init
        PROVE  Promise!Within(c, t) = {}
    BY <2>1 DEF Init, Promise!Within
  <2>2. Cardinality({}) = 0
    BY FS_EmptySet
  <2>3. QED
    BY <2>1, <2>2, LimiterAssumption DEF WindowRespected
<1>2. QED
  BY <1>1, WindowStep, Listed, PTL DEF Spec
-----------------------------------------------------------------------------
\* What the steps of the gate do to the memory limiter and to the Redis limiter.
MemoryStep == [Next]_vars
RedisStep ==
    \/ UNCHANGED redis /\ UNCHANGED now
    \/ UNCHANGED redis /\ now' = now + 1 /\ now < MaxTime
    \/ UNCHANGED now /\ \E c \in RedisClients : Redis!is_rate_limited(c)
AccessStep ==
    \/ UNCHANGED <<access, file>>
    \/ UNCHANGED access /\ file' \in Files
    \/ \E c \in Clients \cup RedisClients, token \in Tokens :
          TenantEnters(c, token) \/ AnyoneEnters(c, token)
    \/ \E token \in Tokens : Denied(token)

LEMMA LimitedSteps ==
  ASSUME NEW c, Limited(c)
  PROVE  MemoryStep /\ RedisStep
<1>1. CASE c \in Clients /\ (Pass(c) \/ Limit(c)) /\ UNCHANGED redis
  BY <1>1 DEF MemoryStep, RedisStep, Next, Pass, Limit
<1>2. CASE c \in RedisClients /\ Redis!is_rate_limited(c) /\ UNCHANGED vars
  BY <1>2 DEF MemoryStep, RedisStep, vars
<1>3. QED
  BY <1>1, <1>2 DEF Limited

LEMMA GateSteps == [GateNext]_gateVars => MemoryStep /\ RedisStep /\ AccessStep
<1> SUFFICES ASSUME [GateNext]_gateVars PROVE MemoryStep /\ RedisStep /\ AccessStep
  OBVIOUS
<1>1. ASSUME NEW c \in Clients, Health(c) PROVE MemoryStep /\ RedisStep /\ AccessStep
  BY <1>1 DEF Health, Bypass, MemoryStep, RedisStep, AccessStep, Next
<1>2. ASSUME NEW c \in Clients \cup RedisClients, Exempt(c) PROVE MemoryStep /\ RedisStep /\ AccessStep
  BY <1>2, LimitedSteps DEF Exempt, AccessStep
<1>3. ASSUME NEW c \in Clients \cup RedisClients, NEW token \in Tokens,
             TenantEnters(c, token) \/ AnyoneEnters(c, token)
      PROVE  MemoryStep /\ RedisStep /\ AccessStep
  <2>1. Limited(c)
    BY <1>3 DEF TenantEnters, AnyoneEnters
  <2>2. QED
    BY <1>3, <2>1, LimitedSteps DEF AccessStep
<1>4. ASSUME NEW token \in Tokens, Denied(token) PROVE MemoryStep /\ RedisStep /\ AccessStep
  BY <1>4 DEF Denied, MemoryStep, RedisStep, AccessStep, vars
<1>5. CASE Edit
  BY <1>5 DEF Edit, MemoryStep, RedisStep, AccessStep, vars
<1>6. CASE Time
  BY <1>6 DEF Time, Tick, MemoryStep, RedisStep, AccessStep, Next
<1>7. CASE UNCHANGED gateVars
  BY <1>7 DEF gateVars, MemoryStep, RedisStep, AccessStep, vars
<1>8. QED
  BY <1>1, <1>2, <1>3, <1>4, <1>5, <1>6, <1>7 DEF GateNext
-----------------------------------------------------------------------------
\* Seen from the memory limiter, the gate is that limiter.
LEMMA GateIsLimiter == GateSpec => Spec
<1>1. GateInit => Init
  BY DEF GateInit
<1>2. [GateNext]_gateVars => [Next]_vars
  BY GateSteps DEF MemoryStep
<1>3. QED
  BY <1>1, <1>2, PTL DEF GateSpec, Spec

(***************************************************************************)
(* Whatever else a worker does with its requests, no window of its memory  *)
(* limiter holds more counted requests than the limit.                     *)
(***************************************************************************)
THEOREM GateWindowSafe == GateSpec => []WindowRespected
  BY GateIsLimiter, WindowSafe

(***************************************************************************)
(* A worker that asks the memory limiter answers its clients as            *)
(* SlidingWindow promises.                                                 *)
(***************************************************************************)
THEOREM GateImplementsWindow == GateSpec => ImplementsWindow
  BY GateIsLimiter, LimiterImplementsWindow
-----------------------------------------------------------------------------
\* Nobody is let in without a tenant once a tenant was recognised, and none was
\* recognised by a key that the version in memory lacks.
Recognised ==
    /\ tenants \in Files \ {Broken} /\ file \in Files
    /\ served \in SUBSET Tokens
    /\ opened = FALSE
    /\ served \subseteq tenants.keys

LEMMA FileKeys ==
  /\ Absent \in Files /\ Broken \in Files
  /\ Absent.keys = {}
  /\ Absent # Broken
  BY DEF Absent, Broken, Files

LEMMA RecognisedStep == Recognised /\ AccessStep => Recognised'
<1> SUFFICES ASSUME Recognised, AccessStep PROVE Recognised'
  OBVIOUS
<1>1. served # {} => Loaded = tenants /\ MultiTenant
  BY FileKeys DEF Recognised, Loaded, MultiTenant
<1>2. Readable => Loaded \in Files \ {Broken}
  BY DEF Recognised, Loaded, Readable
<1>3. CASE UNCHANGED <<access, file>>
  BY <1>3 DEF Recognised, access
<1>4. CASE UNCHANGED access /\ file' \in Files
  BY <1>4 DEF Recognised, access
<1>5. ASSUME NEW c, NEW token \in Tokens, TenantEnters(c, token) PROVE Recognised'
  <2>1. served \subseteq Loaded.keys
    BY <1>1 DEF Recognised
  <2>2. QED
    BY <1>2, <1>5, <2>1 DEF Recognised, TenantEnters
<1>6. ASSUME NEW c, NEW token \in Tokens, AnyoneEnters(c, token) PROVE Recognised'
  <2>1. served = {}
    BY <1>1, <1>6 DEF AnyoneEnters
  <2>2. QED
    BY <1>2, <1>6, <2>1 DEF Recognised, AnyoneEnters
<1>7. ASSUME NEW token \in Tokens, Denied(token) PROVE Recognised'
  <2>1. served \subseteq Loaded.keys
    BY <1>1 DEF Recognised
  <2>2. QED
    BY <1>2, <1>7, <2>1 DEF Recognised, Denied
<1>8. QED
  BY <1>3, <1>4, <1>5, <1>6, <1>7 DEF AccessStep

LEMMA RecognisedAlways == GateSpec => []Recognised
<1>1. GateInit => Recognised
  BY FileKeys DEF GateInit, Recognised
<1>2. Recognised /\ [GateNext]_gateVars => Recognised'
  BY GateSteps, RecognisedStep
<1>3. QED
  BY <1>1, <1>2, PTL DEF GateSpec

(***************************************************************************)
(* A worker recognises the keys of one version of tenants.json, and never  *)
(* goes back to letting everyone in, however the file is edited.           *)
(***************************************************************************)
THEOREM OneVersionOnly == GateSpec => []OneVersion
<1>1. Recognised => OneVersion
  BY DEF Recognised, OneVersion
<1>2. QED
  BY <1>1, RecognisedAlways, PTL
-----------------------------------------------------------------------------
\* What the sorted set of a client is, for the requests that were let through:
\* none that the others still have to count has been removed.
RedisTyped ==
    /\ now \in 0 .. MaxTime
    /\ Redis!TypeOK

Counted(c) ==
    /\ touched[c] <= now
    /\ \A s \in zset[c] : s <= touched[c] + Ahead
    /\ \A p \in passed[c] :
          /\ p.at <= now /\ p.at - Behind <= p.stamp
          /\ now < p.at + Window - Behind - Ahead => p.at <= touched[c] /\ p.stamp \in zset[c]

RedisInv == RedisTyped /\ \A c \in RedisClients : Counted(c)

LEMMA RedisConstants ==
  /\ Window \in Nat \ {0} /\ RPM \in Nat \ {0} /\ Behind \in Nat /\ Ahead \in Nat
  /\ KeepAlive \in Nat /\ KeepAlive >= Window + Behind + Ahead /\ MaxTime \in Nat
  BY LimiterAssumption, GateAssumption, RedisLimiterAssumption DEF Redis!RedisAssumption

LEMMA RedisInitially == GateInit => RedisInv
<1>1. 0 \in 0 .. MaxTime /\ 0 \in Redis!Times
  BY RedisConstants DEF Redis!Times
<1>2. QED
  BY <1>1, RedisConstants DEF GateInit, Init, Redis!Init, RedisInv, RedisTyped, Counted, Redis!TypeOK

\* Of the members the others count, the removal leaves every one, and the request is added.
LEMMA RequestKeeps ==
  ASSUME RedisInv, UNCHANGED now, NEW c \in RedisClients, NEW stamp \in Redis!Stamps,
         Redis!Execute(c, stamp),
         \/ UNCHANGED passed
         \/ passed' = [passed EXCEPT ![c] = {p \in @ : p.at > now - Window}
                                               \cup {[at |-> now, stamp |-> stamp]}]
  PROVE  RedisInv'
<1>1. now \in Nat /\ now \in 0 .. MaxTime /\ now \in Redis!Times
  BY RedisConstants DEF RedisInv, RedisTyped, Redis!Times
<1>2. stamp \in Nat /\ stamp \in Redis!AllStamps /\ now - Behind <= stamp /\ stamp <= now + Ahead
  BY RedisConstants DEF Redis!Stamps, Redis!AllStamps
<1>3. Redis!Kept(c, stamp) \subseteq zset[c]
  BY DEF Redis!Kept, Redis!Members
<1>4. RedisTyped'
  <2>1. zset' \in [RedisClients -> SUBSET Redis!AllStamps]
    BY <1>2, <1>3 DEF RedisInv, RedisTyped, Redis!TypeOK, Redis!Execute
  <2>2. touched' \in [RedisClients -> Redis!Times]
    BY <1>1 DEF RedisInv, RedisTyped, Redis!TypeOK, Redis!Execute
  <2>3. passed' \in [RedisClients -> SUBSET [at : Redis!Times, stamp : Redis!AllStamps]]
    BY <1>1, <1>2 DEF RedisInv, RedisTyped, Redis!TypeOK
  <2>4. QED
    BY <1>1, <2>1, <2>2, <2>3 DEF RedisTyped, Redis!TypeOK
<1>5. ASSUME NEW d \in RedisClients PROVE Counted(d)'
  <2>1. CASE d # c
    <3>1. zset'[d] = zset[d] /\ touched'[d] = touched[d] /\ passed'[d] = passed[d]
      BY <2>1 DEF RedisInv, RedisTyped, Redis!TypeOK, Redis!Execute
    <3>2. QED
      BY <3>1 DEF RedisInv, Counted
  <2>2. CASE d = c
    <3>1. zset'[c] = Redis!Kept(c, stamp) \cup {stamp} /\ touched'[c] = now
      BY DEF RedisInv, RedisTyped, Redis!TypeOK, Redis!Execute
    <3>2. touched[c] \in Nat /\ touched[c] <= now /\ zset[c] \subseteq Nat
      BY RedisConstants DEF RedisInv, RedisTyped, Redis!TypeOK, Redis!Times, Redis!AllStamps, Counted
    <3>3. \A s \in zset'[c] : s <= touched'[c] + Ahead
      BY <1>1, <1>2, <1>3, <3>1, <3>2, RedisConstants DEF RedisInv, Counted
    <3>4. \A p \in passed'[c] : p \in passed[c] \/ p = [at |-> now, stamp |-> stamp]
      BY DEF RedisInv, RedisTyped, Redis!TypeOK
    <3>5. ASSUME NEW p \in passed[c]
          PROVE  /\ p.at <= now /\ p.at - Behind <= p.stamp
                 /\ now < p.at + Window - Behind - Ahead => p.at <= now /\ p.stamp \in zset'[c]
      <4>1. p.at \in Nat /\ p.stamp \in Nat
        BY RedisConstants DEF RedisInv, RedisTyped, Redis!TypeOK, Redis!Times, Redis!AllStamps
      <4>2. /\ p.at <= now /\ p.at - Behind <= p.stamp
            /\ now < p.at + Window - Behind - Ahead => p.at <= touched[c] /\ p.stamp \in zset[c]
        BY DEF RedisInv, Counted
      <4>3. ASSUME now < p.at + Window - Behind - Ahead PROVE p.stamp \in Redis!Kept(c, stamp)
        <5>1. p.at <= touched[c] /\ p.stamp \in zset[c]
          BY <4>2, <4>3
        <5>2. now - touched[c] < KeepAlive
          BY <1>1, <3>2, <4>1, <4>3, <5>1, RedisConstants
        <5>3. p.stamp > stamp - Window
          BY <1>1, <1>2, <4>1, <4>2, <4>3, RedisConstants
        <5>4. QED
          BY <5>1, <5>2, <5>3 DEF Redis!Kept, Redis!Members
      <4>4. QED
        BY <3>1, <4>2, <4>3
    <3>6. QED
      BY <1>1, <1>2, <2>2, <3>1, <3>3, <3>4, <3>5 DEF Counted
  <2>3. QED
    BY <2>1, <2>2
<1>6. QED
  BY <1>4, <1>5 DEF RedisInv

LEMMA RedisKeeps == RedisInv /\ RedisStep => RedisInv'
<1> SUFFICES ASSUME RedisInv, RedisStep PROVE RedisInv'
  OBVIOUS
<1>1. CASE UNCHANGED redis /\ UNCHANGED now
  BY <1>1 DEF RedisInv, RedisTyped, Redis!TypeOK, Counted, redis
<1>2. CASE UNCHANGED redis /\ now' = now + 1 /\ now < MaxTime
  <2>1. now \in Nat /\ now' \in 0 .. MaxTime
    BY <1>2, RedisConstants DEF RedisInv, RedisTyped
  <2>2. RedisTyped'
    BY <1>2, <2>1 DEF RedisInv, RedisTyped, Redis!TypeOK, redis
  <2>3. ASSUME NEW c \in RedisClients PROVE Counted(c)'
    <3>1. touched[c] \in Nat /\ touched[c] <= now /\ UNCHANGED redis
      BY <1>2, RedisConstants DEF RedisInv, RedisTyped, Redis!TypeOK, Redis!Times, Counted
    <3>2. ASSUME NEW p \in passed[c], now' < p.at + Window - Behind - Ahead
          PROVE  now < p.at + Window - Behind - Ahead
      <4>1. p.at \in Nat
        BY RedisConstants DEF RedisInv, RedisTyped, Redis!TypeOK, Redis!Times, Redis!AllStamps
      <4>2. QED
        BY <1>2, <2>1, <3>2, <4>1, RedisConstants
    <3>3. ASSUME NEW p \in passed[c] PROVE p.at <= now'
      <4>1. p.at \in Nat /\ p.at <= now
        BY RedisConstants DEF RedisInv, RedisTyped, Redis!TypeOK, Redis!Times, Redis!AllStamps, Counted
      <4>2. QED
        BY <1>2, <2>1, <4>1
    <3>4. touched[c] <= now'
      BY <1>2, <2>1, <3>1
    <3>5. QED
      BY <3>1, <3>2, <3>3, <3>4 DEF RedisInv, Counted, redis
  <2>4. QED
    BY <2>2, <2>3 DEF RedisInv
<1>3. ASSUME UNCHANGED now, NEW c \in RedisClients, Redis!is_rate_limited(c) PROVE RedisInv'
  <2>1. PICK stamp \in Redis!Stamps :
          Redis!Pass(c, stamp) \/ Redis!Limit(c, stamp) \/ Redis!Lose(c, stamp)
    BY <1>3 DEF Redis!is_rate_limited
  <2>2. QED
    BY <1>3, <2>1, RequestKeeps DEF Redis!Pass, Redis!Limit, Redis!Lose
<1>4. QED
  BY <1>1, <1>2, <1>3 DEF RedisStep

LEMMA RedisAlways == GateSpec => []RedisInv
  BY RedisInitially, RedisKeeps, GateSteps, PTL DEF GateSpec

(***************************************************************************)
(* Silence opens the window of RedisRateLimiter again: a request that      *)
(* comes one window, and the difference of the clocks, after the last one  *)
(* finds nothing to be counted.                                            *)
(***************************************************************************)
THEOREM SilenceHelps == GateSpec => []RedisSilenceReopens
<1>1. RedisInv => RedisSilenceReopens
  <2> SUFFICES ASSUME RedisInv, NEW c \in RedisClients, NEW stamp \in Redis!Stamps,
                        now - touched[c] >= Window + Behind + Ahead
                 PROVE  Redis!Kept(c, stamp) = {}
    BY DEF RedisSilenceReopens, Redis!SilenceReopens
  <2>2. now \in Nat /\ touched[c] \in Nat /\ zset[c] \subseteq Nat /\ stamp \in Nat
        /\ now - Behind <= stamp
    BY RedisConstants
       DEF RedisInv, RedisTyped, Redis!TypeOK, Redis!Times, Redis!AllStamps, Redis!Stamps
  <2>3. \A s \in zset[c] : s <= touched[c] + Ahead
    BY DEF RedisInv, Counted
  <2>4. \A s \in zset[c] : ~(s > stamp - Window)
    BY <2>2, <2>3, RedisConstants
  <2>5. QED
    BY <2>4 DEF Redis!Kept, Redis!Members
<1>2. QED
  BY <1>1, RedisAlways, PTL
-----------------------------------------------------------------------------
LEMMA RedisCardinality == \A S : Redis!Cardinality(S) = Cardinality(S)
  BY DEF Cardinality, Redis!Cardinality

\* What has been let through in a stretch that contains now is still in the set.
LEMMA ThroughIsKept ==
  ASSUME RedisInv, NEW c \in RedisClients, NEW stamp \in Redis!Stamps, NEW t \in Redis!Times,
         now < t + Window - Behind - Ahead
  PROVE  Redis!Through(c, t) \subseteq Redis!Kept(c, stamp)
<1>1. now \in Nat /\ stamp \in Nat /\ stamp <= now + Ahead /\ t \in Nat /\ touched[c] \in Nat
  BY RedisConstants
     DEF RedisInv, RedisTyped, Redis!TypeOK, Redis!Times, Redis!AllStamps, Redis!Stamps
<1>2. ASSUME NEW p \in passed[c], t <= p.at PROVE p.stamp \in Redis!Kept(c, stamp)
  <2>1. p.at \in Nat /\ p.stamp \in Nat
    BY RedisConstants DEF RedisInv, RedisTyped, Redis!TypeOK, Redis!Times, Redis!AllStamps
  <2>2. now < p.at + Window - Behind - Ahead
    BY <1>1, <1>2, <2>1, RedisConstants
  <2>3. p.at - Behind <= p.stamp /\ p.at <= touched[c] /\ p.stamp \in zset[c]
    BY <2>2 DEF RedisInv, Counted
  <2>4. now - touched[c] < KeepAlive
    BY <1>1, <2>1, <2>2, <2>3, RedisConstants
  <2>5. p.stamp > stamp - Window
    BY <1>1, <2>1, <2>2, <2>3, RedisConstants
  <2>6. QED
    BY <2>3, <2>4, <2>5 DEF Redis!Kept, Redis!Members
<1>3. QED
  BY <1>2 DEF Redis!Through

LEMMA KeptFinite ==
  ASSUME RedisInv, NEW c \in RedisClients, NEW stamp
  PROVE  IsFiniteSet(Redis!Kept(c, stamp))
<1>1. Redis!Kept(c, stamp) \subseteq 0 .. MaxTime + Ahead
  BY DEF Redis!Kept, Redis!Members, RedisInv, RedisTyped, Redis!TypeOK, Redis!AllStamps
<1>2. IsFiniteSet(0 .. MaxTime + Ahead)
  BY FS_Interval, RedisConstants
<1>3. QED
  BY <1>1, <1>2, FS_Subset

LEMMA RedisWindowStep == RedisInv /\ RedisWindowRespected /\ RedisStep => RedisWindowRespected'
<1> SUFFICES ASSUME RedisInv, RedisWindowRespected, RedisStep,
                    NEW c \in RedisClients, NEW t \in Redis!Times
             PROVE  Cardinality(Redis!Through(c, t)') <= RPM
  BY RedisCardinality DEF RedisWindowRespected, Redis!WindowRespected
<1>1. Cardinality(Redis!Through(c, t)) <= RPM
  BY RedisCardinality, RedisConstants DEF RedisWindowRespected, Redis!WindowRespected
<1>2. CASE passed'[c] = passed[c]
  BY <1>1, <1>2 DEF Redis!Through
<1>3. ASSUME UNCHANGED now, NEW stamp \in Redis!Stamps, Redis!Pass(c, stamp)
      PROVE  Cardinality(Redis!Through(c, t)') <= RPM
  <2> DEFINE kept == Redis!Kept(c, stamp)
  <2>1. passed'[c] = {p \in passed[c] : p.at > now - Window} \cup {[at |-> now, stamp |-> stamp]}
    BY <1>3 DEF Redis!Pass, RedisInv, RedisTyped, Redis!TypeOK
  <2>2. IsFiniteSet(kept) /\ Cardinality(kept) < RPM /\ Cardinality(kept) \in Nat
    BY <1>3, KeptFinite, RedisCardinality, FS_CardinalityType DEF Redis!Pass
  <2>3. CASE t <= now /\ now < t + Window - Behind - Ahead
    <3>1. Redis!Through(c, t)' \subseteq kept \cup {stamp}
      <4>1. Redis!Through(c, t)' \subseteq Redis!Through(c, t) \cup {stamp}
        BY <2>1 DEF Redis!Through
      <4>2. QED
        BY <2>3, <4>1, ThroughIsKept
    <3>2. IsFiniteSet(kept \cup {stamp}) /\ Cardinality(kept \cup {stamp}) <= Cardinality(kept) + 1
      BY <2>2, FS_AddElement
    <3>3. /\ Cardinality(Redis!Through(c, t)') <= Cardinality(kept \cup {stamp})
          /\ Cardinality(Redis!Through(c, t)') \in Nat /\ Cardinality(kept \cup {stamp}) \in Nat
      BY <3>1, <3>2, FS_Subset, FS_CardinalityType
    <3>4. QED
      BY <2>2, <3>2, <3>3, RedisConstants
  <2>4. CASE ~(t <= now /\ now < t + Window - Behind - Ahead)
    <3>1. Redis!Through(c, t)' \subseteq Redis!Through(c, t)
      BY <2>1, <2>4 DEF Redis!Through
    <3>2. IsFiniteSet(Redis!Through(c, t))
      <4>1. \A p \in passed[c] : p.stamp \in Redis!AllStamps
        BY DEF RedisInv, RedisTyped, Redis!TypeOK
      <4>2. Redis!Through(c, t) \subseteq 0 .. MaxTime + Ahead
        BY <4>1 DEF Redis!Through, Redis!AllStamps
      <4>3. IsFiniteSet(0 .. MaxTime + Ahead)
        BY FS_Interval, RedisConstants
      <4>4. QED
        BY <4>2, <4>3, FS_Subset
    <3>3. /\ Cardinality(Redis!Through(c, t)') <= Cardinality(Redis!Through(c, t))
          /\ Cardinality(Redis!Through(c, t)') \in Nat /\ Cardinality(Redis!Through(c, t)) \in Nat
      BY <3>1, <3>2, FS_Subset, FS_CardinalityType
    <3>4. QED
      BY <1>1, <3>3, RedisConstants
  <2>5. QED
    BY <2>3, <2>4
<1>4. ASSUME UNCHANGED now, NEW d \in RedisClients, Redis!is_rate_limited(d)
      PROVE  Cardinality(Redis!Through(c, t)') <= RPM
  <2>1. PICK stamp \in Redis!Stamps :
          Redis!Pass(d, stamp) \/ Redis!Limit(d, stamp) \/ Redis!Lose(d, stamp)
    BY <1>4 DEF Redis!is_rate_limited
  <2>2. CASE Redis!Pass(d, stamp) /\ c = d
    BY <1>3, <1>4, <2>2
  <2>3. CASE Redis!Pass(d, stamp) /\ c # d
    <3>1. passed'[c] = passed[c]
      BY <2>3 DEF Redis!Pass, RedisInv, RedisTyped, Redis!TypeOK
    <3>2. QED
      BY <1>2, <3>1
  <2>4. CASE Redis!Limit(d, stamp) \/ Redis!Lose(d, stamp)
    BY <1>2, <2>4 DEF Redis!Limit, Redis!Lose
  <2>5. QED
    BY <2>1, <2>2, <2>3, <2>4
<1>5. QED
  BY <1>2, <1>4 DEF RedisStep, redis

(***************************************************************************)
(* RedisRateLimiter lets requests of at most RPM different stamps through  *)
(* in a stretch shorter than the window by the difference of the clocks,   *)
(* for every limit, window, and difference, and any number of workers that *)
(* lose connections and add the requests they refuse.                      *)
(***************************************************************************)
THEOREM RedisWindowSafe == GateSpec => []RedisWindowRespected
<1>1. GateInit => RedisWindowRespected
  <2>1. ASSUME GateInit, NEW c \in RedisClients, NEW t \in Redis!Times
        PROVE  Cardinality(Redis!Through(c, t)) <= RPM
    <3>1. Redis!Through(c, t) = {}
      BY <2>1 DEF GateInit, Redis!Init, Redis!Through
    <3>2. QED
      BY <3>1, FS_EmptySet, RedisConstants
  <2>2. QED
    BY <2>1, RedisCardinality DEF RedisWindowRespected, Redis!WindowRespected
<1>2. RedisInv /\ RedisWindowRespected /\ [GateNext]_gateVars => RedisWindowRespected'
  BY GateSteps, RedisWindowStep
<1>3. QED
  BY <1>1, <1>2, RedisAlways, PTL DEF GateSpec
-----------------------------------------------------------------------------
\* What is left of the type invariant.
Fixed == limiter \in {"memory", "redis"} /\ edits \in 0 .. MaxEdits

LEMMA FixedStep == Fixed /\ [GateNext]_gateVars => Fixed'
<1> SUFFICES ASSUME Fixed, [GateNext]_gateVars PROVE Fixed'
  OBVIOUS
<1>1. CASE Edit
  BY <1>1, GateAssumption DEF Edit, Fixed
<1>2. CASE UNCHANGED <<limiter, edits>>
  BY <1>2 DEF Fixed
<1>3. QED
  BY <1>1, <1>2
     DEF GateNext, Health, Exempt, TenantEnters, AnyoneEnters, Denied, Time, gateVars

(***************************************************************************)
(* The variables of the gate keep their types, for any number of clients,  *)
(* tokens and versions of tenants.json.                                    *)
(***************************************************************************)
THEOREM GateTyping == GateSpec => []GateTypeOK
<1>1. GateInit => Fixed
  BY GateAssumption DEF GateInit, Fixed
<1>2. TypeOK /\ RedisInv /\ Recognised /\ Fixed => GateTypeOK
  BY DEF RedisInv, RedisTyped, Recognised, Fixed, GateTypeOK
<1>3. GateSpec => []TypeOK
  BY GateIsLimiter, LimiterTyping
<1>4. QED
  BY <1>1, <1>2, <1>3, FixedStep, RedisAlways, RecognisedAlways, PTL DEF GateSpec
=============================================================================
