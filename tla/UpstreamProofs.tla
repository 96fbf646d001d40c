--------------------------- MODULE UpstreamProofs ---------------------------
(***************************************************************************)
(* The retries of one call, for any number of attempts, any backoff and    *)
(* any retry-after header; and the load balancer that makes such calls,    *)
(* for any number of URLs, any latencies and any number of requests that   *)
(* stop half way.                                                          *)
(***************************************************************************)
EXTENDS Upstream, SubsequenceProofs

(***************************************************************************)
(* A sleep lasts at least as long as the backend asked for; before the     *)
(* next attempt every execution is one of an attempt that timed out; and   *)
(* there are no more timeouts than attempts.                               *)
(***************************************************************************)
Counted ==
    /\ phase = "sending" => banned = 0 /\ executed <= unanswered /\ unanswered <= attempt
    /\ phase = "sleeping" =>
          /\ banned <= wait /\ attempt < MaxRetries
          /\ executed <= unanswered /\ unanswered <= attempt + 1
    /\ phase \in {"returned", "raised"} =>
          /\ executed <= unanswered + 1 /\ executed <= attempt + 1
          /\ unanswered <= attempt + 1
          /\ result \in {"refusal", "timeout"} => attempt = MaxRetries

(***************************************************************************)
(* Backoffs is a recursive function.  There is one that is defined like it *)
(* up to every m, so it is what its definition says, and from there, by    *)
(* induction, a number at every attempt.                                   *)
(***************************************************************************)
Doubles(f, m) == f = [n \in 0 .. m |-> IF n = 0 THEN Base ELSE 2 * f[n - 1]]

LEMMA DoublesExists ==
  ASSUME NEW m \in Nat
  PROVE  \E f : Doubles(f, m)
<1> DEFINE N == {k \in Nat : \E f : Doubles(f, k)}
<1>1. 0 \in N
  <2>1. Doubles([n \in 0 .. 0 |-> Base], 0)
    BY DEF Doubles
  <2>2. QED
    BY <2>1
<1>2. ASSUME NEW k \in N PROVE k + 1 \in N
  <2>1. PICK f : Doubles(f, k)
    OBVIOUS
  <2> DEFINE h == [n \in 0 .. k + 1 |-> IF n = 0 THEN Base ELSE 2 * f[n - 1]]
  <2>2. \A n \in 0 .. k : h[n] = f[n]
    <3>1. \A n \in 0 .. k : f[n] = IF n = 0 THEN Base ELSE 2 * f[n - 1]
      BY <2>1 DEF Doubles
    <3>2. \A n \in 0 .. k : n \in 0 .. k + 1
      OBVIOUS
    <3>3. QED
      BY <3>1, <3>2
  <2>3. \A n \in 0 .. k + 1 : n = 0 \/ n - 1 \in 0 .. k
    OBVIOUS
  <2>4. Doubles(h, k + 1)
    BY <2>2, <2>3 DEF Doubles
  <2>5. QED
    BY <2>4
<1>3. N = Nat
  <2> HIDE DEF N
  <2>1. N \in SUBSET Nat
    BY DEF N
  <2>2. QED
    BY <1>1, <1>2, <2>1, Induction
<1>4. QED
  BY <1>3

LEMMA BackoffsAreNumbers == \A n \in 0 .. MaxRetries : Backoffs[n] \in Nat
<1> DEFINE N == {n \in Nat : n <= MaxRetries => Backoffs[n] \in Nat}
<1>1. Doubles(Backoffs, MaxRetries)
  BY DoublesExists, RetryAssumption DEF Backoffs, Doubles
<1>2. \A n \in 0 .. MaxRetries : Backoffs[n] = IF n = 0 THEN Base ELSE 2 * Backoffs[n - 1]
  BY <1>1 DEF Doubles
<1>3. 0 \in N
  BY <1>2, RetryAssumption
<1>4. ASSUME NEW n \in N PROVE n + 1 \in N
  BY <1>2, RetryAssumption
<1>5. N = Nat
  <2> HIDE DEF N
  <2>1. N \in SUBSET Nat
    BY DEF N
  <2>2. QED
    BY <1>3, <1>4, <2>1, Induction
<1>6. QED
  BY <1>5, RetryAssumption

\* Both pauses are numbers, and none is shorter than the header asks.
LEMMA PauseType ==
  ASSUME TypeOK
  PROVE  /\ Backoff \in Nat
         /\ \A after \in RetryAfters \cup {NoHeader} :
                /\ Pause(after) \in Nat
                /\ after # NoHeader => after \in Nat /\ after <= Pause(after)
<1>1. Backoff \in Nat
  BY BackoffsAreNumbers DEF TypeOK, Backoff
<1>2. QED
  BY <1>1, RetryAssumption DEF Pause, Larger

\* Every attempt keeps the types and the counts.
LEMMA AttemptStep == TypeOK /\ Counted /\ Attempt => TypeOK' /\ Counted'
<1> SUFFICES ASSUME TypeOK, Counted, Attempt PROVE TypeOK' /\ Counted'
  OBVIOUS
<1>1. /\ attempt \in Nat /\ attempt <= MaxRetries /\ MaxRetries \in Nat
      /\ wait \in Nat /\ banned \in Nat /\ executed \in Nat /\ unanswered \in Nat
  BY RetryAssumption DEF TypeOK
<1>2. ASSUME NEW after \in RetryAfters \cup {NoHeader}, Refused(after)
      PROVE  TypeOK' /\ Counted'
  <2>1. /\ Pause(after) \in Nat
        /\ banned' \in Nat /\ banned' <= Pause(after)
    BY <1>2, PauseType DEF Refused
  <2>2. CASE MayRetry
    BY <1>1, <1>2, <2>1, <2>2 DEF Refused, MayRetry, Sleep, TypeOK, Counted, Phases, Results
  <2>3. CASE ~MayRetry
    BY <1>1, <1>2, <2>1, <2>3 DEF Refused, MayRetry, End, TypeOK, Counted, Phases, Results
  <2>4. QED
    BY <2>2, <2>3
<1>3. CASE Responded
  BY <1>1, <1>3 DEF Responded, End, TypeOK, Counted, Phases, Results
<1>4. CASE TimedOut
  <2>1. Backoff \in Nat
    BY PauseType
  <2>2. CASE MayRetry
    BY <1>1, <1>4, <2>1, <2>2 DEF TimedOut, MayRetry, Sleep, TypeOK, Counted, Phases, Results
  <2>3. CASE ~MayRetry
    BY <1>1, <1>4, <2>3 DEF TimedOut, MayRetry, End, TypeOK, Counted, Phases, Results
  <2>4. QED
    BY <2>2, <2>3
<1>5. CASE Disconnected
  BY <1>1, <1>5 DEF Disconnected, End, TypeOK, Counted, Phases, Results
<1>6. QED
  BY <1>2, <1>3, <1>4, <1>5 DEF Attempt

\* Every step keeps both.
LEMMA CountedStep == TypeOK /\ Counted /\ [Next]_vars => TypeOK' /\ Counted'
<1> SUFFICES ASSUME TypeOK, Counted, [Next]_vars PROVE TypeOK' /\ Counted'
  OBVIOUS
<1>1. /\ attempt \in Nat /\ attempt <= MaxRetries /\ MaxRetries \in Nat
      /\ wait \in Nat /\ banned \in Nat /\ executed \in Nat /\ unanswered \in Nat
  BY RetryAssumption DEF TypeOK
<1>2. CASE Attempt
  BY <1>2, AttemptStep
<1>3. CASE Wake
  BY <1>1, <1>3 DEF Wake, TypeOK, Counted, Phases
<1>4. CASE Second
  BY <1>1, <1>4 DEF Second, Larger, TypeOK, Counted
<1>5. CASE UNCHANGED vars
  BY <1>5 DEF vars, TypeOK, Counted
<1>6. QED
  BY <1>2, <1>3, <1>4, <1>5 DEF Next

\* The invariant the theorems rest on.
LEMMA AlwaysCounted == Spec => [](TypeOK /\ Counted)
<1>1. Init => TypeOK /\ Counted
  BY RetryAssumption DEF Init, TypeOK, Counted, Phases, Results
<1>2. QED
  BY <1>1, CountedStep, PTL DEF Spec

(***************************************************************************)
(* Type correctness: there are never more attempts than configured, and    *)
(* never a sleep of a negative length.                                     *)
(***************************************************************************)
THEOREM RetryTyping == Spec => []TypeOK
  BY AlwaysCounted, PTL

(***************************************************************************)
(* No backend is called before the time it asked for.                      *)
(***************************************************************************)
THEOREM HonoursRetryAfter == Spec => []RetryAfterHonoured
<1>1. Counted => RetryAfterHonoured
  BY DEF Counted, RetryAfterHonoured
<1>2. QED
  BY <1>1, AlwaysCounted, PTL

(***************************************************************************)
(* No backend carries out a request again that it refused or answered.     *)
(***************************************************************************)
THEOREM RepeatsOnlyUnanswered == Spec => []RepeatedOnlyUnanswered
<1>1. TypeOK /\ Counted => RepeatedOnlyUnanswered
  BY DEF TypeOK, Counted, RepeatedOnlyUnanswered, Phases
<1>2. QED
  BY <1>1, AlwaysCounted, PTL

(***************************************************************************)
(* The caller learns of refusals and timeouts only after the last attempt. *)
(***************************************************************************)
THEOREM GivesUpOnlyLast == Spec => []GivesUpLast
<1>1. Counted => GivesUpLast
  BY DEF Counted, GivesUpLast
<1>2. QED
  BY <1>1, AlwaysCounted, PTL
-----------------------------------------------------------------------------
\* Every step of a call is one of Retry; a new call begins as its Init says.
LEMMA CallSteps == [UpstreamNext]_upstreamVars => [Next]_vars \/ Init'
<1>1. SUFFICES ASSUME [UpstreamNext]_upstreamVars PROVE [Next]_vars \/ Init'
  OBVIOUS
<1>2. ASSUME NEW u \in Urls, Call(u) PROVE Init'
  BY <1>2 DEF Call, Init
<1>3. QED
  BY <1>1, <1>2 DEF UpstreamNext, Skip, Record, During, Next, upstreamVars

LEMMA InitCounted == Init => TypeOK /\ Counted
  BY RetryAssumption DEF Init, TypeOK, Counted, Phases, Results

LEMMA CallsCounted == UpstreamSpec => [](TypeOK /\ Counted)
<1>1. UpstreamInit => TypeOK /\ Counted
  BY InitCounted DEF UpstreamInit
<1>2. Init' => TypeOK' /\ Counted'
  BY InitCounted, PTL
<1>3. TypeOK /\ Counted /\ [UpstreamNext]_upstreamVars => TypeOK' /\ Counted'
  BY <1>2, CallSteps, CountedStep
<1>4. QED
  BY <1>1, <1>3, PTL DEF UpstreamSpec

(***************************************************************************)
(* One call after the other, whichever URL it goes to: no backend is       *)
(* called before the time it asked for, ...                                *)
(***************************************************************************)
THEOREM UpstreamHonoursRetryAfter == UpstreamSpec => []RetryAfterHonoured
<1>1. Counted => RetryAfterHonoured
  BY DEF Counted, RetryAfterHonoured
<1>2. QED
  BY <1>1, CallsCounted, PTL

(***************************************************************************)
(* ... carries out a request again that it refused or answered, ...        *)
(***************************************************************************)
THEOREM UpstreamRepeatsOnlyUnanswered == UpstreamSpec => []RepeatedOnlyUnanswered
<1>1. TypeOK /\ Counted => RepeatedOnlyUnanswered
  BY DEF TypeOK, Counted, RepeatedOnlyUnanswered, Phases
<1>2. QED
  BY <1>1, CallsCounted, PTL

(***************************************************************************)
(* ... or is given up before the last attempt.                             *)
(***************************************************************************)
THEOREM UpstreamGivesUpOnlyLast == UpstreamSpec => []GivesUpLast
<1>1. Counted => GivesUpLast
  BY DEF Counted, GivesUpLast
<1>2. QED
  BY <1>1, CallsCounted, PTL
-----------------------------------------------------------------------------
\* The types of the balancer's own state.
BalancerTyped ==
    /\ strategy \in Strategies
    /\ counter \in Nat
    /\ stats \in [StatKeys -> [count : Nat, total : Nat]]
    /\ url \in Urls
    /\ recorded \in BOOLEAN
    /\ picks \in [Urls -> Nat]

LEMMA BalancerInit == UpstreamInit => BalancerTyped
<1>1. SUFFICES ASSUME UpstreamInit PROVE BalancerTyped
  OBVIOUS
<1>2. 1 \in Urls
  BY UpstreamAssumption DEF Urls
<1>3. strategy \in Strategies /\ counter \in Nat /\ url \in Urls /\ recorded \in BOOLEAN
  BY <1>1, <1>2 DEF UpstreamInit
<1>4. stats \in [StatKeys -> [count : Nat, total : Nat]]
  BY <1>1 DEF UpstreamInit
<1>5. picks \in [Urls -> Nat]
  BY <1>1 DEF UpstreamInit
<1>6. QED
  BY <1>3, <1>4, <1>5 DEF BalancerTyped

LEMMA PickTyped ==
  ASSUME BalancerTyped, NEW u \in Urls, Pick(u)
  PROVE  /\ counter' \in Nat /\ picks' \in [Urls -> Nat]
         /\ strategy' = strategy /\ stats' = stats
  BY DEF BalancerTyped, Pick

LEMMA BalancerStep == BalancerTyped /\ [UpstreamNext]_upstreamVars => BalancerTyped'
<1> SUFFICES ASSUME BalancerTyped, [UpstreamNext]_upstreamVars PROVE BalancerTyped'
  OBVIOUS
<1>1. ASSUME NEW u \in Urls, Skip(u) PROVE BalancerTyped'
  BY <1>1, PickTyped DEF Skip, BalancerTyped
<1>2. ASSUME NEW u \in Urls, Call(u) PROVE BalancerTyped'
  BY <1>2, PickTyped DEF Call, BalancerTyped
<1>3. CASE Record
  <2>1. Recorded(url) \in StatKeys /\ Latency[url] \in Nat
    BY UpstreamAssumption DEF BalancerTyped, Recorded, StatKeys, Urls
  <2>2. stats' \in [StatKeys -> [count : Nat, total : Nat]]
    BY <1>3, <2>1 DEF Record, BalancerTyped
  <2>3. QED
    BY <1>3, <2>2 DEF Record, BalancerTyped
<1>4. CASE UNCHANGED balancer
  BY <1>4 DEF balancer, BalancerTyped
<1>5. QED
  BY <1>1, <1>2, <1>3, <1>4 DEF UpstreamNext, During, upstreamVars

(***************************************************************************)
(* Type correctness of the balancer and of the calls it distributes.       *)
(***************************************************************************)
THEOREM UpstreamTyping == UpstreamSpec => []UpstreamTypeOK
<1>1. TypeOK /\ BalancerTyped => UpstreamTypeOK
  BY DEF BalancerTyped, UpstreamTypeOK
<1>2. QED
  BY <1>1, CallsCounted, BalancerInit, BalancerStep, PTL DEF UpstreamSpec
-----------------------------------------------------------------------------
\* Division with a remainder, as far as a counter needs it.
LEMMA Division ==
  ASSUME NEW c \in Nat, NEW n \in Nat \ {0}
  PROVE  c % n \in 0 .. n - 1 /\ c \div n \in Int /\ c = n * (c \div n) + (c % n)
<1>1. c % n \in 0 .. n - 1
  BY Z3
<1>2. c \div n \in Int
  BY SMT
<1>3. c = n * (c \div n) + (c % n)
  BY Z3
<1>4. QED
  BY <1>1, <1>2, <1>3

LEMMA Multiple == ASSUME NEW n \in Nat \ {0}, NEW k \in Int, k >= 1 PROVE n * k >= n
  BY Z3

LEMMA OneRemainder ==
  ASSUME NEW n \in Nat \ {0}, NEW a \in Int, NEW b \in Int,
         NEW r \in 0 .. n - 1, NEW s \in 0 .. n - 1, n * a + r = n * b + s
  PROVE  r = s
<1>1. n * (a - b) = s - r /\ n * (b - a) = r - s
  BY Z3
<1>2. CASE a - b >= 1
  BY <1>1, <1>2, Multiple
<1>3. CASE b - a >= 1
  BY <1>1, <1>3, Multiple
<1>4. CASE a = b
  BY <1>1, <1>4, Z3
<1>5. QED
  BY <1>2, <1>3, <1>4

LEMMA NextRemainder ==
  ASSUME NEW c \in Nat, NEW n \in Nat \ {0}
  PROVE  (c + 1) % n = IF c % n = n - 1 THEN 0 ELSE (c % n) + 1
<1> DEFINE r == c % n
           q == c \div n
           s == (c + 1) % n
           p == (c + 1) \div n
<1>1. r \in 0 .. n - 1 /\ s \in 0 .. n - 1 /\ q \in Int /\ p \in Int
  BY Division
<1>2. c = n * q + r /\ c + 1 = n * p + s
  BY Division
<1> HIDE DEF r, q, s, p
<1>3. CASE r = n - 1
  <2>1. n * (q + 1) + 0 = n * p + s
    BY <1>1, <1>2, <1>3, Z3
  <2>2. 0 = s
    BY <1>1, <2>1, OneRemainder
  <2>3. QED
    BY <1>1, <1>3, <2>2 DEF r, s
<1>4. CASE r # n - 1
  <2>1. n * q + (r + 1) = n * p + s
    BY <1>1, <1>2, <1>4, Z3
  <2>2. r + 1 = s
    BY <1>1, <1>4, <2>1, OneRemainder
  <2>3. QED
    BY <1>1, <1>4, <2>2 DEF r, s
<1>5. QED
  BY <1>3, <1>4
-----------------------------------------------------------------------------
\* Some rounds are complete, and the URLs up to the counter have had their turn in the next.
Even ==
    strategy = "round_robin" =>
        \E q \in Nat : \A u \in Urls : picks[u] = IF u <= counter % NumUrls THEN q + 1 ELSE q

LEMMA EvenInit == UpstreamInit => Even
<1>1. SUFFICES ASSUME UpstreamInit, strategy = "round_robin" PROVE Even
  BY DEF Even
<1>2. 0 % NumUrls = 0
  <2>1. /\ 0 % NumUrls \in 0 .. NumUrls - 1 /\ 0 \div NumUrls \in Int
        /\ 0 = NumUrls * (0 \div NumUrls) + (0 % NumUrls)
    BY UpstreamAssumption, Division
  <2>2. NumUrls * 0 + 0 = 0 /\ 0 \in 0 .. NumUrls - 1
    BY UpstreamAssumption, Z3
  <2>3. QED
    BY <2>1, <2>2, UpstreamAssumption, OneRemainder
<1>3. (0 + 1) % NumUrls = IF 0 % NumUrls = NumUrls - 1 THEN 0 ELSE (0 % NumUrls) + 1
  <2>1. 0 \in Nat /\ NumUrls \in Nat \ {0}
    BY UpstreamAssumption
  <2>2. QED
    BY <2>1, NextRemainder
<1>4. counter % NumUrls = 1
  <2>1. NumUrls - 1 # 0 /\ 0 + 1 = 1
    BY UpstreamAssumption
  <2>2. (0 + 1) % NumUrls = 0 + 1
    BY <1>2, <1>3, <2>1, Zenon
  <2>3. counter = 1
    BY <1>1 DEF UpstreamInit
  <2>4. QED
    BY <2>1, <2>2, <2>3, Zenon
<1>5. \A u \in Urls : picks[u] = IF u <= counter % NumUrls THEN 0 + 1 ELSE 0
  BY <1>1, <1>4, UpstreamAssumption DEF UpstreamInit, Urls
<1>6. QED
  BY <1>5 DEF Even

LEMMA EvenStep == BalancerTyped /\ Even /\ [UpstreamNext]_upstreamVars => Even'
<1> SUFFICES ASSUME BalancerTyped, Even, [UpstreamNext]_upstreamVars, strategy' = "round_robin"
             PROVE  \E q \in Nat : \A u \in Urls :
                        picks'[u] = IF u <= counter' % NumUrls THEN q + 1 ELSE q
  BY DEF Even
<1>1. strategy = "round_robin"
  BY DEF UpstreamNext, Skip, Call, Pick, Record, During, upstreamVars, balancer
<1>2. PICK q \in Nat : \A u \in Urls : picks[u] = IF u <= counter % NumUrls THEN q + 1 ELSE q
  BY <1>1 DEF Even
<1>3. ASSUME NEW v \in Urls, Pick(v)
      PROVE  \E p \in Nat : \A u \in Urls :
                 picks'[u] = IF u <= counter' % NumUrls THEN p + 1 ELSE p
  <2> DEFINE r == counter % NumUrls
  <2>1. r \in 0 .. NumUrls - 1 /\ v = r + 1 /\ counter' = counter + 1
    BY <1>1, <1>3, UpstreamAssumption, Division DEF BalancerTyped, Pick, Picked, RoundRobin
  <2>2. counter' % NumUrls = IF r = NumUrls - 1 THEN 0 ELSE r + 1
    BY <2>1, UpstreamAssumption, NextRemainder DEF BalancerTyped
  <2>3. \A u \in Urls : picks'[u] = IF u = v THEN picks[u] + 1 ELSE picks[u]
    BY <1>3 DEF BalancerTyped, Pick
  <2> HIDE DEF r
  <2>4. \A u \in Urls : picks[u] = IF u <= r THEN q + 1 ELSE q
    BY <1>2 DEF r
  <2>5. CASE r = NumUrls - 1
    <3>1. \A u \in Urls : picks'[u] = IF u <= counter' % NumUrls THEN (q + 1) + 1 ELSE q + 1
      BY <2>1, <2>2, <2>3, <2>4, <2>5, UpstreamAssumption DEF Urls
    <3>2. QED
      BY <3>1
  <2>6. CASE r # NumUrls - 1
    <3>1. \A u \in Urls : picks'[u] = IF u <= counter' % NumUrls THEN q + 1 ELSE q
      BY <2>1, <2>2, <2>3, <2>4, <2>6, UpstreamAssumption DEF Urls
    <3>2. QED
      BY <3>1
  <2>7. QED
    BY <2>5, <2>6
<1>4. CASE UNCHANGED <<picks, counter>>
  BY <1>2, <1>4
<1>5. QED
  BY <1>3, <1>4 DEF UpstreamNext, Skip, Call, Record, During, upstreamVars, balancer

(***************************************************************************)
(* Round robin is fair to any number of URLs, whatever becomes of the      *)
(* requests that took a turn.                                              *)
(***************************************************************************)
THEOREM TurnsAlwaysEven == UpstreamSpec => []TurnsEven
<1>1. BalancerTyped /\ Even => TurnsEven
  <2> SUFFICES ASSUME BalancerTyped, Even, strategy = "round_robin",
                      NEW u \in Urls, NEW v \in Urls, u < v
               PROVE  picks[u] - picks[v] \in {0, 1}
    BY DEF TurnsEven
  <2>1. PICK q \in Nat : \A w \in Urls : picks[w] = IF w <= counter % NumUrls THEN q + 1 ELSE q
    BY DEF Even
  <2>2. counter % NumUrls \in Int
    BY UpstreamAssumption, Division DEF BalancerTyped
  <2>3. QED
    BY <2>1, <2>2 DEF Urls
<1>2. QED
  BY <1>1, EvenInit, EvenStep, BalancerInit, BalancerStep, PTL DEF UpstreamSpec
=============================================================================
