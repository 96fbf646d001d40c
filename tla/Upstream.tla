------------------------------ MODULE Upstream ------------------------------
(***************************************************************************)
(* A backend with several URLs, as one worker sees it: resolve() of        *)
(* proxy/router.py has proxy/loadbalancer.py pick a URL for every request, *)
(* request_with_retry (module Retry) calls that one URL until it answers   *)
(* or gives up, and the handler then records how long that took.           *)
(*                                                                         *)
(* The URL is picked before the request is checked: a request that is then *)
(* refused, blocked or answered from the cache has had its turn.  The      *)
(* balancer awaits nothing, so calls that overlap in time come to it one   *)
(* after the other, as they do here.                                       *)
(***************************************************************************)
EXTENDS Retry

CONSTANTS
    NumUrls,    \* len(urls)
    Latency,    \* per URL, how long a call takes that succeeds
    Strategies, \* values of "strategy"
    MaxPicks    \* bound of the model

ASSUME UpstreamAssumption ==
    /\ NumUrls \in Nat \ {0, 1}
    /\ Latency \in [1 .. NumUrls -> Nat]
    /\ Strategies \subseteq {"round_robin", "least_latency", "random"}
    /\ MaxPicks \in Nat

VARIABLES
    strategy,
    counter,    \* _rr_counters of the backend
    stats,      \* _url_stats
    url,        \* the URL of the current call
    recorded,   \* whether its latency is recorded
    picks       \* history: how often each URL was picked

balancer == <<strategy, counter, stats, url, recorded, picks>>
upstreamVars == <<vars, balancer>>

Urls == 1 .. NumUrls

\* The key of a statistic: a URL as configured, or with the path of a request.
StatKeys == {"base", "full"} \X Urls

UpstreamTypeOK ==
    /\ TypeOK
    /\ strategy \in Strategies
    /\ counter \in Nat
    /\ stats \in [StatKeys -> [count : Nat, total : Nat]]
    /\ url \in Urls
    /\ recorded \in BOOLEAN
    /\ picks \in [Urls -> Nat]

UpstreamInit ==
    /\ Init
    /\ strategy \in Strategies
    /\ counter = IF strategy = "round_robin" THEN 1 ELSE 0
    /\ stats = [k \in StatKeys |-> [count |-> 0, total |-> 0]]
    /\ url = 1 /\ recorded = FALSE
    /\ picks = [u \in Urls |-> IF u = 1 THEN 1 ELSE 0]
-----------------------------------------------------------------------------
Looked(u) == stats[<<"base", u>>]

Faster(u, v) == Looked(u).total * Looked(v).count < Looked(v).total * Looked(u).count

\* Mutated form of RoundRobin: the last URL has no turn.
RoundRobinButLast == (counter % (NumUrls - 1)) + 1

RoundRobin == (counter % NumUrls) + 1

\* The first URL without a statistic, else the first of the fastest.
LeastLatency ==
    LET untested == {u \in Urls : Looked(u).count = 0}
        fastest == {u \in Urls : \A v \in Urls : ~Faster(v, u)}
        candidates == IF untested # {} THEN untested ELSE fastest
    IN CHOOSE u \in candidates : \A v \in candidates : u <= v

\* pick_url
Picked ==
    CASE strategy = "random" -> Urls
      [] strategy = "least_latency" -> {LeastLatency}
      [] OTHER -> {RoundRobin}

Pick(u) ==
    /\ u \in Picked
    /\ picks[u] < MaxPicks
    /\ picks' = [picks EXCEPT ![u] = @ + 1]
    /\ counter' = IF strategy = "round_robin" THEN counter + 1 ELSE counter
    /\ UNCHANGED <<strategy, stats>>

\* A request is resolved and goes no further.
Skip(u) == Pick(u) /\ UNCHANGED <<vars, url, recorded>>

\* A request is resolved and forwarded, after the latency of the call before.
Call(u) ==
    /\ phase = "returned" => recorded
    /\ Over
    /\ Pick(u)
    /\ url' = u /\ recorded' = FALSE
    /\ phase' = "sending" /\ attempt' = 0 /\ wait' = 0 /\ result' = "none"
    /\ banned' = 0 /\ executed' = 0 /\ unanswered' = 0

\* The URL with the path of the request.
Recorded(u) == <<"full", u>>

\* record_latency, which a call that raised does not reach.
Record ==
    /\ phase = "returned" /\ ~recorded
    /\ recorded' = TRUE
    /\ stats' = [stats EXCEPT ![Recorded(url)] =
                     [count |-> @.count + 1, total |-> @.total + Latency[url]]]
    /\ UNCHANGED <<vars, strategy, counter, url, picks>>

During(A) == A /\ UNCHANGED balancer

UpstreamNext ==
    \/ \E u \in Urls : Skip(u) \/ Call(u)
    \/ Record
    \/ During(Attempt) \/ During(Wake) \/ During(Second)

UpstreamSpec == UpstreamInit /\ [][UpstreamNext]_upstreamVars

\* The fairness of Retry; no request has to come.
FairUpstream ==
    /\ UpstreamSpec
    /\ WF_upstreamVars(During(Attempt))
    /\ WF_upstreamVars(During(Wake))
    /\ WF_upstreamVars(During(Second))
-----------------------------------------------------------------------------
(***************************************************************************)
(* Round robin gives every URL its turn, in order, whatever becomes of the *)
(* calls: no URL is ever two turns ahead of another.  A turn need not lead *)
(* to a call: a request may be refused, or answered from the cache, after  *)
(* it had its URL picked.                                                  *)
(***************************************************************************)
TurnsEven ==
    strategy = "round_robin" =>
        \A u, v \in Urls : u < v => picks[u] - picks[v] \in {0, 1}
-----------------------------------------------------------------------------
(***************************************************************************)
(* What is known of a URL, under whichever key it was recorded.            *)
(***************************************************************************)
Count(u) == stats[<<"base", u>>].count + stats[<<"full", u>>].count
Total(u) == stats[<<"base", u>>].total + stats[<<"full", u>>].total

(***************************************************************************)
(* README.md:62 promises a "least-latency" strategy, and the comment in    *)
(* loadbalancer.py:36 says "untested URL gets priority": the URL picked    *)
(* has not been measured yet, or all have been and none is faster.  The    *)
(* code records latencies under the URL of the request and looks them up   *)
(* under the URL of the configuration, so the first URL looks untested for *)
(* ever, and is picked again.                                              *)
(***************************************************************************)
FastestPicked ==
    [][strategy = "least_latency" =>
          \A u \in Urls : picks'[u] > picks[u] =>
              \/ Count(u) = 0
              \/ \A v \in Urls : Count(v) > 0 /\ Total(u) * Count(v) <= Total(v) * Count(u)]_upstreamVars
=============================================================================
