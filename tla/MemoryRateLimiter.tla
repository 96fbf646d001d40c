------------------------- MODULE MemoryRateLimiter -------------------------
(***************************************************************************)
(* MemoryRateLimiter of proxy/ratelimit.py and the middleware that asks    *)
(* it.  The limiter keeps a list of time stamps per client and removes the *)
(* old ones only when that client asks again; nothing but the length of    *)
(* the list and the age of its stamps is ever looked at, so a set of       *)
(* numbered stamps stands for it.                                          *)
(*                                                                         *)
(* is_rate_limited awaits nothing, so a request is judged in one step of   *)
(* the event loop.  The clock only advances.                               *)
(***************************************************************************)
EXTENDS Integers, FiniteSets

CONSTANTS Clients, Window, RPM,
          MaxTime, MaxAdmitted      \* bounds of the model

ASSUME LimiterAssumption ==
    /\ Window \in Nat \ {0}
    /\ RPM \in Int
    /\ MaxTime \in Nat /\ MaxAdmitted \in Nat

VARIABLES
    requests,   \* _requests
    now,        \* time.time()
    verdict,    \* to whom dispatch() last spoke, and whether it let the request pass
    admitted    \* history: the stamps of all requests that were counted

vars == <<requests, now, verdict, admitted>>

Promise == INSTANCE SlidingWindow

Stamps == [t : 0 .. MaxTime, n : 1 .. MaxAdmitted]
Verdicts == Clients \X BOOLEAN

TypeOK ==
    /\ requests \in [Clients -> SUBSET Stamps]
    /\ admitted \in [Clients -> SUBSET Stamps]
    /\ now \in 0 .. MaxTime
    /\ verdict \in Verdicts \cup {<<>>}

Init ==
    /\ requests = [c \in Clients |-> {}]
    /\ now = 0
    /\ verdict = <<>>
    /\ admitted = [c \in Clients |-> {}]

\* Mutated form of Pruned: the list starts afresh at every full Window.
PrunedByMinute(c) == {s \in requests[c] : s.t \div Window = now \div Window}

\* Mutated form of Pruned: a stamp of exactly one Window ago still counts.
PrunedAfterwards(c) == {s \in requests[c] : s.t >= now - Window}

\* The stamps of c that are still in the window.
Pruned(c) == {s \in requests[c] : s.t > now - Window}

\* dispatch() asks the limiter unless there is no limit or the path is /health.
Bypass(c) ==
    /\ Promise!Says(c, TRUE)
    /\ UNCHANGED <<requests, now, admitted>>

\* Mutated form of Pass: the stamp says when it leaves the window, not when it entered.
PassUntil(c) ==
    /\ RPM > 0
    /\ Cardinality(Pruned(c)) < RPM
    /\ Cardinality(admitted[c]) < MaxAdmitted
    /\ requests' = [requests EXCEPT ![c] =
                        Pruned(c) \cup {[Promise!Stamp(c) EXCEPT !.t = now + Window]}]
    /\ admitted' = [admitted EXCEPT ![c] = @ \cup {Promise!Stamp(c)}]
    /\ Promise!Says(c, TRUE)
    /\ UNCHANGED now

Pass(c) ==
    /\ RPM > 0
    /\ Cardinality(Pruned(c)) < RPM
    /\ Cardinality(admitted[c]) < MaxAdmitted
    /\ requests' = [requests EXCEPT ![c] = Pruned(c) \cup {Promise!Stamp(c)}]
    /\ admitted' = [admitted EXCEPT ![c] = @ \cup {Promise!Stamp(c)}]
    /\ Promise!Says(c, TRUE)
    /\ UNCHANGED now

\* 429: the old stamps are removed all the same, and the request leaves none.
Limit(c) ==
    /\ RPM > 0
    /\ Cardinality(Pruned(c)) >= RPM
    /\ requests' = [requests EXCEPT ![c] = Pruned(c)]
    /\ Promise!Says(c, FALSE)
    /\ UNCHANGED <<now, admitted>>

Tick ==
    /\ now < MaxTime
    /\ now' = now + 1
    /\ UNCHANGED <<requests, verdict, admitted>>

Next ==
    \/ \E c \in Clients : Bypass(c) \/ Pass(c) \/ Limit(c)
    \/ Tick

Spec == Init /\ [][Next]_vars
-----------------------------------------------------------------------------
(***************************************************************************)
(* No stretch of one Window, wherever it begins, holds more than RPM       *)
(* counted requests of one client: a burst at the end of one minute and    *)
(* another at the beginning of the next are counted together, although     *)
(* the list is pruned only now and then.                                   *)
(***************************************************************************)
WindowRespected ==
    \A c \in Clients, t \in -Window .. MaxTime :
        RPM > 0 => Cardinality(Promise!Within(c, t)) <= RPM

(***************************************************************************)
(* The promise of SlidingWindow: a request gets a 429 exactly when the     *)
(* window before it is full of requests that were let through.  Requests   *)
(* that got a 429 themselves, pruned stamps and health checks do not count.*)
(***************************************************************************)
ImplementsWindow == Promise!Spec
=============================================================================
