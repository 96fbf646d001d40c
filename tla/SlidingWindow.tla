--------------------------- MODULE SlidingWindow ---------------------------
(***************************************************************************)
(* What the rate limiter of proxy/ratelimit.py promises each client: a     *)
(* request is let through exactly when fewer than RPM requests of that     *)
(* client were let through in the Window before it.  The bounds of time    *)
(* and of the number of requests are those of whoever implements it.       *)
(***************************************************************************)
EXTENDS Integers, FiniteSets

CONSTANTS
    Clients,    \* the hosts requests come from
    Window,     \* the 60 seconds of "per minute"
    RPM         \* RATE_LIMIT_RPM

VARIABLES
    admitted,   \* per client, the time of every request let through; n numbers them
    now,
    verdict     \* to whom the limiter last spoke, and whether it let the request pass

limitVars == <<admitted, now, verdict>>

Init ==
    /\ admitted = [c \in Clients |-> {}]
    /\ now = 0
    /\ verdict = <<>>

Recent(c) == {s \in admitted[c] : s.t > now - Window}

\* The record of a request let through now.
Stamp(c) == [t |-> now, n |-> Cardinality(admitted[c]) + 1]

Says(c, passed) == verdict' = <<c, passed>>

Admit(c) ==
    /\ Cardinality(Recent(c)) < RPM
    /\ admitted' = [admitted EXCEPT ![c] = @ \cup {Stamp(c)}]
    /\ Says(c, TRUE)
    /\ UNCHANGED now

Reject(c) ==
    /\ RPM > 0
    /\ Cardinality(Recent(c)) >= RPM
    /\ Says(c, FALSE)
    /\ UNCHANGED <<admitted, now>>

\* Health checks, and every request when there is no limit, pass uncounted.
Uncounted(c) == Says(c, TRUE) /\ UNCHANGED <<admitted, now>>

Tick == now' = now + 1 /\ UNCHANGED <<admitted, verdict>>

Next ==
    \/ \E c \in Clients : Admit(c) \/ Reject(c) \/ Uncounted(c)
    \/ Tick

Spec == Init /\ [][Next]_limitVars

\* The requests of c let through in the Window that begins just after t.
Within(c, t) == {s \in admitted[c] : t < s.t /\ s.t <= t + Window}
=============================================================================
