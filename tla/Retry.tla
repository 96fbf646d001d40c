------------------------------- MODULE Retry -------------------------------
(***************************************************************************)
(* proxy/retry.py: request_with_retry, one call of one backend.  To the    *)
(* request handler it is a single await, which ends with a response or an  *)
(* exception; here are the attempts inside it, and the sleeps in between.  *)
(*                                                                         *)
(* Time is counted down.  Nothing ends a sleep early.  What the backend    *)
(* does is a choice: it may carry out a request whose answer never comes.  *)
(* Of one it refuses with 429 or 503 it is assumed that it does not.       *)
(***************************************************************************)
EXTENDS Integers

CONSTANTS
    MaxRetries,     \* MAX_RETRIES
    Base,           \* BACKOFF_BASE
    RetryAfters,    \* the numbers of seconds that backends put into retry-after
    NoHeader        \* no such header, or one that is not a number

ASSUME RetryAssumption ==
    /\ MaxRetries \in Nat
    /\ Base \in Nat \ {0}
    /\ RetryAfters \subseteq Nat
    /\ NoHeader \notin Nat

VARIABLES
    phase,      \* where the call is
    attempt,    \* attempt of the for loop
    wait,       \* what is left of the sleep
    result,     \* what the last attempt ended with
    banned,     \* history: for how long the backend still asked not to be called
    executed,   \* history: how often the backend carried out the request
    unanswered  \* history: how many of the attempts timed out

vars == <<phase, attempt, wait, result, banned, executed, unanswered>>

Phases == {"sending", "sleeping", "returned", "raised"}
Results == {"none", "refusal", "response", "timeout", "connection"}

TypeOK ==
    /\ phase \in Phases
    /\ attempt \in 0 .. MaxRetries
    /\ wait \in Nat /\ (phase # "sleeping" => wait = 0)
    /\ result \in Results
    /\ banned \in Nat
    /\ executed \in 0 .. MaxRetries + 1
    /\ unanswered \in 0 .. MaxRetries + 1

Init ==
    /\ phase = "sending"
    /\ attempt = 0
    /\ wait = 0
    /\ result = "none"
    /\ banned = 0 /\ executed = 0 /\ unanswered = 0

Larger(a, b) == IF a < b THEN b ELSE a

\* Base * 2 ^ attempt
Backoffs[n \in 0 .. MaxRetries] == IF n = 0 THEN Base ELSE 2 * Backoffs[n - 1]
Backoff == Backoffs[attempt]

\* Mutated form of MayRetry: one attempt too many.
MayRetryOnceMore == attempt <= MaxRetries

\* Mutated form of MayRetry: the last attempt is never made.
MayRetryButLast == attempt < MaxRetries - 1

MayRetry == attempt < MaxRetries

Sleep(seconds) ==
    /\ phase' = "sleeping"
    /\ wait' = seconds

End(how) == phase' = how /\ UNCHANGED wait

\* Mutated form of Pause: the shorter of the two is slept.
PauseShorter(after) ==
    IF after = NoHeader \/ after > Backoff THEN Backoff ELSE after

\* A retry-after may lengthen the pause, never shorten it.
Pause(after) == IF after = NoHeader THEN Backoff ELSE Larger(Backoff, after)

\* 429 or 503.
Refused(after) ==
    /\ phase = "sending"
    /\ result' = "refusal"
    /\ banned' = IF after = NoHeader THEN 0 ELSE after
    /\ IF MayRetry THEN Sleep(Pause(after)) ELSE End("returned")
    /\ UNCHANGED <<attempt, executed, unanswered>>

\* Mutated form of Responded: a server error is tried again.
RespondedTryAgain ==
    /\ phase = "sending"
    /\ result' = "response"
    /\ executed' = executed + 1
    /\ IF MayRetry THEN Sleep(Backoff) ELSE End("returned")
    /\ UNCHANGED <<attempt, banned, unanswered>>

\* Any other status, an error of the backend included.
Responded ==
    /\ phase = "sending"
    /\ result' = "response"
    /\ executed' = executed + 1
    /\ End("returned")
    /\ UNCHANGED <<attempt, banned, unanswered>>

TimedOut ==
    /\ phase = "sending"
    /\ result' = "timeout"
    /\ unanswered' = unanswered + 1
    /\ executed' \in {executed, executed + 1}
    /\ IF MayRetry THEN Sleep(Backoff) ELSE End("raised")
    /\ UNCHANGED <<attempt, banned>>

Disconnected ==
    /\ phase = "sending"
    /\ result' = "connection"
    /\ executed' \in {executed, executed + 1}
    /\ End("raised")
    /\ UNCHANGED <<attempt, banned, unanswered>>

\* Mutated form of Wake: the attempt is not counted.
WakeUncounted ==
    /\ phase = "sleeping" /\ wait = 0
    /\ phase' = "sending"
    /\ UNCHANGED <<attempt, wait, result, banned, executed, unanswered>>

Wake ==
    /\ phase = "sleeping" /\ wait = 0
    /\ phase' = "sending"
    /\ attempt' = attempt + 1
    /\ UNCHANGED <<wait, result, banned, executed, unanswered>>

Second ==
    /\ wait > 0 \/ banned > 0
    /\ wait' = Larger(wait - 1, 0)
    /\ banned' = Larger(banned - 1, 0)
    /\ UNCHANGED <<phase, attempt, result, executed, unanswered>>

Attempt ==
    \/ \E after \in RetryAfters \cup {NoHeader} : Refused(after)
    \/ Responded \/ TimedOut \/ Disconnected

Next == Attempt \/ Wake \/ Second

Spec == Init /\ [][Next]_vars

\* Every attempt ends, by its timeout at the latest, and so does every sleep.
FairSpec == Spec /\ WF_vars(Attempt) /\ WF_vars(Wake) /\ WF_vars(Second)
-----------------------------------------------------------------------------
(***************************************************************************)
(* A backend that said when to come back is not called before, however     *)
(* short the exponential backoff of that attempt is.                       *)
(***************************************************************************)
RetryAfterHonoured == phase = "sending" => banned = 0

(***************************************************************************)
(* A backend carries out a request more than once only if it did not       *)
(* answer in time: never after it refused, failed or answered it.          *)
(***************************************************************************)
RepeatedOnlyUnanswered == executed <= unanswered + 1

(***************************************************************************)
(* The caller learns of a refusal or of a timeout only when all attempts   *)
(* are used up; a broken connection ends the call at once.                 *)
(***************************************************************************)
GivesUpLast ==
    phase \in {"returned", "raised"} /\ result \in {"refusal", "timeout"}
        => attempt = MaxRetries

(***************************************************************************)
(* The call ends: refusals, timeouts and sleeps alternate a bounded number *)
(* of times.                                                               *)
(***************************************************************************)
Over == phase \in {"returned", "raised"}
Ends == ~Over ~> Over
=============================================================================
