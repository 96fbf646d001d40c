---------------------------- MODULE Persistence ----------------------------
(***************************************************************************)
(* What a worker of the proxy writes down with DATABASE_URL set: module    *)
(* Spend for the charges, module RequestLog for the log entries, and the   *)
(* handler of proxy/main.py that calls the one and, without an await in    *)
(* between, the other.  Each has a connection pool of its own to the same  *)
(* database; both lose what they hold in memory when the process ends.     *)
(* RequestLog is the log of one process, so Workers has one member.        *)
(***************************************************************************)
EXTENDS Spend

CONSTANTS Entries, Complete, Accepted, UseKafka, UsePg, QueueMax, MaxOutages

VARIABLES
    outstanding, reports, topic, lost, connection, database, requests, file,
    logged, raised, unconfirmed, strays, outages, starts,
    owing       \* the workers in which a charge was made whose entry comes next

Log == INSTANCE RequestLog WITH table <- requests, restarts <- starts

logVars ==
    <<outstanding, reports, topic, lost, connection, database, requests, file,
      logged, raised, unconfirmed, strays, outages, starts>>
persistenceVars == <<vars, logVars, owing>>

\* One DATABASE_URL for both.
PersistenceInit ==
    /\ Init /\ usePg = UsePg
    /\ Log!Init
    /\ owing = {}
-----------------------------------------------------------------------------
\* A handler runs while no other has a charge to write or to log.
Free(w) == w \notin owing

\* The steps of a request up to the charge.
Spending(w) ==
    /\ Free(w)
    /\ Admit(w) \/ Release(w) \/ \E cost \in Costs : Charge(w, cost)
    /\ UNCHANGED <<logVars, owing>>

\* The charge is written; a database that is down has nothing new.
Writing(w) ==
    /\ Write(w)
    /\ database = "down" => table' = table
    /\ owing' = owing \cup {w}
    /\ UNCHANGED logVars

\* The entry of a charge, or of a request that ended without one.  Either may lack
\* the text of a response: of a blocked request, a stream, an embedding.
Logging(w, e) ==
    /\ Idle(w)
    /\ Log!log_request(e)
    /\ owing' = owing \ {w}
    /\ UNCHANGED vars

\* What happens in the producer's thread and in the database.
Elsewhere ==
    /\ (\E e \in Entries : Log!Deliver(e)) \/ Log!Outage \/ Log!Recovery
    /\ UNCHANGED <<vars, owing>>

Restarted(w) == Restart(w) /\ Log!Restart /\ owing' = owing \ {w}

PersistenceNext ==
    \/ \E w \in Workers : Spending(w) \/ Writing(w) \/ Restarted(w)
    \/ \E w \in Workers, e \in Entries : Logging(w, e)
    \/ Elsewhere
    \/ NewMonth /\ UNCHANGED <<logVars, owing>>

PersistenceSpec == PersistenceInit /\ [][PersistenceNext]_persistenceVars
-----------------------------------------------------------------------------
\* A start finds the figures that the process before it had.
SpendPersists(w) == monthly'[w] = monthly[w]

\* logger.py:273, "Kafka (async, non-blocking) -> PostgreSQL (sync) -> JSONL (fallback)".
FileIsFallback == file = {}

(***************************************************************************)
(* README.md:285, "PostgreSQL URL for persistent logs + spend": when the   *)
(* database never failed, a restart that interrupts no write finds the     *)
(* spend again, or at least the request log is in the database.  Neither   *)
(* is so: a charge goes to the table only and a start reads only the file, *)
(* and an entry without a response's text has no field response_content,   *)
(* so that its INSERT raises.                                              *)
(***************************************************************************)
DatabasePersists ==
    [][\A w \in Workers :
          UsePg /\ faults = 0 /\ outages = 0 /\ Idle(w) /\ restarts' > restarts
              => SpendPersists(w) \/ FileIsFallback]_persistenceVars
=============================================================================
