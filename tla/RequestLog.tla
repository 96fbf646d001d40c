----------------------------- MODULE RequestLog -----------------------------
(***************************************************************************)
(* proxy/logger.py: log_request and the sinks it tries in turn, a Kafka    *)
(* producer, a PostgreSQL table and a file.  A call awaits nothing, so it  *)
(* is one step; in between, the producer's own thread delivers what it was *)
(* handed, or gives it up, and the database goes away and comes back.      *)
(*                                                                         *)
(* An entry stands for one call.  Complete are those of a response with    *)
(* text whose body may be logged: the only entries that have the field     *)
(* response_content, without which the INSERT raises a KeyError before it  *)
(* is sent.  Accepted are those that fit the columns of the table: the     *)
(* server rejects the INSERT of any other, say of a model of more than 100 *)
(* characters.                                                             *)
(***************************************************************************)
EXTENDS Naturals, FiniteSets

CONSTANTS
    Entries,
    Complete, Accepted,
    UseKafka, UsePg,            \* KAFKA_BOOTSTRAP_SERVERS, DATABASE_URL are set
    QueueMax,                   \* queue.buffering.max.messages
    MaxOutages, MaxRestarts     \* bounds of the model

ASSUME LogAssumption ==
    /\ IsFiniteSet(Entries) /\ Complete \subseteq Entries /\ Accepted \subseteq Entries
    /\ UseKafka \in BOOLEAN /\ UsePg \in BOOLEAN
    /\ QueueMax \in Nat \ {0}
    /\ MaxOutages \in Nat /\ MaxRestarts \in Nat

VARIABLES
    outstanding,    \* with the producer, neither delivered nor given up
    reports,        \* its delivery reports nobody has polled for
    topic,          \* delivered to KAFKA_TOPIC
    lost,           \* given up by the producer, or still with it at an exit
    connection,     \* the one connection of _pg_pool that is ever in use
    database,       \* whether PostgreSQL can be reached
    table,          \* the table "requests"
    file,           \* requests.jsonl
    logged, raised, \* the calls that returned, and those that raised
    unconfirmed,    \* history: entries that were committed without a confirmation
    strays,         \* history: insertable entries that went to the file past a database that was up
    outages, restarts

kafka == <<outstanding, reports, topic, lost>>
postgres == <<connection, database, table, unconfirmed, outages>>
vars == <<kafka, postgres, file, logged, raised, strays, restarts>>

Insertable == Complete \cap Accepted

TypeOK ==
    /\ outstanding \subseteq Entries /\ topic \subseteq Entries /\ lost \subseteq Entries
    /\ reports \in Nat /\ Cardinality(outstanding) + reports <= QueueMax
    /\ connection \in {"none", "open", "broken"}
    /\ database \in {"up", "down"}
    /\ database = "down" => connection # "open"
    /\ table \subseteq Insertable /\ file \subseteq Entries
    /\ logged \subseteq Entries /\ raised \subseteq Entries \ logged
    /\ unconfirmed \subseteq table /\ strays \subseteq file \cap Insertable
    /\ outages \in 0 .. MaxOutages /\ restarts \in 0 .. MaxRestarts

Init ==
    /\ outstanding = {} /\ reports = 0 /\ topic = {} /\ lost = {}
    /\ connection = "none" /\ database = "up" /\ table = {}
    /\ file = {}
    /\ logged = {} /\ raised = {}
    /\ unconfirmed = {} /\ strays = {}
    /\ outages = 0 /\ restarts = 0
-----------------------------------------------------------------------------
Pending(e) == e \notin logged \cup raised

\* Mutated form of HasRoom: one message too many is taken.
HasRoomForOneMore == Cardinality(outstanding) + reports <= QueueMax

\* A message counts for the limit until the report of its delivery is polled for.
HasRoom == Cardinality(outstanding) + reports < QueueMax

\* produce() and poll(0), which answers for what was delivered before.
Produce(e) ==
    /\ Pending(e) /\ UseKafka /\ HasRoom
    /\ outstanding' = outstanding \cup {e}
    /\ reports' = 0
    /\ logged' = logged \cup {e}
    /\ UNCHANGED <<topic, lost, postgres, file, raised, strays, restarts>>

\* There is no producer, or it raises a BufferError before anyone polls.
PastKafka == ~UseKafka \/ ~HasRoom

Connects == UsePg /\ database = "up" /\ connection # "broken"

Insert(e) ==
    /\ Pending(e) /\ PastKafka
    /\ Connects /\ e \in Insertable
    /\ table' = table \cup {e}
    /\ connection' = "open"
    /\ logged' = logged \cup {e}
    /\ UNCHANGED <<kafka, database, unconfirmed, outages, file, raised, strays, restarts>>

\* The last sink, whose exceptions reach the caller.
Append(e) ==
    \/ file' = file \cup {e} /\ logged' = logged \cup {e} /\ UNCHANGED raised
    \/ raised' = raised \cup {e} /\ UNCHANGED <<file, logged>>

\* The database goes away between the commit and its confirmation.
InsertUnconfirmed(e) ==
    /\ Pending(e) /\ PastKafka
    /\ Connects /\ e \in Insertable /\ outages < MaxOutages
    /\ table' = table \cup {e}
    /\ unconfirmed' = unconfirmed \cup {e}
    /\ database' = "down" /\ outages' = outages + 1
    /\ connection' = "none"
    /\ Append(e)
    /\ UNCHANGED <<kafka, strays, restarts>>

\* Mutated form of Returned: a broken connection stays in the pool.
ReturnedAnyway(e) == IF Connects THEN "open" ELSE connection

\* putconn(): a connection on which a statement was tried goes back into the pool
\* if it works and is dropped if not; one on which none was goes back as it is.
Returned(e) ==
    IF Connects THEN "open" ELSE IF e \in Complete THEN "none" ELSE connection

\* Mutated form of InsertFails: the failure is taken for a success.
InsertFailsSilently(e) ==
    /\ Pending(e) /\ PastKafka
    /\ ~Connects \/ e \notin Insertable
    /\ connection' = Returned(e)
    /\ logged' = logged \cup {e}
    /\ UNCHANGED <<kafka, database, table, unconfirmed, outages, file, raised, strays, restarts>>

\* There is no pool, no database or no field response_content, or the server rejects a value.
InsertFails(e) ==
    /\ Pending(e) /\ PastKafka
    /\ ~Connects \/ e \notin Insertable
    /\ connection' = Returned(e)
    /\ Append(e)
    /\ strays' = IF database = "up" /\ UsePg /\ e \in Insertable
                 THEN strays \cup (file' \ file) ELSE strays
    /\ UNCHANGED <<kafka, database, table, unconfirmed, outages, restarts>>

log_request(e) == Produce(e) \/ Insert(e) \/ InsertUnconfirmed(e) \/ InsertFails(e)
-----------------------------------------------------------------------------
\* The producer's thread; a report waits for the next poll(0).
Deliver(e) ==
    /\ e \in outstanding
    /\ outstanding' = outstanding \ {e}
    /\ reports' = reports + 1
    /\ \/ topic' = topic \cup {e} /\ UNCHANGED lost
       \/ lost' = lost \cup {e} /\ UNCHANGED topic
    /\ UNCHANGED <<postgres, file, logged, raised, strays, restarts>>

Outage ==
    /\ database = "up" /\ outages < MaxOutages
    /\ database' = "down" /\ outages' = outages + 1
    /\ connection' = IF connection = "open" THEN "broken" ELSE connection
    /\ UNCHANGED <<kafka, table, unconfirmed, file, logged, raised, strays, restarts>>

Recovery ==
    /\ database = "down"
    /\ database' = "up"
    /\ UNCHANGED <<kafka, connection, table, unconfirmed, outages, file, logged, raised, strays, restarts>>

\* Nothing flushes the producer at an exit.
Restart ==
    /\ restarts < MaxRestarts
    /\ restarts' = restarts + 1
    /\ lost' = lost \cup outstanding
    /\ outstanding' = {} /\ reports' = 0
    /\ connection' = "none"
    /\ UNCHANGED <<topic, database, table, unconfirmed, outages, file, logged, raised, strays>>

Next ==
    \/ \E e \in Entries : log_request(e) \/ Deliver(e)
    \/ Outage \/ Recovery \/ Restart

Spec == Init /\ [][Next]_vars
-----------------------------------------------------------------------------
(***************************************************************************)
(* Falling through the sinks neither drops an entry nor writes it twice:   *)
(* an entry whose call returned is in exactly one place, the losses of the *)
(* producer among them, and one whose call raised is nowhere.  The only    *)
(* second copy is that of a commit without a confirmation.                 *)
(***************************************************************************)
Places == <<outstanding, topic, lost, table \ unconfirmed, file>>
ExactlyOnce ==
    /\ \A i, j \in DOMAIN Places : i # j => Places[i] \cap Places[j] = {}
    /\ UNION {Places[i] : i \in DOMAIN Places} = logged

(***************************************************************************)
(* When the database is back, the connection that the outage broke costs   *)
(* one entry its place in the table, and no more: it is not used again.    *)
(***************************************************************************)
OneStrayPerOutage == Cardinality(strays) <= outages
=============================================================================
