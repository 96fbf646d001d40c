-------------------------- MODULE RequestLogProofs --------------------------
(***************************************************************************)
(* RequestLog: the entries that stray past a database that is up are fewer *)
(* than its outages, and every entry is in exactly one place, for any      *)
(* number of entries, any size of the queue and any choice of sinks.       *)
(***************************************************************************)
EXTENDS RequestLog, FiniteSetTheorems, TLAPS

\* Finite sets, and what their cardinality is added to.
Countable ==
    /\ IsFiniteSet(strays)
    /\ outages \in Nat

\* A broken connection is an outage that has not cost its entry yet.
Debt == IF connection = "broken" THEN 1 ELSE 0

Accounted == Countable /\ Cardinality(strays) + Debt <= outages

\* Where entries come from and where they may be: the facts of TypeOK that matter here.
Calls ==
    /\ raised \cap logged = {}
    /\ unconfirmed \subseteq logged \cup raised

\* ExactlyOnce, place by place.
Apart ==
    /\ logged = outstanding \cup topic \cup lost \cup (table \ unconfirmed) \cup file
    /\ outstanding \cap (topic \cup lost \cup (table \ unconfirmed) \cup file) = {}
    /\ topic \cap (lost \cup (table \ unconfirmed) \cup file) = {}
    /\ lost \cap ((table \ unconfirmed) \cup file) = {}
    /\ (table \ unconfirmed) \cap file = {}

Placed == Calls /\ Apart
-----------------------------------------------------------------------------
\* A set of at most one entry adds at most one to a count.
LEMMA AddOne ==
    ASSUME NEW S, IsFiniteSet(S), NEW e, NEW T, T \subseteq {e}
    PROVE  /\ IsFiniteSet(S \cup T)
           /\ Cardinality(S \cup T) \in Nat /\ Cardinality(S) \in Nat
           /\ Cardinality(S \cup T) <= Cardinality(S) + 1
<1>1. CASE T = {}
  BY <1>1, FS_CardinalityType, S \cup T = S
<1>2. CASE T = {e}
  BY <1>2, FS_AddElement, FS_CardinalityType
<1>3. QED
  BY <1>1, <1>2

\* Appending to the file adds at most the entry of the call.
LEMMA AppendAdds == \A e \in Entries : Append(e) => file' \ file \subseteq {e}
  BY DEF Append

\* Every step keeps the account of broken connections and strays.
LEMMA AccountedStep == Accounted /\ [Next]_vars => Accounted'
<1> SUFFICES ASSUME Accounted, [Next]_vars PROVE Accounted'
  OBVIOUS
<1>1. IsFiniteSet(strays) /\ outages \in Nat /\ Cardinality(strays) \in Nat
  BY FS_CardinalityType DEF Accounted, Countable
<1>2. Cardinality(strays) + Debt <= outages
  BY DEF Accounted
<1>3. ASSUME NEW e \in Entries, Produce(e) PROVE Accounted'
  BY <1>1, <1>2, <1>3 DEF Produce, postgres, Accounted, Countable, Debt
<1>4. ASSUME NEW e \in Entries, Insert(e) PROVE Accounted'
  BY <1>1, <1>2, <1>4 DEF Insert, Accounted, Countable, Debt
<1>5. ASSUME NEW e \in Entries, InsertUnconfirmed(e) PROVE Accounted'
  BY <1>1, <1>2, <1>5 DEF InsertUnconfirmed, Accounted, Countable, Debt
<1>6. ASSUME NEW e \in Entries, InsertFails(e) PROVE Accounted'
  <2>1. outages' = outages /\ connection' \in {"open", "none", connection}
    BY <1>6 DEF InsertFails, Returned
  <2>2. CASE database = "up" /\ UsePg /\ e \in Insertable
    <3>1. connection = "broken" /\ connection' = "none"
      BY <1>6, <2>2 DEF InsertFails, Connects, Returned, Insertable
    <3>2. strays' = strays \cup (file' \ file) /\ file' \ file \subseteq {e}
      BY <1>6, <2>2, AppendAdds DEF InsertFails
    <3>3. IsFiniteSet(strays') /\ Cardinality(strays') \in Nat
          /\ Cardinality(strays') <= Cardinality(strays) + 1
      BY <1>1, <3>2, AddOne
    <3>4. QED
      BY <1>1, <1>2, <2>1, <3>1, <3>3 DEF Accounted, Countable, Debt
  <2>3. CASE ~(database = "up" /\ UsePg /\ e \in Insertable)
    <3>1. strays' = strays
      BY <1>6, <2>3 DEF InsertFails
    <3>2. QED
      BY <1>1, <1>2, <2>1, <3>1 DEF Accounted, Countable, Debt
  <2>4. QED
    BY <2>2, <2>3
<1>7. ASSUME NEW e \in Entries, Deliver(e) PROVE Accounted'
  BY <1>1, <1>2, <1>7 DEF Deliver, postgres, Accounted, Countable, Debt
<1>8. CASE Outage
  BY <1>1, <1>2, <1>8 DEF Outage, Accounted, Countable, Debt
<1>9. CASE Recovery
  BY <1>1, <1>2, <1>9 DEF Recovery, Accounted, Countable, Debt
<1>10. CASE Restart
  BY <1>1, <1>2, <1>10 DEF Restart, Accounted, Countable, Debt
<1>11. CASE UNCHANGED vars
  BY <1>1, <1>2, <1>11 DEF vars, postgres, Accounted, Countable, Debt
<1>12. QED
  BY <1>3, <1>4, <1>5, <1>6, <1>7, <1>8, <1>9, <1>10, <1>11 DEF Next, log_request

(***************************************************************************)
(* Each outage of the database costs at most one entry that the table      *)
(* would accept its place there once the database is back.                 *)
(***************************************************************************)
THEOREM StraysBounded == Spec => []OneStrayPerOutage
<1>1. Init => Accounted
  BY FS_EmptySet DEF Init, Accounted, Countable, Debt
<1>2. Accounted => OneStrayPerOutage
  BY FS_CardinalityType DEF Accounted, Countable, Debt, OneStrayPerOutage
<1>3. QED
  BY <1>1, <1>2, AccountedStep, PTL DEF Spec
-----------------------------------------------------------------------------
\* The last sink: the entry of a call that returns is in the file, of one that raises nowhere.
LEMMA AppendPlaces ==
    \A e \in Entries : Append(e) =>
        \/ file' = file \cup {e} /\ logged' = logged \cup {e} /\ raised' = raised
        \/ file' = file /\ logged' = logged /\ raised' = raised \cup {e}
  BY DEF Append

\* Every step keeps the entries apart.
LEMMA PlacedStep == Placed /\ [Next]_vars => Placed'
<1> SUFFICES ASSUME Placed, [Next]_vars PROVE Placed'
  OBVIOUS
<1> USE DEF Placed, Calls, Apart
<1>1. ASSUME NEW e \in Entries, Produce(e) PROVE Placed'
  BY <1>1 DEF Produce, Pending, postgres
<1>2. ASSUME NEW e \in Entries, Insert(e) PROVE Placed'
  BY <1>2 DEF Insert, Pending, kafka
<1>3. ASSUME NEW e \in Entries, InsertUnconfirmed(e) PROVE Placed'
  <2>1. /\ table' \ unconfirmed' = table \ unconfirmed
        /\ unconfirmed' = unconfirmed \cup {e}
        /\ outstanding' = outstanding /\ topic' = topic /\ lost' = lost
        /\ e \notin logged /\ e \notin raised
    BY <1>3 DEF InsertUnconfirmed, Pending, kafka
  <2>2. Append(e)
    BY <1>3 DEF InsertUnconfirmed
  <2>3. QED
    BY <2>1, <2>2, AppendPlaces
<1>4. ASSUME NEW e \in Entries, InsertFails(e) PROVE Placed'
  <2>1. /\ table' = table /\ unconfirmed' = unconfirmed
        /\ outstanding' = outstanding /\ topic' = topic /\ lost' = lost
        /\ e \notin logged /\ e \notin raised
    BY <1>4 DEF InsertFails, Pending, kafka
  <2>2. Append(e)
    BY <1>4 DEF InsertFails
  <2>3. QED
    BY <2>1, <2>2, AppendPlaces
<1>5. ASSUME NEW e \in Entries, Deliver(e) PROVE Placed'
  BY <1>5 DEF Deliver, postgres
<1>6. CASE Outage
  BY <1>6 DEF Outage, kafka
<1>7. CASE Recovery
  BY <1>7 DEF Recovery, kafka
<1>8. CASE Restart
  BY <1>8 DEF Restart
<1>9. CASE UNCHANGED vars
  BY <1>9 DEF vars, kafka, postgres
<1>10. QED
  BY <1>1, <1>2, <1>3, <1>4, <1>5, <1>6, <1>7, <1>8, <1>9 DEF Next, log_request

\* Apart says of the five sets what ExactlyOnce says of the tuple.
LEMMA ApartIsOnce == Apart => ExactlyOnce
<1> SUFFICES ASSUME Apart PROVE ExactlyOnce
  OBVIOUS
<1>1. /\ DOMAIN Places = 1 .. 5
      /\ Places[1] = outstanding /\ Places[2] = topic /\ Places[3] = lost
      /\ Places[4] = table \ unconfirmed /\ Places[5] = file
  BY DEF Places
<1>2. \A i \in DOMAIN Places : i \in {1, 2, 3, 4, 5}
  BY <1>1
<1>3. \A i, j \in DOMAIN Places : i # j => Places[i] \cap Places[j] = {}
  BY <1>1, <1>2 DEF Apart
<1>4. UNION {Places[i] : i \in DOMAIN Places} = logged
  <2>1. {Places[i] : i \in DOMAIN Places} =
            {outstanding, topic, lost, table \ unconfirmed, file}
    BY <1>1, <1>2
  <2>2. QED
    BY <2>1 DEF Apart
<1>5. QED
  BY <1>3, <1>4 DEF ExactlyOnce

(***************************************************************************)
(* Whatever fails, an entry whose call returned is in exactly one place,   *)
(* and one whose call raised in none, but for unconfirmed commits.         *)
(***************************************************************************)
THEOREM LoggedExactlyOnce == Spec => []ExactlyOnce
<1>1. Init => Placed
  BY DEF Init, Placed, Calls, Apart
<1>2. Placed => ExactlyOnce
  BY ApartIsOnce DEF Placed
<1>3. QED
  BY <1>1, <1>2, PlacedStep, PTL DEF Spec
-----------------------------------------------------------------------------
\* The queue of the producer has its limit, whoever answers for its reports.
Queued ==
    /\ outstanding \subseteq Entries /\ reports \in Nat
    /\ Cardinality(outstanding) + reports <= QueueMax

\* The pool never lends a connection that looks open to a database that is down.
Connected ==
    /\ connection \in {"none", "open", "broken"}
    /\ database \in {"up", "down"}
    /\ database = "down" => connection # "open"

\* The places, each with its kind of entries.
Written ==
    /\ topic \subseteq Entries /\ lost \subseteq Entries
    /\ table \subseteq Insertable /\ file \subseteq Entries
    /\ logged \subseteq Entries /\ raised \subseteq Entries \ logged
    /\ unconfirmed \subseteq table /\ strays \subseteq file \cap Insertable

Limited == outages \in 0 .. MaxOutages /\ restarts \in 0 .. MaxRestarts

Typed == Queued /\ Connected /\ Written /\ Limited

LEMMA QueuedStep == Queued /\ [Next]_vars => Queued'
<1> SUFFICES ASSUME Queued, [Next]_vars PROVE Queued'
  OBVIOUS
<1>1. IsFiniteSet(outstanding) /\ Cardinality(outstanding) \in Nat
  BY FS_Subset, FS_CardinalityType, LogAssumption DEF Queued
<1>2. reports \in Nat /\ QueueMax \in Nat /\ Cardinality(outstanding) + reports <= QueueMax
  BY LogAssumption DEF Queued
<1>3. ASSUME NEW e \in Entries, Produce(e) PROVE Queued'
  <2>1. outstanding' = outstanding \cup {e} /\ reports' = 0 /\ HasRoom
    BY <1>3 DEF Produce
  <2>2. Cardinality(outstanding') <= Cardinality(outstanding) + 1 /\ Cardinality(outstanding') \in Nat
    BY <1>1, <2>1, FS_AddElement
  <2>3. Cardinality(outstanding) + 1 <= QueueMax
    BY <1>1, <1>2, <2>1 DEF HasRoom
  <2>4. Cardinality(outstanding') + reports' <= QueueMax
    BY <1>1, <1>2, <2>1, <2>2, <2>3
  <2>5. QED
    BY <2>1, <2>4 DEF Queued
<1>4. ASSUME NEW e \in Entries, Deliver(e) PROVE Queued'
  <2>1. outstanding' = outstanding \ {e} /\ e \in outstanding /\ reports' = reports + 1
    BY <1>4 DEF Deliver
  <2>2. Cardinality(outstanding') = Cardinality(outstanding) - 1
    BY <1>1, <2>1, FS_RemoveElement
  <2>3. Cardinality(outstanding') + reports' <= QueueMax
    BY <1>1, <1>2, <2>1, <2>2
  <2>4. QED
    BY <1>2, <2>1, <2>3 DEF Queued
<1>5. CASE Restart
  BY <1>2, <1>5, FS_EmptySet DEF Restart, Queued
<1>6. ASSUME NEW e \in Entries, Insert(e) \/ InsertUnconfirmed(e) \/ InsertFails(e)
      PROVE  Queued'
  BY <1>6 DEF Insert, InsertUnconfirmed, InsertFails, kafka, Queued
<1>7. CASE Outage \/ Recovery \/ UNCHANGED vars
  BY <1>7 DEF Outage, Recovery, vars, kafka, Queued
<1>8. QED
  BY <1>3, <1>4, <1>5, <1>6, <1>7 DEF Next, log_request

LEMMA ConnectedStep == Connected /\ [Next]_vars => Connected'
<1> SUFFICES ASSUME Connected, [Next]_vars PROVE Connected'
  OBVIOUS
<1> USE DEF Connected
<1>1. ASSUME NEW e \in Entries, Produce(e) \/ Deliver(e) PROVE Connected'
  BY <1>1 DEF Produce, Deliver, postgres
<1>2. ASSUME NEW e \in Entries, Insert(e) PROVE Connected'
  BY <1>2 DEF Insert, Connects
<1>3. ASSUME NEW e \in Entries, InsertUnconfirmed(e) PROVE Connected'
  BY <1>3 DEF InsertUnconfirmed
<1>4. ASSUME NEW e \in Entries, InsertFails(e) PROVE Connected'
  BY <1>4 DEF InsertFails, Returned, Connects
<1>5. CASE Outage \/ Recovery \/ Restart \/ UNCHANGED vars
  BY <1>5 DEF Outage, Recovery, Restart, vars, postgres
<1>6. QED
  BY <1>1, <1>2, <1>3, <1>4, <1>5 DEF Next, log_request

LEMMA WrittenStep == Written /\ Queued /\ [Next]_vars => Written'
<1> SUFFICES ASSUME Written, Queued, [Next]_vars PROVE Written'
  OBVIOUS
<1> USE LogAssumption DEF Written, Insertable
<1>1. ASSUME NEW e \in Entries, Produce(e) PROVE Written'
  BY <1>1 DEF Produce, Pending, postgres
<1>2. ASSUME NEW e \in Entries, Insert(e) PROVE Written'
  BY <1>2 DEF Insert, Pending, kafka
<1>3. ASSUME NEW e \in Entries, InsertUnconfirmed(e) PROVE Written'
  <2>1. /\ table' = table \cup {e} /\ unconfirmed' = unconfirmed \cup {e}
        /\ UNCHANGED <<topic, lost, strays>> /\ e \in Insertable
        /\ e \notin logged /\ e \notin raised /\ Append(e)
    BY <1>3 DEF InsertUnconfirmed, Pending, kafka
  <2>2. QED
    BY <2>1, AppendPlaces
<1>4. ASSUME NEW e \in Entries, InsertFails(e) PROVE Written'
  <2>1. /\ UNCHANGED <<topic, lost, table, unconfirmed>>
        /\ e \notin logged /\ e \notin raised /\ Append(e)
    BY <1>4 DEF InsertFails, Pending, kafka
  <2>2. strays' = strays \/ (strays' = strays \cup (file' \ file) /\ e \in Insertable)
    BY <1>4 DEF InsertFails
  <2>3. file \subseteq file' /\ file' \ file \subseteq {e}
    BY <2>1, AppendPlaces
  <2>4. strays' \subseteq file' \cap Insertable
    BY <2>2, <2>3
  <2>5. QED
    BY <2>1, <2>4, AppendPlaces
<1>5. ASSUME NEW e \in Entries, Deliver(e) PROVE Written'
  BY <1>5 DEF Deliver, postgres
<1>6. CASE Restart
  BY <1>6 DEF Restart, Queued
<1>7. CASE Outage \/ Recovery \/ UNCHANGED vars
  BY <1>7 DEF Outage, Recovery, vars, kafka, postgres
<1>8. QED
  BY <1>1, <1>2, <1>3, <1>4, <1>5, <1>6, <1>7 DEF Next, log_request

LEMMA LimitedStep == Limited /\ [Next]_vars => Limited'
<1> SUFFICES ASSUME Limited, [Next]_vars PROVE Limited'
  OBVIOUS
<1> USE LogAssumption DEF Limited
<1>1. ASSUME NEW e \in Entries, log_request(e) \/ Deliver(e) PROVE Limited'
  BY <1>1 DEF log_request, Produce, Insert, InsertUnconfirmed, InsertFails, Deliver, postgres
<1>2. CASE Outage \/ Recovery \/ Restart \/ UNCHANGED vars
  BY <1>2 DEF Outage, Recovery, Restart, vars, postgres
<1>3. QED
  BY <1>1, <1>2 DEF Next

(***************************************************************************)
(* The log has its types: the messages the producer holds and the reports  *)
(* nobody polled for never exceed its limit, the table has only entries    *)
(* that it accepts, no call both returned and raised, and what strayed to  *)
(* the file is such an entry that is there.                                *)
(***************************************************************************)
THEOREM LogTyping == Spec => []TypeOK
<1>1. Init => Typed
  BY LogAssumption, FS_EmptySet DEF Init, Typed, Queued, Connected, Written, Limited
<1>2. Typed /\ [Next]_vars => Typed'
  BY QueuedStep, ConnectedStep, WrittenStep, LimitedStep DEF Typed
<1>3. Typed => TypeOK
  BY DEF Typed, Queued, Connected, Written, Limited, TypeOK
<1>4. QED
  BY <1>1, <1>2, <1>3, PTL DEF Spec
=============================================================================
