------------------------------- MODULE Spend -------------------------------
(***************************************************************************)
(* proxy/spend.py with all that Proxy leaves out: several workers, each    *)
(* with a tracker of its own in memory; the two places a charge is written *)
(* to, the PostgreSQL table and spend.jsonl, of which a start reads only   *)
(* the file; charges that are half recorded when the month turns or the    *)
(* process dies; and a file that a full disk tore.                         *)
(*                                                                         *)
(* The figures of two backends never meet, so there is one, with a budget. *)
(* record() awaits nothing: while a worker writes, it does nothing else,   *)
(* but the other workers do, and the clock goes on.                        *)
(***************************************************************************)
EXTENDS Integers, FiniteSets, Functions

CONSTANTS
    Workers,
    Slots,          \* how many requests a worker has in flight at most
    Budget,         \* monthly_budget_usd
    MaxCost,        \* the highest cost of one response
    MaxMonths, MaxCharges, MaxFaults, MaxRestarts   \* bounds of the model

ASSUME SpendAssumption ==
    /\ IsFiniteSet(Workers)
    /\ Slots \in Nat /\ MaxCost \in Nat
    /\ Budget \in Nat \ {0}
    /\ MaxMonths \in Nat /\ MaxCharges \in Nat /\ MaxFaults \in Nat /\ MaxRestarts \in Nat

VARIABLES
    usePg,      \* DATABASE_URL is set
    month,      \* the month of datetime.now()
    inFlight,   \* per worker, the requests that passed check_budget and are not charged yet
    writing,    \* per worker, the charge that record() has added up but not yet written, or 0
    monthly,    \* _monthly
    total,      \* _by_backend
    lines,      \* the complete lines of spend.jsonl, as a sum per month
    tail,       \* what follows the last newline
    table,      \* the table "spend", as a sum
    own,        \* history: what each process itself added to _monthly since it started
    charged,    \* history: what all of them ever charged, by the month in memory
    charges, faults, restarts

memory == <<inFlight, monthly, total, own>>
disk == <<lines, tail, table>>
vars == <<usePg, month, writing, memory, disk, charged, charges, faults, restarts>>

Months == 0 .. MaxMonths
Costs == 1 .. MaxCost

\* An unfinished line: nothing, a part of the object, or all of it but its newline.
Tails == [state : {"none", "part"}] \cup [state : {"whole"}, month : Months, cost : Costs]
NoTail == [state |-> "none"]
Part == [state |-> "part"]

TypeOK ==
    /\ usePg \in BOOLEAN
    /\ month \in Months
    /\ inFlight \in [Workers -> 0 .. Slots]
    /\ writing \in [Workers -> 0 .. MaxCost]
    /\ monthly \in [Workers -> [Months -> Nat]]
    /\ total \in [Workers -> Nat]
    /\ lines \in [Months -> Nat]
    /\ tail \in Tails
    /\ table \in Nat
    /\ own \in [Workers -> [Months -> Nat]]
    /\ charged \in [Months -> Nat]
    /\ charges \in 0 .. MaxCharges
    /\ faults \in 0 .. MaxFaults
    /\ restarts \in 0 .. MaxRestarts

Nothing == [m \in Months |-> 0]
Sum(f) == FoldFunction(LAMBDA a, b : a + b, 0, f)

Init ==
    /\ usePg \in BOOLEAN
    /\ month = 0
    /\ inFlight = [w \in Workers |-> 0]
    /\ writing = [w \in Workers |-> 0]
    /\ monthly = [w \in Workers |-> Nothing]
    /\ total = [w \in Workers |-> 0]
    /\ lines = Nothing /\ tail = NoTail /\ table = 0
    /\ own = [w \in Workers |-> Nothing]
    /\ charged = Nothing
    /\ charges = 0 /\ faults = 0 /\ restarts = 0
-----------------------------------------------------------------------------
Idle(w) == writing[w] = 0

\* Mutated form of OverBudget: the budget may be reached, not only approached.
OverBudgetStrictly(w) == monthly[w][month] > Budget

\* check_budget
OverBudget(w) == monthly[w][month] >= Budget

\* A request passes the check, and awaits its backend.
Admit(w) ==
    /\ Idle(w) /\ inFlight[w] < Slots /\ ~OverBudget(w)
    /\ inFlight' = [inFlight EXCEPT ![w] = @ + 1]
    /\ UNCHANGED <<usePg, month, writing, monthly, total, disk, own, charged, charges, faults, restarts>>

\* It ends without a response that costs anything.
Release(w) ==
    /\ Idle(w) /\ inFlight[w] > 0
    /\ inFlight' = [inFlight EXCEPT ![w] = @ - 1]
    /\ UNCHANGED <<usePg, month, writing, monthly, total, disk, own, charged, charges, faults, restarts>>

\* record(), up to the sums in memory.
Charge(w, cost) ==
    /\ Idle(w) /\ inFlight[w] > 0 /\ charges < MaxCharges
    /\ inFlight' = [inFlight EXCEPT ![w] = @ - 1]
    /\ monthly' = [monthly EXCEPT ![w][month] = @ + cost]
    /\ total' = [total EXCEPT ![w] = @ + cost]
    /\ writing' = [writing EXCEPT ![w] = cost]
    /\ own' = [own EXCEPT ![w][month] = @ + cost]
    /\ charged' = [charged EXCEPT ![month] = @ + cost]
    /\ charges' = charges + 1
    /\ UNCHANGED <<usePg, month, disk, faults, restarts>>
-----------------------------------------------------------------------------
Insert(cost) == table' = table + cost

\* Mutated form of AppendLine: the newline is forgotten.
AppendLineBare(cost) ==
    /\ lines' = lines
    /\ tail' = IF tail = NoTail THEN [state |-> "whole", month |-> month, cost |-> cost] ELSE Part

\* The line is written after whatever the file ends with: a torn line swallows it.
AppendLine(cost) ==
    /\ lines' = IF tail = NoTail THEN [lines EXCEPT ![month] = @ + cost] ELSE lines
    /\ tail' = NoTail

\* The disk is full: nothing of the line is written, a part, or all but the newline.
AppendTorn(cost) ==
    /\ UNCHANGED lines
    /\ tail' \in {tail, Part} \cup
           (IF tail = NoTail THEN {[state |-> "whole", month |-> month, cost |-> cost]} ELSE {})

\* What the file refuses is forgotten; "failed" counts what went wrong before.
WriteFile(cost, failed) ==
    /\ \/ AppendLine(cost) /\ faults' = faults + failed
       \/ AppendTorn(cost) /\ faults' = faults + failed + 1
    /\ faults' <= MaxFaults

\* The rest of record().  A connection may break before the commit or after it.
Write(w) ==
    /\ ~Idle(w)
    /\ \/ usePg /\ Insert(writing[w]) /\ UNCHANGED <<lines, tail, faults>>
       \/ usePg /\ (Insert(writing[w]) \/ UNCHANGED table) /\ WriteFile(writing[w], 1)
       \/ ~usePg /\ UNCHANGED table /\ WriteFile(writing[w], 0)
    /\ writing' = [writing EXCEPT ![w] = 0]
    /\ UNCHANGED <<usePg, month, memory, charged, charges, restarts>>
-----------------------------------------------------------------------------
\* The lines json.loads accepts, by the month of their time stamp.
Readable ==
    IF tail.state = "whole" THEN [lines EXCEPT ![tail.month] = @ + tail.cost] ELSE lines

\* Mutated form of Load: the file is added to what is in memory.
LoadOnTop(w) ==
    /\ monthly' = [monthly EXCEPT ![w] = [m \in Months |-> @[m] + Readable[m]]]
    /\ total' = [total EXCEPT ![w] = @ + Sum(Readable)]

\* Mutated form of Load: a plain dict takes the place of the defaultdict.
LoadKnownMonths(w) ==
    /\ monthly' = [monthly EXCEPT ![w] = [m \in {n \in Months : Readable[n] > 0} |-> Readable[m]]]
    /\ total' = [total EXCEPT ![w] = Sum(Readable)]

\* _load_from_disk
Load(w) ==
    /\ monthly' = [monthly EXCEPT ![w] = Readable]
    /\ total' = [total EXCEPT ![w] = Sum(Readable)]

\* The worker dies, wherever it is, and is started again.
Restart(w) ==
    /\ restarts < MaxRestarts
    /\ restarts' = restarts + 1
    /\ inFlight' = [inFlight EXCEPT ![w] = 0]
    /\ writing' = [writing EXCEPT ![w] = 0]
    /\ Load(w)
    /\ own' = [own EXCEPT ![w] = Nothing]
    /\ UNCHANGED <<usePg, month, disk, charged, charges, faults>>

NewMonth ==
    /\ month < MaxMonths
    /\ month' = month + 1
    /\ UNCHANGED <<usePg, writing, memory, disk, charged, charges, faults, restarts>>

Next ==
    \/ \E w \in Workers : Admit(w) \/ Release(w) \/ Write(w) \/ Restart(w)
    \/ \E w \in Workers, cost \in Costs : Charge(w, cost)
    \/ NewMonth

Spec == Init /\ [][Next]_vars
-----------------------------------------------------------------------------
(***************************************************************************)
(* A process overshoots the month's budget by less than one response per   *)
(* request it has in flight, whatever the file it started from contains    *)
(* and whenever the month turns.  No figure is shared, so the deployment   *)
(* spends up to this much once per worker, and once more per restart.      *)
(***************************************************************************)
Cap == Budget - 1 + MaxCost * Slots

OvershootPerProcess == \A w \in Workers, m \in Months : own[w][m] <= Cap

(***************************************************************************)
(* Money is forgotten only with cause.  What was charged is in the table,  *)
(* or in a readable line, or still being written, but for two charges per  *)
(* failed write (its own, and the next one, glued to the torn line) and    *)
(* one per crash.                                                          *)
(***************************************************************************)
LossBounded ==
    Sum(charged) <= Sum(Readable) + table + Sum(writing) + MaxCost * (2 * faults + restarts)

(***************************************************************************)
(* Nobody is refused for money that was not spent: however often a worker  *)
(* restarts, no total exceeds what was charged, and a month's figure does  *)
(* so only by charges of the month before that were being written, one per *)
(* worker, when it ended.                                                  *)
(***************************************************************************)
NeverOvercounted ==
    \A w \in Workers :
        /\ total[w] <= Sum(charged)
        /\ \A m \in Months :
              monthly[w][m] <= charged[m] + (IF m = 0 THEN 0 ELSE MaxCost * Cardinality(Workers))
=============================================================================
