---------------------------- MODULE SpendProofs ----------------------------
(***************************************************************************)
(* The spend tracker, for any number of workers, requests, months and      *)
(* faults, and any state of the file a process starts from.                *)
(*                                                                         *)
(* The overshoot of one process: what it charged in a month says nothing   *)
(* of the requests it has admitted and not charged yet, so the invariant   *)
(* sets their cost aside.                                                  *)
(*                                                                         *)
(* The books of all of them: what was charged, what the file, the table    *)
(* and the workers still hold of it, and what is lost.  They are sums over *)
(* months and workers, so the fold Sum gets a theory first.                *)
(***************************************************************************)
EXTENDS Spend, FiniteSetTheorems, WellFoundedInduction, TLAPS

-----------------------------------------------------------------------------
(***************************************************************************)
(* Induction over the naturals and over the parts of a finite set.  What   *)
(* is to be shown is given as the set of those it holds for: a theorem     *)
(* that takes a predicate could not be instantiated.                       *)
(***************************************************************************)
LEMMA Least ==
  ASSUME NEW T \in SUBSET Nat, T # {}
  PROVE  \E n \in T : \A m \in T : n <= m
<1> DEFINE R == OpToRel(<, Nat)
<1>1. \E n \in T : \A m \in T : ~ (<<m, n>> \in R)
  BY NatLessThanWellFounded, WFMin
<1>2. \A m, n \in Nat : m < n => <<m, n>> \in R
  BY DEF OpToRel
<1> HIDE DEF R
<1>3. PICK n \in T : \A m \in T : ~ (<<m, n>> \in R)
  BY <1>1
<1>4. ASSUME NEW m \in T PROVE n <= m
  <2>1. m \in Nat /\ n \in Nat
    OBVIOUS
  <2>2. ~(m < n)
    BY <1>2, <1>3, <2>1
  <2>3. QED
    BY <2>1, <2>2
<1>5. QED
  BY <1>4

\* A set of naturals with zero and every successor has them all.
LEMMA Induction ==
  ASSUME NEW T \in SUBSET Nat, 0 \in T, \A n \in T : n + 1 \in T
  PROVE  T = Nat
<1>1. SUFFICES ASSUME Nat \ T # {} PROVE FALSE
  OBVIOUS
<1>2. PICK n \in Nat \ T : \A m \in Nat \ T : n <= m
  BY <1>1, Least
<1>3. n # 0 /\ n - 1 \in Nat /\ n = (n - 1) + 1
  BY <1>2
<1>4. n - 1 \in T
  BY <1>2, <1>3
<1>5. QED
  BY <1>2, <1>3, <1>4

\* The element a fold takes out of a set first, and what is left.
Some(s) == CHOOSE x \in s : TRUE
Rest(s) == s \ {Some(s)}

LEMMA RestIs ==
  ASSUME NEW s, IsFiniteSet(s), s # {}
  PROVE  /\ Some(s) \in s /\ IsFiniteSet(Rest(s))
         /\ Cardinality(s) \in Nat /\ Cardinality(Rest(s)) \in Nat
         /\ Cardinality(s) = Cardinality(Rest(s)) + 1
<1>1. Some(s) \in s
  BY DEF Some
<1>2. IsFiniteSet(Rest(s)) /\ Cardinality(Rest(s)) = Cardinality(s) - 1
  BY <1>1, FS_RemoveElement DEF Rest
<1>3. Cardinality(s) \in Nat /\ Cardinality(Rest(s)) \in Nat
  BY <1>2, FS_CardinalityType
<1>4. QED
  BY <1>1, <1>2, <1>3

\* A set with the empty set, and with every part whose rest it has, has the whole.
LEMMA SetInduction ==
  ASSUME NEW S, IsFiniteSet(S), NEW T, {} \in T,
         \A s \in SUBSET S : s # {} /\ Rest(s) \in T => s \in T
  PROVE  S \in T
<1> DEFINE N == {n \in Nat : \A s \in SUBSET S : Cardinality(s) = n => s \in T}
<1>1. \A s \in SUBSET S : IsFiniteSet(s) /\ Cardinality(s) \in Nat
  BY FS_Subset, FS_CardinalityType
<1>2. 0 \in N
  BY <1>1, FS_EmptySet
<1>3. ASSUME NEW n \in N PROVE n + 1 \in N
  <2>1. ASSUME NEW s \in SUBSET S, Cardinality(s) = n + 1 PROVE s \in T
    <3>1. s # {}
      BY <2>1, FS_EmptySet
    <3>2. Rest(s) \in SUBSET S /\ Cardinality(Rest(s)) = n
      BY <1>1, <2>1, <3>1, RestIs DEF Rest
    <3>3. QED
      BY <3>1, <3>2
  <2>2. QED
    BY <2>1
<1>4. N = Nat
  <2> HIDE DEF N
  <2>1. N \in SUBSET Nat
    BY DEF N
  <2>2. QED
    BY <1>2, <1>3, <2>1, Induction
<1>5. QED
  BY <1>1, <1>4
-----------------------------------------------------------------------------
(***************************************************************************)
(* Sum(f), taken apart: the fold has a value for every part of the domain. *)
(***************************************************************************)
Adds(g, f, P) == g = [s \in P |-> IF s = {} THEN 0 ELSE f[Some(s)] + g[Rest(s)]]

\* By induction: what is defined for parts of n elements is for those of n + 1.
LEMMA AddsExists ==
  ASSUME NEW f, NEW S, IsFiniteSet(S)
  PROVE  \E g : Adds(g, f, SUBSET S)
<1> DEFINE P(n) == {s \in SUBSET S : Cardinality(s) <= n}
           N == {n \in Nat : \E g : Adds(g, f, P(n))}
<1>1. \A s \in SUBSET S : IsFiniteSet(s) /\ Cardinality(s) \in Nat /\ Cardinality(s) <= Cardinality(S)
  BY FS_Subset, FS_CardinalityType
<1>2. 0 \in N
  <2>1. \A s \in P(0) : s = {}
    BY <1>1, FS_EmptySet
  <2> DEFINE g == [s \in P(0) |-> 0]
  <2>2. Adds(g, f, P(0))
    BY <2>1 DEF Adds
  <2>3. QED
    BY <2>2
<1>3. ASSUME NEW n \in N PROVE n + 1 \in N
  <2> HIDE DEF P
  <2>1. PICK g : Adds(g, f, P(n))
    OBVIOUS
  <2> DEFINE h == [s \in P(n + 1) |-> IF s = {} THEN 0 ELSE f[Some(s)] + g[Rest(s)]]
  <2>2. \A s \in P(n + 1) : s # {} => Rest(s) \in P(n) /\ Rest(s) \in P(n + 1)
    BY <1>1, RestIs DEF P, Rest
  <2>3. \A s \in P(n) : s \in P(n + 1)
    BY <1>1 DEF P
  <2>4. \A s \in P(n) : h[s] = g[s]
    BY <2>1, <2>3 DEF Adds
  <2>5. Adds(h, f, P(n + 1))
    BY <2>2, <2>4 DEF Adds
  <2>6. QED
    BY <2>5
<1>4. N = Nat
  <2> HIDE DEF N
  <2>1. N \in SUBSET Nat
    BY DEF N
  <2>2. QED
    BY <1>2, <1>3, <2>1, Induction
<1>5. P(Cardinality(S)) = SUBSET S /\ Cardinality(S) \in N
  BY <1>1, <1>4, FS_CardinalityType
<1>6. QED
  BY <1>5

\* Sum is the value that such a function gives the whole domain.
LEMMA SumIs ==
  ASSUME NEW f, IsFiniteSet(DOMAIN f)
  PROVE \E g : Adds(g, f, SUBSET DOMAIN f) /\ Sum(f) = g[DOMAIN f]
<1> DEFINE G == CHOOSE g : Adds(g, f, SUBSET DOMAIN f)
<1>1. Adds(G, f, SUBSET DOMAIN f)
  BY AddsExists
<1>2. Sum(f) = G[DOMAIN f]
  BY DEF Sum, FoldFunction, FoldFunctionOnSet, MapThenFoldSet, Some, Rest, Adds
<1>3. QED
  BY <1>1, <1>2

\* A sum of naturals is a natural...
LEMMA SumType ==
  ASSUME NEW S, IsFiniteSet(S), NEW f \in [S -> Nat]
  PROVE  Sum(f) \in Nat
<1>1. DOMAIN f = S
  OBVIOUS
<1>2. PICK g : Adds(g, f, SUBSET S) /\ Sum(f) = g[S]
  BY <1>1, SumIs
<1> DEFINE T == {s \in SUBSET S : g[s] \in Nat}
<1>3. \A s \in SUBSET S : g[s] = IF s = {} THEN 0 ELSE f[Some(s)] + g[Rest(s)]
  BY <1>2 DEF Adds
<1>4. {} \in T
  BY <1>3
<1>5. ASSUME NEW s \in SUBSET S, s # {}, Rest(s) \in T PROVE s \in T
  <2>1. Some(s) \in S
    BY <1>5 DEF Some
  <2>2. QED
    BY <1>3, <1>5, <2>1
<1>6. S \in T
  <2> HIDE DEF T
  <2>1. QED
    BY <1>4, <1>5, SetInduction
<1>7. QED
  BY <1>2, <1>6

\* Changing one figure changes the sum by the difference.
LEMMA SumChange ==
  ASSUME NEW S, IsFiniteSet(S), NEW f \in [S -> Nat], NEW x \in S, NEW v \in Nat
  PROVE  Sum([f EXCEPT ![x] = v]) = Sum(f) - f[x] + v
<1> DEFINE e == [f EXCEPT ![x] = v]
<1>1. DOMAIN f = S /\ DOMAIN e = S /\ e \in [S -> Nat]
  OBVIOUS
<1>2. \A y \in S : e[y] = IF y = x THEN v ELSE f[y]
  OBVIOUS
<1> HIDE DEF e
<1>3. PICK g : Adds(g, f, SUBSET S) /\ Sum(f) = g[S]
  BY <1>1, SumIs
<1>4. PICK h : Adds(h, e, SUBSET S) /\ Sum(e) = h[S]
  BY <1>1, SumIs
<1> DEFINE T == {s \in SUBSET S : g[s] \in Nat /\ h[s] = IF x \in s THEN g[s] - f[x] + v ELSE g[s]}
<1>5. \A s \in SUBSET S : g[s] = IF s = {} THEN 0 ELSE f[Some(s)] + g[Rest(s)]
  BY <1>3 DEF Adds
<1>6. \A s \in SUBSET S : h[s] = IF s = {} THEN 0 ELSE e[Some(s)] + h[Rest(s)]
  BY <1>4 DEF Adds
<1>7. {} \in T
  <2>1. g[{}] = 0 /\ h[{}] = 0
    BY <1>5, <1>6
  <2>2. QED
    BY <2>1
<1>8. ASSUME NEW s \in SUBSET S, s # {}, Rest(s) \in T PROVE s \in T
  <2>1. Some(s) \in S /\ Some(s) \in s
    BY <1>8 DEF Some
  <2> DEFINE y == Some(s)
             r == Rest(s)
  <2>2. f[y] \in Nat /\ f[x] \in Nat /\ g[r] \in Nat /\ g[s] = f[y] + g[r] /\ h[s] = e[y] + h[r]
    BY <1>5, <1>6, <1>8, <2>1
  <2>3. h[r] = IF x \in r THEN g[r] - f[x] + v ELSE g[r]
    BY <1>8
  <2>4. x \in s <=> x = y \/ x \in r
    BY <2>1 DEF Rest
  <2>5. x = y => x \notin r
    BY DEF Rest
  <2>6. e[y] = IF y = x THEN v ELSE f[y]
    BY <1>2, <2>1
  <2> HIDE DEF y, r
  <2>7. CASE x = y
    BY <2>2, <2>3, <2>4, <2>5, <2>6, <2>7
  <2>8. CASE x # y
    BY <2>2, <2>3, <2>4, <2>6, <2>8
  <2>9. QED
    BY <2>7, <2>8
<1>9. S \in T
  <2> HIDE DEF T
  <2>1. QED
    BY <1>7, <1>8, SetInduction
<1>10. QED
  BY <1>3, <1>4, <1>9 DEF e

\* A sum of figures up to b.
LEMMA SumBound ==
  ASSUME NEW S, IsFiniteSet(S), NEW b \in Nat, NEW f \in [S -> 0 .. b]
  PROVE  Sum(f) <= b * Cardinality(S)
<1>1. DOMAIN f = S
  OBVIOUS
<1>2. PICK g : Adds(g, f, SUBSET S) /\ Sum(f) = g[S]
  BY <1>1, SumIs
<1> DEFINE T == {s \in SUBSET S : g[s] \in Nat /\ g[s] <= b * Cardinality(s)}
<1>3. \A s \in SUBSET S : g[s] = IF s = {} THEN 0 ELSE f[Some(s)] + g[Rest(s)]
  BY <1>2 DEF Adds
<1>4. {} \in T
  <2>1. g[{}] = 0 /\ Cardinality({}) = 0
    BY <1>3, FS_EmptySet
  <2>2. b * 0 = 0
    OBVIOUS
  <2>3. QED
    BY <2>1, <2>2
<1>5. ASSUME NEW s \in SUBSET S, s # {}, Rest(s) \in T PROVE s \in T
  <2>1. Some(s) \in S
    BY <1>5 DEF Some
  <2>2. IsFiniteSet(s)
    BY FS_Subset
  <2> DEFINE n == Cardinality(Rest(s))
  <2>3. n \in Nat /\ Cardinality(s) = n + 1
    BY <1>5, <2>2, RestIs
  <2>4. g[s] = f[Some(s)] + g[Rest(s)] /\ f[Some(s)] \in 0 .. b /\ g[Rest(s)] \in Nat /\ g[Rest(s)] <= b * n
    BY <1>3, <1>5, <2>1
  <2> HIDE DEF n
  <2>5. b * (n + 1) = b * n + b /\ b * n \in Nat
    BY <2>3, Z3
  <2>6. g[s] \in Nat /\ g[s] <= b * (n + 1)
    BY <2>3, <2>4, <2>5
  <2>7. QED
    BY <2>3, <2>6
<1>6. S \in T
  <2> HIDE DEF T
  <2>1. QED
    BY <1>4, <1>5, SetInduction
<1>7. QED
  BY <1>2, <1>6

LEMMA SumZero ==
  ASSUME NEW S, IsFiniteSet(S)
  PROVE  Sum([x \in S |-> 0]) = 0
<1> DEFINE f == [x \in S |-> 0]
<1>1. f \in [S -> 0 .. 0] /\ f \in [S -> Nat]
  OBVIOUS
<1>2. Sum(f) <= 0 * Cardinality(S) /\ Sum(f) \in Nat
  <2> HIDE DEF f
  <2>1. QED
    BY <1>1, SumBound, SumType
<1>3. 0 * Cardinality(S) = 0
  BY FS_CardinalityType
<1>4. QED
  BY <1>2, <1>3
-----------------------------------------------------------------------------
(***************************************************************************)
(* The budget.                                                             *)
(***************************************************************************)

\* The part of TypeOK that the budget depends on.
Typed ==
    /\ month \in Months
    /\ inFlight \in [Workers -> 0 .. Slots]
    /\ monthly \in [Workers -> [Months -> Nat]]
    /\ lines \in [Months -> Nat]
    /\ tail \in Tails
    /\ writing \in [Workers -> 0 .. MaxCost]
    /\ own \in [Workers -> [Months -> Nat]]

\* What the worker added is in what it checks, and leaves room for its requests in flight.
Reserved(w) ==
    /\ \A m \in Months :
          /\ own[w][m] <= monthly[w][m]
          /\ own[w][m] <= Cap
          /\ m > month => own[w][m] = 0
    /\ own[w][month] + MaxCost * inFlight[w] <= Cap

Inv == Typed /\ \A w \in Workers : Reserved(w)

\* What little multiplication is needed.
LEMMA Times ==
  ASSUME NEW n \in 0 .. Slots
  PROVE  /\ MaxCost * n \in Nat
         /\ MaxCost * n <= MaxCost * Slots
         /\ n > 0 => MaxCost * (n - 1) = MaxCost * n - MaxCost
         /\ MaxCost * 0 = 0
  BY SpendAssumption, Z3

LEMMA CapType == Cap \in Nat /\ MaxCost * Slots \in Nat /\ MaxCost * Slots <= Cap
<1>1. Slots \in 0 .. Slots
  BY SpendAssumption
<1>2. MaxCost * Slots \in Nat
  BY <1>1, Times
<1>3. QED
  BY <1>2, SpendAssumption DEF Cap

\* What a start finds in the file is a figure for every month.
LEMMA ReadableType == Typed => Readable \in [Months -> Nat]
<1>1. SUFFICES ASSUME Typed PROVE Readable \in [Months -> Nat]
  OBVIOUS
<1>2. CASE tail.state = "whole"
  <2>1. tail.month \in Months /\ tail.cost \in Nat
    BY <1>1, <1>2, SpendAssumption DEF Typed, Tails, Costs
  <2>2. QED
    BY <1>1, <1>2, <2>1 DEF Typed, Readable
<1>3. CASE tail.state # "whole"
  BY <1>1, <1>3 DEF Typed, Readable
<1>4. QED
  BY <1>2, <1>3

\* However a line is written, the file keeps its form.
LEMMA FileType ==
  ASSUME Typed, NEW cost \in Costs, NEW failed, WriteFile(cost, failed)
  PROVE  lines' \in [Months -> Nat] /\ tail' \in Tails
<1>1. NoTail \in Tails /\ Part \in Tails /\ [state |-> "whole", month |-> month, cost |-> cost] \in Tails
  BY DEF Typed, Tails, NoTail, Part
<1>2. CASE AppendLine(cost)
  <2>1. [lines EXCEPT ![month] = @ + cost] \in [Months -> Nat]
    BY SpendAssumption DEF Typed, Costs
  <2>2. QED
    BY <1>1, <1>2, <2>1 DEF AppendLine, Typed
<1>3. CASE AppendTorn(cost)
  BY <1>1, <1>3 DEF AppendTorn, Typed
<1>4. QED
  BY <1>2, <1>3 DEF WriteFile

LEMMA Initially == Init => Inv
<1>1. SUFFICES ASSUME Init PROVE Inv
  OBVIOUS
<1>2. 0 \in Months /\ 0 \in 0 .. Slots /\ 0 \in 0 .. MaxCost /\ Nothing \in [Months -> Nat]
  BY SpendAssumption DEF Months, Nothing
<1>3. Typed
  BY <1>1, <1>2 DEF Init, Typed, Tails, NoTail
<1>4. ASSUME NEW w \in Workers PROVE Reserved(w)
  <2>1. own[w] = Nothing /\ monthly[w] = Nothing /\ inFlight[w] = 0 /\ month = 0
    BY <1>1 DEF Init
  <2>2. \A m \in Months : Nothing[m] = 0
    BY DEF Nothing
  <2>3. MaxCost * 0 = 0 /\ Cap \in Nat
    BY <1>2, Times, CapType
  <2>4. QED
    BY <1>2, <2>1, <2>2, <2>3 DEF Reserved
<1>5. QED
  BY <1>3, <1>4 DEF Inv

\* A worker that a step leaves alone keeps its reserve.
LEMMA Unmoved ==
  ASSUME NEW w \in Workers, Reserved(w), month' = month, own'[w] = own[w],
         monthly'[w] = monthly[w], inFlight'[w] = inFlight[w]
  PROVE  Reserved(w)'
  BY DEF Reserved

LEMMA AdmitKeeps == ASSUME Inv, NEW v \in Workers, Admit(v) PROVE Inv'
<1>1. inFlight[v] \in 0 .. Slots /\ inFlight[v] + 1 \in 0 .. Slots
  BY SpendAssumption DEF Inv, Typed, Admit
<1>2. Typed'
  BY <1>1 DEF Inv, Typed, Admit, disk
<1>3. ASSUME NEW w \in Workers PROVE Reserved(w)'
  <2>1. CASE w = v
    <3>1. inFlight'[w] = inFlight[v] + 1
      BY <2>1 DEF Admit, Inv, Typed
    <3>2. MaxCost * inFlight'[w] \in Nat /\ MaxCost * inFlight'[w] <= MaxCost * Slots
      BY <1>1, <3>1, Times
    <3>3. own[w][month] \in Nat /\ own[w][month] <= monthly[w][month]
          /\ monthly[w][month] \in Nat /\ monthly[w][month] < Budget
      BY <2>1, SpendAssumption DEF Inv, Typed, Reserved, Admit, OverBudget
    <3>4. own[w][month] + MaxCost * inFlight'[w] <= Cap
      BY <3>2, <3>3, SpendAssumption, CapType DEF Cap
    <3>5. QED
      BY <3>4 DEF Inv, Reserved, Admit
  <2>2. CASE w # v
    <3>1. inFlight'[w] = inFlight[w]
      BY <2>2 DEF Admit, Inv, Typed
    <3>2. QED
      BY <3>1, Unmoved DEF Inv, Admit
  <2>3. QED
    BY <2>1, <2>2
<1>4. QED
  BY <1>2, <1>3 DEF Inv

LEMMA ReleaseKeeps == ASSUME Inv, NEW v \in Workers, Release(v) PROVE Inv'
<1>1. inFlight[v] \in 0 .. Slots /\ inFlight[v] > 0 /\ inFlight[v] - 1 \in 0 .. Slots
  BY SpendAssumption DEF Inv, Typed, Release
<1>2. Typed'
  BY <1>1 DEF Inv, Typed, Release, disk
<1>3. ASSUME NEW w \in Workers PROVE Reserved(w)'
  <2>1. CASE w = v
    <3>1. inFlight'[w] = inFlight[v] - 1
      BY <2>1 DEF Release, Inv, Typed
    <3>2. MaxCost * inFlight'[w] = MaxCost * inFlight[w] - MaxCost /\ MaxCost * inFlight[w] \in Nat
          /\ MaxCost * inFlight'[w] \in Nat /\ MaxCost \in Nat
      BY <1>1, <2>1, <3>1, Times, SpendAssumption
    <3>3. own[w][month] \in Nat /\ own[w][month] + MaxCost * inFlight[w] <= Cap
      BY DEF Inv, Typed, Reserved
    <3>4. own[w][month] + MaxCost * inFlight'[w] <= Cap
      BY <3>2, <3>3, CapType
    <3>5. QED
      BY <3>4 DEF Inv, Reserved, Release
  <2>2. CASE w # v
    <3>1. inFlight'[w] = inFlight[w]
      BY <2>2 DEF Release, Inv, Typed
    <3>2. QED
      BY <3>1, Unmoved DEF Inv, Release
  <2>3. QED
    BY <2>1, <2>2
<1>4. QED
  BY <1>2, <1>3 DEF Inv

\* The cost that was set aside for a request covers what it is charged.
LEMMA ChargeKeeps == ASSUME Inv, NEW v \in Workers, NEW cost \in Costs, Charge(v, cost) PROVE Inv'
<1>1. cost \in Nat /\ cost <= MaxCost /\ cost \in 0 .. MaxCost /\ MaxCost \in Nat
  BY SpendAssumption DEF Costs
<1>2. inFlight[v] \in 0 .. Slots /\ inFlight[v] > 0 /\ inFlight[v] - 1 \in 0 .. Slots
  BY SpendAssumption DEF Inv, Typed, Charge
<1>3. Typed'
  <2>1. inFlight' \in [Workers -> 0 .. Slots]
    BY <1>2 DEF Inv, Typed, Charge
  <2>2. monthly' \in [Workers -> [Months -> Nat]]
    BY <1>1 DEF Inv, Typed, Charge
  <2>3. own' \in [Workers -> [Months -> Nat]]
    BY <1>1 DEF Inv, Typed, Charge
  <2>4. writing' \in [Workers -> 0 .. MaxCost]
    BY <1>1 DEF Inv, Typed, Charge
  <2>5. QED
    BY <2>1, <2>2, <2>3, <2>4 DEF Inv, Typed, Charge, disk
<1>4. ASSUME NEW w \in Workers PROVE Reserved(w)'
  <2>1. CASE w = v
    <3>1. /\ inFlight'[w] = inFlight[v] - 1
          /\ own'[w] = [own[w] EXCEPT ![month] = @ + cost]
          /\ monthly'[w] = [monthly[w] EXCEPT ![month] = @ + cost]
          /\ month' = month
      BY <2>1 DEF Charge, Inv, Typed
    <3>2. MaxCost * inFlight'[w] = MaxCost * inFlight[w] - MaxCost /\ MaxCost * inFlight[w] \in Nat
          /\ MaxCost * inFlight'[w] \in Nat
      BY <1>2, <2>1, <3>1, Times
    <3>3. own[w] \in [Months -> Nat] /\ monthly[w] \in [Months -> Nat] /\ month \in Months
      BY DEF Inv, Typed
    <3>4. own[w][month] + MaxCost * inFlight[w] <= Cap
      BY DEF Inv, Reserved
    <3>5. own'[w][month] = own[w][month] + cost /\ monthly'[w][month] = monthly[w][month] + cost
      BY <3>1, <3>3
    <3>6. own'[w][month] + MaxCost * inFlight'[w] <= Cap
      BY <1>1, <3>2, <3>3, <3>4, <3>5, CapType
    <3>7. ASSUME NEW m \in Months
          PROVE  own'[w][m] <= monthly'[w][m] /\ own'[w][m] <= Cap /\ (m > month => own'[w][m] = 0)
      <4>1. own[w][m] <= monthly[w][m] /\ own[w][m] <= Cap /\ (m > month => own[w][m] = 0)
        BY DEF Inv, Reserved
      <4>2. CASE m = month
        <5>1. ~(m > month)
          BY <3>3, <4>2 DEF Months
        <5>2. own'[w][month] <= Cap
          BY <1>1, <3>2, <3>3, <3>5, <3>6, CapType
        <5>3. own'[w][month] <= monthly'[w][month]
          BY <1>1, <3>3, <3>5, <4>1, <4>2
        <5>4. QED
          BY <4>2, <5>1, <5>2, <5>3
      <4>3. CASE m # month
        BY <3>1, <3>3, <4>1, <4>3
      <4>4. QED
        BY <4>2, <4>3
    <3>8. QED
      BY <3>1, <3>6, <3>7 DEF Reserved
  <2>2. CASE w # v
    <3>1. inFlight'[w] = inFlight[w] /\ own'[w] = own[w] /\ monthly'[w] = monthly[w]
      BY <2>2 DEF Charge, Inv, Typed
    <3>2. QED
      BY <3>1, Unmoved DEF Inv, Charge
  <2>3. QED
    BY <2>1, <2>2
<1>5. QED
  BY <1>3, <1>4 DEF Inv

LEMMA WriteKeeps == ASSUME Inv, NEW v \in Workers, Write(v) PROVE Inv'
<1>1. writing[v] \in Costs /\ 0 \in 0 .. MaxCost
  BY SpendAssumption DEF Inv, Typed, Write, Idle, Costs
<1>2. lines' \in [Months -> Nat] /\ tail' \in Tails
  <2>1. CASE UNCHANGED <<lines, tail>>
    BY <2>1 DEF Inv, Typed
  <2>2. CASE WriteFile(writing[v], 1) \/ WriteFile(writing[v], 0)
    BY <1>1, <2>2, FileType DEF Inv
  <2>3. QED
    BY <2>1, <2>2 DEF Write
<1>3. Typed'
  BY <1>1, <1>2 DEF Inv, Typed, Write, memory
<1>4. ASSUME NEW w \in Workers PROVE Reserved(w)'
  BY Unmoved DEF Inv, Write, memory
<1>5. QED
  BY <1>3, <1>4 DEF Inv

\* A new process has admitted and charged nothing, whatever it finds in the file.
LEMMA RestartKeeps == ASSUME Inv, NEW v \in Workers, Restart(v) PROVE Inv'
<1>1. Readable \in [Months -> Nat]
  BY ReadableType DEF Inv
<1>2. 0 \in 0 .. Slots /\ 0 \in 0 .. MaxCost /\ Nothing \in [Months -> Nat]
  BY SpendAssumption DEF Nothing
<1>3. Typed'
  BY <1>1, <1>2 DEF Inv, Typed, Restart, Load, disk
<1>4. ASSUME NEW w \in Workers PROVE Reserved(w)'
  <2>1. CASE w = v
    <3>1. own'[w] = Nothing /\ monthly'[w] = Readable /\ inFlight'[w] = 0 /\ month' = month
      BY <2>1 DEF Restart, Load, Inv, Typed
    <3>2. \A m \in Months : Nothing[m] = 0
      BY DEF Nothing
    <3>3. MaxCost * 0 = 0 /\ Cap \in Nat /\ month \in Months
      BY <1>2, Times, CapType DEF Inv, Typed
    <3>4. QED
      BY <1>1, <3>1, <3>2, <3>3 DEF Reserved
  <2>2. CASE w # v
    <3>1. inFlight'[w] = inFlight[w] /\ own'[w] = own[w] /\ monthly'[w] = monthly[w]
      BY <2>2 DEF Restart, Load, Inv, Typed
    <3>2. QED
      BY <3>1, Unmoved DEF Inv, Restart
  <2>3. QED
    BY <2>1, <2>2
<1>5. QED
  BY <1>3, <1>4 DEF Inv

\* In a new month nothing is charged yet; the requests of the old one find all of the room.
LEMMA NewMonthKeeps == ASSUME Inv, NewMonth PROVE Inv'
<1>1. month \in Months /\ month + 1 \in Months /\ month' = month + 1
  BY SpendAssumption DEF Inv, Typed, NewMonth, Months
<1>2. Typed'
  BY <1>1 DEF Inv, Typed, NewMonth, memory, disk
<1>3. ASSUME NEW w \in Workers PROVE Reserved(w)'
  <2>1. UNCHANGED <<own, monthly, inFlight>> /\ Reserved(w)
    BY DEF Inv, NewMonth, memory
  <2>2. own[w][month + 1] = 0
    BY <1>1, <2>1 DEF Reserved, Months
  <2>3. MaxCost * inFlight[w] <= Cap /\ MaxCost * inFlight[w] \in Nat
    BY Times, CapType DEF Inv, Typed
  <2>4. \A m \in Months : m > month + 1 => m > month
    BY <1>1 DEF Months
  <2>5. QED
    BY <1>1, <2>1, <2>2, <2>3, <2>4 DEF Reserved
<1>4. QED
  BY <1>2, <1>3 DEF Inv

LEMMA NextKeeps == Inv /\ [Next]_vars => Inv'
<1>1. SUFFICES ASSUME Inv, [Next]_vars PROVE Inv'
  OBVIOUS
<1>2. ASSUME NEW w \in Workers, Admit(w) PROVE Inv'
  BY <1>1, <1>2, AdmitKeeps
<1>3. ASSUME NEW w \in Workers, Release(w) PROVE Inv'
  BY <1>1, <1>3, ReleaseKeeps
<1>4. ASSUME NEW w \in Workers, Write(w) PROVE Inv'
  BY <1>1, <1>4, WriteKeeps
<1>5. ASSUME NEW w \in Workers, Restart(w) PROVE Inv'
  BY <1>1, <1>5, RestartKeeps
<1>6. ASSUME NEW w \in Workers, NEW cost \in Costs, Charge(w, cost) PROVE Inv'
  BY <1>1, <1>6, ChargeKeeps
<1>7. CASE NewMonth
  BY <1>1, <1>7, NewMonthKeeps
<1>8. CASE UNCHANGED vars
  BY <1>1, <1>8 DEF Inv, Typed, Reserved, vars, memory, disk
<1>9. QED
  BY <1>1, <1>2, <1>3, <1>4, <1>5, <1>6, <1>7, <1>8 DEF Next

(***************************************************************************)
(* A process overshoots a month's budget by less than one response per     *)
(* request it may have in flight (check_budget and record of spend.py), for *)
(* every budget, cost and number of requests, whatever is in the file.     *)
(***************************************************************************)
THEOREM ProcessOvershootBounded == Spec => []OvershootPerProcess
<1>1. Inv => OvershootPerProcess
  BY DEF Inv, Reserved, OvershootPerProcess
<1>2. QED
  BY Initially, NextKeeps, <1>1, PTL DEF Spec
-----------------------------------------------------------------------------
(***************************************************************************)
(* The books.  What the budget does not read has its types too, and three  *)
(* accounts are kept of what was charged:                                  *)
(*   - month by month, the file and what is being written stay within what *)
(*     was charged, but for one charge per worker when the month began;    *)
(*   - over all months they stay within it, without exception;             *)
(*   - what they fall short of it is paid for, two charges for a failure   *)
(*     and one for a crash, and the charge that an unfinished line will    *)
(*     swallow, and its own if it is a whole one, are paid in advance.     *)
(***************************************************************************)
Counted ==
    /\ usePg \in BOOLEAN
    /\ total \in [Workers -> Nat]
    /\ table \in Nat
    /\ charged \in [Months -> Nat]
    /\ charges \in 0 .. MaxCharges
    /\ faults \in 0 .. MaxFaults
    /\ restarts \in 0 .. MaxRestarts

Slack(m) == IF m = 0 THEN 0 ELSE MaxCost * Cardinality(Workers)

\* Nothing in the file is of a month to come.
Dated == \A m \in Months : m > month => Readable[m] = 0

Monthly ==
    /\ Readable[month] + Sum(writing) <= charged[month] + Slack(month)
    /\ \A m \in Months : Readable[m] <= charged[m] + Slack(m)

Overall == Sum(Readable) + Sum(writing) <= Sum(charged)

\* What the unfinished line will cost.
Debt ==
    IF tail.state = "none" THEN 0
    ELSE IF tail.state = "part" THEN MaxCost ELSE MaxCost + MaxCost

Allowance == MaxCost * (2 * faults + restarts)

Paid == Sum(charged) + Debt <= Sum(Readable) + table + Sum(writing) + Allowance

Books == Counted /\ Dated /\ Monthly /\ Overall /\ Paid /\ NeverOvercounted

\* The sets that are summed over, and the types of the sums.
LEMMA SumTypes ==
  ASSUME Typed, Counted
  PROVE  /\ IsFiniteSet(Months) /\ IsFiniteSet(Workers) /\ Cardinality(Workers) \in Nat
         /\ Readable \in [Months -> Nat] /\ Sum(Readable) \in Nat
         /\ lines \in [Months -> Nat] /\ Sum(lines) \in Nat
         /\ charged \in [Months -> Nat] /\ Sum(charged) \in Nat
         /\ writing \in [Workers -> Nat] /\ Sum(writing) \in Nat
         /\ Sum(writing) <= MaxCost * Cardinality(Workers)
         /\ MaxCost \in Nat /\ table \in Nat
         /\ \A m \in Months : Slack(m) \in Nat
<1>1. IsFiniteSet(Months)
  BY FS_Interval, SpendAssumption DEF Months
<1>2. IsFiniteSet(Workers) /\ Cardinality(Workers) \in Nat /\ MaxCost \in Nat
  BY FS_CardinalityType, SpendAssumption
<1>3. Readable \in [Months -> Nat]
  BY ReadableType
<1>4. lines \in [Months -> Nat] /\ charged \in [Months -> Nat] /\ table \in Nat
  BY DEF Typed, Counted
<1>5. writing \in [Workers -> Nat] /\ writing \in [Workers -> 0 .. MaxCost]
  BY <1>2 DEF Typed
<1>6. Sum(Readable) \in Nat /\ Sum(lines) \in Nat /\ Sum(charged) \in Nat /\ Sum(writing) \in Nat
  BY <1>1, <1>2, <1>3, <1>4, <1>5, SumType
<1>7. Sum(writing) <= MaxCost * Cardinality(Workers)
  BY <1>2, <1>5, SumBound
<1>8. MaxCost * Cardinality(Workers) \in Nat
  BY <1>2, Z3
<1>9. \A m \in Months : Slack(m) \in Nat
  BY <1>8 DEF Slack
<1>10. QED
  BY <1>1, <1>2, <1>3, <1>4, <1>5, <1>6, <1>7, <1>9

\* A charge that is written or lost is no longer in the sum of those being written.
LEMMA WritingChange ==
  ASSUME Typed, Counted, NEW w \in Workers, NEW v \in Nat,
         writing' = [writing EXCEPT ![w] = v]
  PROVE  Sum(writing') = Sum(writing) - writing[w] + v
  BY SumTypes, SumChange

\* Room for a failure, and for a crash.
LEMMA Room ==
  ASSUME NEW a \in Nat, NEW b \in Nat, NEW r \in Nat
  PROVE  /\ MaxCost * (2 * a + r) \in Nat
         /\ MaxCost * (2 * a + (r + 1)) = MaxCost * (2 * a + r) + MaxCost
         /\ b > a => MaxCost * (2 * b + r) >= MaxCost * (2 * a + r) + MaxCost + MaxCost
<1>1. MaxCost \in Nat
  BY SpendAssumption
<1>2. ASSUME NEW m \in Nat, NEW n \in Nat
      PROVE  MaxCost * m \in Nat /\ MaxCost * (m + n) = MaxCost * m + MaxCost * n
  BY <1>1, Z3
<1> DEFINE base == 2 * a + r
<1>3. base \in Nat
  OBVIOUS
<1>4. 2 * a + (r + 1) = base + 1
  OBVIOUS
<1>5. ASSUME b > a
      PROVE  MaxCost * (2 * b + r) >= MaxCost * base + MaxCost + MaxCost
  <2> DEFINE more == 2 * (b - a) - 2
             least == base + 2
  <2>1. more \in Nat /\ least \in Nat /\ 2 * b + r = least + more
    BY <1>5
  <2> HIDE DEF base, more
  <2>2. MaxCost * least = MaxCost * base + MaxCost * 2
    BY <1>2, <1>3
  <2> HIDE DEF least
  <2>3. MaxCost * (least + more) = MaxCost * least + MaxCost * more /\ MaxCost * more \in Nat
    BY <1>2, <2>1
  <2>4. MaxCost * 2 = MaxCost + MaxCost /\ MaxCost * base \in Nat
    BY <1>1, <1>2, <1>3
  <2> DEFINE x == MaxCost * base
             y == MaxCost * more
             z == MaxCost * least
  <2>5. x \in Nat /\ y \in Nat /\ z = x + (MaxCost + MaxCost)
    BY <2>2, <2>3, <2>4
  <2> HIDE DEF x, y, z
  <2>6. z + y >= x + MaxCost + MaxCost
    BY <1>1, <2>5
  <2>7. QED
    BY <2>1, <2>3, <2>6 DEF x, y, z
<1> HIDE DEF base
<1>6. MaxCost * (base + 1) = MaxCost * base + MaxCost
  <2>1. MaxCost * (base + 1) = MaxCost * base + MaxCost * 1
    BY <1>2, <1>3
  <2>2. QED
    BY <1>1, <2>1
<1>7. MaxCost * base \in Nat
  BY <1>2, <1>3
<1>8. QED
  BY <1>4, <1>5, <1>6, <1>7 DEF base

LEMMA Allowances ==
  ASSUME Typed, Counted, Counted'
  PROVE  /\ Allowance \in Nat /\ Allowance' \in Nat
         /\ faults' = faults /\ restarts' = restarts => Allowance' = Allowance
         /\ faults' = faults /\ restarts' = restarts + 1 => Allowance' = Allowance + MaxCost
         /\ restarts' = restarts /\ faults' > faults =>
                Allowance' >= Allowance + MaxCost + MaxCost
<1>1. faults \in Nat /\ restarts \in Nat /\ faults' \in Nat /\ restarts' \in Nat
  BY SpendAssumption DEF Counted
<1>2. QED
  BY <1>1, Room DEF Allowance
-----------------------------------------------------------------------------
\* The unfinished line counts if it is whole.
TailCost == IF tail.state = "whole" THEN tail.cost ELSE 0
TailOf(m) == IF tail.state = "whole" /\ tail.month = m THEN tail.cost ELSE 0

LEMMA TailIs ==
  ASSUME Typed
  PROVE  /\ TailCost \in Nat /\ TailCost <= MaxCost
         /\ \A m \in Months : TailOf(m) \in Nat
         /\ tail.state \in {"none", "part", "whole"}
         /\ tail.state = "none" => tail = NoTail
         /\ tail.state = "whole" => tail.month \in Months /\ tail.cost \in Costs
<1>1. tail \in Tails
  BY DEF Typed
<1>2. tail.state \in {"none", "part", "whole"}
  BY <1>1 DEF Tails
<1>3. tail.state = "none" => tail = NoTail
  BY <1>1 DEF Tails, NoTail
<1>4. tail.state = "whole" => tail.month \in Months /\ tail.cost \in Costs
  BY <1>1 DEF Tails
<1>5. QED
  BY <1>2, <1>3, <1>4, SpendAssumption DEF TailCost, TailOf, Costs

ReadableParts ==
    /\ \A m \in Months : Readable[m] = lines[m] + TailOf(m)
    /\ Sum(Readable) = Sum(lines) + TailCost

LEMMA ReadableIs == Typed /\ Counted => ReadableParts
<1> SUFFICES ASSUME Typed, Counted PROVE ReadableParts
  OBVIOUS
<1> USE DEF ReadableParts
<1>1. lines \in [Months -> Nat] /\ IsFiniteSet(Months) /\ Sum(lines) \in Nat
  BY SumTypes
<1>2. CASE tail.state = "whole"
  <2>1. tail.month \in Months /\ tail.cost \in Nat
    BY <1>2, TailIs, SpendAssumption DEF Costs
  <2> DEFINE n == tail.month
             v == lines[n] + tail.cost
  <2>2. Readable = [lines EXCEPT ![n] = v] /\ v \in Nat /\ n \in Months /\ lines[n] \in Nat
    BY <1>1, <1>2, <2>1 DEF Readable
  <2>3. Sum([lines EXCEPT ![n] = v]) = Sum(lines) - lines[n] + v
    <3> HIDE DEF n, v
    <3>1. QED
      BY <1>1, <2>2, SumChange
  <2>4. Sum(Readable) = Sum(lines) + tail.cost
    BY <1>1, <2>1, <2>2, <2>3
  <2>5. ASSUME NEW m \in Months PROVE Readable[m] = lines[m] + TailOf(m)
    BY <1>1, <1>2, <2>1, <2>2 DEF TailOf
  <2>6. QED
    BY <1>2, <2>4, <2>5 DEF TailCost
<1>3. CASE tail.state # "whole"
  BY <1>1, <1>3 DEF Readable, TailCost, TailOf
<1>4. QED
  BY <1>2, <1>3

\* A line more, in the sums.
LEMMA LinesChange ==
  ASSUME Typed, Counted, NEW cost \in Nat, lines' = [lines EXCEPT ![month] = @ + cost]
  PROVE  /\ \A m \in Months : lines'[m] = IF m = month THEN lines[m] + cost ELSE lines[m]
         /\ Sum(lines') = Sum(lines) + cost
<1>1. lines \in [Months -> Nat] /\ IsFiniteSet(Months) /\ Sum(lines) \in Nat /\ month \in Months
  BY SumTypes DEF Typed
<1> DEFINE v == lines[month] + cost
<1>2. lines' = [lines EXCEPT ![month] = v] /\ v \in Nat /\ lines[month] \in Nat
  BY <1>1
<1>3. Sum([lines EXCEPT ![month] = v]) = Sum(lines) - lines[month] + v
  <2> DEFINE n == month
  <2>1. v \in Nat /\ n \in Months /\ lines \in [Months -> Nat] /\ IsFiniteSet(Months)
    BY <1>1, <1>2
  <2> HIDE DEF v, n
  <2>2. Sum([lines EXCEPT ![n] = v]) = Sum(lines) - lines[n] + v
    BY <2>1, SumChange
  <2>3. QED
    BY <2>2 DEF n
<1>4. QED
  BY <1>1, <1>2, <1>3

(***************************************************************************)
(* What the file is told of a charge, it gains at most; what it does not   *)
(* gain is the debt of the line it swallows, or was paid for.              *)
(***************************************************************************)
LEMMA WriteFileBooks ==
  ASSUME Typed, Counted, Typed', Counted', month' = month, restarts' = restarts,
         NEW cost \in Costs, NEW failed \in {0, 1}, WriteFile(cost, failed)
  PROVE  /\ \A m \in Months : Readable'[m] <= Readable[m] + (IF m = month THEN cost ELSE 0)
         /\ Sum(Readable') <= Sum(Readable) + cost
         /\ Sum(Readable) + cost + Debt' + Allowance <= Sum(Readable') + Debt + Allowance'
<1>1. /\ cost \in Nat /\ cost <= MaxCost /\ MaxCost \in Nat
      /\ Allowance \in Nat /\ Allowance' \in Nat
      /\ TailCost \in Nat /\ TailCost <= MaxCost
      /\ \A m \in Months : TailOf(m) \in Nat /\ lines[m] \in Nat
      /\ Sum(lines) \in Nat
      /\ month \in Months
      /\ faults \in Nat
  BY SpendAssumption, Allowances, TailIs, SumTypes DEF Costs, Typed, Counted
<1>2. /\ Sum(Readable) = Sum(lines) + TailCost
      /\ \A m \in Months : Readable[m] = lines[m] + TailOf(m)
  BY ReadableIs DEF ReadableParts
<1>3. /\ Sum(Readable') = Sum(lines') + TailCost'
      /\ \A m \in Months : Readable'[m] = lines'[m] + TailOf(m)'
  <2>1. ReadableParts'
    BY ReadableIs, PTL
  <2>2. QED
    BY <2>1 DEF ReadableParts
<1>4. CASE AppendLine(cost)
  <2>1. tail'.state = "none" /\ TailCost' = 0 /\ Debt' = 0 /\ \A m \in Months : TailOf(m)' = 0
    BY <1>4 DEF AppendLine, NoTail, TailCost, TailOf, Debt
  <2>2. Allowance' >= Allowance
    BY <1>1, Allowances, <1>4 DEF WriteFile
  <2>3. CASE tail = NoTail
    <3>1. lines' = [lines EXCEPT ![month] = @ + cost]
      BY <1>4, <2>3 DEF AppendLine
    <3>2. TailCost = 0 /\ Debt = 0 /\ \A m \in Months : TailOf(m) = 0
      BY <2>3 DEF NoTail, TailCost, TailOf, Debt
    <3>3. /\ \A m \in Months : lines'[m] = IF m = month THEN lines[m] + cost ELSE lines[m]
          /\ Sum(lines') = Sum(lines) + cost
      BY <1>1, <3>1, LinesChange
    <3>4. \A m \in Months : Readable'[m] = Readable[m] + (IF m = month THEN cost ELSE 0)
      BY <1>1, <1>2, <1>3, <2>1, <3>2, <3>3
    <3>5. Sum(Readable') = Sum(Readable) + cost /\ Sum(Readable) \in Nat
      BY <1>1, <1>2, <1>3, <2>1, <3>2, <3>3
    <3>6. \A m \in Months : Readable'[m] <= Readable[m] + (IF m = month THEN cost ELSE 0)
      BY <1>1, <1>2, <3>2, <3>4
    <3>7. QED
      BY <1>1, <2>1, <2>2, <3>2, <3>5, <3>6
  <2>4. CASE tail # NoTail
    <3>1. lines' = lines
      BY <1>4, <2>4 DEF AppendLine
    <3>2. Debt \in Nat /\ Debt >= MaxCost + TailCost
      BY <1>1, <2>4, TailIs DEF Debt, TailCost
    <3>3. QED
      BY <1>1, <1>2, <1>3, <2>1, <2>2, <3>1, <3>2
  <2>5. QED
    BY <2>3, <2>4
<1>5. CASE AppendTorn(cost) /\ faults' = faults + failed + 1
  <2>1. Allowance' >= Allowance + MaxCost + MaxCost
    BY <1>1, <1>5, Allowances
  <2>2. lines' = lines
    BY <1>5 DEF AppendTorn
  <2>3. CASE tail' = tail
    <3>1. TailCost' = TailCost /\ Debt' = Debt /\ \A m \in Months : TailOf(m)' = TailOf(m)
      BY <2>3 DEF TailCost, TailOf, Debt
    <3>2. Debt \in Nat
      BY <1>1 DEF Debt
    <3>3. QED
      BY <1>1, <1>2, <1>3, <2>1, <2>2, <3>1, <3>2
  <2>4. CASE tail' = Part
    <3>1. TailCost' = 0 /\ Debt' = MaxCost /\ \A m \in Months : TailOf(m)' = 0
      BY <2>4 DEF Part, TailCost, TailOf, Debt
    <3>2. Debt \in Nat /\ Debt >= TailCost /\ (TailCost > 0 => Debt = MaxCost + MaxCost)
      BY <1>1, TailIs DEF Debt, TailCost
    <3>3. QED
      BY <1>1, <1>2, <1>3, <2>1, <2>2, <3>1, <3>2
  <2>5. CASE tail = NoTail /\ tail' = [state |-> "whole", month |-> month, cost |-> cost]
    <3>1. /\ TailCost' = cost /\ Debt' = MaxCost + MaxCost
          /\ \A m \in Months : TailOf(m)' = IF m = month THEN cost ELSE 0
      BY <2>5 DEF TailCost, TailOf, Debt
    <3>2. TailCost = 0 /\ Debt = 0 /\ \A m \in Months : TailOf(m) = 0
      BY <2>5 DEF NoTail, TailCost, TailOf, Debt
    <3>3. QED
      BY <1>1, <1>2, <1>3, <2>1, <2>2, <3>1, <3>2
  <2>6. QED
    BY <1>5, <2>3, <2>4, <2>5 DEF AppendTorn
<1>6. QED
  BY <1>4, <1>5 DEF WriteFile
-----------------------------------------------------------------------------
\* The rest of the types.
LEMMA CountedStep == Typed /\ Counted /\ [Next]_vars => Counted'
<1> SUFFICES ASSUME Typed, Counted, [Next]_vars PROVE Counted'
  OBVIOUS
<1> USE SpendAssumption DEF Counted
<1>1. ASSUME NEW w \in Workers, Admit(w) \/ Release(w) PROVE Counted'
  BY <1>1 DEF Admit, Release, disk
<1>2. ASSUME NEW w \in Workers, NEW cost \in Costs, Charge(w, cost) PROVE Counted'
  <2>1. cost \in Nat /\ month \in Months
    BY DEF Costs, Typed
  <2>2. total' \in [Workers -> Nat] /\ charged' \in [Months -> Nat]
    BY <1>2, <2>1 DEF Charge
  <2>3. QED
    BY <1>2, <2>2 DEF Charge, disk
<1>3. ASSUME NEW w \in Workers, Write(w) PROVE Counted'
  <2>1. writing[w] \in Nat
    BY DEF Typed
  <2>2. table' \in Nat
    BY <1>3, <2>1 DEF Write, Insert
  <2>3. ASSUME NEW failed \in {0, 1}, WriteFile(writing[w], failed) PROVE faults' \in 0 .. MaxFaults
    BY <2>3 DEF WriteFile
  <2>4. faults' \in 0 .. MaxFaults
    BY <1>3, <2>3 DEF Write
  <2>5. QED
    BY <1>3, <2>2, <2>4 DEF Write, memory
<1>4. ASSUME NEW w \in Workers, Restart(w) PROVE Counted'
  <2>1. Sum(Readable) \in Nat
    BY SumTypes
  <2>2. total' \in [Workers -> Nat]
    BY <1>4, <2>1 DEF Restart, Load
  <2>3. QED
    BY <1>4, <2>2 DEF Restart, disk
<1>5. CASE NewMonth \/ UNCHANGED vars
  BY <1>5 DEF NewMonth, vars, memory, disk
<1>6. QED
  BY <1>1, <1>2, <1>3, <1>4, <1>5 DEF Next

\* A charge is added to what is being written and to what was charged.
LEMMA ChargeBooks ==
  ASSUME Typed, Books, Typed', Counted', NEW v \in Workers, NEW cost \in Costs, Charge(v, cost)
  PROVE  Books'
<1> USE DEF Books
<1>1. cost \in Nat /\ month \in Months /\ month' = month
  BY SpendAssumption DEF Costs, Typed, Charge
<1>2. Readable' = Readable /\ Debt' = Debt /\ Allowance' = Allowance /\ table' = table
  BY DEF Charge, disk, Readable, Debt, Allowance
<1>3. Sum(writing') = Sum(writing) + cost
  <2>1. writing[v] = 0 /\ writing' = [writing EXCEPT ![v] = cost] /\ Sum(writing) \in Nat
    BY SumTypes DEF Charge, Idle
  <2>2. Sum(writing') = Sum(writing) - writing[v] + cost
    BY <1>1, <2>1, WritingChange
  <2>3. QED
    BY <1>1, <2>1, <2>2
<1> DEFINE c == charged[month] + cost
           n == month
<1>4. c \in Nat /\ n \in Months /\ charged \in [Months -> Nat] /\ charged' = [charged EXCEPT ![n] = c]
  BY <1>1 DEF Counted, Charge
<1>5. Sum(charged') = Sum(charged) + cost
  <2> HIDE DEF c, n
  <2>1. Sum(charged') = Sum(charged) - charged[n] + c
    BY <1>4, SumTypes, SumChange
  <2>2. charged[n] \in Nat /\ Sum(charged) \in Nat /\ c = charged[n] + cost
    BY <1>4, SumTypes DEF c, n
  <2>3. QED
    BY <1>1, <2>1, <2>2
<1>6. \A m \in Months : charged'[m] = charged[m] + (IF m = month THEN cost ELSE 0) /\ charged[m] \in Nat
  BY <1>4
<1>7. /\ \A m \in Months : Slack(m)' = Slack(m) /\ Slack(m) \in Nat /\ Readable[m] \in Nat
      /\ Sum(Readable) \in Nat /\ Sum(writing) \in Nat /\ Sum(charged) \in Nat
  BY SumTypes DEF Slack
<1> HIDE DEF c, n
<1>8. Dated' /\ Monthly'
  <2>1. Dated'
    BY <1>1, <1>2 DEF Dated, Months
  <2>2. Readable[month] + (Sum(writing) + cost) <= (charged[month] + cost) + Slack(month)
    BY <1>1, <1>6, <1>7 DEF Monthly
  <2>3. \A m \in Months : Readable[m] <= charged'[m] + Slack(m)
    BY <1>1, <1>6, <1>7 DEF Monthly
  <2>4. QED
    BY <1>1, <1>2, <1>3, <1>6, <1>7, <2>1, <2>2, <2>3 DEF Monthly, Months
<1>9. Overall'
  BY <1>1, <1>2, <1>3, <1>5, <1>7 DEF Overall
<1>10. Paid'
  <2>1. Debt \in Nat /\ table \in Nat /\ Allowance \in Nat
    BY Allowances, SpendAssumption DEF Debt, Counted
  <2>2. QED
    BY <1>1, <1>2, <1>3, <1>5, <1>7, <2>1 DEF Paid
<1>11. NeverOvercounted'
  <2>1. ASSUME NEW w \in Workers, NEW m \in Months
        PROVE  total'[w] <= total[w] + cost /\ monthly'[w][m] <= monthly[w][m] + (IF m = month THEN cost ELSE 0)
               /\ total[w] \in Nat /\ monthly[w][m] \in Nat
    BY <1>1 DEF Charge, Typed, Counted
  <2>2. ASSUME NEW w \in Workers
        PROVE  total[w] <= Sum(charged) /\ \A m \in Months : monthly[w][m] <= charged[m] + Slack(m)
    BY DEF NeverOvercounted, Slack
  <2>3. ASSUME NEW w \in Workers PROVE total'[w] <= Sum(charged')
    BY <1>1, <1>5, <1>7, <2>1, <2>2 DEF Counted, Charge
  <2>4. ASSUME NEW w \in Workers, NEW m \in Months PROVE monthly'[w][m] <= charged'[m] + Slack(m)
    <3> DEFINE more == IF m = month THEN cost ELSE 0
    <3>1. charged'[m] = charged[m] + more /\ charged[m] \in Nat /\ Slack(m) \in Nat
      BY <1>6, <1>7
    <3>2. monthly'[w][m] <= monthly[w][m] + more /\ monthly[w][m] \in Nat
      BY <2>1
    <3>3. monthly[w][m] <= charged[m] + Slack(m)
      BY <2>2
    <3>4. monthly'[w][m] \in Nat
      <4>1. monthly' \in [Workers -> [Months -> Nat]]
        BY DEF Typed, Months
      <4>2. QED
        BY <4>1
    <3>5. more \in Nat
      BY <1>1
    <3> HIDE DEF more
    <3>6. QED
      BY <3>1, <3>2, <3>3, <3>4, <3>5
  <2>5. QED
    BY <2>3, <2>4 DEF NeverOvercounted, Slack, Months
<1>12. QED
  BY <1>8, <1>9, <1>10, <1>11

\* A charge that was being written is in the table, in the file or forgotten.
LEMMA WriteBooks ==
  ASSUME Typed, Books, Typed', Counted', NEW v \in Workers, Write(v)
  PROVE  Books'
<1> USE DEF Books
<1> DEFINE cost == writing[v]
<1>1. cost \in Costs /\ cost \in Nat /\ month \in Months
  BY SpendAssumption DEF Typed, Write, Idle, Costs
<1>2. UNCHANGED <<month, monthly, total, charged, restarts>>
  BY DEF Write, memory
<1>3. Sum(writing') = Sum(writing) - cost
  <2>1. writing' = [writing EXCEPT ![v] = 0] /\ Sum(writing) \in Nat
    BY SumTypes DEF Write
  <2>2. Sum(writing') = Sum(writing) - writing[v] + 0
    BY <2>1, WritingChange
  <2>3. QED
    BY <1>1, <2>1, <2>2
<1>4. /\ \A m \in Months : Slack(m)' = Slack(m) /\ Slack(m) \in Nat
                           /\ Readable[m] \in Nat /\ charged[m] \in Nat
      /\ Sum(Readable) \in Nat /\ Sum(writing) \in Nat /\ Sum(charged) \in Nat
      /\ Sum(writing') \in Nat /\ Debt \in Nat /\ Debt' \in Nat
      /\ table \in Nat /\ table' \in Nat /\ Allowance \in Nat /\ Allowance' \in Nat
  <2>1. Sum(writing') \in Nat
    BY SumType, SpendAssumption DEF Typed
  <2>2. QED
    BY <2>1, SumTypes, Allowances, SpendAssumption DEF Slack, Debt, Counted
<1>5. Readable' \in [Months -> Nat] /\ Sum(Readable') \in Nat
  <2>1. Readable' \in [Months -> Nat]
    <3>1. (Typed => Readable \in [Months -> Nat])'
      BY ReadableType, PTL
    <3>2. QED
      BY <3>1 DEF Months
  <2>2. IsFiniteSet(Months)
    BY SumTypes
  <2>3. QED
    BY <2>1, <2>2, SumType
<1>6. /\ \A m \in Months : Readable'[m] <= Readable[m] + (IF m = month THEN cost ELSE 0)
      /\ Sum(Readable') <= Sum(Readable) + cost
      /\ Sum(Readable) + table + cost + Debt' + Allowance <= Sum(Readable') + table' + Debt + Allowance'
  <2> HIDE DEF cost
  <2>1. ASSUME NEW failed \in {0, 1}, WriteFile(cost, failed), table' >= table
        PROVE  <1>6!:
    <3>1. /\ \A m \in Months : Readable'[m] <= Readable[m] + (IF m = month THEN cost ELSE 0)
          /\ Sum(Readable') <= Sum(Readable) + cost
          /\ Sum(Readable) + cost + Debt' + Allowance <= Sum(Readable') + Debt + Allowance'
      BY <1>1, <1>2, <2>1, WriteFileBooks
    <3>2. Sum(Readable) + table + cost + Debt' + Allowance <= Sum(Readable') + table' + Debt + Allowance'
      BY <1>1, <1>4, <1>5, <2>1, <3>1
    <3>3. QED
      BY <3>1, <3>2
  <2>2. CASE Insert(cost) /\ UNCHANGED <<lines, tail, faults>>
    <3>1. Readable' = Readable /\ Debt' = Debt /\ Allowance' = Allowance /\ table' = table + cost
      BY <1>2, <2>2 DEF Readable, Debt, Allowance, Insert
    <3>2. QED
      BY <1>1, <1>4, <3>1
  <2>3. Insert(cost) => table' >= table
    BY <1>1, <1>4 DEF Insert
  <2>4. table' = table => table' >= table
    BY <1>4
  <2>5. QED
    BY <2>1, <2>2, <2>3, <2>4 DEF Write, cost
<1> HIDE DEF cost
<1>7. Dated'
  <2>1. ASSUME NEW m \in Months, m > month PROVE Readable'[m] = 0
    <3>1. Readable[m] = 0 /\ m # month
      BY <1>1, <2>1 DEF Dated, Months
    <3>2. Readable'[m] <= 0 /\ Readable'[m] \in Nat
      BY <1>5, <1>6, <3>1
    <3>3. QED
      BY <3>2
  <2>2. QED
    BY <1>2, <2>1 DEF Dated, Months
<1>8. Monthly'
  <2>1. Readable'[month] + Sum(writing') <= charged[month] + Slack(month)
    <3>1. Readable'[month] <= Readable[month] + cost /\ Readable'[month] \in Nat /\ Readable[month] \in Nat
      BY <1>1, <1>4, <1>5, <1>6
    <3>2. Readable[month] + Sum(writing) <= charged[month] + Slack(month)
      BY DEF Monthly
    <3>3. charged[month] \in Nat /\ Slack(month) \in Nat
      BY <1>1, <1>4
    <3>4. QED
      BY <1>1, <1>3, <1>4, <3>1, <3>2, <3>3
  <2>2. ASSUME NEW m \in Months PROVE Readable'[m] <= charged[m] + Slack(m)
    <3>1. charged[m] \in Nat /\ Slack(m) \in Nat /\ Readable'[m] \in Nat /\ Readable[m] \in Nat
      BY <1>4, <1>5
    <3>2. CASE m = month
      BY <1>4, <2>1, <3>1, <3>2
    <3>3. CASE m # month
      BY <1>6, <3>1, <3>3 DEF Monthly
    <3>4. QED
      BY <3>2, <3>3
  <2>3. QED
    BY <1>2, <1>4, <2>1, <2>2 DEF Monthly, Months
<1>9. Overall'
  BY <1>1, <1>2, <1>3, <1>4, <1>5, <1>6 DEF Overall
<1>10. Paid'
  BY <1>1, <1>2, <1>3, <1>4, <1>5, <1>6 DEF Paid
<1>11. NeverOvercounted'
  BY <1>2 DEF NeverOvercounted, Months
<1>12. QED
  BY <1>7, <1>8, <1>9, <1>10, <1>11

\* A new process starts from the file; the charge it was writing is forgotten.
LEMMA RestartBooks ==
  ASSUME Typed, Books, Typed', Counted', NEW v \in Workers, Restart(v)
  PROVE  Books'
<1> USE DEF Books
<1> DEFINE cost == writing[v]
<1>1. cost \in Nat /\ cost <= MaxCost /\ MaxCost \in Nat
  BY SpendAssumption DEF Typed
<1>2. UNCHANGED <<month, charged, table, faults>> /\ Readable' = Readable /\ Debt' = Debt
      /\ restarts' = restarts + 1
  BY DEF Restart, disk, Readable, Debt
<1>3. Sum(writing') = Sum(writing) - cost
  <2>1. writing' = [writing EXCEPT ![v] = 0] /\ Sum(writing) \in Nat
    BY SumTypes DEF Restart
  <2>2. Sum(writing') = Sum(writing) - writing[v] + 0
    BY <2>1, WritingChange
  <2>3. QED
    BY <1>1, <2>1, <2>2
<1>4. /\ \A m \in Months : Slack(m) \in Nat /\ Readable[m] \in Nat /\ charged[m] \in Nat
      /\ Sum(Readable) \in Nat /\ Sum(writing) \in Nat /\ Sum(charged) \in Nat
      /\ Sum(writing') \in Nat /\ Debt \in Nat /\ table \in Nat /\ Allowance \in Nat
      /\ month \in Months
  <2>1. Sum(writing') \in Nat
    BY SumType, SpendAssumption DEF Typed
  <2>2. QED
    BY <2>1, SumTypes, Allowances, SpendAssumption DEF Debt, Typed
<1>5. Allowance' = Allowance + MaxCost
  BY <1>2, Allowances
<1> HIDE DEF cost
<1>6. Dated' /\ Monthly'
  <2>1. Readable[month] + Sum(writing') <= charged[month] + Slack(month)
    BY <1>1, <1>3, <1>4 DEF Monthly
  <2>2. QED
    BY <1>2, <2>1 DEF Dated, Monthly, Slack, Months
<1>7. Overall'
  BY <1>1, <1>2, <1>3, <1>4 DEF Overall
<1>8. Paid'
  BY <1>1, <1>2, <1>3, <1>4, <1>5 DEF Paid
<1>9. NeverOvercounted'
  <2>1. Sum(Readable) <= Sum(charged) /\ \A m \in Months : Readable[m] <= charged[m] + Slack(m)
    BY <1>4 DEF Overall, Monthly
  <2>2. ASSUME NEW w \in Workers
        PROVE  \/ total'[w] = total[w] /\ monthly'[w] = monthly[w]
               \/ total'[w] = Sum(Readable) /\ monthly'[w] = Readable
    BY DEF Restart, Load, Typed, Counted
  <2>3. ASSUME NEW w \in Workers
        PROVE  total'[w] <= Sum(charged) /\ \A m \in Months : monthly'[w][m] <= charged[m] + Slack(m)
    BY <2>1, <2>2 DEF NeverOvercounted, Slack
  <2>4. QED
    BY <1>2, <2>3 DEF NeverOvercounted, Slack, Months
<1>10. QED
  BY <1>6, <1>7, <1>8, <1>9

\* What is being written when a month begins is at most one charge per worker.
LEMMA NewMonthBooks ==
  ASSUME Typed, Books, NewMonth
  PROVE  Dated' /\ Monthly' /\ Overall' /\ Paid' /\ NeverOvercounted'
<1> USE DEF Books
<1>1. month \in Months /\ month + 1 \in Months /\ month' = month + 1 /\ month + 1 # 0 /\ month \in Nat
  BY SpendAssumption DEF Typed, NewMonth, Months
<1>2. /\ UNCHANGED <<charged, table, writing, monthly, total>>
      /\ Readable' = Readable /\ Debt' = Debt /\ Allowance' = Allowance
  BY DEF NewMonth, memory, disk, Readable, Debt, Allowance
<1>3. Readable[month + 1] = 0
  BY <1>1 DEF Dated
<1>4. Slack(month + 1) = MaxCost * Cardinality(Workers) /\ Sum(writing) <= Slack(month + 1)
  BY <1>1, SumTypes DEF Slack
<1>5. charged[month + 1] \in Nat /\ Slack(month + 1) \in Nat /\ Sum(writing) \in Nat
  BY <1>1, SumTypes
<1>6. Readable[month + 1] + Sum(writing) <= charged[month + 1] + Slack(month + 1)
  BY <1>3, <1>4, <1>5
<1>7. Dated'
  <2>1. \A m \in Months : m > month + 1 => m > month
    BY <1>1 DEF Months
  <2>2. QED
    BY <1>1, <1>2, <2>1 DEF Dated, Months
<1>8. Monthly'
  BY <1>1, <1>2, <1>6 DEF Monthly, Slack, Months
<1>9. QED
  BY <1>2, <1>7, <1>8 DEF Overall, Paid, NeverOvercounted, Months

LEMMA BooksStep == Inv /\ Inv' /\ Books /\ [Next]_vars => Books'
<1> SUFFICES ASSUME Inv, Inv', Books, [Next]_vars PROVE Books'
  OBVIOUS
<1>1. Typed /\ Typed' /\ Counted /\ Counted'
  BY CountedStep DEF Inv, Books
<1>2. ASSUME NEW w \in Workers, Admit(w) \/ Release(w) PROVE Books'
  BY <1>1, <1>2 DEF Admit, Release, disk, Books, Dated, Monthly, Overall, Paid, NeverOvercounted,
                    Readable, Debt, Allowance, Slack, Months
<1>3. ASSUME NEW w \in Workers, NEW cost \in Costs, Charge(w, cost) PROVE Books'
  BY <1>1, <1>3, ChargeBooks
<1>4. ASSUME NEW w \in Workers, Write(w) PROVE Books'
  BY <1>1, <1>4, WriteBooks
<1>5. ASSUME NEW w \in Workers, Restart(w) PROVE Books'
  BY <1>1, <1>5, RestartBooks
<1>6. CASE NewMonth
  BY <1>1, <1>6, NewMonthBooks DEF Books
<1>7. CASE UNCHANGED vars
  BY <1>1, <1>7 DEF vars, memory, disk, Books, Dated, Monthly, Overall, Paid, NeverOvercounted,
                    Readable, Debt, Allowance, Slack, Months
<1>8. QED
  BY <1>2, <1>3, <1>4, <1>5, <1>6, <1>7 DEF Next

LEMMA BooksInit == Init => Books
<1> SUFFICES ASSUME Init PROVE Books
  OBVIOUS
<1>1. 0 \in Months /\ Nothing \in [Months -> Nat] /\ \A m \in Months : Nothing[m] = 0
  BY SpendAssumption DEF Months, Nothing
<1>2. Typed
  BY Initially DEF Inv
<1>3. Counted
  BY <1>1, SpendAssumption DEF Init, Counted
<1>4. Sum(Nothing) = 0 /\ Sum(writing) = 0
  BY <1>2, <1>3, SumTypes, SumZero DEF Init, Nothing
<1>5. Readable = Nothing /\ charged = Nothing /\ month = 0 /\ Debt = 0 /\ table = 0
  BY DEF Init, NoTail, Readable, Debt
<1>6. \A m \in Months : Slack(m) \in Nat
  BY <1>2, <1>3, SumTypes
<1>7. Dated /\ Monthly
  BY <1>1, <1>4, <1>5, <1>6 DEF Dated, Monthly
<1>8. Allowance \in Nat
  BY <1>3, Room, SpendAssumption DEF Allowance, Counted
<1>9. Overall /\ Paid
  BY <1>4, <1>5, <1>8 DEF Overall, Paid
<1>10. NeverOvercounted
  BY <1>1, <1>4, <1>5, <1>6 DEF Init, NeverOvercounted, Slack
<1>11. QED
  BY <1>3, <1>7, <1>9, <1>10 DEF Books

LEMMA BooksAlways == Spec => [](Inv /\ Books)
<1>1. Init => Inv /\ Books
  BY Initially, BooksInit
<1>2. Inv /\ Books /\ [Next]_vars => Inv' /\ Books'
  BY NextKeeps, BooksStep
<1>3. QED
  BY <1>1, <1>2, PTL DEF Spec

(***************************************************************************)
(* The trackers, the table and the file have their types, those of what a  *)
(* start adds up from the file among them.                                 *)
(***************************************************************************)
THEOREM SpendTyping == Spec => []TypeOK
<1>1. Inv /\ Books => TypeOK
  BY DEF Inv, Typed, Books, Counted, TypeOK
<1>2. QED
  BY <1>1, BooksAlways, PTL

(***************************************************************************)
(* Money is forgotten only with cause: two charges for each write that     *)
(* fails, the second of them the one that is glued to the torn line, and   *)
(* one for each crash.                                                     *)
(***************************************************************************)
THEOREM LossHasCause == Spec => []LossBounded
<1>1. Inv /\ Books => LossBounded
  <2> SUFFICES ASSUME Inv, Books PROVE LossBounded
    OBVIOUS
  <2>1. /\ Debt \in Nat /\ Sum(charged) \in Nat /\ Sum(Readable) \in Nat /\ Sum(writing) \in Nat
        /\ table \in Nat /\ Allowance \in Nat
    BY SumTypes, Room, SpendAssumption DEF Inv, Books, Counted, Debt, Allowance
  <2>2. QED
    BY <2>1 DEF Books, Paid, LossBounded, Allowance
<1>2. QED
  BY <1>1, BooksAlways, PTL

(***************************************************************************)
(* Nobody is refused for money that was not spent: no total exceeds what   *)
(* was charged, and a month's figure does so by at most one charge per     *)
(* worker, of those that were being written when the month began.          *)
(***************************************************************************)
THEOREM NothingOvercounted == Spec => []NeverOvercounted
<1>1. Books => NeverOvercounted
  BY DEF Books
<1>2. QED
  BY <1>1, BooksAlways, PTL
=============================================================================
