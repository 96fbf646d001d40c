---------------------------- MODULE CacheProofs ----------------------------
(***************************************************************************)
(* The two caches of a worker: each implements ResponseCache, for any      *)
(* keys, entries, time to live and number of workers, and the one in       *)
(* memory is bounded and makes room at the expense of what was used the    *)
(* longest ago.                                                            *)
(***************************************************************************)
EXTENDS ConfiguredCache, SequenceTheorems, FiniteSetTheorems, TLAPS

-----------------------------------------------------------------------------
(***************************************************************************)
(* The operations on sequences that the cache is made of.                  *)
(***************************************************************************)

\* Taking out the item at p moves those behind it one to the front.
LEMMA RemoveAtProperties ==
  ASSUME NEW S, NEW s \in Seq(S), NEW p \in 1 .. Len(s)
  PROVE  /\ RemoveAt(s, p) \in Seq(S)
         /\ Len(RemoveAt(s, p)) = Len(s) - 1
         /\ \A i \in 1 .. Len(s) - 1 : RemoveAt(s, p)[i] = IF i < p THEN s[i] ELSE s[i + 1]
<1> DEFINE before == SubSeq(s, 1, p - 1)
           after == SubSeq(s, p + 1, Len(s))
<1>1. Len(s) \in Nat /\ p \in Int /\ p - 1 \in Int /\ p + 1 \in Int /\ Len(s) \in Int
  BY LenProperties
<1>2. \A i \in 1 .. Len(s) : s[i] \in S
  BY ElementOfSeq
<1>3. /\ before \in Seq(S)
      /\ Len(before) = p - 1
      /\ \A i \in 1 .. p - 1 : before[i] = s[i]
  <2>1. \A i \in 1 .. p - 1 : s[i] \in S
    BY <1>1, <1>2
  <2>2. /\ before \in Seq(S)
        /\ Len(before) = IF 1 <= p - 1 THEN (p - 1) - 1 + 1 ELSE 0
        /\ \A i \in 1 .. (p - 1) - 1 + 1 : before[i] = s[1 + i - 1]
    BY <1>1, <2>1, SubSeqProperties
  <2> HIDE DEF before
  <2>3. QED
    BY <1>1, <2>2
<1>4. /\ after \in Seq(S)
      /\ Len(after) = Len(s) - p
      /\ \A i \in 1 .. Len(s) - p : after[i] = s[p + i]
  <2>1. \A i \in p + 1 .. Len(s) : s[i] \in S
    BY <1>1, <1>2
  <2>2. /\ after \in Seq(S)
        /\ Len(after) = IF p + 1 <= Len(s) THEN Len(s) - (p + 1) + 1 ELSE 0
        /\ \A i \in 1 .. Len(s) - (p + 1) + 1 : after[i] = s[(p + 1) + i - 1]
    BY <1>1, <2>1, SubSeqProperties
  <2> HIDE DEF after
  <2>3. \A i \in 1 .. Len(s) - p : i \in 1 .. Len(s) - (p + 1) + 1 /\ (p + 1) + i - 1 = p + i
    BY <1>1
  <2>4. \A i \in 1 .. Len(s) - p : after[i] = s[p + i]
    BY <2>2, <2>3
  <2>5. QED
    BY <1>1, <2>2, <2>4
<1> HIDE DEF before, after
<1>5. /\ before \o after \in Seq(S)
      /\ Len(before \o after) = Len(s) - 1
      /\ \A i \in 1 .. Len(s) - 1 : (before \o after)[i] =
            IF i <= p - 1 THEN before[i] ELSE after[i - (p - 1)]
  <2>1. Len(before) + Len(after) = Len(s) - 1
    BY <1>1, <1>3, <1>4
  <2>2. before \in Seq(S) /\ after \in Seq(S)
    BY <1>3, <1>4
  <2>3. /\ before \o after \in Seq(S)
        /\ Len(before \o after) = Len(before) + Len(after)
        /\ \A i \in 1 .. Len(before) + Len(after) :
              (before \o after)[i] = IF i <= Len(before) THEN before[i] ELSE after[i - Len(before)]
    BY <2>2, ConcatProperties
  <2>4. QED
    BY <1>3, <2>1, <2>3
<1>6. ASSUME NEW i \in 1 .. Len(s) - 1
      PROVE  (before \o after)[i] = IF i < p THEN s[i] ELSE s[i + 1]
  <2>1. CASE i < p
    BY <1>1, <1>3, <1>5, <2>1
  <2>2. CASE ~(i < p)
    <3>1. i - (p - 1) \in 1 .. Len(s) - p /\ p + (i - (p - 1)) = i + 1 /\ ~(i <= p - 1)
      BY <1>1, <2>2
    <3>2. QED
      BY <1>4, <1>5, <2>2, <3>1
  <2>3. QED
    BY <2>1, <2>2
<1>7. RemoveAt(s, p) = before \o after
  BY DEF RemoveAt, before, after
<1>8. QED
  BY <1>5, <1>6, <1>7

\* Eviction keeps the end of a sequence.
LEMMA EvictedProperties ==
  ASSUME NEW S, NEW s \in Seq(S)
  PROVE  /\ Evicted(s) \in Seq(S)
         /\ Len(Evicted(s)) = IF Len(s) > MaxEntries THEN MaxEntries ELSE Len(s)
         /\ \A i \in 1 .. Len(Evicted(s)) :
               /\ i + (Len(s) - Len(Evicted(s))) \in 1 .. Len(s)
               /\ Evicted(s)[i] = s[i + (Len(s) - Len(Evicted(s)))]
<1>1. Len(s) \in Nat /\ MaxEntries \in Nat
  BY LenProperties, CacheAssumption
<1>2. CASE ~(Len(s) > MaxEntries)
  BY <1>1, <1>2 DEF Evicted
<1>3. CASE Len(s) > MaxEntries
  <2> DEFINE m == Len(s) - MaxEntries + 1
             e == SubSeq(s, m, Len(s))
  <2>1. m \in Int /\ Len(s) \in Int /\ m \in 1 .. Len(s) + 1
    BY <1>1, <1>3
  <2>2. \A i \in m .. Len(s) : s[i] \in S
    BY <1>1, <2>1, ElementOfSeq
  <2> HIDE DEF m
  <2>3. /\ e \in Seq(S)
        /\ Len(e) = IF m <= Len(s) THEN Len(s) - m + 1 ELSE 0
        /\ \A i \in 1 .. Len(s) - m + 1 : e[i] = s[m + i - 1]
    BY <2>1, <2>2, SubSeqProperties
  <2> HIDE DEF e
  <2>4. Len(e) = MaxEntries
    BY <1>1, <1>3, <2>1, <2>3 DEF m
  <2>5. ASSUME NEW i \in 1 .. MaxEntries
        PROVE  i + (Len(s) - MaxEntries) \in 1 .. Len(s) /\ e[i] = s[i + (Len(s) - MaxEntries)]
    <3>1. i \in 1 .. Len(s) - m + 1 /\ m + i - 1 = i + (Len(s) - MaxEntries)
      BY <1>1 DEF m
    <3>2. QED
      BY <1>1, <1>3, <2>3, <3>1
  <2>6. Evicted(s) = e
    BY <1>3 DEF Evicted, e, m
  <2>7. QED
    BY <1>3, <2>3, <2>4, <2>5, <2>6
<1>4. QED
  BY <1>2, <1>3
-----------------------------------------------------------------------------
\* An item is found under its key.
LEMMA PositionIs ==
  ASSUME Bounded, NEW i \in DOMAIN items
  PROVE  Position(items[i].key) = i
  BY DEF Bounded, Position

\* A key that is held has a position.
LEMMA HeldAt ==
  ASSUME NEW k, Held(k)
  PROVE  Position(k) \in DOMAIN items /\ items[Position(k)].key = k
  BY DEF Held, Position

(***************************************************************************)
(* Taking an item out of the sequence moves those behind it one to the     *)
(* front: Shift says where the item at a position was before.              *)
(***************************************************************************)
Shift(k, i) == IF Held(k) /\ i >= Position(k) THEN i + 1 ELSE i

LEMMA RemovedProperties ==
  ASSUME TypeOK, Bounded, NEW k \in Keys
  PROVE  /\ Removed(k) \in Seq(ItemType)
         /\ Len(Removed(k)) = IF Held(k) THEN Len(items) - 1 ELSE Len(items)
         /\ \A i \in DOMAIN Removed(k) :
               /\ Shift(k, i) \in DOMAIN items
               /\ Removed(k)[i] = items[Shift(k, i)]
               /\ Removed(k)[i].key # k
<1>1. items \in Seq(ItemType) /\ Len(items) \in Nat /\ DOMAIN items = 1 .. Len(items)
  BY LenProperties DEF TypeOK
<1>2. CASE ~Held(k)
  BY <1>1, <1>2 DEF Removed, Shift, Held
<1>3. CASE Held(k)
  <2> DEFINE p == Position(k)
  <2>1. p \in 1 .. Len(items)
    BY <1>1, <1>3, HeldAt
  <2> HIDE DEF p
  <2>2. /\ Removed(k) \in Seq(ItemType)
        /\ Len(Removed(k)) = Len(items) - 1
        /\ \A i \in 1 .. Len(items) - 1 : Removed(k)[i] = IF i < p THEN items[i] ELSE items[i + 1]
    BY <1>1, <1>3, <2>1, RemoveAtProperties DEF Removed, p
  <2>3. ASSUME NEW i \in DOMAIN Removed(k)
        PROVE  /\ Shift(k, i) \in DOMAIN items
               /\ Removed(k)[i] = items[Shift(k, i)]
               /\ Removed(k)[i].key # k
    <3>1. i \in 1 .. Len(items) - 1
      BY <2>2, LenProperties
    <3>2. Shift(k, i) \in DOMAIN items /\ Removed(k)[i] = items[Shift(k, i)] /\ Shift(k, i) # p
      BY <1>1, <1>3, <2>1, <2>2, <3>1 DEF Shift, p
    <3>3. QED
      BY <3>2, PositionIs DEF p
  <2>4. QED
    BY <1>3, <2>2, <2>3
<1>4. QED
  BY <1>2, <1>3

\* Nothing else is taken out.
LEMMA RemovedKeeps ==
  ASSUME TypeOK, Bounded, NEW k \in Keys, NEW q, q # k, Held(q)
  PROVE  \E i \in DOMAIN Removed(k) :
            Removed(k)[i] = items[Position(q)] /\ Shift(k, i) = Position(q)
<1> DEFINE p == Position(k)
           n == Position(q)
           i == IF Held(k) /\ n > p THEN n - 1 ELSE n
<1>1. items \in Seq(ItemType) /\ Len(items) \in Nat /\ DOMAIN items = 1 .. Len(items)
  BY LenProperties DEF TypeOK
<1>2. n \in 1 .. Len(items) /\ items[n].key = q
  BY <1>1, HeldAt
<1>3. Held(k) => p \in 1 .. Len(items) /\ items[p].key = k
  BY <1>1, HeldAt
<1>4. Held(k) => n # p
  BY <1>2, <1>3
<1> HIDE DEF n
<1>5. DOMAIN Removed(k) = 1 .. (IF Held(k) THEN Len(items) - 1 ELSE Len(items))
  BY <1>1, RemovedProperties, LenProperties
<1>6. i \in DOMAIN Removed(k) /\ Shift(k, i) = n
  <2>1. CASE Held(k)
    BY <1>1, <1>2, <1>3, <1>4, <1>5, <2>1 DEF Shift
  <2>2. CASE ~Held(k)
    BY <1>2, <1>5, <2>2 DEF Shift
  <2>3. QED
    BY <2>1, <2>2
<1>7. QED
  BY <1>6, RemovedProperties DEF n
-----------------------------------------------------------------------------
(***************************************************************************)
(* What a get or a put makes of the items: those of other keys, in their   *)
(* order, and behind them perhaps a new one for its own key.               *)
(***************************************************************************)
Rearranged(t, k, new) ==
  /\ t \in Seq(ItemType)
  /\ \A i \in DOMAIN t :
        \/ t[i] = new /\ i = Len(t)
        \/ t[i].key # k /\ Held(t[i].key) /\ t[i] = items[Position(t[i].key)]
  /\ \A i, j \in DOMAIN t : i < j =>
        /\ t[i].key # k
        /\ t[j].key = k \/ Position(t[i].key) < Position(t[j].key)

\* Taking an item out rearranges the others.
LEMMA RemovedRearranged ==
  ASSUME TypeOK, Bounded, NEW k \in Keys, NEW new
  PROVE  Rearranged(Removed(k), k, new)
<1>1. /\ Removed(k) \in Seq(ItemType)
      /\ \A i \in DOMAIN Removed(k) :
            /\ Shift(k, i) \in DOMAIN items
            /\ Removed(k)[i] = items[Shift(k, i)]
            /\ Removed(k)[i].key # k
  BY RemovedProperties
<1>2. \A i \in DOMAIN Removed(k) : /\ Position(Removed(k)[i].key) = Shift(k, i)
                                   /\ Held(Removed(k)[i].key)
  BY <1>1, PositionIs DEF Held
<1>3. Held(k) => Position(k) \in Nat
  BY HeldAt, LenProperties DEF TypeOK
<1>4. DOMAIN Removed(k) \subseteq Nat
  BY <1>1, LenProperties
<1>5. \A i, j \in DOMAIN Removed(k) : i < j => Shift(k, i) < Shift(k, j)
  BY <1>3, <1>4 DEF Shift
<1>6. QED
  BY <1>1, <1>2, <1>5 DEF Rearranged

\* So does appending an item of its own key afterwards, ...
LEMMA AppendedRearranged ==
  ASSUME TypeOK, Bounded, NEW k \in Keys, NEW new \in ItemType, new.key = k
  PROVE  Rearranged(Append(Removed(k), new), k, new)
<1> DEFINE s == Removed(k)
           t == Append(s, new)
<1>1. Rearranged(s, k, new) /\ \A i \in DOMAIN s : s[i].key # k
  BY RemovedRearranged, RemovedProperties
<1>2. s \in Seq(ItemType) /\ Len(s) \in Nat /\ DOMAIN s = 1 .. Len(s)
  BY <1>1, LenProperties DEF Rearranged
<1> HIDE DEF s
<1>3. /\ t \in Seq(ItemType) /\ Len(t) = Len(s) + 1
      /\ \A i \in 1 .. Len(s) : t[i] = s[i]
      /\ t[Len(s) + 1] = new
  BY <1>2, AppendProperties
<1>4. DOMAIN t = 1 .. Len(s) + 1
  BY <1>3, LenProperties
<1> HIDE DEF t
<1>5. ASSUME NEW i \in DOMAIN t
      PROVE  \/ t[i] = new /\ i = Len(t)
             \/ t[i].key # k /\ Held(t[i].key) /\ t[i] = items[Position(t[i].key)]
  <2>1. CASE i = Len(s) + 1
    BY <1>3, <2>1
  <2>2. CASE i \in DOMAIN s
    BY <1>1, <1>2, <1>3, <2>2 DEF Rearranged
  <2>3. QED
    BY <1>2, <1>4, <2>1, <2>2
<1>6. ASSUME NEW i \in DOMAIN t, NEW j \in DOMAIN t, i < j
      PROVE  t[i].key # k /\ (t[j].key = k \/ Position(t[i].key) < Position(t[j].key))
  <2>1. i \in DOMAIN s /\ t[i] = s[i]
    BY <1>2, <1>3, <1>4, <1>6
  <2>2. CASE j = Len(s) + 1
    BY <1>1, <1>3, <2>1, <2>2
  <2>3. CASE j \in DOMAIN s
    BY <1>1, <1>2, <1>3, <1>6, <2>1, <2>3 DEF Rearranged
  <2>4. QED
    BY <1>2, <1>4, <2>2, <2>3
<1>7. QED
  BY <1>3, <1>5, <1>6 DEF Rearranged, t, s

\* ... and so does eviction.
LEMMA EvictedRearranged ==
  ASSUME NEW t, NEW k, NEW new, Rearranged(t, k, new)
  PROVE  Rearranged(Evicted(t), k, new)
<1> DEFINE e == Evicted(t)
           d == Len(t) - Len(e)
<1>1. t \in Seq(ItemType) /\ Len(t) \in Nat /\ DOMAIN t = 1 .. Len(t)
  BY LenProperties DEF Rearranged
<1>2. /\ e \in Seq(ItemType)
      /\ \A i \in 1 .. Len(e) : i + d \in 1 .. Len(t) /\ e[i] = t[i + d]
  BY <1>1, EvictedProperties
<1>3. Len(e) \in Nat /\ DOMAIN e = 1 .. Len(e) /\ d \in Int
  BY <1>1, <1>2, LenProperties
<1>4. \A i \in DOMAIN e : i + d = Len(t) => i = Len(e)
  BY <1>1, <1>3
<1> HIDE DEF e, d
<1>5. \A i, j \in DOMAIN e : i < j => i + d < j + d
  BY <1>3
<1>6. \A i \in DOMAIN e : i + d \in DOMAIN t /\ e[i] = t[i + d]
  BY <1>1, <1>2, <1>3
<1>7. \A i \in DOMAIN e :
        \/ e[i] = new /\ i = Len(e)
        \/ e[i].key # k /\ Held(e[i].key) /\ e[i] = items[Position(e[i].key)]
  BY <1>4, <1>6 DEF Rearranged
<1>8. \A i, j \in DOMAIN e : i < j =>
        /\ e[i].key # k
        /\ e[j].key = k \/ Position(e[i].key) < Position(e[j].key)
  BY <1>5, <1>6 DEF Rearranged
<1>9. QED
  BY <1>2, <1>7, <1>8 DEF Rearranged, e
-----------------------------------------------------------------------------
(***************************************************************************)
(* The items are in the order of their last use.                           *)
(***************************************************************************)
Recency ==
  /\ \A k \in Keys : lastUse[k] <= uses
  /\ \A i, j \in DOMAIN items : i < j => lastUse[items[i].key] < lastUse[items[j].key]
  /\ hits <= uses

MemoryInv == TypeOK /\ Bounded /\ Recency

\* The steps of the cache in memory, whoever else takes steps.
MemoryStep ==
  \/ \E k \in Keys : GetAbsent(k) \/ GetExpired(k) \/ GetHit(k)
  \/ \E k \in Keys, e \in Entries : Put(k, e)
  \/ Tick
  \/ UNCHANGED vars

\* Numbers and elements of the items.
LEMMA ItemsType ==
  ASSUME TypeOK
  PROVE  /\ items \in Seq(ItemType) /\ Len(items) \in Nat /\ DOMAIN items = 1 .. Len(items)
         /\ now \in Nat /\ uses \in Nat /\ hits \in Nat /\ MaxUses \in Nat /\ TTL \in Nat
         /\ lastUse \in [Keys -> Nat]
         /\ \A i \in DOMAIN items : /\ items[i] \in ItemType
                                    /\ items[i].key \in Keys /\ items[i].entry \in Entries
                                    /\ items[i].ts \in Nat /\ items[i].ts <= now
<1>1. items \in Seq(ItemType) /\ Len(items) \in Nat /\ DOMAIN items = 1 .. Len(items)
  BY LenProperties DEF TypeOK
<1>2. \A i \in DOMAIN items : items[i] \in ItemType
  BY <1>1, ElementOfSeq
<1>3. QED
  BY <1>1, <1>2, CacheAssumption DEF TypeOK, ItemType

\* In a rearrangement no key occurs twice...
LEMMA RearrangedDistinct ==
  ASSUME TypeOK, NEW k, NEW new, new.key = k, Rearranged(items', k, new)
  PROVE  \A i, j \in DOMAIN items' : items'[i].key = items'[j].key => i = j
<1>1. DOMAIN items' \subseteq Nat
  BY LenProperties DEF Rearranged
<1>2. \A i \in DOMAIN items' : items'[i].key # k => Position(items'[i].key) \in Nat
  BY HeldAt, ItemsType DEF Rearranged
<1>3. \A i, j \in DOMAIN items' : i < j => items'[i].key # items'[j].key
  BY <1>2 DEF Rearranged
<1>4. QED
  BY <1>1, <1>3

\* ... and the items are well typed, and of the past if the new one is.
LEMMA RearrangedType ==
  ASSUME TypeOK, NEW k, NEW new, new.key = k, new.ts <= now, Rearranged(items', k, new), now' = now
  PROVE  items' \in Seq(ItemType) /\ \A i \in DOMAIN items' : items'[i].ts <= now'
  BY HeldAt, ItemsType DEF Rearranged

\* The order by last use is kept: the new item was used last.
LEMMA RearrangedRecency ==
  ASSUME MemoryInv, NEW k \in Keys, NEW new, new.key = k, Rearranged(items', k, new), Use(k)
  PROVE  /\ \A q \in Keys : lastUse'[q] <= uses'
         /\ \A i, j \in DOMAIN items' : i < j => lastUse'[items'[i].key] < lastUse'[items'[j].key]
<1>1. lastUse' = [lastUse EXCEPT ![k] = uses + 1] /\ uses' = uses + 1
  BY DEF Use
<1>2. lastUse \in [Keys -> Nat] /\ uses \in Nat /\ \A q \in Keys : lastUse[q] <= uses
  BY ItemsType DEF MemoryInv, Recency
<1>3. \A q \in Keys : lastUse'[q] = IF q = k THEN uses + 1 ELSE lastUse[q]
  BY <1>1, <1>2
<1>4. ASSUME NEW i \in DOMAIN items', NEW j \in DOMAIN items', i < j
      PROVE  lastUse'[items'[i].key] < lastUse'[items'[j].key]
  <2> DEFINE x == items'[i].key
             y == items'[j].key
  <2>1. /\ x # k /\ Held(x)
        /\ y = k \/ (Held(y) /\ Position(x) < Position(y))
    BY <1>4 DEF Rearranged
  <2>2. /\ Position(x) \in DOMAIN items /\ items[Position(x)].key = x
        /\ x \in Keys
    BY <2>1, HeldAt, ItemsType DEF MemoryInv
  <2>3. CASE y = k
    BY <1>2, <1>3, <2>1, <2>2, <2>3
  <2>4. CASE y # k
    <3>1. /\ Position(y) \in DOMAIN items /\ items[Position(y)].key = y /\ y \in Keys
          /\ Position(x) < Position(y)
      BY <2>1, <2>4, HeldAt, ItemsType DEF MemoryInv
    <3> HIDE DEF x, y
    <3>2. lastUse[x] < lastUse[y]
      BY <2>2, <3>1 DEF MemoryInv, Recency
    <3>3. lastUse'[x] = lastUse[x] /\ lastUse'[y] = lastUse[y]
      BY <1>3, <2>1, <2>2, <2>4, <3>1
    <3>4. lastUse'[x] < lastUse'[y]
      BY <3>2, <3>3
    <3>5. QED
      BY <3>4 DEF x, y
  <2>5. QED
    BY <2>3, <2>4
<1>5. QED
  BY <1>1, <1>2, <1>3, <1>4

\* A get that finds the item expired takes it out.
LEMMA GetExpiredInv ==
  ASSUME MemoryInv, NEW k \in Keys, GetExpired(k)
  PROVE  MemoryInv'
<1> USE DEF MemoryInv
<1> DEFINE old == items[Position(k)]
<1>1. old \in ItemType /\ old.key = k /\ old.ts <= now
  BY HeldAt, ItemsType DEF GetExpired
<1> HIDE DEF old
<1>2. Rearranged(items', k, old) /\ items' = Removed(k) /\ UNCHANGED <<hits, now, uses, lastUse>>
  BY RemovedRearranged DEF GetExpired, Miss
<1>3. misses' \in 0 .. MaxMisses /\ answer' = NoEntry
  BY CacheAssumption DEF GetExpired, Miss, TypeOK
<1>4. TypeOK'
  BY <1>1, <1>2, <1>3, RearrangedType DEF TypeOK
<1>5. Len(items') <= MaxEntries
  <2>1. Len(items') \in {Len(items) - 1, Len(items)}
    BY <1>2, RemovedProperties
  <2>2. Len(items) \in Nat /\ Len(items) <= MaxEntries /\ MaxEntries \in Nat
    BY ItemsType, CacheAssumption DEF Bounded
  <2>3. QED
    BY <2>1, <2>2
<1>6. Bounded'
  BY <1>1, <1>2, <1>5, RearrangedDistinct DEF Bounded
<1>7. \A i, j \in DOMAIN items' : i < j => lastUse[items'[i].key] < lastUse[items'[j].key]
  <2>1. SUFFICES ASSUME NEW i \in DOMAIN items', NEW j \in DOMAIN items', i < j
                 PROVE  lastUse[items'[i].key] < lastUse[items'[j].key]
    OBVIOUS
  <2> DEFINE x == items'[i].key
             y == items'[j].key
  <2>2. x # k /\ y # k
    BY <1>2, RemovedProperties
  <2>3. Held(x) /\ Held(y) /\ Position(x) < Position(y)
    BY <1>1, <1>2, <2>1, <2>2 DEF Rearranged
  <2>4. /\ Position(x) \in DOMAIN items /\ items[Position(x)].key = x
        /\ Position(y) \in DOMAIN items /\ items[Position(y)].key = y
    BY <2>3, HeldAt
  <2> HIDE DEF x, y
  <2>5. lastUse[x] < lastUse[y]
    BY <2>3, <2>4 DEF Recency
  <2>6. QED
    BY <2>5 DEF x, y
<1>8. Recency'
  BY <1>2, <1>7 DEF Recency
<1>9. QED
  BY <1>4, <1>6, <1>8

\* A get that hits, and a put, use the key.
LEMMA UseInv ==
  ASSUME MemoryInv, NEW k \in Keys, NEW new \in ItemType, new.key = k, new.ts <= now,
         Rearranged(items', k, new), Len(items') <= MaxEntries, Use(k),
         hits' \in {hits, hits + 1}, UNCHANGED <<misses, now>>,
         answer' \in Entries \cup {NoEntry} \cup Keys \X Entries
  PROVE  MemoryInv'
<1> USE DEF MemoryInv
<1>1. uses < MaxUses /\ uses' = uses + 1 /\ lastUse' = [lastUse EXCEPT ![k] = uses + 1]
  BY DEF Use
<1>2. /\ uses \in Nat /\ MaxUses \in Nat /\ hits \in Nat /\ hits <= uses
  BY ItemsType DEF Recency
<1>3. hits' \in 0 .. MaxUses /\ hits' <= uses' /\ uses' \in 0 .. MaxUses
  BY <1>1, <1>2
<1>4. lastUse' \in [Keys -> 0 .. MaxUses]
  BY <1>1, <1>3 DEF TypeOK
<1>5. TypeOK'
  BY <1>3, <1>4, RearrangedType DEF TypeOK
<1>6. Bounded'
  BY RearrangedDistinct DEF Bounded
<1>7. Recency'
  BY <1>3, RearrangedRecency DEF Recency
<1>8. QED
  BY <1>5, <1>6, <1>7

\* What GetHit makes of the items, ...
LEMMA GetHitItems ==
  ASSUME MemoryInv, NEW k \in Keys, GetHit(k)
  PROVE  LET old == items[Position(k)] IN
         /\ old \in ItemType /\ old.key = k /\ old.ts <= now
         /\ Rearranged(items', k, old) /\ Len(items') = Len(items)
<1> USE DEF MemoryInv
<1> DEFINE old == items[Position(k)]
<1>1. old \in ItemType /\ old.key = k /\ old.ts <= now
  BY HeldAt, ItemsType DEF GetHit
<1>2. items' = Append(Removed(k), old) /\ Held(k)
  BY DEF GetHit
<1> HIDE DEF old
<1>3. Rearranged(items', k, old)
  BY <1>1, <1>2, AppendedRearranged
<1>4. Len(items') = Len(items)
  <2>1. Removed(k) \in Seq(ItemType) /\ Len(Removed(k)) = Len(items) - 1
    BY <1>2, RemovedProperties
  <2>2. QED
    BY <1>1, <1>2, <2>1, AppendProperties, ItemsType
<1>5. QED
  BY <1>1, <1>3, <1>4 DEF old

\* ... and what Put makes of them.
LEMMA PutItems ==
  ASSUME MemoryInv, NEW k \in Keys, NEW e \in Entries, Put(k, e)
  PROVE  LET new == [key |-> k, ts |-> now, entry |-> e]
             appended == Append(Removed(k), new)
         IN /\ new \in ItemType
            /\ appended \in Seq(ItemType) /\ Rearranged(appended, k, new)
            /\ Len(appended) = IF Held(k) THEN Len(items) ELSE Len(items) + 1
            /\ items' = Evicted(appended)
            /\ Rearranged(items', k, new) /\ Len(items') <= MaxEntries
<1> USE DEF MemoryInv
<1> DEFINE new == [key |-> k, ts |-> now, entry |-> e]
           appended == Append(Removed(k), new)
<1>1. new \in ItemType /\ new.key = k
  BY DEF TypeOK, ItemType
<1>2. items' = Evicted(appended)
  BY DEF Put
<1> HIDE DEF new
<1>3. Rearranged(appended, k, new)
  BY <1>1, AppendedRearranged
<1>4. /\ appended \in Seq(ItemType) /\ Len(appended) = Len(Removed(k)) + 1
      /\ Len(Removed(k)) = IF Held(k) THEN Len(items) - 1 ELSE Len(items)
  BY <1>1, RemovedProperties, AppendProperties
<1> HIDE DEF appended
<1>5. Len(appended) = IF Held(k) THEN Len(items) ELSE Len(items) + 1
  <2>1. Len(items) \in Nat
    BY ItemsType
  <2>2. QED
    BY <1>4, <2>1
<1>6. Rearranged(items', k, new)
  BY <1>2, <1>3, EvictedRearranged
<1>7. Len(items') <= MaxEntries
  BY <1>2, <1>4, EvictedProperties, CacheAssumption, LenProperties
<1>8. QED
  BY <1>1, <1>2, <1>3, <1>4, <1>5, <1>6, <1>7 DEF new, appended

\* Every step of the cache in memory keeps its invariant.
LEMMA MemoryInvStep == MemoryInv /\ MemoryStep => MemoryInv'
<1> SUFFICES ASSUME MemoryInv, MemoryStep PROVE MemoryInv'
  OBVIOUS
<1>1. ASSUME NEW k \in Keys, GetAbsent(k) PROVE MemoryInv'
  BY <1>1, CacheAssumption DEF GetAbsent, Miss, MemoryInv, TypeOK, Bounded, Recency
<1>2. ASSUME NEW k \in Keys, GetExpired(k) PROVE MemoryInv'
  BY <1>2, GetExpiredInv
<1>3. ASSUME NEW k \in Keys, GetHit(k) PROVE MemoryInv'
  <2> DEFINE old == items[Position(k)]
  <2>1. /\ old \in ItemType /\ old.key = k /\ old.ts <= now
        /\ Rearranged(items', k, old) /\ Len(items') = Len(items)
    BY <1>3, GetHitItems
  <2>2. Use(k) /\ hits' = hits + 1 /\ UNCHANGED <<misses, now>> /\ answer' = old.entry
    BY <1>3 DEF GetHit
  <2> HIDE DEF old
  <2>3. answer' \in Entries /\ Len(items') <= MaxEntries
    BY <2>1, <2>2 DEF ItemType, MemoryInv, Bounded
  <2>4. QED
    BY <2>1, <2>2, <2>3, UseInv
<1>4. ASSUME NEW k \in Keys, NEW e \in Entries, Put(k, e) PROVE MemoryInv'
  <2> DEFINE new == [key |-> k, ts |-> now, entry |-> e]
  <2>1. /\ new \in ItemType /\ Rearranged(items', k, new) /\ Len(items') <= MaxEntries
    BY <1>4, PutItems
  <2>2. Use(k) /\ UNCHANGED <<hits, misses, now>> /\ answer' = <<k, e>>
    BY <1>4 DEF Put
  <2>3. new.key = k /\ new.ts <= now /\ answer' \in Keys \X Entries
    BY <2>2, ItemsType DEF MemoryInv
  <2> HIDE DEF new
  <2>4. QED
    BY <2>1, <2>2, <2>3, UseInv
<1>5. CASE Tick
  <2>1. /\ now' \in 0 .. MaxTime /\ \A i \in DOMAIN items : items[i].ts <= now'
    BY <1>5, ItemsType, CacheAssumption DEF Tick, MemoryInv
  <2>2. QED
    BY <1>5, <2>1 DEF Tick, MemoryInv, TypeOK, Bounded, Recency
<1>6. CASE UNCHANGED vars
  BY <1>6 DEF vars, MemoryInv, TypeOK, Bounded, Recency
<1>7. QED
  BY <1>1, <1>2, <1>3, <1>4, <1>5, <1>6 DEF MemoryStep

\* An empty cache satisfies it.
LEMMA MemoryInvInit == Init => MemoryInv
<1> SUFFICES ASSUME Init PROVE MemoryInv
  OBVIOUS
<1>1. items \in Seq(ItemType) /\ Len(items) = 0 /\ DOMAIN items = {}
  BY EmptySeq DEF Init
<1>2. QED
  BY <1>1, CacheAssumption DEF Init, MemoryInv, TypeOK, Bounded, Recency
-----------------------------------------------------------------------------
(***************************************************************************)
(* Eviction.                                                               *)
(***************************************************************************)
Evicts ==
  \A k \in Keys : Held(k) /\ ~Held(k)' /\ UNCHANGED misses =>
      /\ Len(items) = MaxEntries
      /\ \E j \in Keys : ~Held(j) /\ Held(j)'
      /\ \A j \in Keys : Held(j)' => lastUse'[j] > lastUse[k]

\* A put finds its key again at the end, and every other but for those at the front.
LEMMA AppendedKeeps ==
  ASSUME MemoryInv, NEW k \in Keys, NEW new \in ItemType, new.key = k, NEW q, Held(q) \/ q = k
  PROVE  \E i \in 1 .. Len(Removed(k)) + 1 :
            /\ Append(Removed(k), new)[i].key = q
            /\ q # k => /\ Append(Removed(k), new)[i] = items[Position(q)]
                        /\ Shift(k, i) = Position(q)
<1> USE DEF MemoryInv
<1>1. /\ Removed(k) \in Seq(ItemType) /\ Len(Removed(k)) \in Nat
      /\ DOMAIN Removed(k) = 1 .. Len(Removed(k))
  BY RemovedProperties, LenProperties
<1>2. /\ \A i \in 1 .. Len(Removed(k)) : Append(Removed(k), new)[i] = Removed(k)[i]
      /\ Append(Removed(k), new)[Len(Removed(k)) + 1] = new
  BY <1>1, AppendProperties
<1>3. CASE q = k
  BY <1>1, <1>2, <1>3
<1>4. CASE q # k
  <2>1. PICK i \in 1 .. Len(Removed(k)) : Removed(k)[i] = items[Position(q)] /\ Shift(k, i) = Position(q)
    BY <1>1, <1>4, RemovedKeeps
  <2>2. items[Position(q)].key = q /\ i \in 1 .. Len(Removed(k)) + 1
    BY <1>1, <1>4, HeldAt
  <2>3. QED
    BY <1>2, <1>4, <2>1, <2>2
<1>5. QED
  BY <1>3, <1>4

\* What a put evicts was used before everything it leaves.
LEMMA PutEvicts ==
  ASSUME MemoryInv, NEW k \in Keys, NEW e \in Entries, Put(k, e)
  PROVE  Evicts
<1> USE DEF MemoryInv
<1> SUFFICES ASSUME NEW q \in Keys, Held(q), ~Held(q)', NEW j \in Keys
             PROVE  /\ Len(items) = MaxEntries
                    /\ ~Held(k) /\ Held(k)'
                    /\ Held(j)' => lastUse'[j] > lastUse[q]
  BY DEF Evicts
<1> DEFINE new == [key |-> k, ts |-> now, entry |-> e]
           appended == Append(Removed(k), new)
           d == Len(appended) - Len(items')
<1>1. /\ new \in ItemType /\ new.key = k
      /\ appended \in Seq(ItemType) /\ Rearranged(appended, k, new)
      /\ Len(appended) = IF Held(k) THEN Len(items) ELSE Len(items) + 1
      /\ items' = Evicted(appended)
      /\ Rearranged(items', k, new)
  BY PutItems
<1>2. Len(appended) = Len(Removed(k)) + 1 /\ appended[Len(appended)].key = k
  BY <1>1, RemovedProperties, AppendProperties
<1> HIDE DEF new
<1>3. PICK n \in 1 .. Len(appended) :
        /\ appended[n].key = q
        /\ q # k => appended[n] = items[Position(q)] /\ Shift(k, n) = Position(q)
  BY <1>1, <1>2, AppendedKeeps
<1> HIDE DEF appended
<1>4. /\ items' \in Seq(ItemType)
      /\ Len(items') = IF Len(appended) > MaxEntries THEN MaxEntries ELSE Len(appended)
      /\ \A i \in 1 .. Len(items') : i + d \in 1 .. Len(appended) /\ items'[i] = appended[i + d]
  BY <1>1, EvictedProperties
<1>5. /\ Len(items) \in Nat /\ Len(items) <= MaxEntries /\ MaxEntries \in Nat
      /\ Len(items') \in Nat /\ DOMAIN items' = 1 .. Len(items')
      /\ Len(appended) \in Nat /\ 1 <= Len(items)
  <2>1. 1 <= Len(items)
    BY HeldAt, ItemsType
  <2>2. QED
    BY <1>1, <1>4, <2>1, ItemsType, CacheAssumption, LenProperties DEF Bounded
<1>6. ~(n - d \in 1 .. Len(items'))
  <2>1. SUFFICES ASSUME n - d \in 1 .. Len(items') PROVE FALSE
    OBVIOUS
  <2>2. (n - d) + d = n
    BY <1>5
  <2>3. items'[n - d] = appended[n]
    BY <1>4, <2>1, <2>2
  <2>4. QED
    BY <1>3, <1>5, <2>1, <2>3 DEF Held
\* So there was one item too many, and it was the first.
<1>7. /\ Len(items) = MaxEntries /\ ~Held(k)
      /\ Len(appended) = MaxEntries + 1 /\ Len(items') = MaxEntries /\ d = 1 /\ n = 1
  <2>1. CASE Held(k)
    BY <1>1, <1>4, <1>5, <1>6, <2>1
  <2>2. CASE ~Held(k)
    BY <1>1, <1>4, <1>5, <1>6, <2>2
  <2>3. QED
    BY <2>1, <2>2
<1>8. q # k /\ Position(q) = 1 /\ items[1].key = q
  BY <1>3, <1>7, HeldAt DEF Shift
<1>9. ASSUME Held(j)' PROVE lastUse'[j] > lastUse[q]
  <2>1. lastUse' = [lastUse EXCEPT ![k] = uses + 1]
    BY DEF Put, Use
  <2>2. /\ lastUse \in [Keys -> Nat] /\ uses \in Nat /\ lastUse[q] <= uses
    BY ItemsType DEF Recency
  <2>3. CASE j = k
    BY <2>1, <2>2, <2>3
  <2>4. CASE j # k
    <3>1. PICK i \in DOMAIN items' : items'[i].key = j
      BY <1>9 DEF Held
    <3>2. Held(j) /\ Position(j) \in DOMAIN items /\ items[Position(j)].key = j
      BY <1>1, <2>4, <3>1, HeldAt DEF Rearranged
    <3>3. j # q
      BY <1>9
    <3>4. Position(j) # 1
      BY <1>8, <3>2, <3>3
    <3>5. 1 < Position(j) /\ 1 \in DOMAIN items
      BY <1>5, <3>2, <3>4, ItemsType
    <3>6. lastUse[q] < lastUse[j]
      BY <1>8, <3>2, <3>5 DEF Recency
    <3>7. QED
      BY <2>1, <2>2, <2>4, <3>6
  <2>5. QED
    BY <2>3, <2>4
<1>10. Held(k)'
  <2>1. Len(items') \in DOMAIN items' /\ Len(items') + d = Len(appended)
    BY <1>5, <1>7
  <2>2. items'[Len(items')].key = k
    BY <1>2, <1>4, <1>5, <2>1
  <2>3. QED
    BY <2>1, <2>2 DEF Held
<1>11. QED
  BY <1>7, <1>9, <1>10

\* A hit loses no key.
LEMMA GetHitKeeps ==
  ASSUME MemoryInv, NEW k \in Keys, GetHit(k), NEW q, Held(q)
  PROVE  Held(q)' /\ items'[Position(q)'].entry = items[Position(q)].entry
                  /\ items'[Position(q)'].ts = items[Position(q)].ts
<1> USE DEF MemoryInv
<1> DEFINE old == items[Position(k)]
           appended == Append(Removed(k), old)
<1>1. /\ old \in ItemType /\ old.key = k
      /\ Rearranged(items', k, old) /\ items' = appended
  BY GetHitItems DEF GetHit
<1>2. Len(appended) = Len(Removed(k)) + 1
  BY <1>1, RemovedProperties, AppendProperties
<1>3. PICK i \in 1 .. Len(appended) :
        /\ appended[i].key = q
        /\ q # k => appended[i] = items[Position(q)]
  BY <1>1, <1>2, AppendedKeeps
<1> HIDE DEF appended
<1>4. i \in DOMAIN items' /\ items'[i].key = q
  BY <1>1, <1>3, LenProperties DEF Rearranged
<1>5. items'[i] = items[Position(q)]
  BY <1>1, <1>3, <1>4 DEF Rearranged
<1>6. Bounded'
  BY MemoryInvStep DEF MemoryStep
<1>7. Position(q)' = i
  BY <1>4, <1>6 DEF Bounded, Position
<1>8. QED
  BY <1>4, <1>5, <1>7 DEF Held

\* Nor does another step that no miss is counted in.
LEMMA EvictsStep == MemoryInv /\ MemoryStep => [Evicts]_vars
<1> SUFFICES ASSUME MemoryInv, MemoryStep, ~UNCHANGED vars PROVE Evicts
  OBVIOUS
<1>1. ASSUME NEW k \in Keys, GetAbsent(k) \/ GetExpired(k) PROVE Evicts
  <2>1. misses' # misses
    BY <1>1 DEF GetAbsent, GetExpired, Miss, MemoryInv, TypeOK
  <2>2. QED
    BY <2>1 DEF Evicts
<1>2. ASSUME NEW k \in Keys, GetHit(k) PROVE Evicts
  BY <1>2, GetHitKeeps DEF Evicts
<1>3. ASSUME NEW k \in Keys, NEW e \in Entries, Put(k, e) PROVE Evicts
  BY <1>3, PutEvicts
<1>4. CASE Tick
  BY <1>4 DEF Tick, Evicts, Held
<1>5. QED
  BY <1>1, <1>2, <1>3, <1>4 DEF MemoryStep
-----------------------------------------------------------------------------
(***************************************************************************)
(* The promise of ResponseCache, kept by the cache in memory.              *)
(***************************************************************************)
Stored == [k \in Keys |-> IF Available(k) THEN items[Position(k)].entry ELSE NoEntry]

\* A store, the keys it has an entry of, and what is left of it without some of them.
IsStore(s) == s = [q \in Keys |-> s[q]]
Occupied(s) == {q \in Keys : s[q] # NoEntry}
Cut(s, K) == [q \in Keys |-> IF q \in K THEN NoEntry ELSE s[q]]

\* What is enough for a store to follow another by a Keep...
LEMMA KeepIntro ==
  ASSUME NEW s, NEW t, IsStore(s), IsStore(t),
         NEW k \in Keys, NEW e,
         \A q \in Keys : t[q] = NoEntry \/ t[q] = IF q = k THEN e ELSE s[q]
  PROVE  \E K \in SUBSET (Occupied(s) \cup {k}) :
            t = Cut([s EXCEPT ![k] = e], K)
<1> DEFINE K == {q \in Keys : t[q] = NoEntry /\ (s[q] # NoEntry \/ q = k)}
<1>1. K \in SUBSET (Occupied(s) \cup {k})
  BY DEF Occupied
<1>2. \A q \in Keys : [s EXCEPT ![k] = e][q] = IF q = k THEN e ELSE s[q]
  BY DEF IsStore
<1>3. ASSUME NEW q \in Keys
      PROVE  t[q] = IF q \in K THEN NoEntry ELSE [s EXCEPT ![k] = e][q]
  BY <1>2
<1> HIDE DEF K
<1>4. t = Cut([s EXCEPT ![k] = e], K)
  BY <1>3 DEF Cut, IsStore
<1>5. QED
  BY <1>1, <1>4

\* ... or by a Drop.
LEMMA DropIntro ==
  ASSUME NEW s, NEW t, IsStore(s), IsStore(t),
         \A q \in Keys : t[q] = NoEntry \/ t[q] = s[q]
  PROVE  \E K \in SUBSET Occupied(s) :
            t = Cut(s, K)
<1> DEFINE K == {q \in Keys : t[q] = NoEntry /\ s[q] # NoEntry}
<1>1. K \in SUBSET Occupied(s)
  BY DEF Occupied
<1>2. ASSUME NEW q \in Keys
      PROVE  t[q] = IF q \in K THEN NoEntry ELSE s[q]
  OBVIOUS
<1> HIDE DEF K
<1>3. t = Cut(s, K)
  BY <1>2 DEF Cut, IsStore
<1>4. QED
  BY <1>1, <1>3

\* A key other than the one a step is for is found with the same item, if it is found.
LEMMA RearrangedLookup ==
  ASSUME MemoryInv, MemoryInv', NEW k \in Keys, NEW new, new.key = k,
         Rearranged(items', k, new), NEW q, Held(q)'
  PROVE  /\ q = k => items'[Position(q)'] = new
         /\ q # k => Held(q) /\ items'[Position(q)'] = items[Position(q)]
<1>1. PICK i \in DOMAIN items' : items'[i].key = q
  BY DEF Held
<1>2. Position(q)' = i
  BY <1>1 DEF MemoryInv, Bounded, Position
<1>3. QED
  BY <1>1, <1>2 DEF Rearranged

LEMMA GetAbsentPromise ==
  ASSUME MemoryInv, NEW k \in Keys, GetAbsent(k) PROVE Promise!Get(k)
<1>1. Stored' = Stored
  BY DEF GetAbsent, Miss, Stored, Available, Held, Position, Expired
<1>2. Stored[k] = NoEntry /\ answer' = NoEntry
  BY DEF GetAbsent, Miss, Stored, Available
<1>3. QED
  BY <1>1, <1>2 DEF Promise!Get, Stored

LEMMA GetExpiredPromise ==
  ASSUME MemoryInv, MemoryInv', NEW k \in Keys, GetExpired(k) PROVE Promise!Get(k)
<1> DEFINE old == items[Position(k)]
<1>1. items' = Removed(k) /\ now' = now /\ answer' = NoEntry /\ Held(k) /\ Expired(old)
  BY DEF GetExpired, Miss
<1>2. Rearranged(items', k, old) /\ old.key = k
  BY <1>1, HeldAt, RemovedRearranged DEF MemoryInv
<1> HIDE DEF old
<1>3. ~Held(k)'
  BY <1>1, RemovedProperties DEF Held, MemoryInv
<1>4. ASSUME NEW q \in Keys
      PROVE  (IF Available(q) THEN items[Position(q)].entry ELSE NoEntry)'
             = IF Available(q) THEN items[Position(q)].entry ELSE NoEntry
  <2>1. CASE q = k
    BY <1>1, <1>3, <2>1 DEF Available, old
  <2>2. CASE q # k
    <3>1. Held(q) => Held(q)'
      BY <1>1, <2>2, RemovedKeeps, HeldAt DEF Held, MemoryInv
    <3>2. Held(q)' => Held(q) /\ items'[Position(q)'] = items[Position(q)]
      BY <1>2, <2>2, RearrangedLookup
    <3>3. QED
      BY <1>1, <3>1, <3>2 DEF Available, Expired
  <2>3. QED
    BY <2>1, <2>2
<1>5. Stored' = Stored
  BY <1>4 DEF Stored
<1>6. Stored[k] = NoEntry
  BY <1>1 DEF Stored, Available, old
<1>7. QED
  BY <1>1, <1>5, <1>6 DEF Promise!Get, Stored

LEMMA GetHitPromise ==
  ASSUME MemoryInv, MemoryInv', NEW k \in Keys, GetHit(k) PROVE Promise!Get(k)
<1> DEFINE old == items[Position(k)]
<1>1. now' = now /\ answer' = old.entry /\ Available(k)
  BY DEF GetHit, Available
<1>2. Rearranged(items', k, old) /\ old.key = k
  BY GetHitItems
<1> HIDE DEF old
<1>3. ASSUME NEW q \in Keys
      PROVE  (IF Available(q) THEN items[Position(q)].entry ELSE NoEntry)'
             = IF Available(q) THEN items[Position(q)].entry ELSE NoEntry
  <2>1. CASE Held(q)
    BY <1>1, <2>1, GetHitKeeps DEF Available, Expired
  <2>2. CASE ~Held(q)
    <3>1. ~Held(q)'
      BY <1>1, <1>2, <2>2, RearrangedLookup DEF Available
    <3>2. QED
      BY <2>2, <3>1 DEF Available
  <2>3. QED
    BY <2>1, <2>2
<1>4. Stored' = Stored
  BY <1>3 DEF Stored
<1>5. Stored[k] = answer'
  BY <1>1 DEF Stored, old
<1>6. QED
  BY <1>4, <1>5 DEF Promise!Get, Stored

LEMMA PutPromise ==
  ASSUME MemoryInv, MemoryInv', NEW k \in Keys, NEW e \in Entries, Put(k, e) PROVE Promise!Put(k, e)
<1> DEFINE new == [key |-> k, ts |-> now, entry |-> e]
<1>1. Rearranged(items', k, new) /\ new.key = k /\ new.entry = e
  BY PutItems
<1>2. now' = now /\ answer' = <<k, e>>
  BY DEF Put
<1> HIDE DEF new
<1>3. ASSUME NEW q \in Keys, Available(q)'
      PROVE  items'[Position(q)'].entry = IF q = k THEN e ELSE Stored[q]
  <2>1. Held(q)' /\ ~Expired(items'[Position(q)'])
    BY <1>2, <1>3 DEF Available, Expired
  <2>2. CASE q = k
    BY <1>1, <2>1, <2>2, RearrangedLookup
  <2>3. CASE q # k
    <3>1. Held(q) /\ items'[Position(q)'] = items[Position(q)]
      BY <1>1, <2>1, <2>3, RearrangedLookup
    <3>2. QED
      BY <2>1, <2>3, <3>1 DEF Available, Stored
  <2>4. QED
    BY <2>2, <2>3
<1>4. \A q \in Keys : Stored'[q] = NoEntry \/ Stored'[q] = IF q = k THEN e ELSE Stored[q]
  BY <1>3 DEF Stored
<1>5. IsStore(Stored) /\ IsStore(Stored')
  BY DEF IsStore, Stored
<1>6. \E K \in SUBSET (Occupied(Stored) \cup {k}) :
         Stored' = Cut([Stored EXCEPT ![k] = e], K)
  BY <1>4, <1>5, KeepIntro
<1>7. QED
  BY <1>2, <1>6 DEF Promise!Put, Promise!Keep, Promise!Held, Promise!Without, Cut, Occupied, Stored

LEMMA TickPromise ==
  ASSUME MemoryInv, Tick PROVE Promise!Expire
<1>1. ASSUME NEW q \in Keys, Available(q)'
      PROVE  Available(q) /\ items'[Position(q)'].entry = Stored[q]
  <2>0. items' = items /\ now' = now + 1 /\ Position(q)' = Position(q) /\ (Held(q)' <=> Held(q))
    BY DEF Tick, Position, Held
  <2>1. Held(q)' /\ ~(now' - items'[Position(q)'].ts > TTL)
    BY <1>1 DEF Available, Expired
  <2>2. Held(q)
    BY <2>0, <2>1
  <2> DEFINE item == items[Position(q)]
             put == item.ts
  <2>3. now \in Nat /\ put \in Nat /\ TTL \in Nat
    BY <2>2, HeldAt, ItemsType DEF MemoryInv
  <2>4. items'[Position(q)'] = item
    BY <2>0
  <2> HIDE DEF item
  <2>5. ~(now' - put > TTL)
    BY <2>1, <2>4
  <2> HIDE DEF put
  <2>6. ~(now - put > TTL)
    BY <2>0, <2>3, <2>5
  <2>7. Available(q)
    BY <2>2, <2>6 DEF Available, Expired, item, put
  <2>8. QED
    BY <2>4, <2>7 DEF Stored, item
<1>2. \A q \in Keys : Stored'[q] = NoEntry \/ Stored'[q] = Stored[q]
  BY <1>1 DEF Stored
<1>3. IsStore(Stored) /\ IsStore(Stored')
  BY DEF IsStore, Stored
<1>4. \E K \in SUBSET Occupied(Stored) :
         Stored' = Cut(Stored, K)
  BY <1>2, <1>3, DropIntro
<1>5. answer' = answer
  BY DEF Tick
<1>6. QED
  BY <1>4, <1>5 DEF Promise!Expire, Promise!Drop, Promise!Held, Promise!Without, Cut, Occupied, Stored

\* Every step of the cache in memory is one of ResponseCache, or a stutter.
LEMMA PromiseStep ==
  MemoryInv /\ MemoryInv' /\ MemoryStep => [Promise!Next]_(Promise!cacheVars)
<1> SUFFICES ASSUME MemoryInv, MemoryInv', MemoryStep
             PROVE  Promise!Next \/ (Stored' = Stored /\ answer' = answer)
  BY DEF Promise!cacheVars, Stored
<1>1. ASSUME NEW k \in Keys, GetAbsent(k) \/ GetExpired(k) \/ GetHit(k) PROVE Promise!Next
  BY <1>1, GetAbsentPromise, GetExpiredPromise, GetHitPromise DEF Promise!Next
<1>2. ASSUME NEW k \in Keys, NEW e \in Entries, Put(k, e) PROVE Promise!Next
  BY <1>2, PutPromise DEF Promise!Next
<1>3. CASE Tick
  BY <1>3, TickPromise DEF Promise!Next
<1>4. CASE UNCHANGED vars
  BY <1>4 DEF vars, Stored, Available, Held, Position, Expired
<1>5. QED
  BY <1>1, <1>2, <1>3, <1>4 DEF MemoryStep
-----------------------------------------------------------------------------
(***************************************************************************)
(* The cache in Redis.  A counter does not outrun the number of the gets   *)
(* because each command that counts was preceded by a get of its own: the  *)
(* gets cover those counted and those whose count is still to come.        *)
(***************************************************************************)
Counting == {w \in Workers : counting[w] # Redis!Idle}

RedisInv ==
  /\ Redis!TypeOK
  /\ IsFiniteSet(Counting)
  /\ hitCount + missCount + Cardinality(Counting) <= gets

RedisStep ==
  \/ Redis!Next /\ now' = now
  \/ UNCHANGED redis /\ now' \in {now, now + 1}

LEMMA GetOneInv ==
  ASSUME RedisInv, NEW w \in Workers, NEW k \in Keys, Redis!GetOne(w, k)
  PROVE  RedisInv'
<1> USE DEF RedisInv
<1>1. /\ gets' = gets + 1 /\ gets < MaxGets
      /\ UNCHANGED <<data, hitCount, missCount>>
      /\ counting[w] = Redis!Idle
  BY DEF Redis!GetOne
<1>2. counting' \in [Workers -> {Redis!Idle, "hit", "miss"}]
  BY DEF Redis!GetOne, Redis!TypeOK
<1>3. Counting' = Counting \cup {w}
  BY DEF Redis!GetOne, Redis!TypeOK, Redis!Idle, Counting
<1>4. w \notin Counting
  BY <1>1 DEF Counting
<1>5. IsFiniteSet(Counting') /\ Cardinality(Counting') = Cardinality(Counting) + 1
  BY <1>3, <1>4, FS_AddElement
<1>6. redisAnswer' \in Entries \cup {NoEntry} \cup Keys \X Entries
  BY DEF Redis!GetOne, Redis!Live, Redis!TypeOK, Redis!Value, Redis!Nothing
<1>7. /\ hitCount \in Nat /\ missCount \in Nat /\ gets \in Nat /\ Cardinality(Counting) \in Nat
      /\ MaxGets \in Nat /\ gets' \in 0 .. MaxGets
  BY <1>1, FS_CardinalityType, RedisAssumption DEF Redis!TypeOK
<1>8. hitCount' + missCount' + Cardinality(Counting') <= gets'
  BY <1>1, <1>5, <1>7
<1>9. QED
  BY <1>1, <1>2, <1>5, <1>6, <1>7, <1>8 DEF Redis!TypeOK, Redis!Value, Redis!Nothing

LEMMA CountInv ==
  ASSUME RedisInv, NEW w \in Workers, Redis!Count(w) \/ Redis!CountFails(w)
  PROVE  RedisInv'
<1>1. /\ UNCHANGED <<data, redisAnswer, gets>>
      /\ counting[w] # Redis!Idle
      /\ counting' = [counting EXCEPT ![w] = Redis!Idle]
  BY DEF Redis!Count, Redis!CountFails
<1>2. counting' \in [Workers -> {Redis!Idle, "hit", "miss"}]
  BY <1>1 DEF RedisInv, Redis!TypeOK
<1>3. Counting' = Counting \ {w}
  BY <1>1 DEF RedisInv, Redis!TypeOK, Counting
<1>4. w \in Counting
  BY <1>1 DEF Counting
<1>5. IsFiniteSet(Counting') /\ Cardinality(Counting') = Cardinality(Counting) - 1
  BY <1>3, <1>4, FS_RemoveElement DEF RedisInv
<1>6. /\ hitCount \in Nat /\ missCount \in Nat /\ gets \in Nat /\ Cardinality(Counting) \in Nat
      /\ MaxGets \in Nat /\ gets <= MaxGets
  BY FS_CardinalityType, RedisAssumption DEF RedisInv, Redis!TypeOK
<1>7. /\ hitCount' \in Nat /\ missCount' \in Nat /\ hitCount' + missCount' \in Nat
      /\ hitCount' + missCount' <= hitCount + missCount + 1
  BY <1>6 DEF Redis!Count, Redis!CountFails
<1>8. Cardinality(Counting') \in Nat
  BY <1>5, FS_CardinalityType
<1>9. hitCount' + missCount' + Cardinality(Counting') <= gets
  <2> DEFINE open == Cardinality(Counting)
             left == Cardinality(Counting')
             old == hitCount + missCount
             new == hitCount' + missCount'
  <2>1. old \in Nat /\ open \in Nat /\ open = left + 1 /\ old + open <= gets
    BY <1>5, <1>6, <1>8 DEF RedisInv
  <2>2. new \in Nat /\ new <= old + 1
    BY <1>7, Zenon
  <2>3. left \in Nat /\ gets \in Nat
    BY <1>6, <1>8
  <2> HIDE DEF open, left, old, new
  <2>4. new + left <= gets
    BY <2>1, <2>2, <2>3
  <2>5. QED
    BY <2>4 DEF left, new
<1>10. hitCount' \in 0 .. MaxGets /\ missCount' \in 0 .. MaxGets
  BY <1>6, <1>7, <1>8, <1>9
<1>11. QED
  BY <1>1, <1>2, <1>5, <1>9, <1>10 DEF RedisInv, Redis!TypeOK, Redis!Value, Redis!Nothing

LEMMA PutOneInv ==
  ASSUME RedisInv, now \in 0 .. MaxTime,
         NEW w \in Workers, NEW k \in Keys, NEW e \in Entries, Redis!PutOne(w, k, e)
  PROVE  RedisInv'
<1> USE DEF RedisInv
<1> DEFINE value == [entry |-> e, until |-> now + TTL]
<1>1. value \in Redis!Value
  BY CacheAssumption DEF Redis!Value
<1> HIDE DEF value
<1>2. data' = [data EXCEPT ![k] = value]
  BY DEF Redis!PutOne, Redis!SetEx, value
<1>3. UNCHANGED <<counting, hitCount, missCount, gets>> /\ redisAnswer' = <<k, e>>
  BY DEF Redis!PutOne
<1>4. data' \in [Keys -> Redis!Value \cup {Redis!Nothing}]
  BY <1>1, <1>2 DEF Redis!TypeOK
<1>5. Counting' = Counting
  BY <1>3 DEF Counting
<1>6. QED
  BY <1>3, <1>4, <1>5 DEF Redis!TypeOK, Redis!Value, Redis!Nothing

LEMMA RedisInvStep == RedisInv /\ now \in 0 .. MaxTime /\ RedisStep => RedisInv'
<1> SUFFICES ASSUME RedisInv, now \in 0 .. MaxTime, RedisStep PROVE RedisInv'
  OBVIOUS
<1>1. ASSUME NEW w \in Workers, NEW k \in Keys, Redis!GetOne(w, k) PROVE RedisInv'
  BY <1>1, GetOneInv
<1>2. ASSUME NEW w \in Workers, Redis!Count(w) \/ Redis!CountFails(w) PROVE RedisInv'
  BY <1>2, CountInv
<1>3. ASSUME NEW w \in Workers, NEW k \in Keys, NEW e \in Entries, Redis!PutOne(w, k, e)
      PROVE  RedisInv'
  BY <1>3, PutOneInv
<1>4. CASE UNCHANGED redis
  BY <1>4 DEF redis, RedisInv, Counting, Redis!TypeOK, Redis!Value, Redis!Nothing
<1>5. QED
  BY <1>1, <1>2, <1>3, <1>4 DEF RedisStep, Redis!Next

LEMMA RedisInvInit == Redis!Init => RedisInv
<1> SUFFICES ASSUME Redis!Init PROVE RedisInv
  OBVIOUS
<1>1. Counting = {}
  BY DEF Redis!Init, Counting
<1>2. Redis!TypeOK
  BY RedisAssumption DEF Redis!Init, Redis!TypeOK, Redis!Idle
<1>3. QED
  BY <1>1, <1>2, FS_EmptySet DEF RedisInv, Redis!Init

-----------------------------------------------------------------------------
(***************************************************************************)
(* The cache in Redis implements ResponseCache: what it holds under a key  *)
(* is there until its time is over, and the count that follows a GET       *)
(* changes neither what is there nor what the GET has returned.            *)
(***************************************************************************)
InRedis == [k \in Keys |-> Redis!Live(k)]

LEMMA RedisGetPromise ==
  ASSUME NEW w \in Workers, NEW k \in Keys, Redis!GetOne(w, k), now' = now
  PROVE  Redis!Promise!Get(k)
<1>1. data' = data /\ redisAnswer' = Redis!Live(k)
  BY DEF Redis!GetOne
<1>2. InRedis' = InRedis
  BY <1>1 DEF InRedis, Redis!Live
<1>3. QED
  BY <1>1, <1>2 DEF Redis!Promise!Get, InRedis

LEMMA RedisPutPromise ==
  ASSUME RedisInv, NEW w \in Workers, NEW k \in Keys, NEW e \in Entries,
         Redis!PutOne(w, k, e), now' = now
  PROVE  Redis!Promise!Put(k, e)
<1>1. data' = [data EXCEPT ![k] = [entry |-> e, until |-> now + TTL]] /\ redisAnswer' = <<k, e>>
  BY DEF Redis!PutOne, Redis!SetEx
<1>2. DOMAIN data = Keys
  BY DEF RedisInv, Redis!TypeOK
<1>3. ASSUME NEW q \in Keys
      PROVE  InRedis'[q] = NoEntry \/ InRedis'[q] = IF q = k THEN e ELSE InRedis[q]
  BY <1>1, <1>2 DEF InRedis, Redis!Live
<1>4. IsStore(InRedis) /\ IsStore(InRedis')
  BY DEF IsStore, InRedis
<1>5. \E K \in SUBSET (Occupied(InRedis) \cup {k}) :
         InRedis' = Cut([InRedis EXCEPT ![k] = e], K)
  BY <1>3, <1>4, KeepIntro
<1>6. QED
  BY <1>1, <1>5 DEF Redis!Promise!Put, Redis!Promise!Keep, Redis!Promise!Held,
                    Redis!Promise!Without, Cut, Occupied, InRedis

LEMMA RedisTimePromise ==
  ASSUME RedisInv, now \in Nat, UNCHANGED redis, now' \in {now, now + 1}
  PROVE  Redis!Promise!Expire
<1>1. UNCHANGED <<data, redisAnswer>>
  BY DEF redis
<1>2. ASSUME NEW q \in Keys
      PROVE  InRedis'[q] = NoEntry \/ InRedis'[q] = InRedis[q]
  <2>1. data[q].until \in Nat
    BY CacheAssumption DEF RedisInv, Redis!TypeOK, Redis!Value, Redis!Nothing
  <2>2. now' < data[q].until => now < data[q].until
    BY <2>1
  <2>3. QED
    BY <1>1, <2>2 DEF InRedis, Redis!Live
<1>3. IsStore(InRedis) /\ IsStore(InRedis')
  BY DEF IsStore, InRedis
<1>4. \E K \in SUBSET Occupied(InRedis) : InRedis' = Cut(InRedis, K)
  BY <1>2, <1>3, DropIntro
<1>5. QED
  BY <1>1, <1>4 DEF Redis!Promise!Expire, Redis!Promise!Drop, Redis!Promise!Held,
                    Redis!Promise!Without, Cut, Occupied, InRedis

\* Every step of the cache in Redis is one of ResponseCache, or a stutter.
LEMMA RedisPromiseStep ==
  RedisInv /\ now \in Nat /\ RedisStep => [Redis!Promise!Next]_(Redis!Promise!cacheVars)
<1> SUFFICES ASSUME RedisInv, now \in Nat, RedisStep
             PROVE  Redis!Promise!Next \/ (InRedis' = InRedis /\ redisAnswer' = redisAnswer)
  BY DEF Redis!Promise!cacheVars, InRedis
<1>1. ASSUME NEW w \in Workers, NEW k \in Keys, Redis!GetOne(w, k), now' = now
      PROVE  Redis!Promise!Next
  BY <1>1, RedisGetPromise DEF Redis!Promise!Next
<1>2. ASSUME NEW w \in Workers, NEW k \in Keys, NEW e \in Entries,
             Redis!PutOne(w, k, e), now' = now
      PROVE  Redis!Promise!Next
  BY <1>2, RedisPutPromise DEF Redis!Promise!Next
<1>3. ASSUME NEW w \in Workers, Redis!Count(w) \/ Redis!CountFails(w), now' = now
      PROVE  InRedis' = InRedis /\ redisAnswer' = redisAnswer
  BY <1>3 DEF Redis!Count, Redis!CountFails, InRedis, Redis!Live
<1>4. CASE UNCHANGED redis /\ now' \in {now, now + 1}
  BY <1>4, RedisTimePromise DEF Redis!Promise!Next
<1>5. QED
  BY <1>1, <1>2, <1>3, <1>4 DEF RedisStep, Redis!Next
-----------------------------------------------------------------------------
(***************************************************************************)
(* The cache that was chosen takes its steps, the other one only those of  *)
(* the clock they share.                                                   *)
(***************************************************************************)
CacheInv == MemoryInv /\ RedisInv /\ chosen \in {"memory", "redis"}

LEMMA CacheSteps ==
  [CacheNext]_cacheVars => MemoryStep /\ RedisStep /\ chosen' = chosen
<1> SUFFICES ASSUME [CacheNext]_cacheVars PROVE MemoryStep /\ RedisStep /\ chosen' = chosen
  OBVIOUS
<1>1. ASSUME NEW k \in Keys, Get(k) PROVE MemoryStep /\ RedisStep /\ chosen' = chosen
  BY <1>1 DEF Get, GetAbsent, GetExpired, GetHit, Miss, MemoryStep, RedisStep
<1>2. ASSUME NEW k \in Keys, NEW e \in Entries, Store(k, e)
      PROVE  MemoryStep /\ RedisStep /\ chosen' = chosen
  BY <1>2 DEF Store, Put, MemoryStep, RedisStep
<1>3. CASE Shared
  BY <1>3 DEF Shared, vars, MemoryStep, RedisStep
<1>4. CASE Time
  BY <1>4 DEF Time, Tick, MemoryStep, RedisStep
<1>5. CASE UNCHANGED cacheVars
  BY <1>5 DEF cacheVars, vars, MemoryStep, RedisStep
<1>6. QED
  BY <1>1, <1>2, <1>3, <1>4, <1>5 DEF CacheNext

LEMMA CacheAlways == CacheSpec => []CacheInv
<1>1. CacheInit => CacheInv
  BY MemoryInvInit, RedisInvInit DEF CacheInit, CacheInv
<1>2. CacheInv /\ [CacheNext]_cacheVars => CacheInv'
  <2> SUFFICES ASSUME CacheInv, [CacheNext]_cacheVars PROVE CacheInv'
    OBVIOUS
  <2>1. MemoryStep /\ RedisStep /\ chosen' = chosen
    BY CacheSteps
  <2>2. now \in 0 .. MaxTime
    BY DEF CacheInv, MemoryInv, TypeOK
  <2>3. MemoryInv' /\ RedisInv'
    BY <2>1, <2>2, MemoryInvStep, RedisInvStep DEF CacheInv
  <2>4. QED
    BY <2>1, <2>3 DEF CacheInv
<1>3. QED
  BY <1>1, <1>2, PTL DEF CacheSpec

(***************************************************************************)
(* The caches have their types: in the one of Redis, no more gets are      *)
(* counted as hits or misses than there were, however the commands of the  *)
(* workers interleave and whichever of them fail.                          *)
(***************************************************************************)
THEOREM CacheTyping == CacheSpec => []CacheTypeOK
<1>1. CacheInv => CacheTypeOK
  BY DEF CacheInv, MemoryInv, RedisInv, CacheTypeOK
<1>2. QED
  BY <1>1, CacheAlways, PTL

(***************************************************************************)
(* The cache in memory never holds more than CACHE_MAX_ENTRIES responses,  *)
(* nor two for one key.                                                    *)
(***************************************************************************)
THEOREM CacheBounded == CacheSpec => []Bounded
<1>1. CacheInv => Bounded
  BY DEF CacheInv, MemoryInv
<1>2. QED
  BY <1>1, CacheAlways, PTL

(***************************************************************************)
(* A put makes room only when the cache is full and for a key it did not   *)
(* hold, and what goes was neither put nor hit since any that stays.       *)
(***************************************************************************)
THEOREM EvictionIsLeastRecent == CacheSpec => EvictsLeastRecentlyUsed
<1>1. CacheInv /\ [CacheNext]_cacheVars => [Evicts]_vars
  BY CacheSteps, EvictsStep DEF CacheInv
<1>2. QED
  BY <1>1, CacheAlways, PTL DEF CacheSpec, EvictsLeastRecentlyUsed, Evicts

(***************************************************************************)
(* The cache in memory keeps the promise of ResponseCache: no get returns  *)
(* an entry that has expired or that a later put replaced, and what is     *)
(* gone stays gone until it is put again.                                  *)
(***************************************************************************)
THEOREM MemoryImplementsResponseCache == CacheSpec => KeepsPromise
<1>1. CacheInit => Promise!Init
  BY DEF CacheInit, Init, Promise!Init, Available, Held
<1>2. CacheInv /\ CacheInv' /\ [CacheNext]_cacheVars => [Promise!Next]_(Promise!cacheVars)
  BY CacheSteps, PromiseStep DEF CacheInv
<1>3. QED
  BY <1>1, <1>2, CacheAlways, PTL DEF CacheSpec, KeepsPromise, Promise!Spec

(***************************************************************************)
(* And so does the cache in Redis, for the workers together.               *)
(***************************************************************************)
THEOREM RedisImplementsResponseCache == CacheSpec => RedisKeepsPromise
<1>1. CacheInit => Redis!Promise!Init
  BY DEF CacheInit, Redis!Init, Redis!Promise!Init, Redis!Live, Redis!Nothing
<1>2. CacheInv /\ [CacheNext]_cacheVars => [Redis!Promise!Next]_(Redis!Promise!cacheVars)
  <2> SUFFICES ASSUME CacheInv, [CacheNext]_cacheVars
               PROVE  [Redis!Promise!Next]_(Redis!Promise!cacheVars)
    OBVIOUS
  <2>1. now \in Nat /\ RedisInv
    BY ItemsType DEF CacheInv, MemoryInv
  <2>2. QED
    BY <2>1, CacheSteps, RedisPromiseStep
<1>3. QED
  BY <1>1, <1>2, CacheAlways, PTL
     DEF CacheSpec, RedisKeepsPromise, Redis!KeepsPromise, Redis!Promise!Spec
=============================================================================
