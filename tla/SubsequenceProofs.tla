------------------------- MODULE SubsequenceProofs -------------------------
(***************************************************************************)
(* Facts about filtering, flattening and numbering sequences, which the    *)
(* proofs about the components cite.                                       *)
(*                                                                         *)
(* Only and FlattenSeq are recursive functions: each is shown first to be  *)
(* what its definition says it is, then what it does with one element      *)
(* more.  The rest follows by induction from there.                        *)
(***************************************************************************)
EXTENDS Subsequences, SequencesExt, SequenceTheorems, WellFoundedInduction, TLAPS

-----------------------------------------------------------------------------
(***************************************************************************)
(* Induction over naturals and over sequences.  What is to be shown is     *)
(* given as the set of those it holds for: a theorem that takes a          *)
(* predicate could not be instantiated.                                    *)
(***************************************************************************)
LEMMA Least ==
  ASSUME NEW T \in SUBSET Nat, T # {}
  PROVE  \E n \in T : \A m \in T : n <= m
<1> DEFINE R == OpToRel(<, Nat)
<1>1. \E n \in T : \A m \in T : ~ (<<m, n>> \in R)
  BY NatLessThanWellFounded, WFMin
<1>2. \A m, n \in Nat : m < n => <<m, n>> \in R
  BY DEF OpToRel
<1> HIDE DEF R
<1>3. PICK n \in T : \A m \in T : ~ (<<m, n>> \in R)
  BY <1>1
<1>4. ASSUME NEW m \in T PROVE n <= m
  <2>1. m \in Nat /\ n \in Nat
    OBVIOUS
  <2>2. ~(m < n)
    BY <1>2, <1>3, <2>1
  <2>3. QED
    BY <2>1, <2>2
<1>5. QED
  BY <1>4

\* A set of naturals with zero and every successor has them all.
LEMMA Induction ==
  ASSUME NEW T \in SUBSET Nat, 0 \in T, \A n \in T : n + 1 \in T
  PROVE  T = Nat
<1>1. SUFFICES ASSUME Nat \ T # {} PROVE FALSE
  OBVIOUS
<1>2. PICK n \in Nat \ T : \A m \in Nat \ T : n <= m
  BY <1>1, Least
<1>3. n # 0 /\ n - 1 \in Nat /\ n = (n - 1) + 1
  BY <1>2
<1>4. n - 1 \in T
  BY <1>2, <1>3
<1>5. QED
  BY <1>2, <1>3, <1>4

\* A set with the empty sequence, and with every sequence it has one element less of.
LEMMA SeqInduction ==
  ASSUME NEW X, NEW T, <<>> \in T,
         \A s \in Seq(X), e \in X : s \in T => Append(s, e) \in T
  PROVE  \A s \in Seq(X) : s \in T
<1> DEFINE N == {n \in Nat : \A s \in Seq(X) : Len(s) = n => s \in T}
<1>1. 0 \in N
  BY EmptySeq
<1>2. ASSUME NEW n \in N PROVE n + 1 \in N
  <2>1. ASSUME NEW s \in Seq(X), Len(s) = n + 1 PROVE s \in T
    <3>1. s # <<>>
      BY <2>1
    <3>2. PICK front \in Seq(X), e \in X : s = Append(front, e)
      BY <3>1, SequenceEmptyOrAppend
    <3>3. Len(front) = n
      BY <2>1, <3>2, AppendProperties, LenProperties
    <3>4. front \in T
      BY <3>3
    <3>5. QED
      BY <3>2, <3>4
  <2>2. QED
    BY <2>1
<1>3. N = Nat
  <2> HIDE DEF N
  <2>1. N \in SUBSET Nat
    BY DEF N
  <2>2. QED
    BY <1>1, <1>2, <2>1, Induction
<1>4. QED
  BY <1>3, LenProperties
-----------------------------------------------------------------------------
(***************************************************************************)
(* Only(s, S), taken apart.                                                *)
(***************************************************************************)
Keeps(f, s, S, m) ==
  f = [n \in 0 .. m |->
          IF n = 0 THEN <<>>
          ELSE IF s[n] \in S THEN Append(f[n - 1], s[n]) ELSE f[n - 1]]

LEMMA KeepsExists ==
  ASSUME NEW s, NEW S, NEW m \in Nat
  PROVE  \E f : Keeps(f, s, S, m)
<1> DEFINE N == {k \in Nat : \E f : Keeps(f, s, S, k)}
<1>1. 0 \in N
  <2> DEFINE f == [n \in 0 .. 0 |-> <<>>]
  <2>1. Keeps(f, s, S, 0)
    BY DEF Keeps
  <2>2. QED
    BY <2>1
<1>2. ASSUME NEW k \in N PROVE k + 1 \in N
  <2>1. PICK f : Keeps(f, s, S, k)
    OBVIOUS
  <2> DEFINE h == [n \in 0 .. k + 1 |->
                      IF n = 0 THEN <<>>
                      ELSE IF s[n] \in S THEN Append(f[n - 1], s[n]) ELSE f[n - 1]]
  <2>2. \A n \in 0 .. k : h[n] = f[n]
    <3>1. \A n \in 0 .. k : f[n] = IF n = 0 THEN <<>>
                                   ELSE IF s[n] \in S THEN Append(f[n - 1], s[n]) ELSE f[n - 1]
      BY <2>1 DEF Keeps
    <3>2. \A n \in 0 .. k : n \in 0 .. k + 1
      OBVIOUS
    <3>3. QED
      BY <3>1, <3>2
  <2>3. \A n \in 0 .. k + 1 : n = 0 \/ n - 1 \in 0 .. k
    OBVIOUS
  <2>4. Keeps(h, s, S, k + 1)
    BY <2>2, <2>3 DEF Keeps
  <2>5. QED
    BY <2>4
<1>3. N = Nat
  <2> HIDE DEF N
  <2>1. N \in SUBSET Nat
    BY DEF N
  <2>2. QED
    BY <1>1, <1>2, <2>1, Induction
<1>4. QED
  BY <1>3

LEMMA OnlyIs ==
  ASSUME NEW X, NEW s \in Seq(X), NEW S
  PROVE  \E f : Keeps(f, s, S, Len(s)) /\ Only(s, S) = f[Len(s)]
<1> DEFINE f == CHOOSE f : Keeps(f, s, S, Len(s))
<1>1. Keeps(f, s, S, Len(s))
  BY KeepsExists, LenProperties
<1>2. Only(s, S) = f[Len(s)]
  BY DEF Only, Keeps
<1>3. QED
  BY <1>1, <1>2

LEMMA OnlyEmpty ==
  ASSUME NEW S
  PROVE  Only(<<>>, S) = <<>>
<1>1. <<>> \in Seq({}) /\ Len(<<>>) = 0
  BY EmptySeq
<1>2. PICK f : Keeps(f, <<>>, S, 0) /\ Only(<<>>, S) = f[0]
  BY <1>1, OnlyIs
<1>3. QED
  BY <1>2 DEF Keeps

LEMMA OnlyAppend ==
  ASSUME NEW X, NEW s \in Seq(X), NEW e \in X, NEW S
  PROVE  Only(Append(s, e), S) = IF e \in S THEN Append(Only(s, S), e) ELSE Only(s, S)
<1> DEFINE t == Append(s, e)
           m == Len(s)
<1>1. m \in Nat /\ t \in Seq(X) /\ Len(t) = m + 1 /\ t[m + 1] = e
      /\ \A n \in 1 .. m : t[n] = s[n]
  BY AppendProperties, LenProperties
<1> HIDE DEF t, m
<1>2. PICK f : Keeps(f, s, S, m) /\ Only(s, S) = f[m]
  BY OnlyIs DEF m
<1>3. PICK g : Keeps(g, t, S, m + 1) /\ Only(t, S) = g[m + 1]
  BY <1>1, OnlyIs
<1>4. \A n \in 0 .. m : f[n] = IF n = 0 THEN <<>>
                               ELSE IF s[n] \in S THEN Append(f[n - 1], s[n]) ELSE f[n - 1]
  BY <1>2 DEF Keeps
<1>5. \A n \in 0 .. m + 1 : g[n] = IF n = 0 THEN <<>>
                                   ELSE IF t[n] \in S THEN Append(g[n - 1], t[n]) ELSE g[n - 1]
  BY <1>3 DEF Keeps
<1> DEFINE N == {n \in Nat : n <= m => f[n] = g[n]}
<1>6. 0 \in N
  BY <1>1, <1>4, <1>5
<1>7. ASSUME NEW n \in N PROVE n + 1 \in N
  <2>1. SUFFICES ASSUME n + 1 <= m PROVE f[n + 1] = g[n + 1]
    OBVIOUS
  <2>2. n + 1 \in 0 .. m /\ n + 1 \in 0 .. m + 1 /\ n + 1 \in 1 .. m /\ n + 1 # 0 /\ (n + 1) - 1 = n
    BY <1>1, <2>1
  <2>3. f[n] = g[n]
    BY <1>1, <2>1
  <2>4. t[n + 1] = s[n + 1]
    BY <1>1, <2>2
  <2>5. f[n + 1] = IF s[n + 1] \in S THEN Append(f[n], s[n + 1]) ELSE f[n]
    BY <1>4, <2>2
  <2>6. g[n + 1] = IF t[n + 1] \in S THEN Append(g[n], t[n + 1]) ELSE g[n]
    BY <1>5, <2>2
  <2>7. QED
    BY <2>3, <2>4, <2>5, <2>6
<1>8. N = Nat
  <2> HIDE DEF N
  <2>1. N \in SUBSET Nat
    BY DEF N
  <2>2. QED
    BY <1>6, <1>7, <2>1, Induction
<1>9. f[m] = g[m]
  BY <1>1, <1>8
<1>10. m + 1 \in 0 .. m + 1 /\ m + 1 # 0 /\ (m + 1) - 1 = m
  BY <1>1
<1>11. g[m + 1] = IF e \in S THEN Append(g[m], e) ELSE g[m]
  BY <1>1, <1>5, <1>10
<1>12. QED
  BY <1>2, <1>3, <1>9, <1>11 DEF t

LEMMA OnlyType ==
  ASSUME NEW X, NEW s \in Seq(X), NEW S
  PROVE  Only(s, S) \in Seq(X)
<1> DEFINE T == {t \in Seq(X) : Only(t, S) \in Seq(X)}
<1>1. <<>> \in T
  BY OnlyEmpty, EmptySeq
<1>2. ASSUME NEW t \in Seq(X), NEW e \in X, t \in T PROVE Append(t, e) \in T
  <2>1. Only(Append(t, e), S) = IF e \in S THEN Append(Only(t, S), e) ELSE Only(t, S)
    BY OnlyAppend
  <2>2. Only(t, S) \in Seq(X)
    BY <1>2
  <2>3. Append(Only(t, S), e) \in Seq(X) /\ Append(t, e) \in Seq(X)
    BY <2>2, AppendProperties
  <2>4. QED
    BY <2>1, <2>2, <2>3
<1>3. QED
  <2> HIDE DEF T
  <2>1. s \in T
    BY <1>1, <1>2, SeqInduction
  <2>2. QED
    BY <2>1 DEF T

LEMMA RangeAppend ==
  ASSUME NEW X, NEW s \in Seq(X), NEW e \in X
  PROVE  Range(Append(s, e)) = Range(s) \cup {e}
<1>1. DOMAIN s = 1 .. Len(s) /\ Len(s) \in Nat
  BY LenProperties
<1>2. DOMAIN Append(s, e) = 1 .. Len(s) + 1
  BY AppendProperties, LenProperties
<1>3. Append(s, e)[Len(s) + 1] = e /\ \A n \in 1 .. Len(s) : Append(s, e)[n] = s[n]
  BY AppendProperties
<1>4. QED
  BY <1>1, <1>2, <1>3 DEF Range

LEMMA RangeEmpty == Range(<<>>) = {}
  BY DEF Range

LEMMA OnlyRange ==
  ASSUME NEW X, NEW s \in Seq(X), NEW S
  PROVE  Range(Only(s, S)) = Range(s) \cap S
<1> DEFINE T == {t \in Seq(X) : Range(Only(t, S)) = Range(t) \cap S}
<1>1. <<>> \in T
  BY OnlyEmpty, EmptySeq, RangeEmpty
<1>2. ASSUME NEW t \in Seq(X), NEW e \in X, t \in T PROVE Append(t, e) \in T
  <2>1. Range(Append(t, e)) = Range(t) \cup {e} /\ Append(t, e) \in Seq(X)
    BY RangeAppend, AppendProperties
  <2>2. Only(t, S) \in Seq(X)
    BY OnlyType
  <2>3. Range(Append(Only(t, S), e)) = Range(Only(t, S)) \cup {e}
    BY <2>2, RangeAppend
  <2>4. Range(Only(t, S)) = Range(t) \cap S
    BY <1>2
  <2>5. Only(Append(t, e), S) = IF e \in S THEN Append(Only(t, S), e) ELSE Only(t, S)
    BY OnlyAppend
  <2>6. QED
    BY <2>1, <2>3, <2>4, <2>5
<1>3. QED
  <2> HIDE DEF T
  <2>1. s \in T
    BY <1>1, <1>2, SeqInduction
  <2>2. QED
    BY <2>1 DEF T

LEMMA ConcatAppend ==
  ASSUME NEW X, NEW s \in Seq(X), NEW t \in Seq(X), NEW e \in X
  PROVE  s \o Append(t, e) = Append(s \o t, e)
<1>1. <<e>> \in Seq(X)
  OBVIOUS
<1>2. s \o t \in Seq(X)
  BY ConcatProperties
<1>3. Append(t, e) = t \o <<e>> /\ Append(s \o t, e) = (s \o t) \o <<e>>
  BY <1>2, AppendIsConcat
<1>4. (s \o t) \o <<e>> = s \o (t \o <<e>>)
  BY <1>1, ConcatAssociative
<1>5. QED
  BY <1>3, <1>4

\* Filtering two sequences one after the other.
LEMMA OnlyConcat ==
  ASSUME NEW X, NEW s \in Seq(X), NEW t \in Seq(X), NEW S
  PROVE  Only(s \o t, S) = Only(s, S) \o Only(t, S)
<1> DEFINE T == {u \in Seq(X) : Only(s \o u, S) = Only(s, S) \o Only(u, S)}
<1>1. Only(s, S) \in Seq(X)
  BY OnlyType
<1>2. <<>> \in T
  BY <1>1, OnlyEmpty, EmptySeq, ConcatEmptySeq
<1>3. ASSUME NEW u \in Seq(X), NEW e \in X, u \in T PROVE Append(u, e) \in T
  <2>1. Only(u, S) \in Seq(X) /\ s \o u \in Seq(X) /\ Append(u, e) \in Seq(X)
    BY OnlyType, ConcatProperties, AppendProperties
  <2>2. s \o Append(u, e) = Append(s \o u, e)
    BY ConcatAppend
  <2>3. Only(s, S) \o Append(Only(u, S), e) = Append(Only(s, S) \o Only(u, S), e)
    BY <1>1, <2>1, ConcatAppend
  <2>4. Only(Append(s \o u, e), S) =
           IF e \in S THEN Append(Only(s \o u, S), e) ELSE Only(s \o u, S)
    BY <2>1, OnlyAppend
  <2>5. Only(Append(u, e), S) = IF e \in S THEN Append(Only(u, S), e) ELSE Only(u, S)
    BY OnlyAppend
  <2>6. Only(s \o u, S) = Only(s, S) \o Only(u, S)
    BY <1>3
  <2>7. QED
    BY <2>1, <2>2, <2>3, <2>4, <2>5, <2>6
<1>4. QED
  <2> HIDE DEF T
  <2>1. t \in T
    BY <1>2, <1>3, SeqInduction
  <2>2. QED
    BY <2>1 DEF T

LEMMA OnlyAll ==
  ASSUME NEW X, NEW s \in Seq(X), NEW S, Range(s) \subseteq S
  PROVE  Only(s, S) = s
<1> DEFINE T == {t \in Seq(X) : Range(t) \subseteq S => Only(t, S) = t}
<1>1. <<>> \in T
  BY OnlyEmpty, EmptySeq
<1>2. ASSUME NEW t \in Seq(X), NEW e \in X, t \in T PROVE Append(t, e) \in T
  <2>1. Append(t, e) \in Seq(X) /\ Range(Append(t, e)) = Range(t) \cup {e}
    BY RangeAppend, AppendProperties
  <2>2. Only(Append(t, e), S) = IF e \in S THEN Append(Only(t, S), e) ELSE Only(t, S)
    BY OnlyAppend
  <2>3. QED
    BY <1>2, <2>1, <2>2
<1>3. QED
  <2> HIDE DEF T
  <2>1. s \in T
    BY <1>1, <1>2, SeqInduction
  <2>2. QED
    BY <2>1 DEF T

LEMMA OnlyNone ==
  ASSUME NEW X, NEW s \in Seq(X), NEW S, Range(s) \cap S = {}
  PROVE  Only(s, S) = <<>>
<1> DEFINE T == {t \in Seq(X) : Range(t) \cap S = {} => Only(t, S) = <<>>}
<1>1. <<>> \in T
  BY OnlyEmpty, EmptySeq
<1>2. ASSUME NEW t \in Seq(X), NEW e \in X, t \in T PROVE Append(t, e) \in T
  <2>1. Append(t, e) \in Seq(X) /\ Range(Append(t, e)) = Range(t) \cup {e}
    BY RangeAppend, AppendProperties
  <2>2. Only(Append(t, e), S) = IF e \in S THEN Append(Only(t, S), e) ELSE Only(t, S)
    BY OnlyAppend
  <2>3. QED
    BY <1>2, <2>1, <2>2
<1>3. QED
  <2> HIDE DEF T
  <2>1. s \in T
    BY <1>1, <1>2, SeqInduction
  <2>2. QED
    BY <2>1 DEF T

\* What is in order stays in order.
Ordered(s) == \A m, n \in DOMAIN s : m < n => s[m] < s[n]

LEMMA OrderedAppend ==
  ASSUME NEW s \in Seq(Nat), NEW e \in Nat
  PROVE  Ordered(Append(s, e)) <=> Ordered(s) /\ \A d \in Range(s) : d < e
<1>1. DOMAIN s = 1 .. Len(s) /\ Len(s) \in Nat
  BY LenProperties
<1>2. DOMAIN Append(s, e) = 1 .. Len(s) + 1
  BY AppendProperties, LenProperties
<1>3. Append(s, e)[Len(s) + 1] = e /\ \A n \in 1 .. Len(s) : Append(s, e)[n] = s[n]
  BY AppendProperties
<1>4. ASSUME Ordered(Append(s, e)) PROVE Ordered(s) /\ \A d \in Range(s) : d < e
  <2>1. Ordered(s)
    BY <1>1, <1>2, <1>3, <1>4 DEF Ordered
  <2>2. \A n \in 1 .. Len(s) : s[n] < e
    <3>1. TAKE n \in 1 .. Len(s)
    <3>2. n \in 1 .. Len(s) + 1 /\ Len(s) + 1 \in 1 .. Len(s) + 1 /\ n < Len(s) + 1
      BY <1>1
    <3>3. Append(s, e)[n] < Append(s, e)[Len(s) + 1]
      BY <1>2, <1>4, <3>2 DEF Ordered
    <3>4. QED
      BY <1>3, <3>3
  <2>3. QED
    BY <1>1, <2>1, <2>2 DEF Range
<1>5. ASSUME Ordered(s), \A d \in Range(s) : d < e PROVE Ordered(Append(s, e))
  <2>1. SUFFICES ASSUME NEW m \in 1 .. Len(s) + 1, NEW n \in 1 .. Len(s) + 1, m < n
                 PROVE  Append(s, e)[m] < Append(s, e)[n]
    BY <1>2 DEF Ordered
  <2>2. m \in 1 .. Len(s) /\ Append(s, e)[m] = s[m]
    BY <1>1, <1>3, <2>1
  <2>3. CASE n = Len(s) + 1
    BY <1>1, <1>3, <1>5, <2>2, <2>3 DEF Range
  <2>4. CASE n \in 1 .. Len(s)
    BY <1>1, <1>3, <1>5, <2>1, <2>2, <2>4 DEF Ordered
  <2>5. QED
    BY <1>1, <2>3, <2>4
<1>6. QED
  BY <1>4, <1>5

LEMMA OnlyOrdered ==
  ASSUME NEW s \in Seq(Nat), Ordered(s), NEW S
  PROVE  Ordered(Only(s, S))
<1> DEFINE T == {t \in Seq(Nat) : Ordered(t) => Ordered(Only(t, S))}
<1>1. <<>> \in T
  BY OnlyEmpty, EmptySeq DEF Ordered
<1>2. ASSUME NEW t \in Seq(Nat), NEW e \in Nat, t \in T PROVE Append(t, e) \in T
  <2>1. Append(t, e) \in Seq(Nat) /\ Only(t, S) \in Seq(Nat)
    BY OnlyType, AppendProperties
  <2>2. Only(Append(t, e), S) = IF e \in S THEN Append(Only(t, S), e) ELSE Only(t, S)
    BY OnlyAppend
  <2>3. Range(Only(t, S)) \subseteq Range(t)
    BY OnlyRange
  <2>4. SUFFICES ASSUME Ordered(Append(t, e)) PROVE Ordered(Only(Append(t, e), S))
    BY <2>1
  <2>5. Ordered(t) /\ \A d \in Range(t) : d < e
    BY <2>4, OrderedAppend
  <2>6. Ordered(Only(t, S)) /\ \A d \in Range(Only(t, S)) : d < e
    BY <1>2, <2>3, <2>5
  <2>7. QED
    BY <2>1, <2>2, <2>6, OrderedAppend
<1>3. QED
  <2> HIDE DEF T
  <2>1. s \in T
    BY <1>1, <1>2, SeqInduction
  <2>2. QED
    BY <2>1 DEF T
-----------------------------------------------------------------------------
(***************************************************************************)
(* The positions of a sequence, and the images of a sequence of arguments. *)
(***************************************************************************)
LEMMA PositionsAre ==
  ASSUME NEW X, NEW s \in Seq(X)
  PROVE  /\ Positions(s) \in Seq(DOMAIN s) /\ Positions(s) \in Seq(Nat)
         /\ Len(Positions(s)) = Len(s)
         /\ \A n \in 1 .. Len(s) : Positions(s)[n] = n
         /\ Range(Positions(s)) = DOMAIN s
         /\ Ordered(Positions(s))
<1> DEFINE p == Positions(s)
<1>1. DOMAIN s = 1 .. Len(s) /\ Len(s) \in Nat
  BY LenProperties
<1>2. p = [n \in 1 .. Len(s) |-> n]
  BY DEF Positions
<1> HIDE DEF p
<1>3. p \in [1 .. Len(s) -> 1 .. Len(s)] /\ p \in [1 .. Len(s) -> Nat]
  BY <1>1, <1>2
<1>4. p \in Seq(1 .. Len(s)) /\ p \in Seq(Nat)
  BY <1>1, <1>3, SeqDef
<1>5. DOMAIN p = 1 .. Len(s) /\ Len(p) = Len(s)
  BY <1>1, <1>2, <1>4, LenProperties
<1>6. \A n \in 1 .. Len(s) : p[n] = n
  BY <1>2
<1>7. Range(p) = 1 .. Len(s)
  BY <1>5, <1>6 DEF Range
<1>8. Ordered(p)
  BY <1>5, <1>6 DEF Ordered
<1>9. QED
  BY <1>1, <1>4, <1>5, <1>6, <1>7, <1>8 DEF p

Images(g, s) == [n \in 1 .. Len(s) |-> g[s[n]]]

LEMMA ImagesAre ==
  ASSUME NEW X, NEW g, NEW s \in Seq(X)
  PROVE  /\ Len(Images(g, s)) = Len(s)
         /\ DOMAIN Images(g, s) = DOMAIN s
<1> DEFINE Y == {g[s[n]] : n \in 1 .. Len(s)}
           i == Images(g, s)
<1>1. DOMAIN s = 1 .. Len(s) /\ Len(s) \in Nat
  BY LenProperties
<1>2. i = [n \in 1 .. Len(s) |-> g[s[n]]]
  BY DEF Images
<1>3. \A n \in 1 .. Len(s) : g[s[n]] \in Y
  OBVIOUS
<1> HIDE DEF i, Y
<1>4. i \in [1 .. Len(s) -> Y]
  BY <1>2, <1>3
<1>5. i \in Seq(Y)
  BY <1>1, <1>4, SeqDef
<1>6. DOMAIN i = 1 .. Len(s) /\ Len(i) = Len(s)
  BY <1>1, <1>2, <1>5, LenProperties
<1>7. QED
  BY <1>1, <1>6 DEF i

LEMMA ImagesType ==
  ASSUME NEW X, NEW Y, NEW g, \A x \in X : g[x] \in Y, NEW s \in Seq(X)
  PROVE  Images(g, s) \in Seq(Y)
<1>1. Len(s) \in Nat /\ \A n \in 1 .. Len(s) : s[n] \in X
  BY LenProperties, ElementOfSeq
<1>2. Images(g, s) \in [1 .. Len(s) -> Y]
  BY <1>1 DEF Images
<1>3. QED
  BY <1>1, <1>2, SeqDef

LEMMA ImagesRange ==
  ASSUME NEW X, NEW g, NEW s \in Seq(X)
  PROVE  Range(Images(g, s)) = {g[x] : x \in Range(s)}
<1>1. DOMAIN s = 1 .. Len(s) /\ DOMAIN Images(g, s) = 1 .. Len(s)
  BY LenProperties DEF Images
<1>2. \A n \in 1 .. Len(s) : Images(g, s)[n] = g[s[n]]
  BY DEF Images
<1>3. QED
  BY <1>1, <1>2 DEF Range

LEMMA ImagesAppend ==
  ASSUME NEW X, NEW g, NEW s \in Seq(X), NEW e \in X
  PROVE  Images(g, Append(s, e)) = Append(Images(g, s), g[e])
<1> DEFINE t == Append(s, e)
           i == Images(g, t)
           j == Append(Images(g, s), g[e])
           Y == {g[x] : x \in X}
<1>0. \A x \in X : g[x] \in Y
  OBVIOUS
<1> HIDE DEF Y
<1>1. t \in Seq(X) /\ Len(t) = Len(s) + 1 /\ Len(s) \in Nat /\ g[e] \in Y
      /\ t[Len(s) + 1] = e /\ \A n \in 1 .. Len(s) : t[n] = s[n]
  BY <1>0, AppendProperties, LenProperties
<1> HIDE DEF t
<1>2. i \in Seq(Y) /\ Len(i) = Len(s) + 1 /\ \A n \in 1 .. Len(t) : i[n] = g[t[n]]
  <2>1. i \in Seq(Y)
    BY <1>0, <1>1, ImagesType
  <2>2. Len(i) = Len(t)
    BY <1>1, ImagesAre
  <2>3. \A n \in 1 .. Len(t) : i[n] = g[t[n]]
    BY DEF Images
  <2>4. QED
    BY <1>1, <2>1, <2>2, <2>3
<1>3. /\ Images(g, s) \in Seq(Y) /\ Len(Images(g, s)) = Len(s)
      /\ \A n \in 1 .. Len(s) : Images(g, s)[n] = g[s[n]]
  <2>1. Images(g, s) \in Seq(Y)
    BY <1>0, ImagesType
  <2>2. Len(Images(g, s)) = Len(s)
    BY ImagesAre
  <2>3. \A n \in 1 .. Len(s) : Images(g, s)[n] = g[s[n]]
    BY DEF Images
  <2>4. QED
    BY <2>1, <2>2, <2>3
<1>4. j \in Seq(Y) /\ Len(j) = Len(s) + 1 /\ j[Len(s) + 1] = g[e]
      /\ \A n \in 1 .. Len(s) : j[n] = Images(g, s)[n]
  BY <1>1, <1>3, AppendProperties
<1> HIDE DEF i, j
<1>5. \A n \in 1 .. Len(i) : i[n] = j[n]
  <2>1. TAKE n \in 1 .. Len(i)
  <2>2. n \in 1 .. Len(t)
    BY <1>1, <1>2
  <2>3. CASE n \in 1 .. Len(s)
    BY <1>1, <1>2, <1>3, <1>4, <2>2, <2>3
  <2>4. CASE n = Len(s) + 1
    BY <1>1, <1>2, <1>4, <2>2, <2>4
  <2>5. QED
    BY <1>1, <1>2, <2>3, <2>4
<1>6. i = j
  BY <1>2, <1>4, <1>5, SeqEqual
<1>7. QED
  BY <1>6 DEF i, j, t

LEMMA ImagesEmpty ==
  ASSUME NEW g
  PROVE  Images(g, <<>>) = <<>>
<1>1. Len(<<>>) = 0
  OBVIOUS
<1>2. QED
  BY <1>1 DEF Images

\* Filtering images is filtering arguments.
LEMMA OnlyImages ==
  ASSUME NEW X, NEW g, NEW s \in Seq(X), NEW S,
         NEW P, \A x \in X : g[x] \in S <=> x \in P
  PROVE  Only(Images(g, s), S) = Images(g, Only(s, P))
<1> DEFINE T == {t \in Seq(X) : Only(Images(g, t), S) = Images(g, Only(t, P))}
           Y == {g[x] : x \in X}
<1>0. \A x \in X : g[x] \in Y
  OBVIOUS
<1> HIDE DEF Y
<1>1. <<>> \in T
  BY OnlyEmpty, ImagesEmpty, EmptySeq
<1>2. ASSUME NEW t \in Seq(X), NEW e \in X, t \in T PROVE Append(t, e) \in T
  <2>1. Append(t, e) \in Seq(X) /\ Only(t, P) \in Seq(X) /\ Images(g, t) \in Seq(Y) /\ g[e] \in Y
    BY <1>0, OnlyType, AppendProperties, ImagesType
  <2>2. Images(g, Append(t, e)) = Append(Images(g, t), g[e])
    BY ImagesAppend
  <2>3. Only(Append(Images(g, t), g[e]), S) =
            IF g[e] \in S THEN Append(Only(Images(g, t), S), g[e]) ELSE Only(Images(g, t), S)
    <3> DEFINE i == Images(g, t)
               v == g[e]
    <3>1. i \in Seq(Y) /\ v \in Y
      BY <2>1
    <3> HIDE DEF i, v
    <3>2. Only(Append(i, v), S) = IF v \in S THEN Append(Only(i, S), v) ELSE Only(i, S)
      BY <3>1, OnlyAppend
    <3>3. QED
      BY <3>2 DEF i, v
  <2>4. Only(Append(t, e), P) = IF e \in P THEN Append(Only(t, P), e) ELSE Only(t, P)
    BY OnlyAppend
  <2>5. Images(g, Append(Only(t, P), e)) = Append(Images(g, Only(t, P)), g[e])
    BY <2>1, ImagesAppend
  <2>6. g[e] \in S <=> e \in P
    OBVIOUS
  <2>7. Only(Images(g, t), S) = Images(g, Only(t, P))
    BY <1>2
  <2>8. QED
    BY <2>1, <2>2, <2>3, <2>4, <2>5, <2>6, <2>7
<1>3. QED
  <2> HIDE DEF T
  <2>1. s \in T
    BY <1>1, <1>2, SeqInduction
  <2>2. QED
    BY <2>1 DEF T

-----------------------------------------------------------------------------
(***************************************************************************)
(* FlattenSeq(ss), taken apart.                                            *)
(***************************************************************************)
Joins(f, ss, m) == f = [i \in 1 .. m |-> IF i = 1 THEN ss[i] ELSE f[i - 1] \o ss[i]]

LEMMA JoinsExists ==
  ASSUME NEW ss, NEW m \in Nat
  PROVE  \E f : Joins(f, ss, m)
<1> DEFINE N == {k \in Nat : \E f : Joins(f, ss, k)}
<1>1. 0 \in N
  <2> DEFINE f == [n \in 1 .. 0 |-> <<>>]
  <2>1. Joins(f, ss, 0)
    BY DEF Joins
  <2>2. QED
    BY <2>1
<1>2. ASSUME NEW k \in N PROVE k + 1 \in N
  <2>1. PICK f : Joins(f, ss, k)
    OBVIOUS
  <2> DEFINE h == [i \in 1 .. k + 1 |-> IF i = 1 THEN ss[i] ELSE f[i - 1] \o ss[i]]
  <2>2. \A i \in 1 .. k : h[i] = f[i]
    <3>1. \A i \in 1 .. k : f[i] = IF i = 1 THEN ss[i] ELSE f[i - 1] \o ss[i]
      BY <2>1 DEF Joins
    <3>2. \A i \in 1 .. k : i \in 1 .. k + 1
      OBVIOUS
    <3>3. QED
      BY <3>1, <3>2
  <2>3. \A i \in 1 .. k + 1 : i = 1 \/ i - 1 \in 1 .. k
    OBVIOUS
  <2>4. Joins(h, ss, k + 1)
    BY <2>2, <2>3 DEF Joins
  <2>5. QED
    BY <2>4
<1>3. N = Nat
  <2> HIDE DEF N
  <2>1. N \in SUBSET Nat
    BY DEF N
  <2>2. QED
    BY <1>1, <1>2, <2>1, Induction
<1>4. QED
  BY <1>3

LEMMA FlattenEmpty == FlattenSeq(<<>>) = <<>>
<1>1. Len(<<>>) = 0
  OBVIOUS
<1>2. QED
  BY <1>1 DEF FlattenSeq

LEMMA FlattenIs ==
  ASSUME NEW X, NEW ss \in Seq(X), Len(ss) # 0
  PROVE  \E f : Joins(f, ss, Len(ss)) /\ FlattenSeq(ss) = f[Len(ss)]
<1> DEFINE f == CHOOSE f : Joins(f, ss, Len(ss))
<1>1. Joins(f, ss, Len(ss))
  BY JoinsExists, LenProperties
<1>2. FlattenSeq(ss) = f[Len(ss)]
  BY DEF FlattenSeq, Joins
<1>3. QED
  BY <1>1, <1>2

LEMMA FlattenAppend ==
  ASSUME NEW X, NEW ss \in Seq(Seq(X)), NEW s \in Seq(X)
  PROVE  FlattenSeq(Append(ss, s)) = FlattenSeq(ss) \o s
<1> DEFINE tt == Append(ss, s)
           m == Len(ss)
<1>1. m \in Nat /\ tt \in Seq(Seq(X)) /\ Len(tt) = m + 1 /\ tt[m + 1] = s
      /\ \A n \in 1 .. m : tt[n] = ss[n]
  BY AppendProperties, LenProperties
<1> HIDE DEF tt
<1>2. PICK g : Joins(g, tt, m + 1) /\ FlattenSeq(tt) = g[m + 1]
  <2>1. Len(tt) # 0
    BY <1>1
  <2>2. QED
    BY <1>1, <2>1, FlattenIs
<1>3. \A i \in 1 .. m + 1 : g[i] = IF i = 1 THEN tt[i] ELSE g[i - 1] \o tt[i]
  BY <1>2 DEF Joins
<1>4. CASE m = 0
  <2>1. ss = <<>> /\ FlattenSeq(ss) = <<>>
    BY <1>4, EmptySeq, FlattenEmpty
  <2>2. g[1] = s
    BY <1>1, <1>3, <1>4
  <2>3. <<>> \o s = s
    BY ConcatEmptySeq
  <2>4. QED
    BY <1>2, <1>4, <2>1, <2>2, <2>3 DEF tt
<1>5. CASE m # 0
  <2>1. PICK f : Joins(f, ss, m) /\ FlattenSeq(ss) = f[m]
    BY <1>5, FlattenIs
  <2>2. \A i \in 1 .. m : f[i] = IF i = 1 THEN ss[i] ELSE f[i - 1] \o ss[i]
    BY <2>1 DEF Joins
  <2> HIDE DEF m
  <2> DEFINE N == {n \in Nat : 1 <= n /\ n <= m => f[n] = g[n]}
  <2>3. 0 \in N
    OBVIOUS
  <2>4. ASSUME NEW n \in N PROVE n + 1 \in N
    <3>1. SUFFICES ASSUME n + 1 <= m PROVE f[n + 1] = g[n + 1]
      OBVIOUS
    <3>2. n + 1 \in 1 .. m /\ n + 1 \in 1 .. m + 1 /\ (n + 1) - 1 = n
      BY <1>1, <3>1
    <3>3. f[n + 1] = (IF n + 1 = 1 THEN ss[n + 1] ELSE f[n] \o ss[n + 1])
          /\ g[n + 1] = (IF n + 1 = 1 THEN tt[n + 1] ELSE g[n] \o tt[n + 1])
      BY <1>3, <2>2, <3>2
    <3>4. tt[n + 1] = ss[n + 1]
      BY <1>1, <3>2
    <3>5. n + 1 # 1 => f[n] = g[n]
      BY <1>1, <3>1
    <3>6. QED
      BY <3>3, <3>4, <3>5
  <2>5. N = Nat
    <3> HIDE DEF N
    <3>1. N \in SUBSET Nat
      BY DEF N
    <3>2. QED
      BY <2>3, <2>4, <3>1, Induction
  <2>6. f[m] = g[m]
    BY <1>1, <1>5, <2>5
  <2>7. m + 1 \in 1 .. m + 1 /\ m + 1 # 1 /\ (m + 1) - 1 = m
    BY <1>1, <1>5
  <2>8. g[m + 1] = g[m] \o s
    BY <1>1, <1>3, <2>7
  <2>9. QED
    BY <1>2, <2>1, <2>6, <2>8 DEF tt
<1>6. QED
  BY <1>4, <1>5

LEMMA FlattenType ==
  ASSUME NEW X, NEW ss \in Seq(Seq(X))
  PROVE  FlattenSeq(ss) \in Seq(X)
<1> DEFINE T == {tt \in Seq(Seq(X)) : FlattenSeq(tt) \in Seq(X)}
<1>1. <<>> \in T
  BY FlattenEmpty, EmptySeq
<1>2. ASSUME NEW tt \in Seq(Seq(X)), NEW t \in Seq(X), tt \in T PROVE Append(tt, t) \in T
  <2>1. FlattenSeq(Append(tt, t)) = FlattenSeq(tt) \o t /\ FlattenSeq(tt) \in Seq(X)
    BY <1>2, FlattenAppend
  <2>2. FlattenSeq(tt) \o t \in Seq(X) /\ Append(tt, t) \in Seq(Seq(X))
    BY <2>1, ConcatProperties, AppendProperties
  <2>3. QED
    BY <2>1, <2>2
<1>3. QED
  <2> HIDE DEF T
  <2>1. ss \in T
    BY <1>1, <1>2, SeqInduction
  <2>2. QED
    BY <2>1 DEF T

LEMMA FlattenRange ==
  ASSUME NEW X, NEW ss \in Seq(Seq(X))
  PROVE  Range(FlattenSeq(ss)) = UNION {Range(t) : t \in Range(ss)}
<1> DEFINE T == {tt \in Seq(Seq(X)) : Range(FlattenSeq(tt)) = UNION {Range(t) : t \in Range(tt)}}
<1>1. <<>> \in T
  BY FlattenEmpty, EmptySeq, RangeEmpty
<1>2. ASSUME NEW tt \in Seq(Seq(X)), NEW t \in Seq(X), tt \in T PROVE Append(tt, t) \in T
  <2>1. FlattenSeq(Append(tt, t)) = FlattenSeq(tt) \o t /\ FlattenSeq(tt) \in Seq(X)
    BY FlattenAppend, FlattenType
  <2>2. Range(FlattenSeq(tt) \o t) = Range(FlattenSeq(tt)) \cup Range(t)
    BY <2>1, RangeConcatenation
  <2>3. Range(Append(tt, t)) = Range(tt) \cup {t} /\ Append(tt, t) \in Seq(Seq(X))
    BY RangeAppend, AppendProperties
  <2>4. Range(FlattenSeq(tt)) = UNION {Range(u) : u \in Range(tt)}
    BY <1>2
  <2>5. QED
    BY <2>1, <2>2, <2>3, <2>4
<1>3. QED
  <2> HIDE DEF T
  <2>1. ss \in T
    BY <1>1, <1>2, SeqInduction
  <2>2. QED
    BY <2>1 DEF T

Single(X) == [x \in X |-> <<x>>]

LEMMA FlattenSingles ==
  ASSUME NEW X, NEW s \in Seq(X)
  PROVE  FlattenSeq(Images(Single(X), s)) = s
<1> DEFINE g == Single(X)
           T == {t \in Seq(X) : FlattenSeq(Images(g, t)) = t}
<1>1. g \in [X -> Seq(X)] /\ \A x \in X : g[x] = <<x>>
  BY DEF Single
<1> HIDE DEF g
<1>2. <<>> \in T
  BY FlattenEmpty, EmptySeq, ImagesEmpty
<1>3. ASSUME NEW t \in Seq(X), NEW e \in X, t \in T PROVE Append(t, e) \in T
  <2>1. Images(g, Append(t, e)) = Append(Images(g, t), g[e])
    BY <1>1, ImagesAppend
  <2>2. Images(g, t) \in Seq(Seq(X)) /\ g[e] \in Seq(X)
    BY <1>1, ImagesType
  <2>3. FlattenSeq(Append(Images(g, t), g[e])) = FlattenSeq(Images(g, t)) \o g[e]
    BY <2>2, FlattenAppend
  <2>4. Append(t, e) = t \o <<e>> /\ Append(t, e) \in Seq(X)
    BY AppendIsConcat, AppendProperties
  <2>5. FlattenSeq(Images(g, t)) = t /\ g[e] = <<e>>
    BY <1>1, <1>3
  <2>6. QED
    BY <2>1, <2>3, <2>4, <2>5
<1>4. QED
  <2> HIDE DEF T
  <2>1. s \in T
    BY <1>2, <1>3, SeqInduction
  <2>2. QED
    BY <2>1 DEF T, g

\* Filtering what is flattened is flattening what is filtered.
Filtered(X, S) == [t \in Seq(X) |-> Only(t, S)]

LEMMA OnlyFlatten ==
  ASSUME NEW X, NEW ss \in Seq(Seq(X)), NEW S
  PROVE  Only(FlattenSeq(ss), S) = FlattenSeq(Images(Filtered(X, S), ss))
<1> DEFINE g == Filtered(X, S)
           T == {tt \in Seq(Seq(X)) : Only(FlattenSeq(tt), S) = FlattenSeq(Images(g, tt))}
<1>1. g \in [Seq(X) -> Seq(X)] /\ \A t \in Seq(X) : g[t] = Only(t, S)
  BY OnlyType DEF Filtered
<1> HIDE DEF g
<1>2. <<>> \in T
  BY FlattenEmpty, EmptySeq, ImagesEmpty, OnlyEmpty
<1>3. ASSUME NEW tt \in Seq(Seq(X)), NEW t \in Seq(X), tt \in T PROVE Append(tt, t) \in T
  <2>1. Images(g, Append(tt, t)) = Append(Images(g, tt), g[t])
    BY <1>1, ImagesAppend
  <2>2. Images(g, tt) \in Seq(Seq(X)) /\ g[t] \in Seq(X) /\ FlattenSeq(tt) \in Seq(X)
    BY <1>1, ImagesType, FlattenType
  <2>3. FlattenSeq(Append(Images(g, tt), g[t])) = FlattenSeq(Images(g, tt)) \o g[t]
    BY <2>2, FlattenAppend
  <2>4. FlattenSeq(Append(tt, t)) = FlattenSeq(tt) \o t /\ Append(tt, t) \in Seq(Seq(X))
    BY FlattenAppend, AppendProperties
  <2>5. Only(FlattenSeq(tt) \o t, S) = Only(FlattenSeq(tt), S) \o Only(t, S)
    <3> DEFINE u == FlattenSeq(tt)
    <3>1. u \in Seq(X)
      BY <2>2
    <3> HIDE DEF u
    <3>2. Only(u \o t, S) = Only(u, S) \o Only(t, S)
      BY <3>1, OnlyConcat
    <3>3. QED
      BY <3>2 DEF u
  <2>6. Only(FlattenSeq(tt), S) = FlattenSeq(Images(g, tt)) /\ g[t] = Only(t, S)
    BY <1>1, <1>3
  <2>7. QED
    BY <2>1, <2>3, <2>4, <2>5, <2>6
<1>4. QED
  <2> HIDE DEF T
  <2>1. ss \in T
    BY <1>2, <1>3, SeqInduction
  <2>2. QED
    BY <2>1 DEF T, g

\* Empty sequences leave no trace.
LEMMA FlattenNothing ==
  ASSUME NEW X, NEW ss \in Seq(Seq(X)), \A i \in DOMAIN ss : ss[i] = <<>>
  PROVE  FlattenSeq(ss) = <<>>
<1> DEFINE T == {tt \in Seq(Seq(X)) : Range(tt) \subseteq {<<>>} => FlattenSeq(tt) = <<>>}
<1>1. <<>> \in T
  BY FlattenEmpty, EmptySeq
<1>2. ASSUME NEW tt \in Seq(Seq(X)), NEW t \in Seq(X), tt \in T PROVE Append(tt, t) \in T
  <2>1. Range(Append(tt, t)) = Range(tt) \cup {t} /\ Append(tt, t) \in Seq(Seq(X))
    BY RangeAppend, AppendProperties
  <2>2. FlattenSeq(Append(tt, t)) = FlattenSeq(tt) \o t
    BY FlattenAppend
  <2>3. <<>> \o <<>> = <<>>
    BY EmptySeq, ConcatEmptySeq
  <2>4. QED
    BY <1>2, <2>1, <2>2, <2>3
<1>3. ss \in T
  <2> HIDE DEF T
  <2>1. QED
    BY <1>1, <1>2, SeqInduction
<1>4. Range(ss) \subseteq {<<>>}
  BY DEF Range
<1>5. QED
  BY <1>3, <1>4

LEMMA FlattenOne ==
  ASSUME NEW X, NEW ss \in Seq(Seq(X)), NEW k \in DOMAIN ss,
         \A i \in DOMAIN ss \ {k} : ss[i] = <<>>
  PROVE  FlattenSeq(ss) = ss[k]
<1> DEFINE One(tt) == \A j \in DOMAIN tt :
                          (\A i \in DOMAIN tt \ {j} : tt[i] = <<>>) => FlattenSeq(tt) = tt[j]
           T == {tt \in Seq(Seq(X)) : One(tt)}
<1>1. <<>> \in T
  BY EmptySeq
<1>2. ASSUME NEW tt \in Seq(Seq(X)), NEW t \in Seq(X), tt \in T PROVE Append(tt, t) \in T
  <2> DEFINE n == Len(tt)
             aa == Append(tt, t)
  <2>1. n \in Nat /\ DOMAIN tt = 1 .. n
    BY LenProperties
  <2>2. /\ aa \in Seq(Seq(X)) /\ DOMAIN aa = 1 .. n + 1
        /\ aa[n + 1] = t /\ \A i \in 1 .. n : aa[i] = tt[i]
    BY AppendProperties, LenProperties
  <2>3. FlattenSeq(aa) = FlattenSeq(tt) \o t /\ FlattenSeq(tt) \in Seq(X)
    BY FlattenAppend, FlattenType
  <2> HIDE DEF n, aa
  <2>4. SUFFICES ASSUME NEW j \in 1 .. n + 1, \A i \in (1 .. n + 1) \ {j} : aa[i] = <<>>
                 PROVE  FlattenSeq(aa) = aa[j]
    BY <2>2 DEF aa
  <2>5. CASE j = n + 1
    <3>1. \A i \in 1 .. n : tt[i] = <<>>
      BY <2>1, <2>2, <2>4, <2>5
    <3>2. FlattenSeq(tt) = <<>>
      BY <2>1, <3>1, FlattenNothing
    <3>3. <<>> \o t = t
      BY ConcatEmptySeq
    <3>4. QED
      BY <2>2, <2>3, <2>5, <3>2, <3>3
  <2>6. CASE j \in 1 .. n
    <3>1. t = <<>>
      BY <2>1, <2>2, <2>4, <2>6
    <3>2. \A i \in (1 .. n) \ {j} : tt[i] = <<>>
      BY <2>1, <2>2, <2>4
    <3>3. FlattenSeq(tt) = tt[j]
      BY <1>2, <2>1, <2>6, <3>2
    <3>4. FlattenSeq(tt) \o <<>> = FlattenSeq(tt)
      BY <2>3, ConcatEmptySeq
    <3>5. QED
      BY <2>2, <2>3, <2>6, <3>1, <3>3, <3>4
  <2>7. QED
    BY <2>1, <2>5, <2>6
<1>3. ss \in T
  <2> HIDE DEF T
  <2>1. QED
    BY <1>1, <1>2, SeqInduction
<1>4. QED
  BY <1>3
=============================================================================
