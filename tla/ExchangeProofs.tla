--------------------------- MODULE ExchangeProofs ---------------------------
(***************************************************************************)
(* What the backends of a chain are told, what the client of a buffered    *)
(* answer gets, and what the client of a stream misses: for conversations, *)
(* answers and streams of any length, chains of any backends, and any way  *)
(* the network cuts what they send.                                        *)
(***************************************************************************)
EXTENDS Exchange, SubsequenceProofs, FiniteSetTheorems

-----------------------------------------------------------------------------
(***************************************************************************)
(* The stream.  Where a chunk ends says which event it cut; what came      *)
(* before decides, for every event behind it, whether the client has it.   *)
(* The invariant relates the three at the position the generator has       *)
(* taken.                                                                  *)
(***************************************************************************)

\* The event that a position is in or behind.
At(position) == (position + 1) \div 2

\* Nothing is received or cut that was not taken, and half an event was cut.
Positioned ==
    /\ taken \in Nat /\ sent \in Nat /\ taken <= sent
    /\ got \in Seq(Nat)
    /\ \A n \in DOMAIN got : 1 <= got[n] /\ 2 * got[n] <= taken
    /\ cuts \subseteq 1 .. At(taken)
    /\ taken % 2 = 1 => At(taken) \in cuts

\* LostIsCut, for every event, not only those of this response.
Accounted ==
    \A e \in Nat : 1 <= e /\ 2 * e <= taken => (e \notin Received <=> Missed(e))

\* The events of a response are counted from one.
Counted == \A e \in Events : e \in Nat /\ 1 <= e

Followed == Counted /\ Positioned /\ Accounted
-----------------------------------------------------------------------------
LEMMA AtIs ==
  ASSUME NEW p \in Nat
  PROVE  /\ At(p) \in Nat /\ p \div 2 \in Nat
         /\ p % 2 \in {0, 1}
         /\ p % 2 = 0 => p = 2 * (p \div 2) /\ At(p) = p \div 2
         /\ p % 2 = 1 => p = 2 * (p \div 2) + 1 /\ At(p) = p \div 2 + 1
  BY SMT DEF At

LEMMA Halves ==
  ASSUME NEW p \in Nat
  PROVE  p \div 2 <= At(p) /\ p \div 2 \in Nat
  BY SMT DEF At

\* What a chunk yields: consecutive events, up to the last.
Yields(a, b) == [n \in 1 .. Cardinality(a + 1 .. b) |-> b - Cardinality(a + 1 .. b) + n]

LEMMA YieldsAll ==
  ASSUME NEW a \in Nat, NEW b \in Nat
  PROVE  Yields(a, b) \in Seq(Nat) /\ Range(Yields(a, b)) = a + 1 .. b
<1> DEFINE c == Cardinality(a + 1 .. b)
           y == [n \in 1 .. c |-> b - c + n]
<1>1. c = IF a + 1 <= b THEN b - a ELSE 0
  BY FS_Interval
<1>2. c \in Nat /\ c <= b
  BY <1>1
<1>3. y = Yields(a, b)
  BY DEF Yields
<1> HIDE DEF c
<1>4. y \in Seq(Nat)
  <2>1. \A n \in 1 .. c : b - c + n \in Nat
    BY <1>2
  <2>2. QED
    BY <1>2, <2>1, IsASeq
<1>5. ASSUME NEW n \in 1 .. c PROVE y[n] \in a + 1 .. b
  BY <1>1, <1>5
<1>6. ASSUME NEW e \in a + 1 .. b PROVE \E n \in 1 .. c : y[n] = e
  <2>1. c = b - a /\ e - a \in 1 .. c
    BY <1>1
  <2>2. y[e - a] = b - c + (e - a)
    BY <2>1
  <2>3. b - c + (e - a) = e
    BY <2>1
  <2>4. QED
    BY <2>1, <2>2, <2>3
<1>7. DOMAIN y = 1 .. c
  OBVIOUS
<1> HIDE DEF y
<1>8. Range(y) = a + 1 .. b
  BY <1>5, <1>6, <1>7 DEF Range
<1>9. QED
  BY <1>3, <1>4, <1>8

\* The first event that a chunk cannot yield: the one before those of Whole.
Before(from) == IF translated THEN (from + 1) \div 2 ELSE from \div 2

LEMMA BeforeIs ==
  ASSUME NEW p \in Nat
  PROVE  /\ Before(p) \in Nat
         /\ p % 2 = 0 \/ translated => Before(p) = At(p)
         /\ p % 2 = 1 /\ ~translated => Before(p) = At(p) - 1
  BY AtIs, Zenon, SMT DEF Before, At

LEMMA FollowedInit == Init => Followed
<1> SUFFICES ASSUME Init PROVE Followed
  OBVIOUS
<1>1. response \in Seq(DOMAIN Says[dialect])
  BY StreamAssumption DEF Init
<1>2. Counted
  BY <1>1, LenProperties DEF Counted, Events
<1>3. Positioned
  BY DEF Init, Positioned, At
<1>4. Accounted
  BY DEF Init, Accounted
<1>5. QED
  BY <1>2, <1>3, <1>4 DEF Followed

LEMMA FollowedSame ==
  ASSUME Followed, UNCHANGED <<dialect, response, taken, cuts, got>>,
         sent' \in Nat, sent <= sent'
  PROVE  Followed'
<1>1. Counted'
  BY DEF Followed, Counted, Events
<1>2. Positioned'
  BY DEF Followed, Positioned, At
<1>3. Accounted'
  BY DEF Followed, Accounted, Received, Missed, translated
<1>4. QED
  BY <1>1, <1>2, <1>3 DEF Followed

LEMMA FollowedChunk ==
  ASSUME Followed, Chunk
  PROVE  Followed'
<1> USE DEF Followed
<1>1. PICK to \in taken + 1 .. sent :
          /\ taken' = to
          /\ cuts' = IF to % 2 = 1 THEN cuts \cup {(to + 1) \div 2} ELSE cuts
          /\ got' = got \o [n \in 1 .. Cardinality(Whole(taken, to)) |->
                                to \div 2 - Cardinality(Whole(taken, to)) + n]
  BY DEF Chunk
<1>2. taken \in Nat /\ sent \in Nat /\ to \in Nat /\ taken < to /\ to <= sent
  BY <1>1 DEF Positioned
<1> DEFINE a == Before(taken)
           b == to \div 2
           new == Yields(a, b)
<1>3. a \in Nat /\ b \in Nat
  BY <1>2, BeforeIs, AtIs
<1>4. got' = got \o new
  BY <1>1 DEF Whole, Before, Yields
<1>5. new \in Seq(Nat) /\ Range(new) = a + 1 .. b
  BY <1>3, YieldsAll
<1>6. got \in Seq(Nat)
  BY DEF Positioned
<1> HIDE DEF new
<1>7. got' \in Seq(Nat) /\ Received' = Received \cup (a + 1 .. b)
  <2>1. got' \in Seq(Nat)
    BY <1>4, <1>5, <1>6, ConcatProperties
  <2>2. Range(got \o new) = Range(got) \cup Range(new)
    <3>1. new \in Seq(Nat)
      BY <1>5
    <3>2. QED
      BY <1>6, <3>1, RangeConcatenation, Zenon
  <2>3. Received = Range(got) /\ Received' = Range(got')
    BY DEF Received, Range
  <2>4. QED
    BY <1>4, <1>5, <2>1, <2>2, <2>3
<1>8. UNCHANGED <<dialect, response, sent>>
  BY DEF Chunk, wire
<1>9. translated' = translated
  BY <1>8 DEF translated
<1>10. Counted'
  BY <1>8 DEF Counted, Events
<1>11. \A e \in Received : e \in Nat /\ 1 <= e /\ 2 * e <= taken
  <2>1. \A n \in DOMAIN got : got[n] \in Nat
    BY <1>6, ElementOfSeq, LenProperties
  <2>2. QED
    BY <2>1 DEF Positioned, Received
<1>12. \A e \in Received' : e \in Nat /\ 1 <= e /\ 2 * e <= to
  <2>1. b <= to /\ 2 * b <= to
    BY <1>2, AtIs
  <2>2. QED
    BY <1>2, <1>3, <1>7, <1>11, <2>1
<1>13. cuts' = IF to % 2 = 1 THEN cuts \cup {At(to)} ELSE cuts
  BY <1>1 DEF At
<1>14. Positioned'
  <2>1. At(taken) \in Nat /\ At(to) \in Nat /\ At(taken) <= At(to)
    BY <1>2, AtIs
  <2>2. At(to) >= 1
    BY <1>2, AtIs
  <2>3. cuts' \subseteq 1 .. At(to)
    <3>1. \A e \in cuts : e \in Nat /\ 1 <= e /\ e <= At(taken)
      BY <2>1 DEF Positioned
    <3>2. \A e \in cuts' : e \in cuts \/ e = At(to)
      BY <1>13
    <3>3. \A e \in cuts' : e \in Nat /\ 1 <= e /\ e <= At(to)
      BY <2>1, <2>2, <3>1, <3>2
    <3>4. QED
      BY <2>1, <3>3
  <2>4. to % 2 = 1 => At(to) \in cuts'
    BY <1>13
  <2>5. \A n \in DOMAIN got' : got'[n] \in Received'
    BY DEF Received
  <2>6. \A n \in DOMAIN got' : 1 <= got'[n] /\ 2 * got'[n] <= taken'
    BY <1>1, <1>12, <2>5
  <2>7. At(taken)' = At(to)
    BY <1>1 DEF At
  <2>8. taken' \in Nat /\ sent' \in Nat /\ taken' <= sent'
    BY <1>1, <1>2, <1>8
  <2>9. taken' % 2 = 1 => At(taken)' \in cuts'
    BY <1>1, <2>4, <2>7
  <2>10. QED
    BY <1>7, <2>3, <2>6, <2>7, <2>8, <2>9 DEF Positioned
<1>15. Accounted'
  <2> SUFFICES ASSUME NEW e \in Nat, 1 <= e, 2 * e <= to
               PROVE  e \notin Received' <=> translated /\ e \in cuts'
    BY <1>1, <1>9 DEF Accounted, Missed
  <2>1. e \in cuts' <=> e \in cuts
    <3>1. to % 2 = 1 => e # At(to)
      BY <1>2, AtIs
    <3>2. QED
      BY <1>13, <3>1
  <2>2. e <= b
    BY <1>2, AtIs
  <2>3. CASE 2 * e <= taken
    <3>1. e <= a
      BY <1>2, <2>3, BeforeIs, AtIs
    <3>2. e \in Received' <=> e \in Received
      BY <1>3, <1>7, <3>1
    <3>3. QED
      BY <2>1, <2>3, <3>2 DEF Accounted, Missed
  <2>4. CASE 2 * e > taken
    <3>1. e \notin Received
      BY <1>2, <1>11, <2>4
    <3>2. e >= At(taken)
      BY <1>2, <2>4, AtIs
    <3>3. CASE e > a
      <4>1. e \in Received'
        BY <1>3, <1>7, <2>2, <3>3
      <4>2. CASE translated
        <5>1. e > At(taken)
          BY <1>2, <3>3, <4>2, BeforeIs
        <5>2. QED
          BY <1>2, <2>1, <4>1, <5>1, AtIs DEF Positioned
      <4>3. QED
        BY <4>1, <4>2
    <3>4. CASE e <= a
      <4>1. translated /\ taken % 2 = 1 /\ e = At(taken)
        BY <1>2, <2>4, <3>2, <3>4, BeforeIs, AtIs
      <4>2. e \in cuts
        BY <4>1 DEF Positioned
      <4>3. e \notin Received'
        BY <1>3, <1>7, <3>1, <3>4
      <4>4. QED
        BY <2>1, <4>1, <4>2, <4>3
    <3>5. QED
      BY <1>3, <3>3, <3>4
  <2>5. QED
    BY <1>2, <2>3, <2>4
<1>16. QED
  BY <1>10, <1>14, <1>15

LEMMA FollowedStep == Followed /\ [Next]_vars => Followed'
<1> SUFFICES ASSUME Followed, [Next]_vars PROVE Followed'
  OBVIOUS
<1>1. sent \in Nat
  BY DEF Followed, Positioned
<1> USE DEF wire, handling
<1>2. CASE Chunk
  BY <1>2, FollowedChunk
<1>3. CASE Send
  BY <1>1, <1>3, FollowedSame DEF Send
<1>4. CASE Finish \/ Break \/ Start \/ Drop \/ Leave
  BY <1>1, <1>4, FollowedSame DEF Finish, Break, Start, Drop, Leave
<1>5. CASE End \/ Cancel
  BY <1>1, <1>5, FollowedSame DEF End, Cancel, Close
<1>6. CASE UNCHANGED vars
  BY <1>1, <1>6, FollowedSame DEF vars
<1>7. QED
  BY <1>2, <1>3, <1>4, <1>5, <1>6 DEF Next
-----------------------------------------------------------------------------
(***************************************************************************)
(* The order of what the client gets, and where the generator stops: if    *)
(* neither side broke off, behind the last event.                          *)
(***************************************************************************)
Exhausted ==
    /\ sent <= Size
    /\ backend = "finished" => sent = Size
    /\ generator = "over" /\ client = "there" =>
           backend = "broken" \/ (backend = "finished" /\ taken = sent)

Numbered == Len(response) \in Nat /\ Events = 1 .. Len(response)

Streamed == Followed /\ Ordered(got) /\ Numbered /\ Exhausted

LEMMA OrderedConcat ==
  ASSUME NEW s \in Seq(Nat), NEW t \in Seq(Nat), Ordered(s), Ordered(t),
         \A d \in Range(s), e \in Range(t) : d < e
  PROVE  Ordered(s \o t)
<1> DEFINE u == s \o t
<1>1. /\ Len(s) \in Nat /\ Len(t) \in Nat /\ Len(u) = Len(s) + Len(t)
      /\ u \in Seq(Nat) /\ DOMAIN u = 1 .. Len(u)
      /\ \A n \in 1 .. Len(u) : u[n] = IF n <= Len(s) THEN s[n] ELSE t[n - Len(s)]
  BY ConcatProperties, LenProperties
<1>2. DOMAIN s = 1 .. Len(s) /\ DOMAIN t = 1 .. Len(t)
  BY LenProperties
<1> HIDE DEF u
<1>3. SUFFICES ASSUME NEW m \in 1 .. Len(u), NEW n \in 1 .. Len(u), m < n PROVE u[m] < u[n]
  BY <1>1 DEF Ordered, u
<1>4. CASE n <= Len(s)
  <2>1. m \in DOMAIN s /\ n \in DOMAIN s /\ u[m] = s[m] /\ u[n] = s[n]
    BY <1>1, <1>2, <1>3, <1>4
  <2>2. QED
    BY <1>3, <2>1 DEF Ordered
<1>5. CASE m <= Len(s) /\ n > Len(s)
  <2>1. m \in DOMAIN s /\ n - Len(s) \in DOMAIN t /\ u[m] = s[m] /\ u[n] = t[n - Len(s)]
    BY <1>1, <1>2, <1>5
  <2>2. QED
    BY <2>1 DEF Range
<1>6. CASE m > Len(s)
  <2>1. /\ m - Len(s) \in DOMAIN t /\ n - Len(s) \in DOMAIN t /\ m - Len(s) < n - Len(s)
        /\ u[m] = t[m - Len(s)] /\ u[n] = t[n - Len(s)]
    BY <1>1, <1>2, <1>3, <1>6
  <2>2. QED
    BY <2>1 DEF Ordered
<1>7. QED
  BY <1>1, <1>3, <1>4, <1>5, <1>6

LEMMA YieldsOrdered ==
  ASSUME NEW a \in Nat, NEW b \in Nat
  PROVE  Ordered(Yields(a, b))
<1> DEFINE c == Cardinality(a + 1 .. b)
<1>1. c \in Nat
  <2>1. c = IF a + 1 <= b THEN b - a ELSE 0
    BY FS_Interval
  <2>2. QED
    BY <2>1
<1> HIDE DEF c
<1>2. \A m, n \in 1 .. c : m < n => b - c + m < b - c + n
  BY <1>1
<1>3. QED
  BY <1>1, <1>2 DEF Ordered, Yields, c

LEMMA OrderedChunk ==
  ASSUME Streamed, Chunk
  PROVE  Ordered(got)'
<1>1. PICK to \in taken + 1 .. sent :
          got' = got \o [n \in 1 .. Cardinality(Whole(taken, to)) |->
                             to \div 2 - Cardinality(Whole(taken, to)) + n]
  BY DEF Chunk
<1> DEFINE a == Before(taken)
           b == to \div 2
           new == Yields(a, b)
<1>2. taken \in Nat /\ to \in Nat /\ got \in Seq(Nat) /\ a \in Nat /\ b \in Nat
  <2>1. taken \in Nat /\ sent \in Nat /\ got \in Seq(Nat)
    BY DEF Streamed, Followed, Positioned
  <2>2. to \in Nat
    BY <1>1, <2>1
  <2>3. QED
    BY <2>1, <2>2, BeforeIs, AtIs
<1>3. got' = got \o new
  BY <1>1 DEF Whole, Before, Yields
<1>4. new \in Seq(Nat) /\ Range(new) = a + 1 .. b /\ Ordered(new)
  BY <1>2, YieldsAll, YieldsOrdered
<1> HIDE DEF new
<1>5. \A d \in Range(got), e \in Range(new) : d < e
  <2>1. TAKE d \in Range(got), e \in Range(new)
  <2>2. d \in Nat /\ 2 * d <= taken
    BY <1>2, ElementOfSeq, LenProperties DEF Range, Streamed, Followed, Positioned
  <2>3. d <= a
    <3>1. taken = 2 * (taken \div 2) \/ taken = 2 * (taken \div 2) + 1
      BY <1>2, AtIs
    <3>2. d <= taken \div 2 /\ taken \div 2 \in Nat
      BY <1>2, <2>2, <3>1, AtIs
    <3>3. taken \div 2 <= a
      <4>1. taken \div 2 <= At(taken) /\ taken \div 2 \in Nat
        BY <1>2, Halves
      <4>2. QED
        BY <4>1 DEF Before, At
    <3> HIDE DEF a
    <3>4. QED
      BY <1>2, <2>2, <3>2, <3>3
  <2>4. e \in a + 1 .. b
    BY <1>4
  <2>5. QED
    BY <1>2, <2>2, <2>3, <2>4
<1>6. QED
  BY <1>2, <1>3, <1>4, <1>5, OrderedConcat DEF Streamed, Ordered

LEMMA StreamedInit == Init => Streamed
<1> SUFFICES ASSUME Init PROVE Streamed
  OBVIOUS
<1>1. response \in Seq(DOMAIN Says[dialect])
  BY StreamAssumption DEF Init
<1>2. Numbered
  BY <1>1, LenProperties DEF Numbered, Events
<1>3. Ordered(got)
  BY DEF Init, Ordered
<1>4. Exhausted
  BY <1>2 DEF Init, Exhausted, Numbered, Size
<1>5. QED
  BY <1>2, <1>3, <1>4, FollowedInit DEF Streamed

LEMMA StreamedStep == Streamed /\ [Next]_vars => Streamed'
<1> SUFFICES ASSUME Streamed, [Next]_vars PROVE Streamed'
  OBVIOUS
<1>1. Followed'
  BY FollowedStep DEF Streamed
<1>2. UNCHANGED response
  BY DEF Next, vars, wire, handling, Send, Finish, Break, Start, Chunk, End, Cancel, Drop, Leave, Close
<1>3. Size' = Size /\ Numbered'
  BY <1>2 DEF Size, Streamed, Numbered, Events
<1>4. Ordered(got)'
  <2>1. CASE Chunk
    BY <2>1, OrderedChunk
  <2>2. CASE ~Chunk
    <3>1. UNCHANGED got
      BY <2>2 DEF Next, vars, wire, handling, Send, Finish, Break, Start, End, Cancel, Drop, Leave, Close
    <3>2. QED
      BY <3>1 DEF Streamed, Ordered
  <2>3. QED
    BY <2>1, <2>2
<1>5. Exhausted'
  <2>1. sent \in Nat /\ Size \in Nat
    BY DEF Streamed, Followed, Positioned, Numbered, Size
  <2> USE <1>3, <2>1 DEF Streamed, Exhausted
  <2>2. CASE Send
    BY <2>2 DEF Send, handling
  <2>3. CASE Finish
    BY <2>3 DEF Finish, handling
  <2>4. CASE Break \/ Leave
    BY <2>4 DEF Break, Leave, wire, handling
  <2>5. CASE Start \/ Chunk \/ Drop
    BY <2>5 DEF Start, Chunk, Drop, wire
  <2>6. CASE End \/ Cancel
    <3>1. UNCHANGED <<backend, sent, taken, client>>
      BY <2>6 DEF End, Cancel, Close, wire
    <3>2. client = "there" => backend = "broken" \/ (backend = "finished" /\ taken = sent)
      BY <2>6 DEF End, Cancel
    <3>3. QED
      BY <3>1, <3>2
  <2>7. CASE UNCHANGED vars
    BY <2>7 DEF vars, wire, handling
  <2>8. QED
    BY <2>2, <2>3, <2>4, <2>5, <2>6, <2>7 DEF Next
<1>6. QED
  BY <1>1, <1>3, <1>4, <1>5 DEF Streamed

\* The first of a non-empty set of positions.
LEMMA MinIs ==
  ASSUME NEW I \in SUBSET Nat, I # {}
  PROVE  Min(I) \in I /\ \A i \in I : Min(I) <= i
<1>1. \E n \in I : \A m \in I : n <= m
  BY Least
<1>2. QED
  BY <1>1 DEF Min

\* The SDK hears what has no end mark before it.
LEMMA HeardIs ==
  ASSUME Streamed
  PROVE  /\ Heard \in Seq(Nat) /\ Ordered(Heard)
         /\ Range(Heard) = {e \in Received : \A d \in Received : d < e => ~Tells(d, "done")}
<1>1. got \in Seq(Nat) /\ Ordered(got) /\ DOMAIN got = 1 .. Len(got) /\ Len(got) \in Nat
  BY LenProperties DEF Streamed, Followed, Positioned
<1>2. \A n \in DOMAIN got : got[n] \in Nat
  BY <1>1, ElementOfSeq
<1>3. Received = Range(got)
  BY DEF Received, Range
<1>4. CASE EndMarks = {}
  <2>1. \A d \in Received : ~Tells(d, "done")
    BY <1>4 DEF EndMarks, Received
  <2>2. QED
    BY <1>1, <1>3, <1>4, <2>1 DEF Heard
<1>5. CASE EndMarks # {}
  <2> DEFINE k == Min(EndMarks)
             h == SubSeq(got, 1, k)
  <2>1. k \in EndMarks /\ \A n \in EndMarks : k <= n
    <3>1. EndMarks \in SUBSET Nat
      BY <1>1 DEF EndMarks
    <3>2. QED
      BY <1>5, <3>1, MinIs
  <2>2. k \in 1 .. Len(got) /\ Tells(got[k], "done")
    BY <1>1, <2>1 DEF EndMarks
  <2>3. \A n \in 1 .. Len(got) : n < k => ~Tells(got[n], "done")
    <3>1. \A n \in 1 .. Len(got) : n < k => n \notin EndMarks
      BY <1>1, <2>1, <2>2
    <3>2. QED
      BY <1>1, <3>1 DEF EndMarks
  <2>4. h = Heard
    BY <1>5 DEF Heard
  <2> HIDE DEF k
  <2>5. h \in Seq(Nat) /\ Len(h) = k /\ \A n \in 1 .. k : h[n] = got[n]
    BY <1>1, <2>2, SubSeqProperties
  <2>6. DOMAIN h = 1 .. k
    BY <2>5, LenProperties
  <2> HIDE DEF h
  <2>7. Ordered(h)
    BY <1>1, <2>2, <2>5, <2>6 DEF Ordered
  <2>8. ASSUME NEW n \in 1 .. k, NEW d \in Received, d < got[n] PROVE ~Tells(d, "done")
    <3>1. PICK m \in DOMAIN got : d = got[m]
      BY DEF Received
    <3>2. m < k
      <4>1. SUFFICES ASSUME m >= k PROVE FALSE
        BY <1>1, <2>2, <3>1
      <4>2. n \in DOMAIN got /\ (n < m \/ n = m)
        BY <1>1, <2>2, <4>1
      <4>3. got[n] <= got[m]
        BY <1>1, <1>2, <4>2 DEF Ordered
      <4>4. QED
        BY <1>2, <2>8, <3>1, <4>2, <4>3
    <3>3. QED
      BY <1>1, <2>3, <3>1, <3>2
  <2>9. ASSUME NEW n \in DOMAIN got, n \notin 1 .. k
        PROVE  \E d \in Received : d < got[n] /\ Tells(d, "done")
    <3>1. k \in DOMAIN got /\ k < n
      BY <1>1, <2>2, <2>9
    <3>2. got[k] < got[n]
      BY <1>1, <3>1 DEF Ordered
    <3>3. QED
      BY <2>2, <3>1, <3>2 DEF Received
  <2>10. Range(h) = {got[n] : n \in 1 .. k}
    BY <2>5, <2>6 DEF Range
  <2>11. \A n \in 1 .. k : n \in DOMAIN got
    BY <1>1, <2>2
  <2>12. Range(h) = {e \in Received : \A d \in Received : d < e => ~Tells(d, "done")}
    BY <2>8, <2>9, <2>10, <2>11 DEF Received
  <2>13. QED
    BY <2>4, <2>5, <2>7, <2>12
<1>6. QED
  BY <1>4, <1>5

\* The client has every event of the response, but for those it missed.
LEMMA AllReceived ==
  ASSUME Streamed, taken = Size
  PROVE  Received = {e \in Events : ~Missed(e)}
<1>1. \A e \in Events : e \in Nat /\ 1 <= e /\ 2 * e <= taken
  BY DEF Streamed, Numbered, Size
<1>2. \A e \in Events : e \in Received <=> ~Missed(e)
  BY <1>1 DEF Streamed, Followed, Accounted
<1>3. \A e \in Received : e \in Events
  <2>1. \A n \in DOMAIN got : got[n] \in Nat
    BY ElementOfSeq, LenProperties DEF Streamed, Followed, Positioned
  <2>2. \A e \in Received : e \in Nat /\ 1 <= e /\ 2 * e <= 2 * Len(response)
    BY <2>1 DEF Received, Streamed, Followed, Positioned, Size
  <2>3. QED
    BY <2>2 DEF Streamed, Numbered
<1>4. QED
  BY <1>2, <1>3

LEMMA StreamedYields == Streamed => SdkYieldsText
<1> SUFFICES ASSUME Streamed PROVE SdkYieldsText
  OBVIOUS
<1> DEFINE S == {e \in Events : Tells(e, "text")}
<1>1. Heard \in Seq(Nat) /\ Ordered(Heard) /\ Yielded = Only(Heard, S)
  BY HeardIs DEF Yielded
<1> HIDE DEF S
<1>2. Ordered(Yielded)
  BY <1>1, OnlyOrdered
<1>3. Range(Yielded) = Range(Heard) \cap S
  BY <1>1, OnlyRange
<1>4. ASSUME generator = "over", backend = "finished", client = "there"
      PROVE  Range(Yielded) =
                 {e \in Events :
                     /\ Tells(e, "text") /\ ~Missed(e)
                     /\ \A d \in Events : d < e /\ Tells(d, "done") => Missed(d)}
  <2>1. taken = Size
    BY <1>4 DEF Streamed, Exhausted
  <2>2. Received = {e \in Events : ~Missed(e)}
    BY <2>1, AllReceived
  <2>3. Range(Heard) = {e \in Received : \A d \in Received : d < e => ~Tells(d, "done")}
    BY HeardIs
  <2>4. QED
    BY <1>3, <2>2, <2>3 DEF S
<1>5. QED
  BY <1>2, <1>4 DEF SdkYieldsText, Ordered
-----------------------------------------------------------------------------
(***************************************************************************)
(* The handlers.  The operators that Translation takes from Subsequences   *)
(* and SequencesExt are those of the lemmas.                               *)
(***************************************************************************)
LEMMA OnlySame == ASSUME NEW s, NEW S PROVE Telling!Only(s, S) = Only(s, S)
  BY DEF Telling!Only, Only

LEMMA ToSetSame == ASSUME NEW s PROVE Telling!ToSet(s) = Range(s)
  BY DEF Telling!ToSet, Range

LEMMA PositionsSame == ASSUME NEW s PROVE Telling!Positions(s) = Positions(s)
  BY DEF Telling!Positions, Positions

LEMMA TextsOfIs ==
  ASSUME NEW ms
  PROVE  Telling!TextsOf(ms) = FlattenSeq([n \in DOMAIN ms |-> ms[n].texts])
<1>1. ASSUME NEW s PROVE Telling!FlattenSeq(s) = FlattenSeq(s)
  BY DEF Telling!FlattenSeq, FlattenSeq
<1>2. QED
  BY <1>1 DEF Telling!TextsOf

(***************************************************************************)
(* A list of turns is seen as the images of the positions of the messages  *)
(* that they are made from, in their order; this one has one text, unless  *)
(* the instructions of the system were put in front of it.                 *)
(***************************************************************************)
LEMMA TextsOfImages ==
  ASSUME NEW D, NEW g, NEW q \in Seq(D), \A n \in D : g[n].texts = <<n>>
  PROVE  Telling!TextsOf(Images(g, q)) = q
<1> DEFINE i == Images(g, q)
<1>1. Len(i) = Len(q) /\ DOMAIN i = DOMAIN q /\ DOMAIN q = 1 .. Len(q)
  BY ImagesAre, LenProperties
<1>2. \A n \in DOMAIN q : q[n] \in D /\ i[n] = g[q[n]]
  BY <1>1, ElementOfSeq DEF Images
<1> HIDE DEF i
<1>3. [n \in DOMAIN i |-> i[n].texts] = [n \in DOMAIN q |-> <<q[n]>>]
  BY <1>1, <1>2
<1>4. \A n \in DOMAIN q : <<q[n]>> = Single(D)[q[n]]
  BY <1>2 DEF Single
<1>5. [n \in DOMAIN q |-> <<q[n]>>] = Images(Single(D), q)
  BY <1>1, <1>4 DEF Images
<1>6. QED
  BY <1>3, <1>5, TextsOfIs, FlattenSingles DEF i

\* AsModel, of the turns alone.
FromModel(turns) ==
    Range(Telling!TextsOf(Only(turns, {t \in Range(turns) : t.role \in {"assistant", "model"}})))

LEMMA AsModelSame == ASSUME NEW r PROVE Telling!AsModel(r) = FromModel(r.turns)
  BY OnlySame, ToSetSame DEF Telling!AsModel, FromModel

\* The positions of those that are the model's.
OfModel(g, D) == {n \in D : g[n].role \in {"assistant", "model"}}

LEMMA FromModelIs ==
  ASSUME NEW D, NEW g, NEW q \in Seq(D), OfModel(g, D) \subseteq Range(q),
         \A n \in OfModel(g, D) : g[n].texts = <<n>>
  PROVE  FromModel(Images(g, q)) = OfModel(g, D)
<1> DEFINE i == Images(g, q)
           M == OfModel(g, D)
           S == {t \in Range(i) : t.role \in {"assistant", "model"}}
           P == {n \in D : g[n] \in S}
           p == Only(q, P)
<1>1. Range(q) \subseteq D
  BY ElementOfSeq, LenProperties DEF Range
<1>2. Range(i) = {g[n] : n \in Range(q)}
  BY ImagesRange
<1>3. FromModel(i) = Range(Telling!TextsOf(Only(i, S)))
  BY DEF FromModel
<1>4. Only(i, S) = Images(g, p)
  <2>1. \A n \in D : g[n] \in S <=> n \in P
    OBVIOUS
  <2> HIDE DEF S, P
  <2>2. QED
    BY <2>1, OnlyImages
<1>5. p \in Seq(D) /\ Range(p) = Range(q) \cap P
  BY OnlyType, OnlyRange
<1>6. M = Range(q) \cap P
  <2> USE DEF OfModel
  <2>1. \A n \in M : n \in Range(q) /\ n \in D /\ g[n] \in S
    BY <1>1, <1>2
  <2>2. \A n \in P : n \in M
    OBVIOUS
  <2>3. QED
    BY <2>1, <2>2
<1> HIDE DEF i, S, P, p, M
<1>7. p \in Seq(M)
  <2>1. DOMAIN p = 1 .. Len(p) /\ Len(p) \in Nat
    BY <1>5, LenProperties
  <2>2. \A n \in 1 .. Len(p) : p[n] \in M
    BY <1>5, <1>6, <2>1 DEF Range
  <2>3. p = [n \in 1 .. Len(p) |-> p[n]]
    BY <1>5, LenProperties
  <2>4. QED
    BY <2>1, <2>2, <2>3
<1>8. Telling!TextsOf(Images(g, p)) = p
  BY <1>7, TextsOfImages DEF M
<1>9. QED
  BY <1>3, <1>4, <1>5, <1>6, <1>8 DEF i, M
-----------------------------------------------------------------------------
\* The messages of the body are those of the client, each with its text.
Spoken ==
    /\ asked \in Seq(Telling!Roles)
    /\ messages = [n \in DOMAIN asked |-> [role |-> asked[n], texts |-> <<n>>]]

Instructions == Only(Positions(asked), Telling!System)
Turns == Only(Positions(asked), Telling!NotSystem)

LEMMA SpokenTypes ==
  ASSUME Spoken
  PROVE  /\ DOMAIN asked = 1 .. Len(asked) /\ Len(asked) \in Nat
         /\ \A n \in DOMAIN asked : asked[n] \in Telling!Roles
         /\ DOMAIN messages = DOMAIN asked
         /\ \A n \in DOMAIN asked : messages[n].role = asked[n] /\ messages[n].texts = <<n>>
         /\ Positions(asked) \in Seq(DOMAIN asked) /\ Range(Positions(asked)) = DOMAIN asked
         /\ messages = Images(messages, Positions(asked))
<1>1. /\ DOMAIN asked = 1 .. Len(asked) /\ Len(asked) \in Nat
      /\ \A n \in DOMAIN asked : asked[n] \in Telling!Roles
  BY LenProperties, ElementOfSeq DEF Spoken
<1>2. /\ DOMAIN messages = DOMAIN asked
      /\ \A n \in DOMAIN asked : messages[n].role = asked[n] /\ messages[n].texts = <<n>>
  BY DEF Spoken
<1> DEFINE p == Positions(asked)
<1>3. /\ p \in Seq(DOMAIN asked) /\ Range(p) = DOMAIN asked /\ Len(p) = Len(asked)
      /\ \A n \in 1 .. Len(asked) : p[n] = n
  BY PositionsAre DEF Spoken
<1> HIDE DEF p
<1>4. messages = [n \in 1 .. Len(p) |-> messages[p[n]]]
  <2>1. messages = [n \in 1 .. Len(p) |-> messages[n]]
    BY <1>1, <1>3 DEF Spoken
  <2>2. QED
    BY <1>3, <2>1
<1>5. QED
  BY <1>1, <1>2, <1>3, <1>4 DEF Images, p

LEMMA PartsAre ==
  ASSUME Spoken
  PROVE  /\ Telling!System \subseteq DOMAIN asked /\ Telling!NotSystem \subseteq DOMAIN asked
         /\ Telling!System \cap Telling!NotSystem = {}
         /\ Telling!Models \subseteq Telling!NotSystem
         /\ Instructions \in Seq(DOMAIN asked) /\ Range(Instructions) = Telling!System
         /\ Turns \in Seq(DOMAIN asked) /\ Range(Turns) = Telling!NotSystem
         /\ Only(Instructions, Telling!System) = Instructions
         /\ Only(Instructions, Telling!NotSystem) = <<>>
         /\ Only(Turns, Telling!System) = <<>>
         /\ Only(Turns, Telling!NotSystem) = Turns
<1>1. /\ Telling!System \subseteq DOMAIN asked /\ Telling!NotSystem \subseteq DOMAIN asked
      /\ Telling!System \cap Telling!NotSystem = {}
      /\ Telling!Models \subseteq Telling!NotSystem
  BY DEF Telling!System, Telling!NotSystem, Telling!Models
<1>2. Instructions \in Seq(DOMAIN asked) /\ Turns \in Seq(DOMAIN asked)
  BY SpokenTypes, OnlyType DEF Instructions, Turns
<1>3. Range(Instructions) = Telling!System /\ Range(Turns) = Telling!NotSystem
  <2>1. \A S : Range(Only(Positions(asked), S)) = Range(Positions(asked)) \cap S
    BY SpokenTypes, OnlyRange
  <2>2. Range(Positions(asked)) = DOMAIN asked
    BY SpokenTypes
  <2>3. QED
    BY <1>1, <2>1, <2>2 DEF Instructions, Turns
<1>4. Only(Instructions, Telling!System) = Instructions /\ Only(Turns, Telling!NotSystem) = Turns
  BY <1>2, <1>3, OnlyAll
<1>5. Only(Instructions, Telling!NotSystem) = <<>> /\ Only(Turns, Telling!System) = <<>>
  BY <1>1, <1>2, <1>3, OnlyNone
<1>6. QED
  BY <1>1, <1>2, <1>3, <1>4, <1>5

\* What the translators find in the body.
LEMMA BodyIs ==
  ASSUME Spoken
  PROVE  /\ Telling!SystemTexts = Instructions
         /\ Telling!Others = Images(messages, Turns)
<1> DEFINE D == DOMAIN asked
           p == Positions(asked)
           S == {m \in Range(messages) : m.role = "system"}
           N == {m \in Range(messages) : m.role # "system"}
<1>1. p \in Seq(D) /\ messages = Images(messages, p)
  BY SpokenTypes
<1>2. \A n \in D : messages[n] \in Range(messages) /\ messages[n].role = asked[n]
  BY SpokenTypes DEF Range
<1>3. \A n \in D : messages[n] \in S <=> n \in Telling!System
  BY <1>2 DEF Telling!System
<1>4. \A n \in D : messages[n] \in N <=> n \in Telling!NotSystem
  BY <1>2 DEF Telling!System, Telling!NotSystem
<1>5. Telling!Others = Only(messages, N)
  BY OnlySame, ToSetSame DEF Telling!Others
<1>6. Telling!SystemTexts = Telling!TextsOf(Only(messages, S))
  BY OnlySame, ToSetSame DEF Telling!SystemTexts
<1> HIDE DEF S, N, p, D
<1>7. Only(Images(messages, p), S) = Images(messages, Only(p, Telling!System))
  BY <1>1, <1>3, OnlyImages
<1>8. Only(Images(messages, p), N) = Images(messages, Only(p, Telling!NotSystem))
  BY <1>1, <1>4, OnlyImages
<1>9. Telling!TextsOf(Images(messages, Instructions)) = Instructions
  BY PartsAre, SpokenTypes, TextsOfImages
<1>10. QED
  BY <1>1, <1>5, <1>6, <1>7, <1>8, <1>9 DEF Instructions, Turns, p

(***************************************************************************)
(* SameConversation, of a request to one backend.                          *)
(***************************************************************************)
Faithful(to, r) ==
    /\ Range(Telling!Told(r)) \subseteq DOMAIN asked
    /\ Only(Telling!Told(r), Telling!NotSystem) = Turns
    /\ Only(Telling!Told(r), Telling!System) =
           IF to = "google" /\ ~Telling!HasUser THEN <<>> ELSE Instructions
    /\ Telling!AsModel(r) = Telling!Models

\* The body as it is.
LEMMA OpenAIFaithful ==
  ASSUME Spoken
  PROVE  Faithful("openai", Telling!Request("openai"))
<1> DEFINE r == [system |-> <<>>, turns |-> messages]
           p == Positions(asked)
<1>1. Telling!Request("openai") = r
  BY DEF Telling!Request
<1>2. p \in Seq(DOMAIN asked) /\ Range(p) = DOMAIN asked /\ messages = Images(messages, p)
  BY SpokenTypes
<1>3. Telling!TextsOf(Images(messages, p)) = p
  BY <1>2, SpokenTypes, TextsOfImages
<1>4. Telling!Told(r) = p
  BY <1>2, <1>3, ConcatEmptySeq DEF Telling!Told
<1>5. OfModel(messages, DOMAIN asked) = Telling!Models
  BY SpokenTypes DEF OfModel, Telling!Models, Telling!Roles
<1>6. r.turns = Images(messages, p)
  BY <1>2
<1> HIDE DEF r, p
<1>7. Telling!AsModel(r) = Telling!Models
  <2>1. Telling!Models \subseteq Range(p) /\ \A n \in Telling!Models : messages[n].texts = <<n>>
    BY <1>2, SpokenTypes DEF Telling!Models
  <2>2. FromModel(Images(messages, p)) = Telling!Models
    BY <1>2, <1>5, <2>1, FromModelIs
  <2>3. QED
    BY <1>6, <2>2, AsModelSame
<1>8. QED
  BY <1>1, <1>2, <1>4, <1>7 DEF Faithful, Instructions, Turns, p

\* The system apart from the others.
LEMMA AnthropicFaithful ==
  ASSUME Spoken
  PROVE  Faithful("anthropic", Telling!Request("anthropic"))
<1> DEFINE r == [system |-> Instructions, turns |-> Images(messages, Turns)]
           D == DOMAIN asked
<1>1. Telling!Request("anthropic") = r
  BY BodyIs DEF Telling!Request, Telling!ToAnthropic
<1>2. Instructions \in Seq(D) /\ Turns \in Seq(D)
  BY PartsAre
<1>3. Telling!TextsOf(Images(messages, Turns)) = Turns
  BY <1>2, SpokenTypes, TextsOfImages
<1>4. Telling!Told(r) = Instructions \o Turns
  BY <1>3 DEF Telling!Told
<1>5. OfModel(messages, D) = Telling!Models
  BY SpokenTypes DEF OfModel, Telling!Models, Telling!Roles
<1>6. r.turns = Images(messages, Turns)
  OBVIOUS
<1> HIDE DEF r, D
<1>7. Telling!AsModel(r) = Telling!Models
  <2>1. Telling!Models \subseteq Range(Turns)
    BY PartsAre
  <2>2. \A n \in Telling!Models : messages[n].texts = <<n>>
    BY SpokenTypes DEF Telling!Models
  <2>3. FromModel(Images(messages, Turns)) = Telling!Models
    BY <1>2, <1>5, <2>1, <2>2, FromModelIs
  <2>4. QED
    BY <1>6, <2>3, AsModelSame
<1>8. \A S : Only(Instructions \o Turns, S) = Only(Instructions, S) \o Only(Turns, S)
  BY <1>2, OnlyConcat
<1>9. Only(Instructions \o Turns, Telling!NotSystem) = Turns
  BY <1>2, <1>8, PartsAre, ConcatEmptySeq
<1>10. Only(Instructions \o Turns, Telling!System) = Instructions
  BY <1>2, <1>8, PartsAre, ConcatEmptySeq
<1>11. Range(Instructions \o Turns) \subseteq D
  <2>1. Range(Instructions \o Turns) = Range(Instructions) \cup Range(Turns)
    BY <1>2, RangeConcatenation, Zenon
  <2>2. QED
    BY <2>1, PartsAre DEF D
<1>12. QED
  BY <1>1, <1>4, <1>7, <1>9, <1>10, <1>11 DEF Faithful, D

\* A turn that Gemini is told, made from the message at a position.
Said ==
    [n \in DOMAIN asked |->
        [role |-> IF asked[n] = "assistant" THEN "model" ELSE "user", texts |-> <<n>>]]

LEMMA SaidTurns ==
  ASSUME Spoken
  PROVE  /\ Telling!GeminiTurns = Images(Said, Turns)
         /\ DOMAIN Telling!GeminiTurns = 1 .. Len(Turns) /\ Len(Telling!GeminiTurns) = Len(Turns)
         /\ Len(Turns) \in Nat /\ DOMAIN Turns = 1 .. Len(Turns)
         /\ \A n \in 1 .. Len(Turns) :
                Turns[n] \in DOMAIN asked /\ Telling!GeminiTurns[n] = Said[Turns[n]]
<1> DEFINE o == Images(messages, Turns)
<1>1. Turns \in Seq(DOMAIN asked)
  BY PartsAre
<1>2. Len(Turns) \in Nat /\ DOMAIN Turns = 1 .. Len(Turns)
      /\ \A n \in 1 .. Len(Turns) : Turns[n] \in DOMAIN asked
  BY <1>1, LenProperties, ElementOfSeq
<1>3. DOMAIN o = 1 .. Len(Turns) /\ \A n \in 1 .. Len(Turns) : o[n] = messages[Turns[n]]
  BY DEF Images
<1>4. \A n \in 1 .. Len(Turns) : o[n].role = asked[Turns[n]] /\ o[n].texts = <<Turns[n]>>
  BY <1>2, <1>3, SpokenTypes
<1> HIDE DEF o
<1>5. Telling!GeminiTurns =
          [n \in 1 .. Len(Turns) |->
              [role |-> IF o[n].role = "assistant" THEN "model" ELSE "user", texts |-> o[n].texts]]
  BY <1>3, BodyIs DEF Telling!GeminiTurns, o
<1>6. \A n \in 1 .. Len(Turns) :
          Said[Turns[n]] = [role |-> IF o[n].role = "assistant" THEN "model" ELSE "user",
                            texts |-> o[n].texts]
  BY <1>2, <1>4 DEF Said
<1>7. Telling!GeminiTurns = [n \in 1 .. Len(Turns) |-> Said[Turns[n]]]
  BY <1>5, <1>6
<1>8. DOMAIN Telling!GeminiTurns = 1 .. Len(Turns)
  BY <1>7
<1>9. Len(Telling!GeminiTurns) = Len(Turns)
  BY <1>1, <1>7, ImagesAre DEF Images
<1>10. QED
  BY <1>2, <1>7, <1>8, <1>9 DEF Images

\* The turns of a user.
UserTurns == {n \in 1 .. Len(Telling!GeminiTurns) : Telling!GeminiTurns[n].role = "user"}

LEMMA UserTurnsAre ==
  ASSUME Spoken
  PROVE  /\ UserTurns = {n \in 1 .. Len(Turns) : asked[Turns[n]] # "assistant"}
         /\ UserTurns = {} <=> ~Telling!HasUser
<1>1. UserTurns = {n \in 1 .. Len(Turns) : asked[Turns[n]] # "assistant"}
  <2>1. \A n \in 1 .. Len(Turns) :
            Telling!GeminiTurns[n].role = IF asked[Turns[n]] = "assistant" THEN "model" ELSE "user"
    <3>1. \A e \in DOMAIN asked : Said[e].role = IF asked[e] = "assistant" THEN "model" ELSE "user"
      BY DEF Said
    <3>2. QED
      BY <3>1, SaidTurns
  <2>2. QED
    BY <2>1, SaidTurns DEF UserTurns
<1>2. \A e \in DOMAIN asked : e \in Telling!NotSystem <=> \E n \in 1 .. Len(Turns) : Turns[n] = e
  BY PartsAre, SaidTurns DEF Range
<1>3. \A e \in DOMAIN asked : asked[e] \in Telling!Roles
  BY SpokenTypes
<1>4. \A e \in DOMAIN asked :
          asked[e] \in {"user", "tool"} <=> e \in Telling!NotSystem /\ asked[e] # "assistant"
  BY <1>3 DEF Telling!NotSystem, Telling!System, Telling!Roles
<1>5. UserTurns = {} <=> ~Telling!HasUser
  BY <1>1, <1>2, <1>4, SaidTurns DEF Telling!HasUser
<1>6. QED
  BY <1>1, <1>5

LEMMA ToGeminiIs ==
  LET turns == Telling!GeminiTurns
      texts == Telling!SystemTexts
      first == Min(UserTurns)
  IN  /\ UserTurns = {} => Telling!ToGemini = [system |-> <<>>, turns |-> turns]
      /\ UserTurns # {} =>
             /\ Telling!ToGemini.system = <<>>
             /\ Telling!ToGemini.turns = [turns EXCEPT ![first].texts = texts \o @]
<1> DEFINE turns == Telling!GeminiTurns
           k == IF UserTurns = {} THEN 0 ELSE Min(UserTurns)
<1>1. Telling!SelectInSeq(turns, LAMBDA t : t.role = "user") = k
  BY DEF Telling!SelectInSeq, Telling!Min, Min, UserTurns
<1>2. Telling!ToGemini =
          [system |-> <<>>,
           turns |-> IF k = 0 THEN turns ELSE [turns EXCEPT ![k].texts = Telling!SystemTexts \o @]]
  BY <1>1 DEF Telling!ToGemini
<1>3. UserTurns # {} => k # 0 /\ k = Min(UserTurns)
  BY MinIs DEF UserTurns
<1> HIDE DEF k
<1>4. QED
  BY <1>2, <1>3 DEF k

\* Nobody but the model has spoken: the instructions are left out.
LEMMA GeminiAlone ==
  ASSUME Spoken, ~Telling!HasUser
  PROVE  Faithful("google", Telling!Request("google"))
<1> DEFINE r == [system |-> <<>>, turns |-> Images(Said, Turns)]
           D == DOMAIN asked
<1>1. Telling!Request("google") = r
  <2>1. UserTurns = {}
    BY UserTurnsAre
  <2>2. Telling!Request("google") = Telling!ToGemini
    BY DEF Telling!Request
  <2>3. QED
    BY <2>1, <2>2, ToGeminiIs, SaidTurns
<1>2. Turns \in Seq(D)
  BY PartsAre
<1>3. \A n \in D : Said[n].texts = <<n>>
  BY DEF Said
<1>4. Telling!TextsOf(Images(Said, Turns)) = Turns
  BY <1>2, <1>3, TextsOfImages
<1>5. Telling!Told(r) = Turns
  BY <1>2, <1>4, ConcatEmptySeq DEF Telling!Told
<1>6. OfModel(Said, D) = Telling!Models
  BY DEF OfModel, Said, Telling!Models
<1>7. Telling!AsModel(r) = Telling!Models
  <2>1. Telling!Models \subseteq Range(Turns) /\ \A n \in Telling!Models : Said[n].texts = <<n>>
    BY <1>3, PartsAre DEF Telling!Models
  <2>2. r.turns = Images(Said, Turns)
    OBVIOUS
  <2> HIDE DEF r, D
  <2>3. FromModel(Images(Said, Turns)) = Telling!Models
    BY <1>2, <1>6, <2>1, FromModelIs
  <2>4. QED
    BY <2>2, <2>3, AsModelSame
<1> HIDE DEF r
<1>8. QED
  BY <1>1, <1>5, <1>7, PartsAre DEF Faithful

LEMMA OnlyOne ==
  ASSUME NEW X, NEW x \in X, NEW S
  PROVE  Only(<<x>>, S) = IF x \in S THEN <<x>> ELSE <<>>
<1>1. <<>> \in Seq(X) /\ <<x>> = Append(<<>>, x)
  OBVIOUS
<1>2. Only(Append(<<>>, x), S) = IF x \in S THEN Append(Only(<<>>, S), x) ELSE Only(<<>>, S)
  BY <1>1, OnlyAppend
<1>3. QED
  BY <1>1, <1>2, OnlyEmpty

\* No message has two turns.
LEMMA TurnsApart ==
  ASSUME Spoken, NEW m \in 1 .. Len(Turns), NEW n \in 1 .. Len(Turns), Turns[m] = Turns[n]
  PROVE  m = n
<1>1. Positions(asked) \in Seq(Nat) /\ Ordered(Positions(asked))
  BY PositionsAre DEF Spoken
<1>2. Ordered(Turns) /\ Turns \in Seq(Nat)
  BY <1>1, OnlyOrdered, OnlyType DEF Turns
<1>3. DOMAIN Turns = 1 .. Len(Turns) /\ Len(Turns) \in Nat
      /\ Turns[m] \in Nat /\ Turns[n] \in Nat
  BY <1>2, LenProperties, ElementOfSeq
<1>4. ~(m < n) /\ ~(n < m)
  BY <1>2, <1>3 DEF Ordered
<1>5. QED
  BY <1>3, <1>4

(***************************************************************************)
(* The texts of the turns, with the instructions in front of those of the  *)
(* k-th: filtered one by one, they are the parts of the conversation.      *)
(***************************************************************************)
Prefaced(k) ==
    [n \in 1 .. Len(Turns) |->
        IF n = k THEN Instructions \o <<Turns[n]>> ELSE <<Turns[n]>>]

LEMMA PrefacedIs ==
  ASSUME Spoken, NEW k \in 1 .. Len(Turns)
  PROVE  /\ Range(FlattenSeq(Prefaced(k))) \subseteq DOMAIN asked
         /\ FlattenSeq(Prefaced(k)) \in Seq(DOMAIN asked)
         /\ Only(FlattenSeq(Prefaced(k)), Telling!NotSystem) = Turns
         /\ Only(FlattenSeq(Prefaced(k)), Telling!System) = Instructions
<1> DEFINE D == DOMAIN asked
           m == Len(Turns)
           tt == Prefaced(k)
<1>1. m \in Nat /\ DOMAIN Turns = 1 .. m /\ Turns \in Seq(D) /\ Instructions \in Seq(D)
  BY PartsAre, LenProperties
<1>2. \A n \in 1 .. m : Turns[n] \in D /\ Turns[n] \in Telling!NotSystem /\ Turns[n] \notin Telling!System
  <2>1. \A n \in 1 .. m : Turns[n] \in Telling!NotSystem
    BY <1>1, PartsAre DEF Range
  <2>2. QED
    BY <2>1, PartsAre
<1>3. \A n \in 1 .. m : <<Turns[n]>> \in Seq(D)
  BY <1>2
<1> HIDE DEF D, m
<1>4. Instructions \o <<Turns[k]>> \in Seq(D)
  BY <1>1, <1>3, ConcatProperties DEF m
<1>5. \A n \in 1 .. m : tt[n] = IF n = k THEN Instructions \o <<Turns[k]>> ELSE <<Turns[n]>>
  BY DEF Prefaced, m
<1>6. \A n \in 1 .. m : tt[n] \in Seq(D)
  BY <1>3, <1>4, <1>5
<1>7. tt \in Seq(Seq(D)) /\ DOMAIN tt = 1 .. m /\ Len(tt) = m
  <2>1. tt = [n \in 1 .. m |-> tt[n]]
    BY DEF Prefaced, m
  <2> HIDE DEF tt
  <2>2. tt \in [1 .. m -> Seq(D)]
    BY <1>6, <2>1
  <2>3. QED
    BY <1>1, <2>2, SeqDef, LenProperties
<1> HIDE DEF tt
<1>8. FlattenSeq(tt) \in Seq(D)
  BY <1>7, FlattenType
<1>9. \A S : Only(FlattenSeq(tt), S) = FlattenSeq(Images(Filtered(D, S), tt))
  BY <1>7, OnlyFlatten
<1>10. \A S : Images(Filtered(D, S), tt) = [n \in 1 .. m |-> Only(tt[n], S)]
  BY <1>6, <1>7 DEF Images, Filtered
<1>11. \A S : Only(tt[k], S) = Only(Instructions, S) \o Only(<<Turns[k]>>, S)
  <2> DEFINE t == <<Turns[k]>>
  <2>1. t \in Seq(D) /\ tt[k] = Instructions \o t
    BY <1>3, <1>5 DEF m
  <2> HIDE DEF t
  <2>2. \A S : Only(Instructions \o t, S) = Only(Instructions, S) \o Only(t, S)
    BY <1>1, <2>1, OnlyConcat
  <2>3. QED
    BY <2>1, <2>2 DEF t
<1>12. \A n \in 1 .. m : /\ Only(<<Turns[n]>>, Telling!NotSystem) = <<Turns[n]>>
                         /\ Only(<<Turns[n]>>, Telling!System) = <<>>
  BY <1>2, OnlyOne
<1>13. k \in 1 .. m
  BY DEF m
<1>14. Only(FlattenSeq(tt), Telling!NotSystem) = Turns
  <2>1. Only(tt[k], Telling!NotSystem) = <<Turns[k]>>
    BY <1>3, <1>11, <1>12, <1>13, PartsAre, ConcatEmptySeq
  <2>2. \A n \in 1 .. m : Only(tt[n], Telling!NotSystem) = Single(D)[Turns[n]]
    BY <1>2, <1>5, <1>12, <2>1 DEF Single
  <2>3. Images(Filtered(D, Telling!NotSystem), tt) = Images(Single(D), Turns)
    BY <1>10, <2>2 DEF Images, m
  <2>4. QED
    BY <1>1, <1>9, <2>3, FlattenSingles
<1>15. Only(FlattenSeq(tt), Telling!System) = Instructions
  <2> DEFINE ss == Images(Filtered(D, Telling!System), tt)
  <2>1. ss[k] = Instructions
    <3>1. Only(tt[k], Telling!System) = Instructions
      BY <1>1, <1>11, <1>12, <1>13, PartsAre, ConcatEmptySeq
    <3>2. QED
      BY <1>10, <1>13, <3>1
  <2>2. \A n \in 1 .. m : n # k => ss[n] = <<>>
    <3>1. \A n \in 1 .. m : ss[n] = Only(tt[n], Telling!System)
      BY <1>10
    <3>2. \A n \in 1 .. m : n # k => tt[n] = <<Turns[n]>>
      BY <1>5
    <3> HIDE DEF ss
    <3>3. QED
      BY <1>12, <3>1, <3>2
  <2>3. DOMAIN ss = 1 .. m
    BY <1>10
  <2>4. ss \in Seq(Seq(D))
    <3>1. \A n \in 1 .. m : ss[n] \in Seq(D)
      BY <1>1, <2>1, <2>2, EmptySeq
    <3>2. ss = [n \in 1 .. m |-> ss[n]]
      BY <1>10
    <3> HIDE DEF ss
    <3>3. ss \in [1 .. m -> Seq(D)]
      BY <3>1, <3>2
    <3>4. QED
      BY <1>1, <3>3, SeqDef
  <2> HIDE DEF ss
  <2>5. FlattenSeq(ss) = ss[k]
    BY <1>13, <2>2, <2>3, <2>4, FlattenOne
  <2>6. QED
    BY <1>9, <2>1, <2>5 DEF ss
<1>16. Range(FlattenSeq(tt)) \subseteq D
  BY <1>8, ElementOfSeq, LenProperties DEF Range
<1>17. QED
  BY <1>8, <1>14, <1>15, <1>16 DEF tt, D

\* The first turn of a user takes the instructions.
LEMMA GeminiPrefaced ==
  ASSUME Spoken, Telling!HasUser
  PROVE  \E k \in UserTurns :
            LET w == Turns[k]
                g == [n \in DOMAIN asked |->
                         IF n = w THEN [role |-> "user", texts |-> Instructions \o <<w>>] ELSE Said[n]]
            IN  /\ k \in 1 .. Len(Turns)
                /\ Telling!Request("google").system = <<>>
                /\ Telling!Request("google").turns = Images(g, Turns)
<1> DEFINE k == Min(UserTurns)
           w == Turns[k]
           g == [n \in DOMAIN asked |->
                    IF n = w THEN [role |-> "user", texts |-> Instructions \o <<w>>] ELSE Said[n]]
           G == Telling!GeminiTurns
           H == Telling!ToGemini.turns
<1>1. UserTurns # {} /\ UserTurns \subseteq 1 .. Len(Turns)
  BY UserTurnsAre
<1>2. k \in UserTurns
  <2>1. UserTurns \in SUBSET Nat
    BY <1>1
  <2>2. QED
    BY <1>1, <2>1, MinIs
<1>3. Telling!ToGemini.system = <<>> /\ H = [G EXCEPT ![k].texts = Instructions \o @]
  BY <1>1, ToGeminiIs, BodyIs
<1> HIDE DEF k
<1>4. /\ DOMAIN G = 1 .. Len(Turns)
      /\ \A n \in 1 .. Len(Turns) : Turns[n] \in DOMAIN asked /\ G[n] = Said[Turns[n]]
      /\ G = [n \in 1 .. Len(Turns) |-> G[n]]
  BY SaidTurns DEF Images
<1>5. \A n \in DOMAIN asked : Said[n] \in [role : {"model", "user"}, texts : {<<i>> : i \in DOMAIN asked}]
  BY DEF Said
<1>6. G \in [DOMAIN G -> [role : {"model", "user"}, texts : {<<i>> : i \in DOMAIN asked}]]
  BY <1>4, <1>5
<1>7. k \in DOMAIN G /\ G[k].role = "user" /\ G[k].texts = <<w>>
  <2>1. k \in 1 .. Len(Turns) /\ G[k].role = "user"
    BY <1>1, <1>2, SaidTurns DEF UserTurns
  <2>2. Said[w].texts = <<w>>
    BY <1>4, <2>1 DEF Said
  <2>3. QED
    BY <1>4, <2>1, <2>2
<1> HIDE DEF G, H
<1>8. H = [n \in DOMAIN G |->
              IF n = k THEN [role |-> "user", texts |-> Instructions \o <<w>>] ELSE G[n]]
  <2> DEFINE T == {<<i>> : i \in DOMAIN asked}
             R == {"model", "user"}
             N == DOMAIN G
             s == Instructions
  <2>1. G \in [N -> [role : R, texts : T]] /\ k \in N /\ H = [G EXCEPT ![k].texts = s \o @]
    BY <1>3, <1>6, <1>7
  <2> HIDE DEF T, R, N, s
  <2>2. G[k] \in [role : R, texts : T]
    BY <2>1
  <2>3. DOMAIN H = N /\ H[k] = [role |-> G[k].role, texts |-> s \o G[k].texts]
        /\ \A n \in N \ {k} : H[n] = G[n]
    BY <2>1, <2>2
  <2>4. H = [n \in N |-> H[n]]
    BY <2>1
  <2>5. QED
    BY <1>7, <2>3, <2>4 DEF N, s
<1>9. \A n \in 1 .. Len(Turns) :
          g[Turns[n]] = IF n = k THEN [role |-> "user", texts |-> Instructions \o <<w>>] ELSE G[n]
  BY <1>4, <1>7, TurnsApart
<1>10. H = [n \in 1 .. Len(Turns) |-> g[Turns[n]]]
  BY <1>4, <1>8, <1>9
<1>11. Telling!Request("google") = Telling!ToGemini
  BY DEF Telling!Request
<1>12. H = Images(g, Turns)
  BY <1>10 DEF Images
<1>13. WITNESS k \in UserTurns
<1>14. QED
  BY <1>1, <1>2, <1>3, <1>11, <1>12 DEF H

LEMMA GeminiToUser ==
  ASSUME Spoken, Telling!HasUser
  PROVE  Faithful("google", Telling!Request("google"))
<1> DEFINE r == Telling!Request("google")
           D == DOMAIN asked
<1>1. PICK k \in UserTurns :
          LET w == Turns[k]
              g == [n \in DOMAIN asked |->
                       IF n = w THEN [role |-> "user", texts |-> Instructions \o <<w>>] ELSE Said[n]]
          IN  /\ k \in 1 .. Len(Turns)
              /\ r.system = <<>>
              /\ r.turns = Images(g, Turns)
  BY GeminiPrefaced
<1> DEFINE w == Turns[k]
           g == [n \in D |->
                    IF n = w THEN [role |-> "user", texts |-> Instructions \o <<w>>] ELSE Said[n]]
<1>2. k \in 1 .. Len(Turns) /\ r.system = <<>> /\ r.turns = Images(g, Turns)
  BY <1>1
<1> HIDE DEF r
<1>3. Turns \in Seq(D) /\ Len(Turns) \in Nat /\ DOMAIN Turns = 1 .. Len(Turns)
  BY PartsAre, SaidTurns
<1>4. \A n \in 1 .. Len(Turns) : Turns[n] \in D
  BY SaidTurns
<1>5. \A n \in D : Said[n].texts = <<n>>
  BY DEF Said
<1>6. w \in D /\ w \notin Telling!Models
  BY <1>2, <1>4, UserTurnsAre DEF Telling!Models
<1>7. Telling!AsModel(r) = Telling!Models
  <2>1. OfModel(g, D) = Telling!Models
    BY <1>6 DEF OfModel, Said, Telling!Models
  <2>2. \A n \in Telling!Models : g[n].texts = <<n>>
    BY <1>5, <1>6 DEF Telling!Models
  <2>3. Telling!Models \subseteq Range(Turns)
    BY PartsAre
  <2> HIDE DEF g, D
  <2>4. FromModel(Images(g, Turns)) = Telling!Models
    BY <1>3, <2>1, <2>2, <2>3, FromModelIs
  <2>5. QED
    BY <1>2, <2>4, AsModelSame
<1>8. Telling!Told(r) = FlattenSeq(Prefaced(k))
  <2> DEFINE i == Images(g, Turns)
  <2>1. DOMAIN i = 1 .. Len(Turns) /\ \A n \in 1 .. Len(Turns) : i[n] = g[Turns[n]]
    BY DEF Images
  <2>2. \A n \in 1 .. Len(Turns) : Turns[n] = w <=> n = k
    BY <1>2, TurnsApart
  <2>3. \A n \in 1 .. Len(Turns) :
            g[Turns[n]].texts = IF n = k THEN Instructions \o <<Turns[n]>> ELSE <<Turns[n]>>
    BY <1>4, <1>5, <2>2
  <2> HIDE DEF i, g
  <2>4. [n \in DOMAIN i |-> i[n].texts] = Prefaced(k)
    BY <2>1, <2>3 DEF Prefaced
  <2>5. Telling!TextsOf(r.turns) = FlattenSeq(Prefaced(k))
    BY <1>2, <2>4, TextsOfIs DEF i
  <2>6. FlattenSeq(Prefaced(k)) \in Seq(D)
    BY <1>2, PrefacedIs
  <2>7. QED
    BY <1>2, <2>5, <2>6, ConcatEmptySeq DEF Telling!Told
<1>9. QED
  BY <1>2, <1>7, <1>8, PrefacedIs DEF Faithful, r

LEMMA RequestFaithful ==
  ASSUME Spoken, NEW d \in Telling!Dialects
  PROVE  Faithful(d, Telling!Request(d))
  BY OpenAIFaithful, AnthropicFaithful, GeminiAlone, GeminiToUser DEF Telling!Dialects

\* It depends on what the client asked, and on nothing else of the state.
LEMMA FaithfulSame ==
  ASSUME UNCHANGED asked, NEW to, NEW r, Faithful(to, r)
  PROVE  Faithful(to, r)'
  BY DEF Faithful, Turns, Instructions, Telling!NotSystem, Telling!System, Telling!Models,
         Telling!HasUser
-----------------------------------------------------------------------------
(***************************************************************************)
(* The answer.                                                             *)
(***************************************************************************)
LEMMA FinishReasonIs ==
  ASSUME Telling!Speaker \in Telling!Dialects, NEW reason \in STRING \ {"waiting"}
  PROVE  /\ Telling!FinishReason(reason) = "length" <=>
                reason = Telling!CutShort[Telling!Speaker]
         /\ Telling!FinishReason(reason) # "waiting"
<1> USE DEF Telling!FinishReason, Telling!CutShort
<1>1. CASE Telling!Speaker = "openai"
  BY <1>1
<1>2. CASE Telling!Speaker = "anthropic"
  BY <1>2 DEF Telling!Mapped, Telling!AnthropicReasons
<1>3. CASE Telling!Speaker = "google"
  BY <1>3 DEF Telling!Mapped, Telling!GeminiReasons
<1>4. QED
  BY <1>1, <1>2, <1>3 DEF Telling!Dialects

LEMMA TextsAre ==
  ASSUME NEW X, NEW parts \in Seq(X)
  PROVE  /\ Ordered(Telling!Texts(parts))
         /\ Range(Telling!Texts(parts)) = {n \in DOMAIN parts : parts[n] = "text"}
<1> DEFINE S == {n \in DOMAIN parts : parts[n] = "text"}
           p == Positions(parts)
<1>1. p \in Seq(Nat) /\ Range(p) = DOMAIN parts /\ Ordered(p)
  BY PositionsAre
<1>2. Telling!Texts(parts) = Only(p, S)
  BY OnlySame, PositionsSame DEF Telling!Texts
<1>3. S \subseteq DOMAIN parts
  OBVIOUS
<1> HIDE DEF S, p
<1>4. Ordered(Only(p, S)) /\ Range(Only(p, S)) = Range(p) \cap S
  BY <1>1, OnlyOrdered, OnlyRange
<1>5. Range(Only(p, S)) = S
  BY <1>1, <1>3, <1>4
<1>6. QED
  BY <1>2, <1>4, <1>5 DEF S
-----------------------------------------------------------------------------
(***************************************************************************)
(* What the handlers know: that every backend they called was told the     *)
(* conversation, and that the answer is that of the last one called.  It   *)
(* could not be reopened as a stream: an answer is never NoAnswer.         *)
(***************************************************************************)
Called ==
    /\ calls \in Seq(Range(calls))
    /\ \A c \in Range(calls) : c.to \in Telling!Dialects

Informed == \A c \in Range(calls) : Faithful(c.to, c.request)

Translated ==
    \/ reply = Telling!NoReply /\ answer = Telling!NoAnswer
    \/ /\ calls # <<>>
       /\ reply \in Telling!ReplyType
       /\ answer = [texts |-> Telling!Texts(reply.parts),
                    reason |-> Telling!FinishReason(reply.reason)]

Handled == Spoken /\ Called /\ Informed /\ Translated

LEMMA SpeakerIs ==
  ASSUME Called, calls # <<>>
  PROVE  Telling!Speaker = calls[Len(calls)].to /\ Telling!Speaker \in Telling!Dialects
<1>1. Len(calls) \in DOMAIN calls
  BY LenProperties, EmptySeq DEF Called
<1>2. QED
  BY <1>1 DEF Telling!Speaker, Telling!Last, Called, Range

LEMMA AnswerIsKept == Handled => AnswerKept
<1> SUFFICES ASSUME Handled, reply # Telling!NoReply
             PROVE  /\ answer.reason = "length" <=>
                          reply.reason = Telling!CutShort[Telling!Last(calls).to]
                    /\ \A m, n \in DOMAIN answer.texts : m < n => answer.texts[m] < answer.texts[n]
                    /\ Telling!ToSet(answer.texts) =
                          {n \in DOMAIN reply.parts : reply.parts[n] = "text"}
  BY DEF AnswerKept, Telling!AnswerKept
<1>1. /\ calls # <<>> /\ reply \in Telling!ReplyType
      /\ answer.texts = Telling!Texts(reply.parts)
      /\ answer.reason = Telling!FinishReason(reply.reason)
  BY DEF Handled, Translated
<1>2. reply.reason \in STRING \ {"waiting"} /\ reply.parts \in Seq({"text", "call"})
  BY <1>1 DEF Telling!ReplyType
<1>3. Telling!Speaker = Telling!Last(calls).to /\ Telling!Speaker \in Telling!Dialects
  BY <1>1, SpeakerIs DEF Handled, Telling!Speaker
<1>4. answer.reason = "length" <=> reply.reason = Telling!CutShort[Telling!Last(calls).to]
  BY <1>1, <1>2, <1>3, FinishReasonIs
<1>5. Ordered(answer.texts)
      /\ Range(answer.texts) = {n \in DOMAIN reply.parts : reply.parts[n] = "text"}
  BY <1>1, <1>2, TextsAre
<1>6. QED
  BY <1>4, <1>5, ToSetSame DEF Ordered

LEMMA ConversationIsSame == Handled => SameConversation
<1> SUFFICES ASSUME Handled, NEW n \in DOMAIN calls
             PROVE  LET r == calls[n].request IN
                    /\ Telling!ToSet(Telling!Told(r)) \subseteq DOMAIN asked
                    /\ Telling!Only(Telling!Told(r), Telling!NotSystem) =
                          Telling!Only(Telling!Positions(asked), Telling!NotSystem)
                    /\ Telling!Only(Telling!Told(r), Telling!System) =
                          IF calls[n].to = "google" /\ ~Telling!HasUser THEN <<>>
                          ELSE Telling!Only(Telling!Positions(asked), Telling!System)
                    /\ Telling!AsModel(r) = Telling!Models
  BY DEF SameConversation, Telling!SameConversation
<1>1. Faithful(calls[n].to, calls[n].request)
  BY DEF Handled, Informed, Range
<1>2. QED
  BY <1>1, OnlySame, ToSetSame, PositionsSame DEF Faithful, Turns, Instructions

LEMMA HandledInit == Telling!Init => Handled
<1> SUFFICES ASSUME Telling!Init PROVE Handled
  OBVIOUS
<1>1. Spoken
  BY ExchangeAssumption DEF Telling!Init, Telling!TranslationAssumption, Spoken
<1>2. calls = <<>> /\ Range(calls) = {}
  BY RangeEmpty DEF Telling!Init
<1>3. Called /\ Informed
  BY <1>2, EmptySeq DEF Called, Informed
<1>4. Translated
  BY DEF Telling!Init, Translated
<1>5. QED
  BY <1>1, <1>3, <1>4 DEF Handled

\* One more backend is told.
LEMMA HandledCall ==
  ASSUME Handled, NEW d \in Telling!Dialects, Telling!Call(d)
  PROVE  Handled'
<1> DEFINE c == [to |-> d, request |-> Telling!Request(d)]
           X == Range(calls) \cup {c}
<1>1. UNCHANGED <<asked, messages, reply, answer>> /\ calls' = Append(calls, c)
      /\ reply = Telling!NoReply
  BY DEF Telling!Call
<1>2. Spoken'
  BY <1>1 DEF Handled, Spoken, Telling!Roles
<1>3. c.to \in Telling!Dialects /\ Faithful(c.to, c.request)
  BY RequestFaithful DEF Handled
<1> HIDE DEF c
<1>4. calls \in Seq(X) /\ c \in X
  <2>1. calls \in Seq(Range(calls)) /\ Range(calls) \subseteq X
    BY DEF Handled, Called
  <2> HIDE DEF X
  <2>2. Seq(Range(calls)) \subseteq Seq(X)
    BY <2>1
  <2>3. QED
    BY <2>1, <2>2 DEF X
<1> HIDE DEF X
<1>5. calls' \in Seq(X) /\ Range(calls') = Range(calls) \cup {c}
  BY <1>1, <1>4, AppendProperties, RangeAppend
<1>6. Called'
  BY <1>3, <1>5 DEF Handled, Called, Telling!Dialects, X
<1>7. Informed'
  <2>1. ASSUME NEW b \in Range(calls') PROVE Faithful(b.to, b.request)'
    <3>1. Faithful(b.to, b.request)
      BY <1>3, <1>5, <2>1 DEF Handled, Informed
    <3>2. QED
      BY <1>1, <3>1, FaithfulSame
  <2>2. QED
    BY <2>1 DEF Informed
<1>8. Translated'
  <2>1. reply = Telling!NoReply /\ answer = Telling!NoAnswer
    BY <1>1 DEF Handled, Translated, Telling!ReplyType, Telling!NoReply
  <2>2. QED
    BY <1>1, <2>1 DEF Translated, Telling!NoReply, Telling!NoAnswer
<1>9. QED
  BY <1>2, <1>6, <1>7, <1>8 DEF Handled

\* What is kept as long as nobody is asked or called.
LEMMA HandledSame ==
  ASSUME Handled, UNCHANGED <<asked, messages, calls>>
  PROVE  Spoken' /\ Called' /\ Informed'
<1>1. Spoken' /\ Called'
  BY DEF Handled, Spoken, Called, Telling!Roles, Telling!Dialects
<1>2. ASSUME NEW b \in Range(calls') PROVE Faithful(b.to, b.request)'
  <2>1. Faithful(b.to, b.request)
    BY <1>2 DEF Handled, Informed
  <2>2. QED
    BY <2>1, FaithfulSame
<1>3. QED
  BY <1>1, <1>2 DEF Informed

\* The backend that was called last answers.
LEMMA HandledAnswer ==
  ASSUME Handled, calls # <<>>, NEW rep \in Replies[Telling!Last(calls).to], Telling!Answer(rep)
  PROVE  Handled'
<1>1. UNCHANGED <<asked, messages, calls>> /\ reply' = rep
      /\ answer' = [texts |-> Telling!Texts(rep.parts), reason |-> Telling!FinishReason(rep.reason)]
  BY DEF Telling!Answer
<1>2. rep \in Telling!ReplyType
  BY SpeakerIs, ExchangeAssumption
  DEF Telling!TranslationAssumption, Handled, Telling!Speaker
<1>3. Translated'
  BY <1>1, <1>2 DEF Translated, Telling!ReplyType, Telling!FinishReason, Telling!Speaker
<1>4. QED
  BY <1>1, <1>3, HandledSame DEF Handled

LEMMA HandledOpen ==
  ASSUME Handled, Open
  PROVE  Handled'
<1>1. asked' = <<>> /\ messages' = <<>> /\ calls' = <<>> /\ UNCHANGED <<reply, answer>>
      /\ calls # <<>> /\ answer = Telling!NoAnswer
  BY DEF Open
<1>2. Spoken'
  BY <1>1, EmptySeq DEF Spoken
<1>3. Called' /\ Informed'
  BY <1>1, RangeEmpty, EmptySeq DEF Called, Informed
<1>4. Translated'
  <2>1. CASE reply = Telling!NoReply
    BY <1>1, <2>1 DEF Translated, Telling!NoReply, Telling!NoAnswer
  <2>2. CASE reply # Telling!NoReply
    <3>1. answer.reason = Telling!FinishReason(reply.reason) /\ reply \in Telling!ReplyType
      BY <2>2 DEF Handled, Translated
    <3>2. reply.reason \in STRING \ {"waiting"}
      BY <3>1 DEF Telling!ReplyType
    <3>3. answer.reason # "waiting"
      BY <1>1, <3>1, <3>2, SpeakerIs, FinishReasonIs DEF Handled
    <3>4. QED
      BY <1>1, <3>3 DEF Telling!NoAnswer
  <2>3. QED
    BY <2>1, <2>2
<1>5. QED
  BY <1>2, <1>3, <1>4 DEF Handled
-----------------------------------------------------------------------------
(***************************************************************************)
(* Both together.                                                          *)
(***************************************************************************)
ExchangeInv == Handled /\ Streamed

LEMMA ExchangeInvStep == ExchangeInv /\ [ExchangeNext]_exchangeVars => ExchangeInv'
<1> SUFFICES ASSUME ExchangeInv, [ExchangeNext]_exchangeVars PROVE ExchangeInv'
  OBVIOUS
<1> USE DEF ExchangeInv
<1>1. ASSUME UNCHANGED vars PROVE Streamed'
  BY <1>1, StreamedStep
<1>2. ASSUME UNCHANGED request PROVE Handled'
  <2>1. UNCHANGED <<asked, messages, calls, reply, answer>>
    BY <1>2 DEF request
  <2>2. Translated'
    BY <2>1 DEF Handled, Translated, Telling!NoReply, Telling!NoAnswer, Telling!ReplyType,
                Telling!FinishReason, Telling!Speaker
  <2>3. QED
    BY <2>1, <2>2, HandledSame DEF Handled
<1>3. CASE Tell
  <2>1. CASE \E d \in Telling!Dialects : Telling!Call(d)
    BY <1>1, <1>3, <2>1, HandledCall DEF Tell
  <2>2. CASE calls # <<>> /\ \E rep \in Replies[Telling!Last(calls).to] : Telling!Answer(rep)
    BY <1>1, <1>3, <2>2, HandledAnswer DEF Tell
  <2>3. QED
    BY <1>3, <2>1, <2>2 DEF Tell, Telling!Next
<1>4. CASE Open
  BY <1>1, <1>4, HandledOpen DEF Open
<1>5. CASE During(Next)
  BY <1>2, <1>5, StreamedStep DEF During
<1>6. CASE UNCHANGED exchangeVars
  BY <1>1, <1>2, <1>6 DEF exchangeVars
<1>7. QED
  BY <1>3, <1>4, <1>5, <1>6 DEF ExchangeNext

LEMMA Exchanging == ExchangeSpec => []ExchangeInv
<1>1. ExchangeInit => ExchangeInv
  BY HandledInit, StreamedInit DEF ExchangeInit, ExchangeInv
<1>2. QED
  BY <1>1, ExchangeInvStep, PTL DEF ExchangeSpec

(***************************************************************************)
(* However many backends of a chain are tried, in whatever dialects, and   *)
(* whatever the conversation: each is told all of it by the translators.   *)
(***************************************************************************)
THEOREM ConversationKept == ExchangeSpec => []SameConversation
<1>1. ExchangeInv => SameConversation
  BY ConversationIsSame DEF ExchangeInv
<1>2. QED
  BY <1>1, Exchanging, PTL

(***************************************************************************)
(* Whatever a backend answers, with whatever parts and for whatever reason *)
(* it ends: translate_response() keeps its texts, their order, and whether *)
(* it was cut short.                                                       *)
(***************************************************************************)
THEOREM AnswersKept == ExchangeSpec => []AnswerKept
<1>1. ExchangeInv => AnswerKept
  BY AnswerIsKept DEF ExchangeInv
<1>2. QED
  BY <1>1, Exchanging, PTL

(***************************************************************************)
(* event_generator() loses an event that it took from the wire exactly if  *)
(* translate_stream_chunk() had to translate it and a chunk cut its line:  *)
(* however long the response, and however the network cuts it.             *)
(***************************************************************************)
THEOREM LostOnlyIfCut == ExchangeSpec => []LostIsCut
<1>1. ExchangeInv => LostIsCut
  BY DEF ExchangeInv, Streamed, Followed, Counted, Accounted, LostIsCut
<1>2. QED
  BY <1>1, Exchanging, PTL

(***************************************************************************)
(* The SDK yields texts in the order they were sent and none twice, and of *)
(* a stream that nobody broke off every one before the first end mark that *)
(* the client gets, but for those that were lost: for any stream.          *)
(***************************************************************************)
THEOREM SdkYieldsAll == ExchangeSpec => []SdkYieldsText
<1>1. ExchangeInv => SdkYieldsText
  BY StreamedYields DEF ExchangeInv
<1>2. QED
  BY <1>1, Exchanging, PTL
=============================================================================
