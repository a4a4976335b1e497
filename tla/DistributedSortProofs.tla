----------------------- MODULE DistributedSortProofs -----------------------
(***************************************************************************)
(* Proofs about lab3 for any input files, clients and buffer sizes.        *)
(*                                                                         *)
(* First, what the operators that the server takes text apart with return, *)
(* for every text: where lines end, which whole lines a text has, what is  *)
(* left of it behind the last one, and what becomes of these when a text   *)
(* grows.  Then Structure says how the server's descriptors, connections   *)
(* and events fit together, Streams what is on its way between them, also  *)
(* when clients are killed, and Delivery what has arrived when none is.    *)
(* Attention, last, says that no one waits who will not be attended to.    *)
(*                                                                         *)
(* From Streams on every line has to end with a newline (Unended = {}): a  *)
(* line that does not swallows the stop that follows it                    *)
(* (lab3/server.c:25).                                                     *)
(***************************************************************************)
EXTENDS DistributedSort, SequenceTheorems, FiniteSetTheorems, WellFoundedInduction, TLAPS

-----------------------------------------------------------------------------
(* Least and greatest elements. *)

\* Every set of natural numbers has a least element, and Min is it.
LEMMA MinNat ==
  ASSUME NEW S \in SUBSET Nat, S # {}
  PROVE  Min(S) \in S /\ \A x \in S : Min(S) <= x
<1> DEFINE R == OpToRel(<, Nat)
<1>1. PICK m \in S : \A x \in S : ~(<<x, m>> \in R)
  <2> HIDE DEF R
  <2>1. IsWellFoundedOn(R, Nat)
    BY NatLessThanWellFounded DEF R
  <2> QED BY <2>1, WFMin
<1>2. ASSUME NEW x \in S, ~(m <= x) PROVE FALSE
  <2>1. x \in Nat /\ m \in Nat /\ x < m
    BY <1>2
  <2>2. <<x, m>> \in R
    BY <2>1 DEF OpToRel
  <2> HIDE DEF R
  <2> QED BY <1>1, <2>2
<1> QED BY <1>2 DEF Min

\* The smaller of two numbers.
LEMMA MinPair ==
  ASSUME NEW a \in Int, NEW b \in Int
  PROVE  Min({a, b}) = IF a <= b THEN a ELSE b
<1>1. \E x \in {a, b} : \A y \in {a, b} : x <= y
  OBVIOUS
<1> DEFINE m == CHOOSE x \in {a, b} : \A y \in {a, b} : x <= y
<1>2. m \in {a, b} /\ \A y \in {a, b} : m <= y
  BY <1>1
<1>3. Min({a, b}) = m
  BY DEF Min
<1> HIDE DEF m
<1> QED BY <1>2, <1>3

\* A set of numbers up to a bound has a greatest element, and Max is it.
LEMMA MaxUpTo ==
  ASSUME NEW n \in Nat, NEW S \in SUBSET (0 .. n), S # {}
  PROVE  Max(S) \in S /\ \A x \in S : x <= Max(S)
<1> DEFINE T == {n - x : x \in S}
<1>1. T \in SUBSET Nat /\ T # {}
  <2>1. PICK x \in S : TRUE
    OBVIOUS
  <2>2. n - x \in T
    BY <2>1
  <2>3. T \in SUBSET Nat
    OBVIOUS
  <2> QED BY <2>2, <2>3
<1>2. Min(T) \in T /\ \A y \in T : Min(T) <= y
  <2> HIDE DEF T
  <2> QED BY <1>1, MinNat
<1>3. PICK m \in S : Min(T) = n - m
  BY <1>2
<1>4. ASSUME NEW x \in S PROVE m >= x
  <2>1. n - x \in T
    OBVIOUS
  <2>2. n - m <= n - x
    BY <1>2, <1>3, <2>1
  <2> QED BY <2>2
<1> QED BY <1>4 DEF Max

-----------------------------------------------------------------------------
(* Where the lines of a text end, and what is behind the last of them. *)

\* Behind the last line end of a text, or all of it.
LastEnd(text) == Max({0} \cup LineEnds(text))

\* The last line end is one, unless there is none, and no later one is.
LEMMA LastEndIs ==
  ASSUME NEW t \in Seq(Symbols)
  PROVE  /\ LineEnds(t) \in SUBSET (1 .. Len(t))
         /\ LastEnd(t) \in 0 .. Len(t)
         /\ LastEnd(t) = 0 \/ LastEnd(t) \in LineEnds(t)
         /\ \A j \in LineEnds(t) : j <= LastEnd(t)
<1>1. DOMAIN t = 1 .. Len(t) /\ Len(t) \in Nat
  BY LenProperties
<1>2. LineEnds(t) \in SUBSET (1 .. Len(t))
  BY <1>1 DEF LineEnds
<1> DEFINE E == {0} \cup LineEnds(t)
<1>3. E \in SUBSET (0 .. Len(t)) /\ E # {}
  BY <1>1, <1>2
<1>4. Max(E) \in E /\ \A x \in E : x <= Max(E)
  <2> HIDE DEF E
  <2> QED BY <1>1, <1>3, MaxUpTo
<1>5. LastEnd(t) = Max(E)
  BY DEF LastEnd
<1> QED BY <1>2, <1>3, <1>4, <1>5

\* What compacting leaves of a text is what follows its last line end.
LEMMA CompactedIs ==
  ASSUME NEW t \in Seq(Symbols)
  PROVE  /\ compacted(t) \in Seq(Symbols)
         /\ Len(compacted(t)) = Len(t) - LastEnd(t)
         /\ \A k \in 1 .. Len(compacted(t)) :
              /\ compacted(t)[k] = t[LastEnd(t) + k]
              /\ ~EndsLine(compacted(t)[k])
<1>1. LastEnd(t) \in 0 .. Len(t) /\ Len(t) \in Nat /\ DOMAIN t = 1 .. Len(t)
  BY LastEndIs, LenProperties
<1>2. \A i \in LastEnd(t) + 1 .. Len(t) : t[i] \in Symbols
  BY <1>1, ElementOfSeq
<1>3. compacted(t) = SubSeq(t, LastEnd(t) + 1, Len(t))
  BY DEF compacted, LastEnd
<1>4. /\ compacted(t) \in Seq(Symbols)
      /\ Len(compacted(t)) =
           IF LastEnd(t) + 1 <= Len(t) THEN Len(t) - (LastEnd(t) + 1) + 1 ELSE 0
      /\ \A i \in 1 .. Len(t) - (LastEnd(t) + 1) + 1 :
           compacted(t)[i] = t[(LastEnd(t) + 1) + i - 1]
  BY <1>1, <1>2, <1>3, SubSeqProperties
<1>5. Len(compacted(t)) = Len(t) - LastEnd(t)
  BY <1>1, <1>4
<1>6. ASSUME NEW k \in 1 .. Len(compacted(t))
      PROVE  compacted(t)[k] = t[LastEnd(t) + k] /\ ~EndsLine(compacted(t)[k])
  <2>1. compacted(t)[k] = t[LastEnd(t) + k]
    BY <1>1, <1>4, <1>5
  <2>2. LastEnd(t) + k \in DOMAIN t /\ LastEnd(t) + k > LastEnd(t)
    BY <1>1, <1>5
  <2>3. LastEnd(t) + k \notin LineEnds(t)
    BY <1>1, <2>2, LastEndIs
  <2> QED BY <2>1, <2>2, <2>3 DEF LineEnds
<1> QED BY <1>4, <1>5, <1>6

\* A line starts behind the line end before it.
LEMMA LineStartIs ==
  ASSUME NEW t \in Seq(Symbols), NEW j \in LineEnds(t)
  PROVE  /\ LineStart(t, j) \in 1 .. j
         /\ LineStart(t, j) = 1 \/ LineStart(t, j) - 1 \in LineEnds(t)
         /\ \A i \in LineEnds(t) : i < j => i < LineStart(t, j)
<1>1. LineEnds(t) \in SUBSET (1 .. Len(t)) /\ Len(t) \in Nat
  BY LastEndIs, LenProperties
<1> DEFINE E == {0} \cup {i \in LineEnds(t) : i < j}
<1>2. E \in SUBSET (0 .. Len(t)) /\ E # {}
  BY <1>1
<1>3. Max(E) \in E /\ \A x \in E : x <= Max(E)
  <2> HIDE DEF E
  <2> QED BY <1>1, <1>2, MaxUpTo
<1>4. LineStart(t, j) = Max(E) + 1
  BY DEF LineStart
<1>5. Max(E) = 0 \/ Max(E) \in {i \in LineEnds(t) : i < j}
  BY <1>3
<1> HIDE DEF E
<1>6. \A i \in LineEnds(t) : i < j => i <= Max(E)
  BY <1>3 DEF E
<1> QED BY <1>1, <1>4, <1>5, <1>6

\* Line(t, a, j): the line of t that ends at j starts behind a.
Line(t, a, j) ==
  /\ j \in LineEnds(t)
  /\ a \in 0 .. j - 1
  /\ a = 0 \/ a \in LineEnds(t)
  /\ \A i \in LineEnds(t) : i <= a \/ i >= j

\* The whole lines of a text are what lies between one line end and the next.
LEMMA WholeLinesAre ==
  ASSUME NEW t \in Seq(Symbols)
  PROVE  /\ \A w \in whole_lines(t) :
              \E j \in LineEnds(t), a \in Nat : Line(t, a, j) /\ w = SubSeq(t, a + 1, j)
         /\ \A j, a \in Nat : Line(t, a, j) => SubSeq(t, a + 1, j) \in whole_lines(t)
<1>1. LineEnds(t) \in SUBSET (1 .. Len(t)) /\ Len(t) \in Nat
  BY LastEndIs, LenProperties
<1>2. ASSUME NEW w \in whole_lines(t)
      PROVE  \E j \in LineEnds(t), a \in Nat : Line(t, a, j) /\ w = SubSeq(t, a + 1, j)
  <2>1. PICK j \in LineEnds(t) : w = SubSeq(t, LineStart(t, j), j)
    BY DEF whole_lines
  <2> DEFINE a == LineStart(t, j) - 1
  <2>2. /\ LineStart(t, j) \in 1 .. j
        /\ LineStart(t, j) = 1 \/ a \in LineEnds(t)
        /\ \A i \in LineEnds(t) : i < j => i < LineStart(t, j)
    BY LineStartIs
  <2>3. a \in Nat /\ a \in 0 .. j - 1 /\ a + 1 = LineStart(t, j)
    BY <1>1, <2>2
  <2>4. \A i \in LineEnds(t) : i <= a \/ i >= j
    BY <1>1, <2>2
  <2>5. Line(t, a, j)
    BY <2>2, <2>3, <2>4 DEF Line
  <2> QED BY <2>1, <2>3, <2>5
<1>3. ASSUME NEW j \in Nat, NEW a \in Nat, Line(t, a, j)
      PROVE  SubSeq(t, a + 1, j) \in whole_lines(t)
  <2>1. /\ j \in LineEnds(t) /\ a \in 0 .. j - 1
        /\ a = 0 \/ a \in LineEnds(t)
        /\ \A i \in LineEnds(t) : i <= a \/ i >= j
    BY <1>3 DEF Line
  <2>2. /\ LineStart(t, j) \in 1 .. j
        /\ LineStart(t, j) = 1 \/ LineStart(t, j) - 1 \in LineEnds(t)
        /\ \A i \in LineEnds(t) : i < j => i < LineStart(t, j)
    BY <2>1, LineStartIs
  <2>3. LineStart(t, j) - 1 <= a
    BY <2>1, <2>2
  <2>4. a < LineStart(t, j)
    BY <2>1, <2>2
  <2>5. LineStart(t, j) = a + 1
    BY <1>1, <2>2, <2>3, <2>4
  <2> QED BY <2>1, <2>5 DEF whole_lines
<1> QED BY <1>2, <1>3

\* The last line end is told by what it is.
LEMMA LastEndUnique ==
  ASSUME NEW t \in Seq(Symbols), NEW m \in Nat, m = 0 \/ m \in LineEnds(t),
         \A j \in LineEnds(t) : j <= m
  PROVE  LastEnd(t) = m
BY LastEndIs, LenProperties

\* The line ends of one text behind another.
LEMMA ConcatLineEnds ==
  ASSUME NEW s \in Seq(Symbols), NEW r \in Seq(Symbols)
  PROVE  /\ \A j \in 1 .. Len(s) : j \in LineEnds(s \o r) <=> j \in LineEnds(s)
         /\ \A j \in Len(s) + 1 .. Len(s) + Len(r) :
              j \in LineEnds(s \o r) <=> j - Len(s) \in LineEnds(r)
         /\ LineEnds(s \o r) \in SUBSET (1 .. Len(s) + Len(r))
<1>1. /\ s \o r \in Seq(Symbols)
      /\ Len(s \o r) = Len(s) + Len(r)
      /\ \A i \in 1 .. Len(s) + Len(r) :
           (s \o r)[i] = IF i <= Len(s) THEN s[i] ELSE r[i - Len(s)]
  BY ConcatProperties
<1>2. /\ DOMAIN s = 1 .. Len(s) /\ DOMAIN r = 1 .. Len(r)
      /\ DOMAIN (s \o r) = 1 .. Len(s) + Len(r) /\ Len(s) \in Nat /\ Len(r) \in Nat
  BY <1>1, LenProperties
<1>3. ASSUME NEW j \in 1 .. Len(s) PROVE j \in LineEnds(s \o r) <=> j \in LineEnds(s)
  <2>1. (s \o r)[j] = s[j] /\ j \in DOMAIN (s \o r) /\ j \in DOMAIN s
    BY <1>1, <1>2
  <2> QED BY <2>1 DEF LineEnds
<1>4. ASSUME NEW j \in Len(s) + 1 .. Len(s) + Len(r)
      PROVE  j \in LineEnds(s \o r) <=> j - Len(s) \in LineEnds(r)
  <2>1. (s \o r)[j] = r[j - Len(s)] /\ j \in DOMAIN (s \o r) /\ j - Len(s) \in DOMAIN r
    BY <1>1, <1>2
  <2> QED BY <2>1 DEF LineEnds
<1>5. LineEnds(s \o r) \in SUBSET (1 .. Len(s) + Len(r))
  BY <1>1, LastEndIs
<1> QED BY <1>3, <1>4, <1>5

\* A text that ends with a line and one behind it are taken apart separately.
LEMMA ConcatWhole ==
  ASSUME NEW s \in Seq(Symbols), NEW r \in Seq(Symbols), LastEnd(s) = Len(s)
  PROVE  /\ whole_lines(s \o r) = whole_lines(s) \cup whole_lines(r)
         /\ compacted(s \o r) = compacted(r)
<1> DEFINE t == s \o r
<1>1. /\ t \in Seq(Symbols) /\ Len(t) = Len(s) + Len(r)
      /\ Len(s) \in Nat /\ Len(r) \in Nat /\ Len(t) \in Nat
  BY ConcatProperties, LenProperties
<1>2. /\ LineEnds(s) \in SUBSET (1 .. Len(s))
      /\ LineEnds(r) \in SUBSET (1 .. Len(r))
      /\ LineEnds(t) \in SUBSET (1 .. Len(t))
      /\ Len(s) = 0 \/ Len(s) \in LineEnds(s)
  BY <1>1, LastEndIs
<1>3. /\ \A j \in 1 .. Len(s) : j \in LineEnds(t) <=> j \in LineEnds(s)
      /\ \A j \in Len(s) + 1 .. Len(t) : j \in LineEnds(t) <=> j - Len(s) \in LineEnds(r)
  BY <1>1, ConcatLineEnds
<1> HIDE DEF t
<1>4. ASSUME NEW w \in whole_lines(t) PROVE w \in whole_lines(s) \cup whole_lines(r)
  <2>1. PICK j \in LineEnds(t), a \in Nat : Line(t, a, j) /\ w = SubSeq(t, a + 1, j)
    BY <1>1, <1>4, WholeLinesAre
  <2>2. /\ a \in 0 .. j - 1
        /\ a = 0 \/ a \in LineEnds(t)
        /\ \A i \in LineEnds(t) : i <= a \/ i >= j
    BY <2>1 DEF Line
  <2>3. CASE j <= Len(s)
    <3>1. j \in LineEnds(s) /\ (a = 0 \/ a \in LineEnds(s))
      BY <1>2, <1>3, <2>2, <2>3
    <3>2. \A i \in LineEnds(s) : i <= a \/ i >= j
      BY <1>1, <1>2, <1>3, <2>2
    <3>3. Line(s, a, j)
      BY <2>2, <3>1, <3>2 DEF Line
    <3>4. SubSeq(t, a + 1, j) = SubSeq(s, a + 1, j)
      <4>1. a + 1 \in 1 .. Len(s) /\ j \in 1 .. Len(s)
        BY <1>1, <1>2, <2>2, <2>3
      <4> QED BY <4>1, SubSeqOfConcat1 DEF t
    <3>5. j \in Nat
      BY <1>2, <3>1
    <3> QED BY <2>1, <3>3, <3>4, <3>5, WholeLinesAre
  <2>4. CASE j > Len(s)
    <3> DEFINE b == a - Len(s)   k == j - Len(s)
    <3>1. a >= Len(s)
      <4>1. CASE Len(s) = 0
        BY <2>2, <4>1
      <4>2. CASE Len(s) \in LineEnds(t)
        BY <1>1, <1>2, <2>2, <2>4, <4>2
      <4>3. Len(s) = 0 \/ Len(s) \in LineEnds(t)
        BY <1>1, <1>2, <1>3
      <4> QED BY <1>1, <2>2, <4>1, <4>2, <4>3
    <3>2. k \in LineEnds(r) /\ b \in 0 .. k - 1 /\ b \in Nat /\ k \in Nat
      <4>1. j \in Len(s) + 1 .. Len(t) /\ k \in Nat
        BY <1>1, <1>2, <2>4
      <4>2. k \in LineEnds(r)
        BY <1>3, <4>1
      <4>3. b \in Nat /\ b <= k - 1
        BY <1>1, <2>2, <3>1, <4>1
      <4> QED BY <4>1, <4>2, <4>3
    <3>3. b = 0 \/ b \in LineEnds(r)
      BY <1>1, <1>2, <1>3, <2>2, <3>1
    <3>4. ASSUME NEW i \in LineEnds(r) PROVE i <= b \/ i >= k
      <4>1. i + Len(s) \in Len(s) + 1 .. Len(t) /\ i \in Nat /\ (i + Len(s)) - Len(s) = i
        BY <1>1, <1>2
      <4>2. i + Len(s) \in LineEnds(t)
        BY <1>3, <4>1
      <4> QED BY <1>1, <2>2, <4>1, <4>2
    <3>5. Line(r, b, k)
      BY <3>2, <3>3, <3>4 DEF Line
    <3>6. SubSeq(t, a + 1, j) = SubSeq(r, (a + 1) - Len(s), k)
      <4>1. /\ a + 1 \in Len(s) + 1 .. Len(s) + Len(r)
            /\ j \in Len(s) + 1 .. Len(s) + Len(r)
        BY <1>1, <1>2, <2>2, <2>4, <3>1
      <4> QED BY <4>1, SubSeqOfConcat2 DEF t
    <3>7. (a + 1) - Len(s) = b + 1
      BY <1>1
    <3> HIDE DEF b, k
    <3> QED BY ZenonT(30), <2>1, <3>2, <3>5, <3>6, <3>7, WholeLinesAre
  <2> QED BY <1>1, <1>2, <2>3, <2>4
<1>5. ASSUME NEW w \in whole_lines(s) PROVE w \in whole_lines(t)
  <2>1. PICK j \in LineEnds(s), a \in Nat : Line(s, a, j) /\ w = SubSeq(s, a + 1, j)
    BY WholeLinesAre
  <2>2. /\ a \in 0 .. j - 1
        /\ a = 0 \/ a \in LineEnds(s)
        /\ \A i \in LineEnds(s) : i <= a \/ i >= j
    BY <2>1 DEF Line
  <2>3. j \in LineEnds(t) /\ j \in Nat /\ j <= Len(s) /\ (a = 0 \/ a \in LineEnds(t))
    BY <1>2, <1>3, <2>2
  <2>4. \A i \in LineEnds(t) : i <= a \/ i >= j
    BY <1>1, <1>2, <1>3, <2>2, <2>3
  <2>5. Line(t, a, j)
    BY <2>2, <2>3, <2>4 DEF Line
  <2>6. SubSeq(t, a + 1, j) = SubSeq(s, a + 1, j)
    BY <1>1, <2>2, <2>3, SubSeqOfConcat1 DEF t
  <2> QED BY <1>1, <2>1, <2>3, <2>5, <2>6, WholeLinesAre
<1>6. ASSUME NEW w \in whole_lines(r) PROVE w \in whole_lines(t)
  <2>1. PICK j \in LineEnds(r), a \in Nat : Line(r, a, j) /\ w = SubSeq(r, a + 1, j)
    BY WholeLinesAre
  <2>2. /\ a \in 0 .. j - 1
        /\ a = 0 \/ a \in LineEnds(r)
        /\ \A i \in LineEnds(r) : i <= a \/ i >= j
    BY <2>1 DEF Line
  <2> DEFINE b == Len(s) + a   k == Len(s) + j
  <2>3. /\ k \in Len(s) + 1 .. Len(t) /\ k \in Nat /\ b \in Nat /\ b \in 0 .. k - 1
        /\ k - Len(s) = j /\ b - Len(s) = a
    BY <1>1, <1>2, <2>2
  <2>4. k \in LineEnds(t)
    BY <1>3, <2>3
  <2>5. b = 0 \/ b \in LineEnds(t)
    <3>1. CASE a = 0
      BY <1>1, <1>2, <1>3, <3>1
    <3>2. CASE a \in LineEnds(r)
      BY <1>1, <1>2, <1>3, <2>3, <3>2
    <3> QED BY <2>2, <3>1, <3>2
  <2>6. ASSUME NEW i \in LineEnds(t) PROVE i <= b \/ i >= k
    <3>1. CASE i <= Len(s)
      BY <1>1, <1>2, <3>1
    <3>2. CASE i > Len(s)
      <4>1. i - Len(s) \in LineEnds(r)
        BY <1>1, <1>2, <1>3, <3>2
      <4> QED BY <1>1, <1>2, <2>2, <4>1
    <3> QED BY <1>1, <1>2, <3>1, <3>2
  <2>7. Line(t, b, k)
    BY <2>3, <2>4, <2>5, <2>6 DEF Line
  <2>8. SubSeq(t, b + 1, k) = SubSeq(r, (b + 1) - Len(s), k - Len(s))
    <3>1. b + 1 \in Len(s) + 1 .. Len(s) + Len(r) /\ k \in Len(s) + 1 .. Len(s) + Len(r)
      BY <1>1, <2>3
    <3> HIDE DEF b, k
    <3> QED BY <3>1, SubSeqOfConcat2 DEF t
  <2>9. (b + 1) - Len(s) = a + 1
    BY <1>1
  <2> HIDE DEF b, k
  <2> QED BY <1>1, <2>1, <2>3, <2>7, <2>8, <2>9, WholeLinesAre
<1>7. compacted(t) = compacted(r)
  <2>1. LastEnd(r) \in 0 .. Len(r) /\ (LastEnd(r) = 0 \/ LastEnd(r) \in LineEnds(r))
        /\ \A j \in LineEnds(r) : j <= LastEnd(r)
    BY LastEndIs
  <2> DEFINE m == Len(s) + LastEnd(r)
  <2>2. m \in Nat
    BY <1>1, <2>1
  <2>3. m = 0 \/ m \in LineEnds(t)
    <3>1. CASE LastEnd(r) = 0
      BY <1>1, <1>2, <1>3, <3>1
    <3>2. CASE LastEnd(r) \in LineEnds(r)
      <4>1. m \in Len(s) + 1 .. Len(t) /\ m - Len(s) = LastEnd(r)
        BY <1>1, <1>2, <3>2
      <4> QED BY <1>3, <3>2, <4>1
    <3> QED BY <2>1, <3>1, <3>2
  <2>4. ASSUME NEW j \in LineEnds(t) PROVE j <= m
    <3>1. CASE j <= Len(s)
      BY <1>1, <1>2, <2>1, <3>1
    <3>2. CASE j > Len(s)
      <4>1. j - Len(s) \in LineEnds(r)
        BY <1>1, <1>2, <1>3, <3>2
      <4> QED BY <1>1, <1>2, <2>1, <4>1
    <3> QED BY <1>1, <1>2, <3>1, <3>2
  <2>5. LastEnd(t) = m
    <3> HIDE DEF m
    <3> QED BY <1>1, <2>2, <2>3, <2>4, LastEndUnique
  <2>6. /\ compacted(t) \in Seq(Symbols) /\ Len(compacted(t)) = Len(t) - m
        /\ \A k \in 1 .. Len(compacted(t)) : compacted(t)[k] = t[m + k]
    BY ZenonT(30), <1>1, <2>5, CompactedIs
  <2>7. /\ compacted(r) \in Seq(Symbols) /\ Len(compacted(r)) = Len(r) - LastEnd(r)
        /\ \A k \in 1 .. Len(compacted(r)) : compacted(r)[k] = r[LastEnd(r) + k]
    BY CompactedIs
  <2>8. Len(compacted(t)) = Len(compacted(r))
    BY <1>1, <2>1, <2>6, <2>7
  <2>9. ASSUME NEW k \in 1 .. Len(compacted(t)) PROVE compacted(t)[k] = compacted(r)[k]
    <3>1. m + k \in 1 .. Len(s) + Len(r) /\ ~(m + k <= Len(s)) /\ (m + k) - Len(s) = LastEnd(r) + k
      BY <1>1, <2>1, <2>6
    <3>2. t[m + k] = r[(m + k) - Len(s)]
      <4> HIDE DEF m
      <4> QED BY <3>1, ConcatProperties DEF t
    <3> QED BY <2>6, <2>7, <2>8, <3>1, <3>2
  <2> QED BY <2>6, <2>7, <2>8, <2>9, SeqEqual
<1> QED BY <1>4, <1>5, <1>6, <1>7 DEF t

\* Nothing is left behind the last line end when the text ends with it.
LEMMA CompactedEmpty ==
  ASSUME NEW t \in Seq(Symbols)
  PROVE  compacted(t) = <<>> <=> LastEnd(t) = Len(t)
<1>1. compacted(t) \in Seq(Symbols) /\ Len(compacted(t)) = Len(t) - LastEnd(t)
  BY CompactedIs
<1>2. LastEnd(t) \in Nat /\ Len(t) \in Nat
  BY LastEndIs, LenProperties
<1>3. compacted(t) = <<>> <=> Len(compacted(t)) = 0
  BY <1>1, EmptySeq
<1> QED BY <1>1, <1>2, <1>3

\* A text in which no line ends has no whole lines and is left as it is.
LEMMA NoLineEnds ==
  ASSUME NEW t \in Seq(Symbols), \A k \in 1 .. Len(t) : ~EndsLine(t[k])
  PROVE  LineEnds(t) = {} /\ whole_lines(t) = {} /\ compacted(t) = t
<1>1. DOMAIN t = 1 .. Len(t) /\ Len(t) \in Nat
  BY LenProperties
<1>2. LineEnds(t) = {}
  BY <1>1 DEF LineEnds
<1>3. whole_lines(t) = {}
  BY <1>2 DEF whole_lines
<1>4. LastEnd(t) = 0
  BY <1>2, LastEndIs
<1>5. /\ compacted(t) \in Seq(Symbols) /\ Len(compacted(t)) = Len(t)
      /\ \A k \in 1 .. Len(compacted(t)) : compacted(t)[k] = t[k]
  BY <1>1, <1>4, CompactedIs
<1> QED BY <1>2, <1>3, <1>5, SeqEqual

\* A text whose last symbol alone ends a line is one whole line.
LEMMA OneLine ==
  ASSUME NEW t \in Seq(Symbols), t # <<>>, EndsLine(t[Len(t)]),
         \A k \in 1 .. Len(t) - 1 : ~EndsLine(t[k])
  PROVE  LastEnd(t) = Len(t) /\ whole_lines(t) = {t} /\ compacted(t) = <<>>
<1>1. DOMAIN t = 1 .. Len(t) /\ Len(t) \in Nat \ {0}
  BY LenProperties, EmptySeq
<1>2. LineEnds(t) = {Len(t)}
  BY <1>1 DEF LineEnds
<1>3. LastEnd(t) = Len(t)
  BY <1>1, <1>2, LastEndIs
<1>4. compacted(t) = <<>>
  BY <1>3, CompactedEmpty
<1>5. SubSeq(t, 1, Len(t)) = t
  BY SubSeqFull
<1>6. Line(t, 0, Len(t))
  BY <1>1, <1>2 DEF Line
<1>7. t \in whole_lines(t)
  <2>1. SubSeq(t, 0 + 1, Len(t)) \in whole_lines(t)
    BY <1>1, <1>6, WholeLinesAre
  <2>2. 0 + 1 = 1
    OBVIOUS
  <2> QED BY <1>5, <2>1, <2>2
<1>8. ASSUME NEW w \in whole_lines(t) PROVE w = t
  <2>1. PICK j \in LineEnds(t), a \in Nat : Line(t, a, j) /\ w = SubSeq(t, a + 1, j)
    BY WholeLinesAre
  <2>2. j = Len(t) /\ a = 0
    BY <1>1, <1>2, <2>1 DEF Line
  <2> QED BY <1>5, <2>1, <2>2
<1> QED BY <1>3, <1>4, <1>7, <1>8

\* What comes behind a text makes whole lines with what was left of the text, and
\* only with that.
LEMMA Growth ==
  ASSUME NEW s \in Seq(Symbols), NEW r \in Seq(Symbols)
  PROVE  /\ whole_lines(s \o r) = whole_lines(s) \cup whole_lines(compacted(s) \o r)
         /\ compacted(s \o r) = compacted(compacted(s) \o r)
<1> DEFINE m == LastEnd(s)
           p == SubSeq(s, 1, m)
           c == compacted(s)
<1>1. /\ m \in 0 .. Len(s) /\ Len(s) \in Nat
      /\ m = 0 \/ m \in LineEnds(s)
      /\ DOMAIN s = 1 .. Len(s)
  BY LastEndIs, LenProperties
<1>2. /\ c \in Seq(Symbols) /\ Len(c) = Len(s) - m
      /\ \A k \in 1 .. Len(c) : ~EndsLine(c[k])
  BY CompactedIs
<1>3. /\ p \in Seq(Symbols) /\ Len(p) = m
      /\ \A i \in 1 .. m : p[i] = s[i]
  <2>1. \A i \in 1 .. m : s[i] \in Symbols
    BY <1>1, ElementOfSeq
  <2>2. 1 \in Int /\ m \in Int
    BY <1>1
  <2> HIDE DEF m
  <2>3. /\ p \in Seq(Symbols) /\ Len(p) = IF 1 <= m THEN m - 1 + 1 ELSE 0
        /\ \A i \in 1 .. m - 1 + 1 : p[i] = s[1 + i - 1]
    BY <2>1, <2>2, SubSeqProperties
  <2> QED BY <1>1, <2>3
<1>4. s = p \o c
  <2>1. SubSeq(s, m + 1, Len(s)) = c
    BY DEF compacted, LastEnd
  <2>2. 1 \in 1 .. Len(s) + 1 /\ m \in 1 - 1 .. Len(s) /\ Len(s) \in m .. Len(s)
    BY <1>1
  <2>3. SubSeq(s, 1, m) \o SubSeq(s, m + 1, Len(s)) = SubSeq(s, 1, Len(s))
    <3> HIDE DEF m
    <3> QED BY <2>2, ConcatAdjacentSubSeq
  <2>4. SubSeq(s, 1, Len(s)) = s
    BY SubSeqFull
  <2> QED BY <2>1, <2>3, <2>4
<1>5. LastEnd(p) = Len(p)
  <2>1. m = 0 \/ m \in LineEnds(p)
    <3>1. ASSUME m \in LineEnds(s) PROVE m \in LineEnds(p)
      <4>1. m \in 1 .. Len(p) /\ EndsLine(s[m]) /\ p[m] = s[m]
        BY <1>1, <1>3, <3>1, LastEndIs DEF LineEnds
      <4>2. m \in DOMAIN p
        BY <1>3, <4>1, LenProperties
      <4> QED BY <4>1, <4>2 DEF LineEnds
    <3> QED BY <1>1, <3>1
  <2>2. LineEnds(p) \in SUBSET (1 .. m)
    BY <1>3, LastEndIs
  <2>3. m \in Nat
    BY <1>1
  <2> HIDE DEF m, p
  <2>4. \A j \in LineEnds(p) : j <= m
    BY <2>2, <2>3
  <2>5. LastEnd(p) = m
    BY <1>3, <2>1, <2>3, <2>4, LastEndUnique
  <2> QED BY <1>3, <2>5
<1> HIDE DEF m, p, c
<1>6. whole_lines(c) = {}
  BY <1>2, NoLineEnds
<1>7. whole_lines(s) = whole_lines(p)
  <2>1. whole_lines(p \o c) = whole_lines(p) \cup whole_lines(c)
    BY <1>2, <1>3, <1>5, ConcatWhole
  <2> QED BY <1>4, <1>6, <2>1
<1>8. s \o r = p \o (c \o r) /\ c \o r \in Seq(Symbols)
  BY SMTT(30), <1>2, <1>3, <1>4, ConcatAssociative, ConcatProperties
<1>9. /\ whole_lines(s \o r) = whole_lines(p) \cup whole_lines(c \o r)
      /\ compacted(s \o r) = compacted(c \o r)
  BY <1>3, <1>5, <1>8, ConcatWhole
<1> QED BY <1>7, <1>9 DEF c

-----------------------------------------------------------------------------
(* The lines of the input files. *)

\* A line of an input file as it is sent: its length, its symbols, its number, and,
\* unless its newline is missing, that it ends where a line ends and nowhere else.
LEMMA WholeIs ==
  ASSUME NEW l \in Lines
  PROVE  /\ Whole(l) \in Seq(Symbols)
         /\ Whole(l) # <<>>
         /\ Len(Whole(l)) = Length[l] /\ Length[l] \in Nat \ {0}
         /\ \A k \in 1 .. Length[l] : Whole(l)[k] = <<l, k>> /\ <<l, k>> # STOP
         /\ KeyOf(Whole(l)) = Key[l] /\ Key[l] \in Nat
         /\ \A k \in 1 .. Length[l] - 1 : ~EndsLine(Whole(l)[k])
         /\ l \notin Unended => EndsLine(Whole(l)[Length[l]])
<1>1. Length[l] \in Nat \ {0} /\ Key[l] \in Nat /\ l # Stop
  BY LinesAssumption
<1>2. \A k \in 1 .. Length[l] : <<l, k>> \in Symbols /\ <<l, k>> # STOP
  BY <1>1 DEF Symbols, STOP
<1>3. Whole(l) \in [1 .. Length[l] -> Symbols]
  BY <1>2 DEF Whole
<1>4. Whole(l) \in Seq(Symbols) /\ Len(Whole(l)) = Length[l]
  BY <1>1, <1>3
<1>5. Whole(l) # <<>>
  BY <1>1, <1>4, EmptySeq
<1>6. \A k \in 1 .. Length[l] : Whole(l)[k] = <<l, k>>
  BY DEF Whole
<1>7. KeyOf(Whole(l)) = Key[l]
  BY <1>1, <1>6 DEF KeyOf
<1>8. ASSUME NEW k \in 1 .. Length[l] - 1 PROVE ~EndsLine(Whole(l)[k])
  <2>1. k \in 1 .. Length[l] /\ k # Length[l]
    BY <1>1
  <2> QED BY <1>2, <1>6, <2>1 DEF EndsLine
<1>9. ASSUME l \notin Unended PROVE EndsLine(Whole(l)[Length[l]])
  BY <1>1, <1>2, <1>6, <1>9 DEF EndsLine
<1> QED BY <1>1, <1>2, <1>4, <1>5, <1>6, <1>7, <1>8, <1>9

\* A line with its newline is one whole line, and nothing is left of it.
LEMMA WholeIsWhole ==
  ASSUME NEW l \in Lines \ Unended
  PROVE  whole_lines(Whole(l)) = {Whole(l)} /\ compacted(Whole(l)) = <<>>
BY WholeIs, OneLine

-----------------------------------------------------------------------------
(* FlattenSeq, which the properties of the streams are written with.       *)

\* Concatenation is associative, for all texts at once.
LEMMA Associative ==
  \A S : \A s, t, u \in Seq(S) : (s \o t) \o u = s \o (t \o u)
BY ConcatAssociative

\* The texts flattened so far, for each of them.
FlattensTo(seqs, n, f) ==
  f = [i \in 1 .. n |-> IF i = 1 THEN seqs[i] ELSE f[i - 1] \o seqs[i]]

\* There is such a function: with one for n - 1 texts there is one for n, so none is
\* the first to have none.
LEMMA FlattensToExists ==
  ASSUME NEW seqs, NEW n \in Nat \ {0}
  PROVE  \E f : FlattensTo(seqs, n, f)
<1> DEFINE B == {k \in Nat \ {0} : ~\E f : FlattensTo(seqs, k, f)}
<1>1. SUFFICES ASSUME B # {} PROVE FALSE
  BY <1>1
<1>2. B \in SUBSET Nat
  OBVIOUS
<1>3. PICK m \in B : \A x \in B : m <= x
  <2> HIDE DEF B
  <2> QED BY <1>1, <1>2, MinNat
<1>4. m \in Nat \ {0} /\ ~\E f : FlattensTo(seqs, m, f)
  OBVIOUS
<1>5. CASE m = 1
  <2> DEFINE g == [i \in 1 .. 1 |-> seqs[i]]
  <2>1. g = [i \in 1 .. 1 |-> IF i = 1 THEN seqs[i] ELSE g[i - 1] \o seqs[i]]
    OBVIOUS
  <2> HIDE DEF g
  <2>2. FlattensTo(seqs, m, g)
    BY <1>5, <2>1 DEF FlattensTo
  <2> QED BY <1>4, <2>2
<1>6. CASE m > 1
  <2>1. m - 1 \in Nat \ {0} /\ ~(m <= m - 1)
    BY <1>4, <1>6
  <2>2. PICK f : FlattensTo(seqs, m - 1, f)
    BY <1>3, <2>1
  <2> DEFINE g == [i \in 1 .. m |-> IF i < m THEN f[i] ELSE f[m - 1] \o seqs[m]]
  <2>3. ASSUME NEW i \in 1 .. m
        PROVE  g[i] = IF i = 1 THEN seqs[i] ELSE g[i - 1] \o seqs[i]
    <3>1. CASE i = m
      BY <1>4, <1>6, <3>1
    <3>2. CASE i < m
      <4>1. i \in 1 .. m - 1 /\ g[i] = f[i] /\ (i # 1 => g[i - 1] = f[i - 1])
        BY <1>4, <3>2
      <4>2. f[i] = IF i = 1 THEN seqs[i] ELSE f[i - 1] \o seqs[i]
        BY <2>2, <4>1 DEF FlattensTo
      <4> QED BY <4>1, <4>2
    <3> QED BY <1>4, <3>1, <3>2
  <2>4. FlattensTo(seqs, m, g)
    BY <2>3 DEF FlattensTo
  <2> HIDE DEF g
  <2> QED BY <1>4, <2>4
<1> QED BY <1>4, <1>5, <1>6

\* FlattenSeq goes through the texts from the first to the last.
LEMMA FlattenSeqIs ==
  ASSUME NEW S, NEW seqs \in Seq(Seq(S)), seqs # <<>>
  PROVE  \E f : /\ f \in [1 .. Len(seqs) -> Seq(S)]
                /\ f[1] = seqs[1]
                /\ \A i \in 2 .. Len(seqs) : f[i] = f[i - 1] \o seqs[i]
                /\ FlattenSeq(seqs) = f[Len(seqs)]
<1> DEFINE n == Len(seqs)
           f == CHOOSE g : FlattensTo(seqs, n, g)
<1>1. n \in Nat \ {0} /\ \A i \in 1 .. n : seqs[i] \in Seq(S)
  BY EmptySeq, ElementOfSeq
<1>2. FlattensTo(seqs, n, f)
  <2> HIDE DEF n
  <2> QED BY <1>1, FlattensToExists
<1>3. FlattenSeq(seqs) = f[n]
  BY <1>1, Zenon DEF FlattenSeq, FlattensTo
<1> HIDE DEF f, n
<1>4. /\ DOMAIN f = 1 .. n
      /\ \A i \in 1 .. n : f[i] = IF i = 1 THEN seqs[i] ELSE f[i - 1] \o seqs[i]
  <2> DEFINE h == [i \in 1 .. n |-> IF i = 1 THEN seqs[i] ELSE f[i - 1] \o seqs[i]]
  <2>1. f = h
    BY <1>2 DEF FlattensTo
  <2>2. DOMAIN h = 1 .. n
        /\ \A i \in 1 .. n : h[i] = IF i = 1 THEN seqs[i] ELSE f[i - 1] \o seqs[i]
    OBVIOUS
  <2> HIDE DEF h
  <2> QED BY <2>1, <2>2
<1>5. f[1] = seqs[1] /\ \A i \in 2 .. n : f[i] = f[i - 1] \o seqs[i]
  <2>1. 1 \in 1 .. n
    BY <1>1
  <2>2. ASSUME NEW i \in 2 .. n PROVE f[i] = f[i - 1] \o seqs[i]
    <3>1. i \in 1 .. n /\ i # 1
      BY <1>1
    <3> QED BY <1>4, <3>1
  <2> QED BY <1>4, <2>1, <2>2
<1>6. \A i \in 1 .. n : f[i] \in Seq(S)
  <2> DEFINE B == {i \in 1 .. n : f[i] \notin Seq(S)}
  <2>1. SUFFICES ASSUME B # {} PROVE FALSE
    OBVIOUS
  <2>2. B \in SUBSET Nat
    OBVIOUS
  <2>3. PICK m \in B : \A x \in B : m <= x
    <3> HIDE DEF B
    <3> QED BY <2>1, <2>2, MinNat
  <2>4. m \in 1 .. n /\ f[m] \notin Seq(S)
    OBVIOUS
  <2>5. m # 1
    BY <1>1, <1>5, <2>4
  <2>6. m - 1 \in 1 .. n /\ ~(m <= m - 1) /\ m \in 2 .. n
    BY <1>1, <2>4, <2>5
  <2>7. f[m - 1] \in Seq(S)
    BY <2>3, <2>6
  <2>8. f[m] = f[m - 1] \o seqs[m] /\ seqs[m] \in Seq(S)
    BY <1>1, <1>5, <2>4, <2>6
  <2>9. f[m - 1] \o seqs[m] \in Seq(S)
    BY <2>7, <2>8, ConcatProperties
  <2> QED BY <2>4, <2>8, <2>9
<1>7. f \in [1 .. n -> Seq(S)]
  <2>1. f = [i \in 1 .. n |-> f[i]]
    BY <1>2, <1>4 DEF FlattensTo
  <2> QED BY <1>6, <2>1
<1> QED BY <1>3, <1>5, <1>7 DEF n

\* The first text comes first, and then the others flattened.
LEMMA FlattenCons ==
  ASSUME NEW S, NEW x \in Seq(S), NEW s \in Seq(Seq(S))
  PROVE  /\ FlattenSeq(s) \in Seq(S)
         /\ FlattenSeq(<<>>) = <<>>
         /\ FlattenSeq(<<x>> \o s) = x \o FlattenSeq(s)
<1>1. FlattenSeq(<<>>) = <<>>
  BY DEF FlattenSeq
<1>8. \A a, b, c \in Seq(S) : (a \o b) \o c = a \o (b \o c)
  BY SMTT(30), Associative
<1>2. Len(s) \in Nat /\ <<x>> \in Seq(Seq(S)) /\ Len(<<x>>) = 1
  BY LenProperties
<1> DEFINE t == <<x>> \o s
<1>3. /\ t \in Seq(Seq(S)) /\ Len(t) = Len(s) + 1
      /\ \A i \in 1 .. Len(s) + 1 : t[i] = IF i = 1 THEN x ELSE s[i - 1]
  <2>1. /\ t \in Seq(Seq(S)) /\ Len(t) = Len(<<x>>) + Len(s)
        /\ \A i \in 1 .. Len(<<x>>) + Len(s) :
             t[i] = IF i <= Len(<<x>>) THEN <<x>>[i] ELSE s[i - Len(<<x>>)]
    BY <1>2, ConcatProperties
  <2> HIDE DEF t
  <2> QED BY <1>2, <2>1
<1>4. t # <<>>
  BY <1>2, <1>3, EmptySeq
<1> HIDE DEF t
<1>5. PICK f : /\ f \in [1 .. Len(t) -> Seq(S)] /\ f[1] = t[1]
               /\ \A i \in 2 .. Len(t) : f[i] = f[i - 1] \o t[i]
               /\ FlattenSeq(t) = f[Len(t)]
  BY <1>3, <1>4, FlattenSeqIs
<1>6. CASE s = <<>>
  <2>1. Len(s) = 0 /\ FlattenSeq(t) = x
    BY <1>2, <1>3, <1>5, <1>6, EmptySeq
  <2>2. x \o <<>> = x
    BY ConcatEmptySeq
  <2> QED BY <1>1, <1>6, <2>1, <2>2, EmptySeq DEF t
<1>7. CASE s # <<>>
  <2>1. PICK g : /\ g \in [1 .. Len(s) -> Seq(S)] /\ g[1] = s[1]
                 /\ \A i \in 2 .. Len(s) : g[i] = g[i - 1] \o s[i]
                 /\ FlattenSeq(s) = g[Len(s)]
    BY <1>7, FlattenSeqIs
  <2>2. Len(s) >= 1
    BY <1>2, <1>7, EmptySeq
  <2>3. \A i \in 1 .. Len(s) : f[i + 1] = x \o g[i]
    <3> DEFINE B == {i \in 1 .. Len(s) : f[i + 1] # x \o g[i]}
    <3>1. SUFFICES ASSUME B # {} PROVE FALSE
      OBVIOUS
    <3>2. B \in SUBSET Nat
      OBVIOUS
    <3>3. PICK m \in B : \A y \in B : m <= y
      <4> HIDE DEF B
      <4> QED BY <3>1, <3>2, MinNat
    <3>4. m \in 1 .. Len(s) /\ f[m + 1] # x \o g[m]
      OBVIOUS
    <3>5. f[m + 1] = f[m] \o s[m]
      <4>1. /\ m + 1 \in 2 .. Len(t) /\ m + 1 \in 1 .. Len(s) + 1
            /\ m + 1 # 1 /\ (m + 1) - 1 = m
        <5>1. Len(s) \in Nat /\ Len(t) = Len(s) + 1
          BY <1>2, <1>3
        <5> HIDE DEF B
        <5> QED BY <3>4, <5>1
      <4> QED BY <1>3, <1>5, <4>1
    <3>6. CASE m = 1
      <4>1. 1 \in 1 .. Len(s) + 1 /\ t[1] = x
        BY SMTT(30), <1>2, <1>3
      <4> QED BY <1>5, <2>1, <3>4, <3>5, <3>6, <4>1
    <3>7. CASE m # 1
      <4>1. m - 1 \in 1 .. Len(s) /\ ~(m <= m - 1) /\ m \in 2 .. Len(s) /\ (m - 1) + 1 = m
        BY <1>2, <3>4, <3>7
      <4>2. f[m] = x \o g[m - 1]
        BY <3>3, <4>1
      <4>3. g[m] = g[m - 1] \o s[m]
        BY <2>1, <4>1
      <4>4. g[m - 1] \in Seq(S)
        BY <2>1, <3>4, <4>1
      <4>5. s[m] \in Seq(S)
        BY <3>4, ElementOfSeq
      <4>6. (x \o g[m - 1]) \o s[m] = x \o (g[m - 1] \o s[m])
        BY <1>8, <4>4, <4>5
      <4> QED BY <3>4, <3>5, <4>2, <4>3, <4>6
    <3> QED BY <3>6, <3>7
  <2>4. FlattenSeq(t) = x \o FlattenSeq(s)
    <3>1. Len(s) \in 1 .. Len(s) /\ Len(t) = Len(s) + 1
      BY <1>2, <1>3, <2>2
    <3> QED BY <1>5, <2>1, <2>3, <3>1
  <2>5. FlattenSeq(s) \in Seq(S)
    <3>1. Len(s) \in 1 .. Len(s)
      BY <1>2, <2>2
    <3>2. g[Len(s)] \in Seq(S)
      BY <2>1, <3>1
    <3> QED BY <2>1, <3>2
  <2> QED BY <1>1, <2>4, <2>5 DEF t
<1> QED BY <1>6, <1>7

-----------------------------------------------------------------------------
(* How the server's descriptors, connections and events fit together.      *)

Broken == pc \in {"failed", "killed"}

\* The connections have descriptors from among the lowest ones, and rw_objs.
Descriptors ==
  /\ DOMAIN conn \subseteq 5 .. epoll_fd + connections_size
  /\ connection_socket \notin DOMAIN conn
  /\ DOMAIN conn \subseteq DOMAIN con2rw_obj

\* What main has done tells what it has.
Stages ==
  /\ pc = "start" => ~listening /\ connections_size = 0 /\ DOMAIN conn = {}
  /\ pc = "write" => writing \in DOMAIN evlist /\ "OUT" \in evlist[writing]
  /\ Broken => DOMAIN conn = {}
  /\ listening => connections_size < inputs_size
  /\ ~listening => backlog = <<>>

\* connections_limit counts the connections still to be made and those not closed.
Counting ==
  ~Broken => connections_limit = inputs_size - connections_size + Cardinality(DOMAIN conn)

\* A client is at most once in the backlog, or has one connection.
Peers ==
  /\ \A i, j \in DOMAIN backlog : backlog[i] = backlog[j] => i = j
  /\ \A i \in DOMAIN backlog : /\ client[backlog[i]] # "start"
                               /\ \A fd \in DOMAIN conn : conn[fd] # backlog[i]
  /\ \A fd \in DOMAIN conn : client[conn[fd]] # "start"

\* What epoll watches of a connection: that it can send, that it receives, or the end.
Watching ==
  /\ listening => interest[connection_socket] = {"IN"}
  /\ \A fd \in DOMAIN conn :
       /\ interest[fd] \in {{"OUT"}, {"IN", "RDHUP"}, {"RDHUP"}}
       /\ "OUT" \notin interest[fd] =>
            /\ rw_objs[Object(fd)].last_len = Len(rw_objs[Object(fd)].line_buf)
            /\ rw_objs[Object(fd)].last_len <= RD_BUF_SIZE

\* Events that are still to be handled have not become stale.
Pending ==
  /\ connection_socket \in DOMAIN evlist => backlog # <<>>
  /\ \A fd \in DOMAIN conn \cap DOMAIN evlist :
       "OUT" \in evlist[fd] => \/ Gone(conn[fd])
                               \/ Room(down[conn[fd]]) > 0
                               \/ pc = "write" /\ writing = fd

Structure ==
  TypeOK /\ OwnObject /\ Descriptors /\ Stages /\ Counting /\ Peers /\ Watching /\ Pending

-----------------------------------------------------------------------------
(* What the constants are, and what a descriptor stands for.               *)

RwObj == [fptr : Seq(Lines), file_open : BOOLEAN, line_buf : Seq(Symbols), last_len : Nat]

\* The numbers of files and descriptors, and the sizes of the buffers.
LEMMA Sizes ==
  /\ inputs_size \in Nat \ {0} /\ Objects = 0 .. inputs_size - 1
  /\ connection_socket = inputs_size + 5 /\ epoll_fd = inputs_size + 6
  /\ con2rw_obj_size = 3 * inputs_size + 5
  /\ RD_BUF_SIZE \in Nat \ {0} /\ BufferSize \in Nat \ {0}
  /\ \A o \in Objects : Inputs[o + 1] \in Seq(Lines)
<1>1. inputs_size \in Nat \ {0} /\ Inputs \in Seq(Seq(Lines))
  <2>1. Inputs \in Seq(Seq(Lines)) /\ Len(Inputs) > 0
    BY ServerAssumption
  <2>2. Len(Inputs) \in Nat
    BY <2>1, LenProperties
  <2> QED BY <2>1, <2>2 DEF inputs_size
<1>2. ASSUME NEW o \in Objects PROVE Inputs[o + 1] \in Seq(Lines)
  <2>1. o + 1 \in 1 .. Len(Inputs)
    BY <1>1 DEF Objects, inputs_size
  <2> QED BY <1>1, <2>1, ElementOfSeq
<1>3. connection_socket = inputs_size + 5 /\ epoll_fd = inputs_size + 6
  BY <1>1 DEF connection_socket, epoll_fd
<1>4. con2rw_obj_size = 3 * inputs_size + 5
  BY <1>1, <1>3 DEF con2rw_obj_size
<1>5. /\ RD_BUF_SIZE \in Nat \ {0} /\ BufferSize \in Nat \ {0}
      /\ Objects = 0 .. inputs_size - 1
  BY ServerAssumption, BufferAssumption DEF Objects
<1> QED BY <1>1, <1>2, <1>3, <1>4, <1>5

\* What an open connection has.
LEMMA ConnectionHas ==
  ASSUME Structure, NEW fd \in DOMAIN conn
  PROVE  /\ fd \in Nat /\ fd > 4 /\ fd # connection_socket
         /\ fd \in DOMAIN con2rw_obj /\ fd \in DOMAIN interest
         /\ conn[fd] \in Clients
         /\ Object(fd) \in Objects /\ Object(fd) < connections_size
         /\ rw_objs[Object(fd)] \in RwObj
         /\ interest[fd] \in {{"OUT"}, {"IN", "RDHUP"}, {"RDHUP"}}
         /\ down[conn[fd]] \in Seq(Symbols) /\ up[conn[fd]] \in Seq(Symbols)
         /\ Len(down[conn[fd]]) \in Nat /\ Len(down[conn[fd]]) <= BufferSize
         /\ ~Broken /\ pc # "start"
<1>1. fd \in 5 .. epoll_fd + connections_size /\ fd # connection_socket /\ fd \in DOMAIN con2rw_obj
  BY DEF Structure, Descriptors
<1>2. epoll_fd + connections_size \in Int
  BY Sizes DEF Structure, TypeOK, ServerTypeOK
<1>3. /\ conn[fd] \in Clients /\ fd \in DOMAIN interest
      /\ con2rw_obj[fd] \in Objects
      /\ rw_objs \in [Objects -> RwObj]
  BY <1>1 DEF Structure, TypeOK, ServerTypeOK, RwObj
<1>4. /\ down[conn[fd]] \in Seq(Symbols) /\ up[conn[fd]] \in Seq(Symbols)
      /\ Len(down[conn[fd]]) <= BufferSize
  BY <1>3 DEF Structure, TypeOK, SocketsTypeOK
<1>5. Object(fd) < connections_size
  BY DEF Structure, OwnObject, Object
<1>6. ~Broken /\ pc # "start"
  BY DEF Structure, Stages
<1>7. interest[fd] \in {{"OUT"}, {"IN", "RDHUP"}, {"RDHUP"}}
  BY DEF Structure, Watching
<1> QED BY <1>1, <1>2, <1>3, <1>4, <1>5, <1>6, <1>7, LenProperties DEF Object

\* An event is one that is watched: OUT while a connection sends, IN or RDHUP while
\* it receives, and only IN of the connection socket.
LEMMA EventOf ==
  ASSUME Structure, NEW fd \in DOMAIN evlist
  PROVE  /\ evlist[fd] # {} /\ evlist[fd] \subseteq interest[fd] /\ fd \in DOMAIN interest
         /\ fd \in DOMAIN conn \/ (fd = connection_socket /\ listening /\ evlist[fd] = {"IN"})
         /\ "OUT" \in evlist[fd] => fd \in DOMAIN conn /\ interest[fd] = {"OUT"}
         /\ "RDHUP" \in evlist[fd] => fd \in DOMAIN conn /\ "OUT" \notin interest[fd]
         /\ fd # connection_socket /\ "IN" \in evlist[fd] =>
              fd \in DOMAIN conn /\ interest[fd] = {"IN", "RDHUP"}
<1>1. /\ evlist[fd] # {} /\ evlist[fd] \subseteq interest[fd] /\ fd \in DOMAIN interest
      /\ fd \in DOMAIN conn \/ (fd = connection_socket /\ listening)
  BY DEF Structure, TypeOK, ServerTypeOK
<1>2. CASE fd \in DOMAIN conn
  <2>1. fd # connection_socket /\ interest[fd] \in {{"OUT"}, {"IN", "RDHUP"}, {"RDHUP"}}
    BY <1>2, ConnectionHas
  <2> QED BY <1>1, <1>2, <2>1
<1>3. CASE fd = connection_socket /\ listening
  <2>1. interest[fd] = {"IN"}
    BY <1>3 DEF Structure, Watching
  <2> QED BY <1>1, <1>3, <2>1
<1> QED BY <1>1, <1>2, <1>3

\* accept finds a free descriptor, no higher than one above those of connections made.
LEMMA LowestFree ==
  ASSUME Structure, listening
  PROVE  /\ lowest_fd \in 5 .. epoll_fd + connections_size + 1
         /\ lowest_fd \notin DOMAIN conn /\ lowest_fd # connection_socket
<1> DEFINE free == (0 .. 2 * epoll_fd) \ InUse
           next == epoll_fd + connections_size + 1
<1>1. connections_size \in Nat /\ connections_size < inputs_size
  BY Sizes DEF Structure, TypeOK, ServerTypeOK, Stages
<1>2. next \in 0 .. 2 * epoll_fd /\ next \in Nat /\ next > epoll_fd
  BY <1>1, Sizes
<1>3. next \notin InUse
  <2>1. next \notin DOMAIN conn
    BY <1>1, <1>2, Sizes DEF Structure, Descriptors
  <2>2. next \notin 0 .. 4 /\ next # connection_socket /\ next # epoll_fd
    BY <1>1, <1>2, Sizes
  <2>3. \A o \in Objects : next # input_fd(o)
    BY <1>1, <1>2, Sizes DEF input_fd
  <2> HIDE DEF next
  <2> QED BY <2>1, <2>2, <2>3 DEF InUse
<1>4. free \in SUBSET Nat /\ next \in free
  BY <1>2, <1>3
<1>5. lowest_fd \in free /\ \A x \in free : lowest_fd <= x
  <2> HIDE DEF free, next
  <2>1. lowest_fd = Min(free)
    BY DEF lowest_fd, free
  <2> QED BY <1>4, <2>1, MinNat
<1>6. lowest_fd <= next
  <2> HIDE DEF free
  <2> QED BY <1>4, <1>5
<1>7. lowest_fd \in Nat /\ lowest_fd \notin InUse
  BY <1>5
<1>8. lowest_fd \notin 0 .. 4 /\ lowest_fd \notin DOMAIN conn /\ lowest_fd # connection_socket
  BY <1>7 DEF InUse
<1> QED BY <1>2, <1>6, <1>7, <1>8

-----------------------------------------------------------------------------
(* Structure holds at first, and every step keeps it.                      *)

\* At first there is nothing but the rw_objs.
LEMMA StructureInit == Init => Structure
<1> SUFFICES ASSUME Init PROVE Structure
  OBVIOUS
<1> USE DEF Init, SocketsInit, ServerInit, ClientInit
<1>1. SocketsTypeOK
  <2>1. <<>> \in Seq(Symbols) /\ <<>> \in Seq(Clients) /\ Len(<<>>) <= BufferSize
    BY Sizes
  <2>2. \A c \in Clients : down[c] = <<>> /\ up[c] = <<>>
    OBVIOUS
  <2> QED BY <2>1, <2>2 DEF SocketsTypeOK
<1>2. NoObject \in RwObj
  BY EmptySeq DEF NoObject, RwObj
<1>3. ServerTypeOK
  <2>1. con2rw_obj = [fd \in 0 .. con2rw_obj_size - 1 |-> 0] /\ 0 \in Objects
    BY Sizes
  <2>2. \A fd \in DOMAIN con2rw_obj : con2rw_obj[fd] \in Objects
    BY <2>1
  <2>3. rw_objs \in [Objects -> RwObj]
    BY <1>2
  <2> QED BY SMTT(30), <2>2, <2>3, Sizes, EmptySeq DEF ServerTypeOK, PCs, RwObj
<1>4. ClientTypeOK
  BY EmptySeq DEF ClientTypeOK, ClientStates
<1>5. OwnObject /\ Descriptors /\ Stages /\ Peers /\ Watching /\ Pending
  BY Sizes DEF OwnObject, Descriptors, Stages, Peers, Watching, Pending, Broken
<1>6. Counting
  BY Sizes, FS_EmptySet DEF Counting
<1> QED BY <1>1, <1>3, <1>4, <1>5, <1>6 DEF Structure, TypeOK

\* Setting up registers the connection socket.
LEMMA SetupStructure ==
  ASSUME Structure, setup, UNCHANGED clientVars
  PROVE  Structure'
<1> USE DEF setup, clientVars
<1>1. pc = "start" /\ ~listening /\ connections_size = 0 /\ DOMAIN conn = {} /\ backlog = <<>>
  BY DEF Structure, Stages
<1>2. DOMAIN interest = {} /\ DOMAIN evlist = {}
  BY <1>1 DEF Structure, TypeOK, ServerTypeOK
<1>3. interest' = [fd \in {connection_socket} |-> {"IN"}] /\ DOMAIN interest' = {connection_socket}
      /\ interest'[connection_socket] = {"IN"}
  OBVIOUS
<1>4. SocketsTypeOK'
  BY <1>1 DEF Structure, TypeOK, SocketsTypeOK
<1>5. ServerTypeOK'
  BY <1>1, <1>2, <1>3 DEF Structure, TypeOK, ServerTypeOK, PCs
<1>6. ClientTypeOK'
  BY DEF Structure, TypeOK, ClientTypeOK
<1>7. OwnObject' /\ Descriptors'
  BY <1>1 DEF Structure, OwnObject, Descriptors
<1>8. Stages' /\ Counting'
  BY <1>1, Sizes DEF Structure, Stages, Counting, Broken
<1>9. Peers' /\ Watching' /\ Pending'
  BY <1>1, <1>2, <1>3 DEF Structure, Peers, Watching, Pending
<1> QED BY <1>4, <1>5, <1>6, <1>7, <1>8, <1>9 DEF Structure, TypeOK

\* An exit leaves no connections and no events.
LEMMA ExitStructure ==
  ASSUME Structure, NEW how \in {"failed", "killed"}, Exit(how), UNCHANGED clientVars
  PROVE  Structure'
<1> USE DEF Exit, clientVars
<1>1. DOMAIN conn' = {} /\ DOMAIN evlist' = {} /\ DOMAIN interest' = {} /\ DOMAIN backlog' = {}
  OBVIOUS
<1>2. SocketsTypeOK'
  BY EmptySeq DEF Structure, TypeOK, SocketsTypeOK
<1>3. ServerTypeOK'
  BY <1>1 DEF Structure, TypeOK, ServerTypeOK, PCs
<1>4. ClientTypeOK'
  BY DEF Structure, TypeOK, ClientTypeOK
<1>5. OwnObject' /\ Descriptors' /\ Stages' /\ Counting' /\ Peers' /\ Watching' /\ Pending'
  BY <1>1 DEF OwnObject, Descriptors, Stages, Counting, Peers, Watching, Pending, Broken
<1> QED BY <1>2, <1>3, <1>4, <1>5 DEF Structure, TypeOK

\* While the connections and their clients stay as they are, so does whose they are.
LEMMA SameConnections ==
  ASSUME Structure, UNCHANGED <<backlog, conn, con2rw_obj, connections_size, client>>
  PROVE  OwnObject' /\ Descriptors' /\ Peers'
BY DEF Structure, OwnObject, Descriptors, Peers

\* epoll_wait reports what is watched, and room where there is room.
LEMMA EpollWaitStructure ==
  ASSUME Structure, epoll_wait, UNCHANGED clientVars
  PROVE  Structure'
<1> USE DEF epoll_wait, clientVars, socketVars
<1>1. PICK batch \in SUBSET {fd \in DOMAIN interest : Events(fd) # {}} :
        evlist' = [fd \in batch |-> Events(fd)]
  OBVIOUS
<1>2. /\ DOMAIN evlist' = batch /\ batch \subseteq DOMAIN interest
      /\ \A fd \in batch : evlist'[fd] = Events(fd) /\ Events(fd) # {}
  BY <1>1
<1>3. \A fd \in DOMAIN interest : Events(fd) \subseteq interest[fd]
  BY DEF Events
<1>4. SocketsTypeOK' /\ ClientTypeOK'
  BY DEF Structure, TypeOK, SocketsTypeOK, ClientTypeOK
<1>5. ServerTypeOK'
  BY <1>2, <1>3 DEF Structure, TypeOK, ServerTypeOK, PCs
<1>6. OwnObject' /\ Descriptors' /\ Peers'
  BY SameConnections
<1>7. Stages' /\ Counting' /\ Watching'
  BY DEF Structure, Stages, Counting, Watching, Broken, Object
<1>8. Pending'
  <2>1. ASSUME connection_socket \in DOMAIN evlist' PROVE backlog' # <<>>
    <3>1. listening /\ Events(connection_socket) # {}
      BY <1>2, <2>1 DEF Structure, TypeOK, ServerTypeOK, Descriptors
    <3> QED BY <3>1 DEF Events
  <2>2. ASSUME NEW fd \in DOMAIN conn' \cap DOMAIN evlist', "OUT" \in evlist'[fd]
        PROVE  Gone(conn[fd])' \/ Room(down[conn[fd]])' > 0
    <3>1. fd \in DOMAIN conn /\ fd # connection_socket /\ "OUT" \in Events(fd)
      BY <1>2, <2>2 DEF Structure, Descriptors
    <3>2. Gone(conn[fd]) \/ Room(down[conn[fd]]) > 0
      BY <3>1 DEF Events
    <3> QED BY <3>2 DEF Gone, Room
  <2> QED BY <2>1, <2>2 DEF Pending
<1> QED BY <1>4, <1>5, <1>6, <1>7, <1>8 DEF Structure, TypeOK

\* A handled event is taken off the list, and main goes on or leaves the loop.
LEMMA HandledIs ==
  ASSUME NEW fd, Handled(fd)
  PROVE  /\ DOMAIN evlist' = DOMAIN evlist \ {fd}
         /\ \A g \in DOMAIN evlist' : evlist'[g] = evlist[g]
         /\ pc' \in {"events", "wait", "drain"}
BY DEF Handled, Restrict

Phases == {{"OUT"}, {"IN", "RDHUP"}, {"RDHUP"}}

\* What read_and_send and the reading of a connection have in common: one connection
\* is served, the others and the connection socket are left alone.
Serves(fd) ==
  /\ UNCHANGED <<listening, backlog, server_end, conn, con2rw_obj, connections_size,
                 connections_limit, output, clientVars>>
  /\ DOMAIN interest' = DOMAIN interest /\ interest'[fd] \in Phases
  /\ \A g \in DOMAIN interest \ {fd} : interest'[g] = interest[g]
  /\ pc \in {"events", "write"} /\ (pc = "write" => writing = fd)
  /\ \/ Handled(fd) /\ writing' = writing
     \/ /\ pc' = "write" /\ writing' = fd /\ evlist' = evlist
        /\ interest' = interest /\ "OUT" \in evlist[fd]
  /\ rw_objs' \in [Objects -> RwObj]
  /\ \A o \in Objects \ {Object(fd)} : rw_objs'[o] = rw_objs[o]
  /\ "OUT" \notin interest'[fd] =>
       /\ rw_objs'[Object(fd)].last_len = Len(rw_objs'[Object(fd)].line_buf)
       /\ rw_objs'[Object(fd)].last_len <= RD_BUF_SIZE
  /\ down' \in [Clients -> Seq(Symbols)] /\ up' \in [Clients -> Seq(Symbols)]
  /\ Len(down'[conn[fd]]) <= BufferSize /\ Len(up'[conn[fd]]) <= BufferSize
  /\ \A c \in Clients \ {conn[fd]} : down'[c] = down[c] /\ up'[c] = up[c]
  /\ client_end' \in [Clients -> {"none", "open", "closed", "reset"}]
  /\ \A c \in Clients : Gone(c)' <=> Gone(c)
  /\ heap_root' \subseteq Seq(Symbols)

\* Serving a connection leaves the others as they are.
LEMMA ServesStructure ==
  ASSUME Structure, NEW fd \in DOMAIN conn \cap DOMAIN evlist, Serves(fd)
  PROVE  Structure'
<1> USE DEF Serves
<1>1. /\ DOMAIN evlist' \subseteq DOMAIN evlist
      /\ \A g \in DOMAIN evlist' : evlist'[g] = evlist[g]
      /\ pc' \in {"events", "wait", "drain", "write"}
      /\ fd \notin DOMAIN evlist' \/ (pc' = "write" /\ writing' = fd /\ interest' = interest)
  BY HandledIs
<1>2. /\ conn[fd] \in Clients /\ fd \in Nat /\ fd \in DOMAIN interest
      /\ fd # connection_socket /\ ~Broken /\ Object(fd) \in Objects
  BY ConnectionHas
<1>3. SocketsTypeOK'
  <2>1. \A c \in Clients : Len(down'[c]) <= BufferSize /\ Len(up'[c]) <= BufferSize
    BY DEF Structure, TypeOK, SocketsTypeOK
  <2> QED BY <2>1 DEF Structure, TypeOK, SocketsTypeOK
<1>4. ServerTypeOK'
  <2>1. pc' \in PCs /\ writing' \in Nat
    BY <1>1, <1>2 DEF PCs, Structure, TypeOK, ServerTypeOK
  <2>2. DOMAIN evlist' \subseteq DOMAIN interest'
    BY <1>1 DEF Structure, TypeOK, ServerTypeOK
  <2>3. \A g \in DOMAIN evlist' : evlist'[g] # {} /\ evlist'[g] \subseteq interest'[g]
    BY <1>1 DEF Structure, TypeOK, ServerTypeOK
  <2>4. \A g \in DOMAIN interest' : interest'[g] \subseteq {"IN", "OUT", "RDHUP"}
    BY DEF Structure, TypeOK, ServerTypeOK, Phases
  <2> QED BY <2>1, <2>2, <2>3, <2>4 DEF Structure, TypeOK, ServerTypeOK, RwObj
<1>5. ClientTypeOK'
  BY DEF Structure, TypeOK, ClientTypeOK, clientVars
<1>6. OwnObject' /\ Descriptors' /\ Peers'
  BY SameConnections DEF clientVars
<1>7. Stages' /\ Counting'
  <2>1. pc' = "write" => writing' = fd /\ evlist' = evlist /\ "OUT" \in evlist[fd]
    BY HandledIs
  <2> QED BY <1>1, <1>2, <2>1 DEF Structure, Stages, Counting, Broken
<1>8. Watching'
  <2>1. listening' => interest'[connection_socket] = {"IN"}
    BY <1>2 DEF Structure, TypeOK, ServerTypeOK, Watching
  <2>2. ASSUME NEW g \in DOMAIN conn'
        PROVE  /\ interest'[g] \in Phases
               /\ "OUT" \notin interest'[g] =>
                    /\ rw_objs'[Object(g)].last_len = Len(rw_objs'[Object(g)].line_buf)
                    /\ rw_objs'[Object(g)].last_len <= RD_BUF_SIZE
    <3>1. CASE g = fd
      BY <3>1
    <3>2. CASE g # fd
      <4>1. g \in DOMAIN conn /\ Object(g) \in Objects /\ g \in DOMAIN interest
        BY ConnectionHas
      <4>2. Object(g) # Object(fd)
        BY <3>2, <4>1 DEF Structure, OwnObject, Object
      <4>3. rw_objs'[Object(g)] = rw_objs[Object(g)] /\ interest'[g] = interest[g]
        BY <3>2, <4>1, <4>2
      <4> QED BY <4>1, <4>3 DEF Structure, Watching, Phases
    <3> QED BY <3>1, <3>2
  <2> QED BY <2>1, <2>2 DEF Watching, Phases, Object
<1>9. Pending'
  <2>1. connection_socket \in DOMAIN evlist' => backlog' # <<>>
    BY <1>1 DEF Structure, Pending
  <2>2. ASSUME NEW g \in DOMAIN conn' \cap DOMAIN evlist', "OUT" \in evlist'[g]
        PROVE  \/ Gone(conn[g])' \/ Room(down[conn[g]])' > 0
               \/ pc' = "write" /\ writing' = g
    <3>1. CASE g = fd
      BY <1>1, <3>1
    <3>2. CASE g # fd
      <4>1. g \in DOMAIN conn /\ g \in DOMAIN evlist /\ "OUT" \in evlist[g]
        BY <1>1, <2>2
      <4>2. conn[g] # conn[fd] /\ conn[g] \in Clients
        BY <3>2, <4>1, ConnectionHas DEF Structure, OwnObject
      <4>3. Gone(conn[g]) \/ Room(down[conn[g]]) > 0
        BY <3>2, <4>1 DEF Structure, Pending
      <4>4. conn'[g] = conn[g] /\ down'[conn[g]] = down[conn[g]]
            /\ (Gone(conn[g])' <=> Gone(conn[g]))
        BY <4>2 DEF Gone
      <4> QED BY <4>3, <4>4 DEF Room, Gone
    <3> QED BY <3>1, <3>2
  <2> QED BY <2>1, <2>2 DEF Pending, Gone, Room
<1> QED BY <1>3, <1>4, <1>5, <1>6, <1>7, <1>8, <1>9 DEF Structure, TypeOK

\* SendRest and SendLine, before their write.
LEMMA SendStructure ==
  ASSUME Structure, NEW fd \in DOMAIN evlist, SendRest(fd) \/ SendLine(fd), UNCHANGED clientVars
  PROVE  fd \in DOMAIN conn /\ Serves(fd)
<1>1. pc = "events" /\ "OUT" \in evlist[fd]
  BY DEF SendRest, SendLine, Sending, Has
<1>2. fd \in DOMAIN conn /\ interest[fd] = {"OUT"}
  BY <1>1, EventOf
<1>3. Object(fd) \in Objects /\ rw_objs[Object(fd)] \in RwObj
  BY <1>2, ConnectionHas
<1>4. rw_objs \in [Objects -> RwObj]
  BY DEF Structure, TypeOK, ServerTypeOK, RwObj
<1>5. /\ rw_objs' \in [Objects -> RwObj]
      /\ \A o \in Objects \ {Object(fd)} : rw_objs'[o] = rw_objs[o]
  <2>1. CASE SendRest(fd)
    BY <1>4, <2>1 DEF SendRest
  <2>2. CASE SendLine(fd)
    <3> DEFINE obj == rw_objs[Object(fd)]
               sent == [obj EXCEPT !.line_buf = Whole(Head(obj.fptr)), !.last_len = 0,
                                   !.fptr = Tail(obj.fptr)]
    <3>1. obj.fptr \in Seq(Lines) /\ obj.fptr # <<>>
      BY <1>3, <2>2 DEF SendLine, RwObj
    <3>2. Head(obj.fptr) \in Lines /\ Tail(obj.fptr) \in Seq(Lines)
      BY <3>1, HeadTailProperties
    <3>3. Whole(Head(obj.fptr)) \in Seq(Symbols)
      BY <3>2, WholeIs
    <3>4. sent \in RwObj
      BY <1>3, <3>2, <3>3 DEF RwObj
    <3>5. rw_objs' = [rw_objs EXCEPT ![Object(fd)] = sent]
      BY <2>2 DEF SendLine
    <3> HIDE DEF sent
    <3> QED BY <1>3, <1>4, <3>4, <3>5
  <2> QED BY <2>1, <2>2
<1>6. UNCHANGED <<socketVars, evlist, interest, conn, con2rw_obj, connections_size,
                  connections_limit, heap_root, output>>
      /\ pc' = "write" /\ writing' = fd
  BY DEF SendRest, SendLine
<1>7. SocketsTypeOK /\ heap_root \subseteq Seq(Symbols)
  BY DEF Structure, TypeOK, ServerTypeOK
<1> QED BY <1>1, <1>2, <1>3, <1>5, <1>6, <1>7, ConnectionHas
        DEF Serves, Phases, socketVars, SocketsTypeOK, Gone

\* How much of a text a write puts in, and that it fits.
LEMMA FittingIs ==
  ASSUME NEW text \in Seq(Symbols), NEW stream \in Seq(Symbols),
         Fitting(text, stream) > 0, Len(stream) <= BufferSize
  PROVE  /\ Fitting(text, stream) \in 1 .. Len(text)
         /\ SubSeq(text, 1, Fitting(text, stream)) \in Seq(Symbols)
         /\ Len(SubSeq(text, 1, Fitting(text, stream))) = Fitting(text, stream)
         /\ Len(stream \o SubSeq(text, 1, Fitting(text, stream))) <= BufferSize
<1> DEFINE n == Fitting(text, stream)
<1>1. Len(text) \in Nat /\ Len(stream) \in Nat /\ BufferSize \in Nat
  BY LenProperties, Sizes
<1>2. n \in 1 .. Len(text) /\ n <= BufferSize - Len(stream)
  BY <1>1 DEF Fitting, Room
<1>3. \A i \in 1 .. n : text[i] \in Symbols
  BY <1>1, <1>2, ElementOfSeq
<1> HIDE DEF n
<1>4. SubSeq(text, 1, n) \in Seq(Symbols) /\ Len(SubSeq(text, 1, n)) = n
  <2>1. n \in Int
    BY <1>2
  <2> QED BY <1>2, <1>3, <2>1, SubSeqProperties
<1>5. Len(stream \o SubSeq(text, 1, n)) = Len(stream) + n
  BY <1>4, ConcatProperties
<1> QED BY <1>1, <1>2, <1>4, <1>5 DEF n

\* What is left of the line to be written.
LEMMA RestIs ==
  ASSUME NEW t \in Seq(Symbols), NEW m \in Nat
  PROVE  /\ SubSeq(t, m + 1, Len(t)) \in Seq(Symbols)
         /\ Len(SubSeq(t, m + 1, Len(t))) = IF m <= Len(t) THEN Len(t) - m ELSE 0
         /\ \A i \in 1 .. Len(t) - m : SubSeq(t, m + 1, Len(t))[i] = t[m + i]
<1>1. Len(t) \in Nat /\ m + 1 \in Int /\ Len(t) \in Int
  BY LenProperties
<1>2. \A i \in m + 1 .. Len(t) : t[i] \in Symbols
  BY <1>1, ElementOfSeq
<1>3. /\ SubSeq(t, m + 1, Len(t)) \in Seq(Symbols)
      /\ Len(SubSeq(t, m + 1, Len(t))) =
           IF m + 1 <= Len(t) THEN Len(t) - (m + 1) + 1 ELSE 0
      /\ \A i \in 1 .. Len(t) - (m + 1) + 1 :
           SubSeq(t, m + 1, Len(t))[i] = t[(m + 1) + i - 1]
  BY <1>1, <1>2, SubSeqProperties
<1> QED BY <1>1, <1>3

\* What a write in read_and_send is for, while it waits.
LEMMA WritingIs ==
  ASSUME Structure, pc = "write"
  PROVE  /\ writing \in DOMAIN evlist /\ writing \in DOMAIN conn
         /\ "OUT" \in evlist[writing] /\ interest[writing] = {"OUT"}
<1>1. writing \in DOMAIN evlist /\ "OUT" \in evlist[writing]
  BY DEF Structure, Stages
<1> QED BY <1>1, EventOf

\* A write that puts in something.
LEMMA WriteLineStructure ==
  ASSUME Structure, write_line, UNCHANGED clientVars
  PROVE  writing \in DOMAIN conn \cap DOMAIN evlist /\ Serves(writing)
<1> DEFINE c    == conn[writing]
           obj  == rw_objs[Object(writing)]
           rest == SubSeq(obj.line_buf, obj.last_len + 1, Len(obj.line_buf))
           n    == Fitting(rest, down[c])
<1>1. pc = "write" /\ n > 0
  BY DEF write_line
<1>2. /\ down' = [down EXCEPT ![c] = @ \o SubSeq(rest, 1, n)]
      /\ rw_objs' = [rw_objs EXCEPT ![Object(writing)].last_len = @ + n]
      /\ Handled(writing) \/ UNCHANGED <<pc, evlist>>
      /\ UNCHANGED <<listening, backlog, client_end, server_end, up, writing, interest, conn,
                     con2rw_obj, connections_size, connections_limit, heap_root, output>>
  BY DEF write_line
<1>3. /\ writing \in DOMAIN evlist /\ writing \in DOMAIN conn
      /\ "OUT" \in evlist[writing] /\ interest[writing] = {"OUT"}
  BY <1>1, WritingIs
<1>4. /\ Object(writing) \in Objects /\ obj \in RwObj /\ c \in Clients
      /\ down[c] \in Seq(Symbols) /\ Len(down[c]) <= BufferSize
  BY <1>3, ConnectionHas
<1>5. obj.line_buf \in Seq(Symbols) /\ obj.last_len \in Nat
  BY <1>4 DEF RwObj
<1>6. rest \in Seq(Symbols)
  BY <1>5, RestIs
<1> HIDE DEF rest, obj, c
<1>7. /\ n \in Nat /\ SubSeq(rest, 1, n) \in Seq(Symbols)
      /\ Len(down[c] \o SubSeq(rest, 1, n)) <= BufferSize
  BY <1>1, <1>4, <1>6, FittingIs
<1> HIDE DEF n
<1>8. down[c] \o SubSeq(rest, 1, n) \in Seq(Symbols)
  BY <1>4, <1>7, ConcatProperties
<1>9. rw_objs \in [Objects -> RwObj] /\ SocketsTypeOK /\ heap_root \subseteq Seq(Symbols)
  BY DEF Structure, TypeOK, ServerTypeOK, RwObj
<1>10. /\ rw_objs' \in [Objects -> RwObj]
       /\ \A o \in Objects \ {Object(writing)} : rw_objs'[o] = rw_objs[o]
  <2> DEFINE sent == [obj EXCEPT !.last_len = obj.last_len + n]
  <2>1. sent \in RwObj
    BY SMTT(30), <1>4, <1>5, <1>7 DEF RwObj
  <2>2. rw_objs' = [rw_objs EXCEPT ![Object(writing)] = sent]
    BY <1>2 DEF obj
  <2> HIDE DEF sent
  <2> QED BY <1>4, <1>9, <2>1, <2>2
<1>11. /\ down' \in [Clients -> Seq(Symbols)] /\ Len(down'[c]) <= BufferSize
       /\ \A d \in Clients \ {c} : down'[d] = down[d]
  BY <1>2, <1>4, <1>7, <1>8, <1>9 DEF SocketsTypeOK
<1>12. /\ up' \in [Clients -> Seq(Symbols)] /\ Len(up'[c]) <= BufferSize
       /\ client_end' \in [Clients -> {"none", "open", "closed", "reset"}]
       /\ \A d \in Clients : Gone(d)' <=> Gone(d)
  BY <1>2, <1>4, <1>9 DEF SocketsTypeOK, Gone
<1>13. \/ Handled(writing) /\ writing' = writing
       \/ pc' = "write" /\ writing' = writing /\ evlist' = evlist /\ interest' = interest
  BY <1>1, <1>2
<1> QED BY <1>1, <1>2, <1>3, <1>9, <1>10, <1>11, <1>12, <1>13, ConnectionHas
        DEF Serves, Phases, c

\* A reset is reported; a client that is gone stays gone.
LEMMA ReportedIs ==
  ASSUME SocketsTypeOK, NEW c \in Clients, Reported(c)
  PROVE  /\ client_end' \in [Clients -> {"none", "open", "closed", "reset"}]
         /\ \A d \in Clients : Gone(d)' <=> Gone(d)
         /\ \A d \in Clients : client_end'[d] = client_end[d]
                                 \/ (Gone(d) /\ client_end'[d] = "closed")
BY DEF SocketsTypeOK, Reported, Gone

\* A write that is lost.
LEMMA WriteLostStructure ==
  ASSUME Structure, write_lost_line, UNCHANGED clientVars
  PROVE  writing \in DOMAIN conn \cap DOMAIN evlist /\ Serves(writing)
<1> DEFINE c    == conn[writing]
           obj  == rw_objs[Object(writing)]
<1>1. pc = "write" /\ Reported(c) /\ Handled(writing)
  BY DEF write_lost_line
<1>2. UNCHANGED <<listening, backlog, server_end, down, up, writing, interest, conn, con2rw_obj,
                  connections_size, connections_limit, heap_root, output>>
  BY DEF write_lost_line
<1>3. /\ writing \in DOMAIN evlist /\ writing \in DOMAIN conn
      /\ "OUT" \in evlist[writing] /\ interest[writing] = {"OUT"}
  BY <1>1, WritingIs
<1>4. Object(writing) \in Objects /\ obj \in RwObj /\ c \in Clients
  BY <1>3, ConnectionHas
<1>5. obj.line_buf \in Seq(Symbols) /\ obj.last_len \in Nat /\ Len(obj.line_buf) \in Nat
  BY <1>4, LenProperties DEF RwObj
<1>6. PICK n \in Nat : rw_objs' = [rw_objs EXCEPT ![Object(writing)].last_len = n]
  <2>1. PICK n \in {Len(obj.line_buf)} \cup {m \in {obj.last_len, obj.last_len - 1} :
                                               m >= 0 /\ client_end[c] = "reset"} :
          rw_objs' = [rw_objs EXCEPT ![Object(writing)].last_len = n]
    BY DEF write_lost_line
  <2>2. n \in Nat
    BY <1>5
  <2> QED BY <2>1, <2>2
<1>7. rw_objs \in [Objects -> RwObj] /\ SocketsTypeOK /\ heap_root \subseteq Seq(Symbols)
  BY DEF Structure, TypeOK, ServerTypeOK, RwObj
<1>8. /\ rw_objs' \in [Objects -> RwObj]
      /\ \A o \in Objects \ {Object(writing)} : rw_objs'[o] = rw_objs[o]
  <2> DEFINE sent == [obj EXCEPT !.last_len = n]
  <2>1. sent \in RwObj
    BY <1>4, <1>5, <1>6 DEF RwObj
  <2>2. rw_objs' = [rw_objs EXCEPT ![Object(writing)] = sent]
    BY <1>6
  <2> HIDE DEF sent
  <2> QED BY <1>4, <1>7, <2>1, <2>2
<1>9. /\ client_end' \in [Clients -> {"none", "open", "closed", "reset"}]
      /\ \A d \in Clients : Gone(d)' <=> Gone(d)
  BY <1>1, <1>4, <1>7, ReportedIs
<1> QED BY <1>1, <1>2, <1>3, <1>4, <1>7, <1>8, <1>9, ConnectionHas
        DEF Serves, Phases, SocketsTypeOK

\* Turning round: what SendsStop says, and that it is one connection that is served.
LEMMA SendStopStructure ==
  ASSUME Structure, NEW fd \in DOMAIN evlist, SendStop(fd), UNCHANGED clientVars
  PROVE  fd \in DOMAIN conn /\ Serves(fd)
<1> DEFINE c == conn[fd]
<1>1. /\ pc = "events" /\ "OUT" \in evlist[fd] /\ Handled(fd) /\ Reported(c)
  BY DEF SendStop, SendsStop, Sending, Has
<1>2. /\ down' = IF Gone(c) THEN down ELSE [down EXCEPT ![c] = Append(@, STOP)]
      /\ rw_objs' = [rw_objs EXCEPT ![Object(fd)] = [NoObject EXCEPT !.file_open = FALSE]]
      /\ interest' = [interest EXCEPT ![fd] = {"IN", "RDHUP"}]
      /\ UNCHANGED <<listening, backlog, server_end, up, writing, conn, con2rw_obj,
                     connections_size, connections_limit, heap_root, output>>
  BY DEF SendStop
<1>3. fd \in DOMAIN conn /\ interest[fd] = {"OUT"}
  BY <1>1, EventOf
<1>4. /\ Object(fd) \in Objects /\ c \in Clients /\ fd \in DOMAIN interest
      /\ down[c] \in Seq(Symbols) /\ Len(down[c]) \in Nat
  BY <1>3, ConnectionHas
<1>5. rw_objs \in [Objects -> RwObj] /\ SocketsTypeOK /\ heap_root \subseteq Seq(Symbols)
  BY DEF Structure, TypeOK, ServerTypeOK, RwObj
<1>6. /\ rw_objs' \in [Objects -> RwObj]
      /\ \A o \in Objects \ {Object(fd)} : rw_objs'[o] = rw_objs[o]
      /\ rw_objs'[Object(fd)].last_len = Len(rw_objs'[Object(fd)].line_buf)
      /\ rw_objs'[Object(fd)].last_len <= RD_BUF_SIZE
  <2> DEFINE turned == [NoObject EXCEPT !.file_open = FALSE]
  <2>1. turned \in RwObj /\ turned.last_len = 0 /\ turned.line_buf = <<>>
    BY EmptySeq DEF NoObject, RwObj
  <2>2. rw_objs' = [rw_objs EXCEPT ![Object(fd)] = turned]
    BY <1>2
  <2> HIDE DEF turned
  <2>3. rw_objs'[Object(fd)] = turned /\ Len(turned.line_buf) = 0
    BY <1>4, <1>5, <2>1, <2>2
  <2> QED BY <1>4, <1>5, <2>1, <2>2, <2>3, Sizes
<1>7. /\ down' \in [Clients -> Seq(Symbols)] /\ Len(down'[c]) <= BufferSize
      /\ \A d \in Clients \ {c} : down'[d] = down[d]
  <2>1. CASE Gone(c)
    BY <1>2, <1>4, <1>5, <2>1 DEF SocketsTypeOK
  <2>2. CASE ~Gone(c)
    <3>1. Room(down[c]) > 0
      BY <1>1, <1>3, <2>2 DEF Structure, Pending
    <3>2. STOP \in Symbols
      BY DEF Symbols
    <3>3. Append(down[c], STOP) \in Seq(Symbols)
          /\ Len(Append(down[c], STOP)) = Len(down[c]) + 1
      BY <1>4, <3>2, AppendProperties
    <3>4. Len(Append(down[c], STOP)) <= BufferSize
      BY <1>4, <3>1, <3>3, Sizes DEF Room
    <3>5. down' = [down EXCEPT ![c] = Append(down[c], STOP)]
      BY <1>2, <2>2
    <3> QED BY <1>4, <1>5, <3>3, <3>4, <3>5 DEF SocketsTypeOK
  <2> QED BY <2>1, <2>2
<1>8. /\ client_end' \in [Clients -> {"none", "open", "closed", "reset"}]
      /\ \A d \in Clients : Gone(d)' <=> Gone(d)
  BY <1>1, <1>4, <1>5, ReportedIs
<1>9. /\ DOMAIN interest' = DOMAIN interest /\ interest'[fd] = {"IN", "RDHUP"}
      /\ \A g \in DOMAIN interest \ {fd} : interest'[g] = interest[g]
  BY <1>2, <1>4
<1> QED BY <1>1, <1>2, <1>3, <1>4, <1>5, <1>6, <1>7, <1>8, <1>9
        DEF Serves, Phases, SocketsTypeOK

\* A text is what is taken of it and what is left.
LEMMA Split ==
  ASSUME NEW t \in Seq(Symbols), NEW m \in 0 .. Len(t)
  PROVE  /\ SubSeq(t, 1, m) \in Seq(Symbols) /\ Len(SubSeq(t, 1, m)) = m
         /\ SubSeq(t, m + 1, Len(t)) \in Seq(Symbols)
         /\ Len(SubSeq(t, m + 1, Len(t))) = Len(t) - m
         /\ SubSeq(t, 1, m) \o SubSeq(t, m + 1, Len(t)) = t
<1>1. Len(t) \in Nat /\ m \in Nat /\ m <= Len(t)
  BY LenProperties
<1>2. SubSeq(t, m + 1, Len(t)) \in Seq(Symbols) /\ Len(SubSeq(t, m + 1, Len(t))) = Len(t) - m
  BY <1>1, RestIs
<1>3. SubSeq(t, 1, m) \in Seq(Symbols) /\ Len(SubSeq(t, 1, m)) = m
  <2>1. \A i \in 1 .. m : t[i] \in Symbols
    BY <1>1, ElementOfSeq
  <2>2. /\ SubSeq(t, 1, m) \in Seq(Symbols)
        /\ Len(SubSeq(t, 1, m)) = IF 1 <= m THEN m - 1 + 1 ELSE 0
    BY <1>1, <2>1, SubSeqProperties
  <2> QED BY <1>1, <2>2
<1>4. SubSeq(t, 1, m) \o SubSeq(t, m + 1, Len(t)) = SubSeq(t, 1, Len(t))
  <2>1. 1 \in 1 .. Len(t) + 1 /\ m \in 1 - 1 .. Len(t) /\ Len(t) \in m .. Len(t)
    BY <1>1
  <2> QED BY <2>1, ConcatAdjacentSubSeq
<1> QED BY <1>2, <1>3, <1>4, SubSeqFull

\* What a read takes, what that and line_buf make, and what the server has in all of
\* what comes back.
Taken(fd) == Min({RD_BUF_SIZE - rw_objs[Object(fd)].last_len, Len(up[conn[fd]])})
Got(fd)   == rw_objs[Object(fd)].line_buf \o SubSeq(up[conn[fd]], 1, Taken(fd))
Left(fd)  == SubSeq(up[conn[fd]], Taken(fd) + 1, Len(up[conn[fd]]))
Came(fd)  == rw_objs[Object(fd)].line_buf \o up[conn[fd]]

\* What Receive does, for an event that is still true.
LEMMA ReceiveIs ==
  ASSUME Structure, NEW fd \in DOMAIN evlist, Receive(fd)
  PROVE  /\ pc = "events" /\ fd \in DOMAIN conn /\ interest[fd] = {"IN", "RDHUP"}
         /\ "IN" \in evlist[fd] /\ Handled(fd)
         /\ Taken(fd) \in 0 .. Len(up[conn[fd]])
         /\ Taken(fd) = 0 => up[conn[fd]] = <<>> \/ rw_objs[Object(fd)].last_len = RD_BUF_SIZE
         /\ rw_objs[Object(fd)].line_buf \in Seq(Symbols)
         /\ Got(fd) \in Seq(Symbols) /\ Len(Got(fd)) <= RD_BUF_SIZE
         /\ Left(fd) \in Seq(Symbols) /\ Len(Left(fd)) <= Len(up[conn[fd]])
         /\ Came(fd) = Got(fd) \o Left(fd)
         /\ up' = [up EXCEPT ![conn[fd]] = Left(fd)]
         /\ heap_root' = heap_root \cup whole_lines(Got(fd))
         /\ rw_objs' = [rw_objs EXCEPT ![Object(fd)].line_buf = compacted(Got(fd)),
                                       ![Object(fd)].last_len = Len(compacted(Got(fd)))]
         /\ interest' = AfterRead(fd, Taken(fd))
<1> DEFINE c == conn[fd]   obj == rw_objs[Object(fd)]   ret == Taken(fd)
<1>1. pc = "events" /\ fd # connection_socket /\ "IN" \in evlist[fd] /\ Handled(fd)
  BY DEF Receive, Has
<1>2. fd \in DOMAIN conn /\ interest[fd] = {"IN", "RDHUP"}
  BY <1>1, EventOf
<1>3. obj \in RwObj /\ up[c] \in Seq(Symbols) /\ c \in Clients /\ Len(up[c]) \in Nat
  BY <1>2, ConnectionHas, LenProperties
<1>4. /\ obj.line_buf \in Seq(Symbols) /\ obj.last_len \in Nat
      /\ obj.last_len = Len(obj.line_buf) /\ obj.last_len <= RD_BUF_SIZE
  BY <1>2, <1>3 DEF RwObj, Structure, Watching
<1>5. ret = IF RD_BUF_SIZE - obj.last_len <= Len(up[c])
            THEN RD_BUF_SIZE - obj.last_len ELSE Len(up[c])
  <2>1. RD_BUF_SIZE - obj.last_len \in Int /\ Len(up[c]) \in Int
    BY <1>3, <1>4, Sizes
  <2> QED BY <2>1, MinPair DEF Taken
<1> HIDE DEF ret, obj, c
<1>6. /\ ret \in 0 .. Len(up[c]) /\ ret <= RD_BUF_SIZE - obj.last_len
      /\ ret = 0 => Len(up[c]) = 0 \/ obj.last_len = RD_BUF_SIZE
  <2> DEFINE n == Len(up[c])   m == obj.last_len
  <2>1. n \in Nat /\ m \in Nat /\ m <= RD_BUF_SIZE /\ RD_BUF_SIZE \in Nat
    BY <1>3, <1>4, Sizes
  <2>2. ret = IF RD_BUF_SIZE - m <= n THEN RD_BUF_SIZE - m ELSE n
    BY <1>5
  <2> HIDE DEF n, m
  <2>3. ret \in 0 .. n /\ ret <= RD_BUF_SIZE - m /\ (ret = 0 => n = 0 \/ m = RD_BUF_SIZE)
    BY <2>1, <2>2
  <2> QED BY <2>3 DEF n, m
<1>7. ret = 0 => up[c] = <<>> \/ obj.last_len = RD_BUF_SIZE
  BY <1>3, <1>6, EmptySeq
<1>8. /\ SubSeq(up[c], 1, ret) \in Seq(Symbols) /\ Len(SubSeq(up[c], 1, ret)) = ret
      /\ SubSeq(up[c], ret + 1, Len(up[c])) \in Seq(Symbols)
      /\ Len(SubSeq(up[c], ret + 1, Len(up[c]))) = Len(up[c]) - ret
      /\ SubSeq(up[c], 1, ret) \o SubSeq(up[c], ret + 1, Len(up[c])) = up[c]
  BY <1>3, <1>6, Split
<1>9. Got(fd) = obj.line_buf \o SubSeq(up[c], 1, ret) /\ Left(fd) = SubSeq(up[c], ret + 1, Len(up[c]))
  BY DEF Got, Left, obj, c, ret
<1>10. Got(fd) \in Seq(Symbols) /\ Len(Got(fd)) <= RD_BUF_SIZE
  <2>1. Len(Got(fd)) = obj.last_len + ret /\ Got(fd) \in Seq(Symbols)
    BY <1>4, <1>8, <1>9, ConcatProperties
  <2> QED BY <1>3, <1>4, <1>6, <2>1, Sizes
<1>11. Came(fd) = Got(fd) \o Left(fd)
  <2>1. Came(fd) = obj.line_buf \o (SubSeq(up[c], 1, ret) \o SubSeq(up[c], ret + 1, Len(up[c])))
    <3>1. Came(fd) = obj.line_buf \o up[c]
      BY DEF Came, obj, c
    <3> QED BY <1>8, <3>1
  <2> DEFINE a == obj.line_buf   b == SubSeq(up[c], 1, ret)
             d == SubSeq(up[c], ret + 1, Len(up[c]))
  <2>2. a \in Seq(Symbols) /\ b \in Seq(Symbols) /\ d \in Seq(Symbols)
    BY <1>4, <1>8
  <2> HIDE DEF a, b, d
  <2>3. (a \o b) \o d = a \o (b \o d)
    BY <2>2, ConcatAssociative
  <2> QED BY <1>9, <2>1, <2>3 DEF a, b, d
<1>12. /\ up' = [up EXCEPT ![conn[fd]] = Left(fd)]
       /\ heap_root' = heap_root \cup whole_lines(Got(fd))
       /\ rw_objs' = [rw_objs EXCEPT ![Object(fd)].line_buf = compacted(Got(fd)),
                                     ![Object(fd)].last_len = Len(compacted(Got(fd)))]
       /\ interest' = AfterRead(fd, Taken(fd))
  BY DEF Receive, Got, Left, Taken
<1>13. Len(Left(fd)) <= Len(up[c])
  BY <1>3, <1>6, <1>8, <1>9
<1> QED BY <1>1, <1>2, <1>4, <1>6, <1>7, <1>8, <1>9, <1>10, <1>11, <1>12, <1>13 DEF obj, c, ret

\* A reading serves one connection.
LEMMA ReceiveStructure ==
  ASSUME Structure, NEW fd \in DOMAIN evlist, Receive(fd), UNCHANGED clientVars
  PROVE  fd \in DOMAIN conn /\ Serves(fd)
<1> DEFINE c == conn[fd]   obj == rw_objs[Object(fd)]   text == Got(fd)
<1>1. /\ pc = "events" /\ fd \in DOMAIN conn /\ interest[fd] = {"IN", "RDHUP"} /\ Handled(fd)
      /\ text \in Seq(Symbols) /\ Len(text) <= RD_BUF_SIZE
      /\ Left(fd) \in Seq(Symbols) /\ Len(Left(fd)) <= Len(up[c])
      /\ up' = [up EXCEPT ![c] = Left(fd)]
      /\ heap_root' = heap_root \cup whole_lines(text)
      /\ rw_objs' = [rw_objs EXCEPT ![Object(fd)].line_buf = compacted(text),
                                    ![Object(fd)].last_len = Len(compacted(text))]
      /\ interest' = AfterRead(fd, Taken(fd))
  BY ReceiveIs
<1>2. UNCHANGED <<listening, backlog, client_end, server_end, down, writing, conn, con2rw_obj,
                  connections_size, connections_limit, output>>
  BY DEF Receive
<1>3. /\ Object(fd) \in Objects /\ c \in Clients /\ obj \in RwObj
      /\ up[c] \in Seq(Symbols) /\ fd \in DOMAIN interest
  BY <1>1, ConnectionHas
<1>4. rw_objs \in [Objects -> RwObj] /\ SocketsTypeOK /\ heap_root \subseteq Seq(Symbols)
  BY DEF Structure, TypeOK, ServerTypeOK, RwObj
<1>5. /\ compacted(text) \in Seq(Symbols) /\ Len(compacted(text)) \in Nat
      /\ Len(compacted(text)) <= RD_BUF_SIZE
  <2>1. LastEnd(text) \in Nat /\ Len(text) \in Nat
    BY <1>1, LastEndIs, LenProperties
  <2> HIDE DEF text
  <2>2. compacted(text) \in Seq(Symbols) /\ Len(compacted(text)) = Len(text) - LastEnd(text)
    BY <1>1, CompactedIs
  <2>3. Len(compacted(text)) \in Nat
    BY <2>2, LenProperties
  <2> QED BY <1>1, <2>1, <2>2, <2>3, Sizes
<1>6. whole_lines(text) \subseteq Seq(Symbols)
  <2> HIDE DEF text
  <2> SUFFICES ASSUME NEW w \in whole_lines(text) PROVE w \in Seq(Symbols)
    OBVIOUS
  <2>1. PICK j \in LineEnds(text), a \in Nat : Line(text, a, j) /\ w = SubSeq(text, a + 1, j)
    BY <1>1, WholeLinesAre
  <2>2. j \in 1 .. Len(text) /\ Len(text) \in Nat
    BY <1>1, <2>1, LastEndIs, LenProperties
  <2>3. \A i \in a + 1 .. j : text[i] \in Symbols
    BY <1>1, <2>2, ElementOfSeq
  <2> QED BY <2>1, <2>2, <2>3, SubSeqProperties
<1> HIDE DEF text
<1>7. /\ rw_objs' \in [Objects -> RwObj]
      /\ \A o \in Objects \ {Object(fd)} : rw_objs'[o] = rw_objs[o]
      /\ rw_objs'[Object(fd)].last_len = Len(rw_objs'[Object(fd)].line_buf)
      /\ rw_objs'[Object(fd)].last_len <= RD_BUF_SIZE
  <2> DEFINE got == [obj EXCEPT !.line_buf = compacted(text), !.last_len = Len(compacted(text))]
  <2>1. /\ got \in RwObj /\ got.line_buf = compacted(text)
        /\ got.last_len = Len(compacted(text))
    BY <1>3, <1>5 DEF RwObj
  <2>2. rw_objs' = [rw_objs EXCEPT ![Object(fd)] = got]
    BY <1>1
  <2> HIDE DEF got
  <2>3. rw_objs'[Object(fd)] = got
    BY <1>3, <1>4, <2>2
  <2> QED BY <1>3, <1>4, <1>5, <2>1, <2>2, <2>3
<1>8. /\ up' \in [Clients -> Seq(Symbols)] /\ Len(up'[c]) <= BufferSize
      /\ \A d \in Clients \ {c} : up'[d] = up[d]
  <2>1. Len(up[c]) <= BufferSize /\ Len(up[c]) \in Nat /\ Len(Left(fd)) \in Nat
    BY <1>1, <1>3, <1>4, LenProperties DEF SocketsTypeOK
  <2>2. Len(Left(fd)) <= BufferSize
    BY <1>1, <2>1, Sizes
  <2> QED BY <1>1, <1>3, <1>4, <2>2 DEF SocketsTypeOK
<1>9. /\ DOMAIN interest' = DOMAIN interest /\ interest'[fd] \in {{"IN", "RDHUP"}, {"RDHUP"}}
      /\ \A g \in DOMAIN interest \ {fd} : interest'[g] = interest[g]
  BY <1>1, <1>3 DEF AfterRead
<1>10. /\ down' \in [Clients -> Seq(Symbols)] /\ Len(down'[c]) <= BufferSize
       /\ client_end' \in [Clients -> {"none", "open", "closed", "reset"}]
       /\ \A d \in Clients : (Gone(d)' <=> Gone(d)) /\ down'[d] = down[d]
  BY <1>2, <1>3, <1>4 DEF SocketsTypeOK, Gone
<1> QED BY <1>1, <1>2, <1>4, <1>6, <1>7, <1>8, <1>9, <1>10 DEF Serves, Phases

\* There are finitely many connections.
LEMMA FiniteConnections ==
  ASSUME Structure
  PROVE  IsFiniteSet(DOMAIN conn) /\ Cardinality(DOMAIN conn) \in Nat
<1>1. DOMAIN conn \in SUBSET (5 .. epoll_fd + connections_size)
  BY DEF Structure, Descriptors
<1>2. epoll_fd + connections_size \in Int /\ 5 \in Int
  BY Sizes DEF Structure, TypeOK, ServerTypeOK
<1>3. IsFiniteSet(5 .. epoll_fd + connections_size)
  BY <1>2, FS_Interval
<1> QED BY <1>1, <1>3, FS_Subset, FS_CardinalityType

\* What a hang-up that is handled tells.
LEMMA HangupIs ==
  ASSUME Structure, NEW fd \in DOMAIN evlist, Hangup(fd)
  PROVE  /\ fd \in DOMAIN conn /\ Handled(fd) /\ pc = "events" /\ evlist[fd] = {"RDHUP"}
         /\ DOMAIN conn' = DOMAIN conn \ {fd} /\ DOMAIN interest' = DOMAIN interest \ {fd}
         /\ \A g \in DOMAIN conn' : conn'[g] = conn[g]
         /\ \A g \in DOMAIN interest' : interest'[g] = interest[g]
<1>1. "RDHUP" \in evlist[fd] /\ pc = "events" /\ evlist[fd] \cap {"IN", "OUT"} = {} /\ Handled(fd)
  BY DEF Hangup, OnlyHungUp, Has
<1>2. fd \in DOMAIN conn /\ evlist[fd] \subseteq interest[fd]
  BY <1>1, EventOf
<1>3. interest[fd] \subseteq {"IN", "OUT", "RDHUP"}
  BY <1>2, ConnectionHas
<1>4. evlist[fd] = {"RDHUP"}
  BY <1>1, <1>2, <1>3
<1> QED BY <1>1, <1>2, <1>4 DEF Hangup, Unregistered, Restrict

\* A hang-up takes away one connection.
LEMMA HangupStructure ==
  ASSUME Structure, NEW fd \in DOMAIN evlist, Hangup(fd), UNCHANGED clientVars
  PROVE  Structure'
<1>1. /\ fd \in DOMAIN conn /\ Handled(fd) /\ pc = "events"
      /\ DOMAIN conn' = DOMAIN conn \ {fd} /\ DOMAIN interest' = DOMAIN interest \ {fd}
      /\ \A g \in DOMAIN conn' : conn'[g] = conn[g]
      /\ \A g \in DOMAIN interest' : interest'[g] = interest[g]
  BY HangupIs
<1>2. /\ UNCHANGED <<listening, backlog, client_end, down, up, writing, con2rw_obj, rw_objs,
                     connections_size, heap_root, output>>
      /\ connections_limit' = connections_limit - 1
      /\ server_end' = [server_end EXCEPT ![conn[fd]] = "closed"]
  BY DEF Hangup
<1>3. /\ DOMAIN evlist' = DOMAIN evlist \ {fd}
      /\ \A g \in DOMAIN evlist' : evlist'[g] = evlist[g]
      /\ pc' \in {"events", "wait", "drain"}
  BY <1>1, HandledIs
<1>4. fd # connection_socket /\ ~Broken
  BY <1>1, ConnectionHas
<1>5. SocketsTypeOK' /\ ClientTypeOK'
  BY <1>2 DEF Structure, TypeOK, SocketsTypeOK, ClientTypeOK, clientVars
<1>6. /\ connections_limit = inputs_size - connections_size + Cardinality(DOMAIN conn)
      /\ Cardinality(DOMAIN conn') = Cardinality(DOMAIN conn) - 1
      /\ Cardinality(DOMAIN conn') \in Nat /\ Cardinality(DOMAIN conn) \in Nat
  <2>1. IsFiniteSet(DOMAIN conn) /\ Cardinality(DOMAIN conn) \in Nat
    BY FiniteConnections
  <2>2. /\ IsFiniteSet(DOMAIN conn \ {fd})
        /\ Cardinality(DOMAIN conn \ {fd}) = Cardinality(DOMAIN conn) - 1
    BY <1>1, <2>1, FS_RemoveElement
  <2>3. Cardinality(DOMAIN conn \ {fd}) \in Nat
    BY <2>2, FS_CardinalityType
  <2> QED BY <1>1, <1>4, <2>1, <2>2, <2>3 DEF Structure, Counting
<1>7. connections_size \in 0 .. inputs_size /\ connections_limit \in 0 .. inputs_size
  BY DEF Structure, TypeOK, ServerTypeOK
<1>8. connections_limit' \in 0 .. inputs_size
  BY <1>2, <1>6, <1>7, Sizes
<1>9. ServerTypeOK'
  BY <1>1, <1>2, <1>3, <1>4, <1>8 DEF Structure, TypeOK, ServerTypeOK, PCs
<1>10. OwnObject' /\ Descriptors' /\ Peers'
  BY <1>1, <1>2 DEF Structure, OwnObject, Descriptors, Peers, clientVars
<1>11. Stages'
  BY <1>2, <1>3 DEF Structure, Stages, Broken
<1>12. Counting'
  BY <1>2, <1>6, <1>7, Sizes DEF Counting
<1>13. Watching'
  BY <1>1, <1>2, <1>4 DEF Structure, TypeOK, ServerTypeOK, Watching, Object
<1>14. Pending'
  BY <1>1, <1>2, <1>3 DEF Structure, Pending, Gone, Room
<1> QED BY <1>5, <1>9, <1>10, <1>11, <1>12, <1>13, <1>14 DEF Structure, TypeOK

\* What accept does: the oldest client of the backlog gets a free descriptor and the
\* next rw_obj.
LEMMA AcceptIs ==
  ASSUME Structure, accept
  PROVE  /\ connection_socket \in DOMAIN evlist /\ pc = "events" /\ Handled(connection_socket)
         /\ listening /\ backlog # <<>> /\ Head(backlog) \in Clients
         /\ connections_size \in 0 .. inputs_size - 1
         /\ lowest_fd \in 5 .. epoll_fd + connections_size + 1
         /\ lowest_fd \notin DOMAIN conn /\ lowest_fd # connection_socket
         /\ DOMAIN conn' = DOMAIN conn \cup {lowest_fd}
         /\ conn'[lowest_fd] = Head(backlog)
         /\ \A g \in DOMAIN conn : conn'[g] = conn[g] /\ con2rw_obj'[g] = con2rw_obj[g]
         /\ DOMAIN con2rw_obj' = DOMAIN con2rw_obj \cup {lowest_fd}
         /\ con2rw_obj'[lowest_fd] = connections_size
         /\ \A g \in DOMAIN con2rw_obj \ {lowest_fd} : con2rw_obj'[g] = con2rw_obj[g]
         /\ rw_objs' = [rw_objs EXCEPT ![connections_size] =
                          [NoObject EXCEPT !.fptr = Inputs[connections_size + 1]]]
         /\ lowest_fd \in DOMAIN interest' /\ interest'[lowest_fd] = {"OUT"}
         /\ DOMAIN interest' = DOMAIN conn' \cup (IF listening' THEN {connection_socket} ELSE {})
         /\ \A g \in DOMAIN interest \cap DOMAIN interest' : interest'[g] = interest[g]
         /\ listening' = (connections_size + 1 # inputs_size)
<1>1. /\ connection_socket \in DOMAIN evlist /\ pc = "events" /\ Handled(connection_socket)
      /\ listening
  BY DEF accept, Has
<1>2. backlog # <<>> /\ backlog \in Seq(Clients)
  BY <1>1 DEF Structure, Pending, TypeOK, SocketsTypeOK
<1>3. Head(backlog) \in Clients
  BY <1>2, HeadTailProperties
<1>4. connections_size \in 0 .. inputs_size - 1
  BY <1>1, Sizes DEF Structure, TypeOK, ServerTypeOK, Stages
<1>5. /\ lowest_fd \in 5 .. epoll_fd + connections_size + 1
      /\ lowest_fd \notin DOMAIN conn /\ lowest_fd # connection_socket
  BY <1>1, LowestFree
<1>6. /\ conn' = Entered(conn, lowest_fd, Head(backlog))
      /\ con2rw_obj' = Entered(con2rw_obj, lowest_fd, connections_size)
      /\ rw_objs' = [rw_objs EXCEPT ![connections_size] =
                          [NoObject EXCEPT !.fptr = Inputs[connections_size + 1]]]
      /\ IF connections_size + 1 = inputs_size
         THEN /\ interest' = Entered(Unregistered(connection_socket), lowest_fd, {"OUT"})
              /\ listening' = FALSE
         ELSE /\ interest' = Entered(interest, lowest_fd, {"OUT"})
              /\ listening' = listening
  BY DEF accept, assigned, Stop_listening
<1>7. DOMAIN interest = DOMAIN conn \cup {connection_socket} /\ connection_socket \notin DOMAIN conn
  BY <1>1 DEF Structure, TypeOK, ServerTypeOK, Descriptors
<1>8. /\ DOMAIN conn' = DOMAIN conn \cup {lowest_fd} /\ conn'[lowest_fd] = Head(backlog)
      /\ \A g \in DOMAIN conn : conn'[g] = conn[g]
  BY <1>5, <1>6 DEF Entered
<1>9. /\ DOMAIN con2rw_obj' = DOMAIN con2rw_obj \cup {lowest_fd}
      /\ con2rw_obj'[lowest_fd] = connections_size
      /\ \A g \in DOMAIN con2rw_obj \ {lowest_fd} : con2rw_obj'[g] = con2rw_obj[g]
      /\ \A g \in DOMAIN conn : con2rw_obj'[g] = con2rw_obj[g]
  BY <1>5, <1>6 DEF Entered, Structure, Descriptors
<1>10. /\ lowest_fd \in DOMAIN interest' /\ interest'[lowest_fd] = {"OUT"}
       /\ DOMAIN interest' = DOMAIN conn' \cup (IF listening' THEN {connection_socket} ELSE {})
       /\ \A g \in DOMAIN interest \cap DOMAIN interest' : interest'[g] = interest[g]
       /\ listening' = (connections_size + 1 # inputs_size)
  <2>1. CASE connections_size + 1 = inputs_size
    BY ZenonT(30), <1>5, <1>6, <1>7, <1>8, <2>1 DEF Entered, Unregistered, Restrict
  <2>2. CASE connections_size + 1 # inputs_size
    BY <1>1, <1>5, <1>6, <1>7, <1>8, <2>2 DEF Entered
  <2> QED BY <2>1, <2>2
<1> QED BY <1>1, <1>2, <1>3, <1>4, <1>5, <1>6, <1>8, <1>9, <1>10

\* The new connection has a descriptor, an rw_obj and a client of its own.
LEMMA AcceptStructure ==
  ASSUME Structure, accept, UNCHANGED clientVars
  PROVE  Structure'
<1>1. /\ connection_socket \in DOMAIN evlist /\ pc = "events" /\ Handled(connection_socket)
      /\ listening /\ backlog # <<>> /\ Head(backlog) \in Clients
      /\ connections_size \in 0 .. inputs_size - 1
      /\ lowest_fd \in 5 .. epoll_fd + connections_size + 1
      /\ lowest_fd \notin DOMAIN conn /\ lowest_fd # connection_socket
      /\ DOMAIN conn' = DOMAIN conn \cup {lowest_fd}
      /\ conn'[lowest_fd] = Head(backlog)
      /\ \A g \in DOMAIN conn : conn'[g] = conn[g] /\ con2rw_obj'[g] = con2rw_obj[g]
      /\ DOMAIN con2rw_obj' = DOMAIN con2rw_obj \cup {lowest_fd}
      /\ con2rw_obj'[lowest_fd] = connections_size
      /\ \A g \in DOMAIN con2rw_obj \ {lowest_fd} : con2rw_obj'[g] = con2rw_obj[g]
      /\ rw_objs' = [rw_objs EXCEPT ![connections_size] =
                       [NoObject EXCEPT !.fptr = Inputs[connections_size + 1]]]
      /\ lowest_fd \in DOMAIN interest' /\ interest'[lowest_fd] = {"OUT"}
      /\ DOMAIN interest' = DOMAIN conn' \cup (IF listening' THEN {connection_socket} ELSE {})
      /\ \A g \in DOMAIN interest \cap DOMAIN interest' : interest'[g] = interest[g]
      /\ listening' = (connections_size + 1 # inputs_size)
  BY AcceptIs
<1>2. /\ connections_size' = connections_size + 1
      /\ UNCHANGED <<client_end, down, up, writing, heap_root, output, connections_limit>>
      /\ IF connections_size + 1 = inputs_size
         THEN Stop_listening({Head(backlog)})
         ELSE backlog' = Tail(backlog) /\ UNCHANGED <<listening, server_end>>
  BY DEF accept
<1> DEFINE f == lowest_fd
<1>3. /\ DOMAIN evlist' = DOMAIN evlist \ {connection_socket}
      /\ \A g \in DOMAIN evlist' : evlist'[g] = evlist[g]
      /\ pc' \in {"events", "wait", "drain"}
  BY <1>1, HandledIs
<1>4. /\ \A g \in DOMAIN conn : g # f /\ g # connection_socket /\ g \in DOMAIN interest
      /\ DOMAIN interest = DOMAIN conn \cup {connection_socket}
      /\ \A g \in DOMAIN conn : interest'[g] = interest[g]
  BY <1>1 DEF Structure, TypeOK, ServerTypeOK, Descriptors
<1>5. /\ backlog \in Seq(Clients) /\ Len(backlog) \in Nat \ {0} /\ DOMAIN backlog = 1 .. Len(backlog)
      /\ Head(backlog) = backlog[1]
  <2>1. backlog \in Seq(Clients)
    BY DEF Structure, TypeOK, SocketsTypeOK
  <2> QED BY <1>1, <2>1, LenProperties, EmptySeq
<1>6. /\ backlog' \in Seq(Clients)
      /\ \A i \in DOMAIN backlog' : i + 1 \in DOMAIN backlog /\ backlog'[i] = backlog[i + 1]
                                      /\ i \in Nat \ {0}
      /\ ~listening' => backlog' = <<>>
  <2>1. CASE connections_size + 1 = inputs_size
    BY <1>1, <1>2, <2>1, EmptySeq DEF Stop_listening
  <2>2. CASE connections_size + 1 # inputs_size
    <3>1. backlog' = Tail(backlog)
      BY <1>2, <2>2
    <3>2. /\ backlog' \in Seq(Clients) /\ Len(backlog') = Len(backlog) - 1
          /\ \A i \in 1 .. Len(backlog') : backlog'[i] = backlog[i + 1]
      BY <1>1, <1>5, <3>1, HeadTailProperties
    <3>3. DOMAIN backlog' = 1 .. Len(backlog')
      BY <3>2, LenProperties
    <3>4. listening'
      BY <1>1, <2>2
    <3> QED BY <1>5, <3>2, <3>3, <3>4
  <2> QED BY <2>1, <2>2
<1> HIDE DEF f
<1>7. SocketsTypeOK'
  <2>1. server_end' \in [Clients -> {"none", "open", "closed"}]
    BY <1>2 DEF Structure, TypeOK, SocketsTypeOK, Stop_listening
  <2>2. listening' \in BOOLEAN
    BY <1>1
  <2> QED BY <1>2, <1>6, <2>1, <2>2 DEF Structure, TypeOK, SocketsTypeOK
<1>8. ClientTypeOK'
  BY DEF Structure, TypeOK, ClientTypeOK, clientVars
<1>9. f \in Nat /\ f > 4 /\ f <= epoll_fd + connections_size' /\ connections_size' \in 1 .. inputs_size
  <2>1. /\ connections_size \in Nat /\ connections_size + 1 <= inputs_size
        /\ inputs_size \in Nat /\ epoll_fd \in Nat
    <3>1. connections_size \in 0 .. inputs_size - 1
      BY <1>1
    <3>2. inputs_size \in Nat \ {0} /\ epoll_fd = inputs_size + 6
      BY Sizes
    <3> QED BY <3>1, <3>2
  <2>2. f \in Nat /\ f > 4 /\ f <= epoll_fd + (connections_size + 1)
    BY <1>1, <2>1 DEF f
  <2> QED BY <1>2, <2>1, <2>2
<1>10. rw_objs' \in [Objects -> RwObj]
  <2> DEFINE new == [NoObject EXCEPT !.fptr = Inputs[connections_size + 1]]
  <2>1. connections_size \in Objects
    BY <1>1, Sizes
  <2>2. Inputs[connections_size + 1] \in Seq(Lines)
    BY <2>1, Sizes
  <2>3. new \in RwObj
    BY <2>2, EmptySeq DEF NoObject, RwObj
  <2>4. rw_objs \in [Objects -> RwObj]
    BY DEF Structure, TypeOK, ServerTypeOK, RwObj
  <2> HIDE DEF new
  <2>5. rw_objs' = [rw_objs EXCEPT ![connections_size] = new]
    BY <1>1 DEF new
  <2> QED BY <2>1, <2>3, <2>4, <2>5
<1>11. ServerTypeOK'
  <2>1. pc' \in PCs /\ writing' \in Nat
    BY <1>2, <1>3 DEF PCs, Structure, TypeOK, ServerTypeOK
  <2>2. DOMAIN evlist' \subseteq DOMAIN interest'
    BY <1>1, <1>3, <1>4 DEF Structure, TypeOK, ServerTypeOK
  <2>3. \A g \in DOMAIN evlist' : evlist'[g] # {} /\ evlist'[g] \subseteq interest'[g]
    BY <1>3, <1>4 DEF Structure, TypeOK, ServerTypeOK
  <2>4. \A g \in DOMAIN interest' : interest'[g] \subseteq {"IN", "OUT", "RDHUP"}
    BY <1>1, <1>4 DEF Structure, TypeOK, ServerTypeOK
  <2>5. \A g \in DOMAIN conn' : g > 4 /\ conn'[g] \in Clients
    BY <1>1, <1>9 DEF Structure, TypeOK, ServerTypeOK, f
  <2>6. \A g \in DOMAIN con2rw_obj' : con2rw_obj'[g] \in Objects
    BY <1>1, Sizes DEF Structure, TypeOK, ServerTypeOK
  <2>7. UNCHANGED <<connections_limit, heap_root, output>> /\ connections_size' \in 0 .. inputs_size
    BY <1>2, <1>9, Sizes
  <2> QED BY <1>1, <1>10, <2>1, <2>2, <2>3, <2>4, <2>5, <2>6, <2>7
          DEF Structure, TypeOK, ServerTypeOK, RwObj
<1>12. OwnObject'
  <2>1. \A g \in DOMAIN conn : con2rw_obj[g] < connections_size /\ con2rw_obj[g] \in Nat
    BY Sizes DEF Structure, OwnObject, Descriptors, TypeOK, ServerTypeOK
  <2>2. \A g \in DOMAIN conn : conn[g] # Head(backlog)
    BY <1>5 DEF Structure, Peers
  <2>3. ASSUME NEW g \in DOMAIN conn', NEW h \in DOMAIN conn',
               con2rw_obj'[g] = con2rw_obj'[h] \/ conn'[g] = conn'[h]
        PROVE  g = h
    <3>1. CASE g \in DOMAIN conn /\ h \in DOMAIN conn
      BY <1>1, <2>3, <3>1 DEF Structure, OwnObject
    <3>2. CASE g = lowest_fd /\ h \in DOMAIN conn
      BY <1>1, <2>1, <2>2, <2>3, <3>2
    <3>3. CASE h = lowest_fd /\ g \in DOMAIN conn
      BY <1>1, <2>1, <2>2, <2>3, <3>3
    <3> QED BY <1>1, <3>1, <3>2, <3>3
  <2>4. \A g \in DOMAIN conn' : con2rw_obj'[g] < connections_size'
    BY <1>1, <1>2, <2>1
  <2> QED BY <2>3, <2>4 DEF OwnObject
<1>13. Descriptors'
  <2>1. connections_size \in Nat /\ connections_size' = connections_size + 1 /\ epoll_fd \in Nat
    BY SMTT(30), <1>1, <1>2, Sizes
  <2>2. DOMAIN conn' \subseteq 5 .. epoll_fd + connections_size'
    BY <1>1, <2>1 DEF Structure, Descriptors
  <2>3. connection_socket \notin DOMAIN conn' /\ DOMAIN conn' \subseteq DOMAIN con2rw_obj'
    BY <1>1 DEF Structure, Descriptors
  <2> QED BY <2>2, <2>3 DEF Descriptors
<1>14. Stages'
  <2>1. listening' => connections_size' < inputs_size
    <3>1. listening' => connections_size + 1 # inputs_size
      BY <1>1
    <3>2. connections_size + 1 <= inputs_size /\ connections_size + 1 \in Nat /\ inputs_size \in Nat
      <4>1. connections_size \in 0 .. inputs_size - 1
        BY <1>1
      <4>2. inputs_size \in Nat \ {0}
        BY Sizes
      <4> QED BY <4>1, <4>2
    <3>3. connections_size + 1 # inputs_size => connections_size + 1 < inputs_size
      BY <3>2
    <3> QED BY <1>2, <3>1, <3>3
  <2> QED BY <1>3, <1>6, <2>1 DEF Stages, Broken
<1>15. Counting'
  <2>1. IsFiniteSet(DOMAIN conn) /\ Cardinality(DOMAIN conn) \in Nat
    BY FiniteConnections
  <2>2. Cardinality(DOMAIN conn') = Cardinality(DOMAIN conn) + 1
    BY <1>1, <2>1, FS_AddElement
  <2>3. connections_limit = inputs_size - connections_size + Cardinality(DOMAIN conn)
    BY <1>1 DEF Structure, Counting, Broken
  <2>4. connections_limit' = inputs_size - connections_size' + Cardinality(DOMAIN conn')
    BY <1>1, <1>2, <2>1, <2>2, <2>3, Sizes
  <2> QED BY <2>4 DEF Counting
<1>16. Peers'
  <2>1. client' = client
    BY DEF clientVars
  <2>2. \A i, j \in DOMAIN backlog : backlog[i] = backlog[j] => i = j
    BY DEF Structure, Peers
  <2>3. ASSUME NEW i \in DOMAIN backlog', NEW j \in DOMAIN backlog', backlog'[i] = backlog'[j]
        PROVE  i = j
    <3>1. i + 1 = j + 1 /\ i \in Nat /\ j \in Nat
      BY <1>6, <2>2, <2>3
    <3> QED BY <3>1
  <2>4. ASSUME NEW i \in DOMAIN backlog'
        PROVE  client'[backlog'[i]] # "start" /\ \A g \in DOMAIN conn' : conn'[g] # backlog'[i]
    <3>1. i + 1 \in DOMAIN backlog /\ backlog'[i] = backlog[i + 1] /\ i + 1 # 1 /\ 1 \in DOMAIN backlog
      BY <1>5, <1>6
    <3>2. backlog[i + 1] # Head(backlog)
      BY <1>5, <2>2, <3>1
    <3> QED BY <1>1, <2>1, <3>1, <3>2 DEF Structure, Peers
  <2>5. \A g \in DOMAIN conn' : client'[conn'[g]] # "start"
    BY <1>1, <1>5, <2>1 DEF Structure, Peers
  <2> QED BY <2>3, <2>4, <2>5 DEF Peers
<1>17. Watching'
  <2>1. listening' => interest'[connection_socket] = {"IN"}
    BY <1>1, <1>4 DEF Structure, Watching
  <2>2. ASSUME NEW g \in DOMAIN conn'
        PROVE  /\ interest'[g] \in Phases
               /\ "OUT" \notin interest'[g] =>
                    /\ rw_objs'[con2rw_obj'[g]].last_len = Len(rw_objs'[con2rw_obj'[g]].line_buf)
                    /\ rw_objs'[con2rw_obj'[g]].last_len <= RD_BUF_SIZE
    <3>1. CASE g = lowest_fd
      BY <1>1, <3>1 DEF Phases
    <3>2. CASE g \in DOMAIN conn
      <4>1. /\ con2rw_obj[g] \in Objects /\ con2rw_obj[g] < connections_size
            /\ interest[g] \in Phases
        BY <3>2, ConnectionHas DEF Object, Phases
      <4>2. con2rw_obj[g] # connections_size
        BY <1>1, <4>1, Sizes
      <4>3. rw_objs \in [Objects -> RwObj]
        BY DEF Structure, TypeOK, ServerTypeOK, RwObj
      <4>4. rw_objs'[con2rw_obj[g]] = rw_objs[con2rw_obj[g]]
        BY <1>1, <4>1, <4>2, <4>3
      <4> QED BY <1>1, <1>4, <3>2, <4>1, <4>4 DEF Structure, Watching, Object
    <3> QED BY <1>1, <3>1, <3>2
  <2> QED BY <2>1, <2>2 DEF Watching, Phases, Object
<1>18. Pending'
  <2>1. ASSUME NEW g \in DOMAIN conn' \cap DOMAIN evlist', "OUT" \in evlist'[g]
        PROVE  Gone(conn[g])' \/ Room(down[conn[g]])' > 0
    <3>1. g \in DOMAIN conn /\ g \in DOMAIN evlist /\ evlist'[g] = evlist[g]
      <4>1. g \in DOMAIN evlist /\ g # connection_socket
        BY <1>3
      <4>2. g \in DOMAIN interest
        BY <4>1 DEF Structure, TypeOK, ServerTypeOK
      <4> QED BY <1>3, <1>4, <4>1, <4>2
    <3>2. Gone(conn[g]) \/ Room(down[conn[g]]) > 0
      BY <1>1, <2>1, <3>1 DEF Structure, Pending
    <3> QED BY <1>1, <1>2, <3>1, <3>2 DEF Gone, Room
  <2>2. connection_socket \notin DOMAIN evlist'
    BY <1>3
  <2> QED BY <2>1, <2>2 DEF Pending, Gone, Room
<1> QED BY <1>7, <1>8, <1>11, <1>12, <1>13, <1>14, <1>15, <1>16, <1>17, <1>18 DEF Structure, TypeOK

\* Printing, and the end.
LEMMA PrintStructure ==
  ASSUME Structure, print \/ finish, UNCHANGED clientVars
  PROVE  Structure'
<1> USE DEF print, finish, clientVars, socketVars
<1>1. /\ UNCHANGED <<socketVars, writing, evlist, interest, conn, con2rw_obj, rw_objs,
                     connections_size, connections_limit, client, line_buf, root, buf>>
      /\ pc = "drain" /\ pc' \in {"drain", "done"}
  OBVIOUS
<1>2. heap_root \subseteq Seq(Symbols) /\ output \in Seq(Seq(Symbols))
  BY DEF Structure, TypeOK, ServerTypeOK
<1>3. heap_root' \subseteq Seq(Symbols) /\ output' \in Seq(Seq(Symbols))
  <2>1. CASE print
    <3>1. PICK text \in Smallest(heap_root) : /\ heap_root' = heap_root \ {text}
                                              /\ output' = Append(output, text)
      BY <2>1
    <3>2. text \in Seq(Symbols)
      BY <1>2 DEF Smallest
    <3> QED BY <1>2, <3>1, <3>2, AppendProperties
  <2>2. CASE finish
    BY <1>2, <2>2
  <2> QED BY <2>1, <2>2
<1>4. SocketsTypeOK' /\ ClientTypeOK'
  BY <1>1 DEF Structure, TypeOK, SocketsTypeOK, ClientTypeOK
<1>5. ServerTypeOK'
  BY <1>1, <1>3 DEF Structure, TypeOK, ServerTypeOK, PCs
<1>6. OwnObject' /\ Descriptors' /\ Peers'
  BY <1>1, SameConnections
<1>7. Stages' /\ Counting' /\ Watching'
  BY <1>1 DEF Structure, Stages, Counting, Watching, Broken, Object
<1>8. Pending'
  BY <1>1 DEF Structure, Pending, Gone, Room
<1> QED BY <1>4, <1>5, <1>6, <1>7, <1>8 DEF Structure, TypeOK

\* What the steps of a client have in common: it does not start anew or come back,
\* it takes from the socket to it, and it has no part in those of others.
Moves(c) ==
  /\ UNCHANGED <<listening, serverVars>>
  /\ \/ backlog' = backlog
     \/ listening /\ client[c] = "start" /\ backlog' = Append(backlog, c)
  /\ ClientTypeOK' /\ client'[c] # "start"
  /\ \A d \in Clients \ {c} : client'[d] = client[d]
  /\ client_end' \in [Clients -> {"none", "open", "closed", "reset"}]
  /\ server_end' \in [Clients -> {"none", "open", "closed"}]
  /\ down' \in [Clients -> Seq(Symbols)] /\ up' \in [Clients -> Seq(Symbols)]
  /\ Len(down'[c]) <= Len(down[c]) /\ Len(up'[c]) <= BufferSize
  /\ \A d \in Clients \ {c} : /\ down'[d] = down[d] /\ up'[d] = up[d]
                              /\ client_end'[d] = client_end[d] /\ server_end'[d] = server_end[d]
                              /\ line_buf'[d] = line_buf[d] /\ root'[d] = root[d]
                              /\ buf'[d] = buf[d]
  /\ client[c] # "start" /\ Gone(c) => Gone(c)'

\* A client's move leaves the server's connections alone.
LEMMA MovesStructure ==
  ASSUME Structure, NEW c \in Clients, Moves(c)
  PROVE  Structure'
<1> USE DEF Moves, serverVars
<1>1. /\ backlog \in Seq(Clients) /\ Len(backlog) \in Nat
      /\ DOMAIN backlog = 1 .. Len(backlog)
  <2>1. backlog \in Seq(Clients)
    BY DEF Structure, TypeOK, SocketsTypeOK
  <2> QED BY <2>1, LenProperties
<1>2. /\ backlog' \in Seq(Clients) /\ DOMAIN backlog \subseteq DOMAIN backlog'
      /\ \A i \in DOMAIN backlog : backlog'[i] = backlog[i]
      /\ \A i \in DOMAIN backlog' \ DOMAIN backlog :
           backlog'[i] = c /\ client[c] = "start" /\ i = Len(backlog) + 1
      /\ ~listening => backlog' = backlog
      /\ backlog # <<>> => backlog' # <<>>
  <2>1. CASE backlog' = backlog
    BY <1>1, <2>1
  <2>2. CASE listening /\ client[c] = "start" /\ backlog' = Append(backlog, c)
    <3>1. /\ backlog' \in Seq(Clients) /\ Len(backlog') = Len(backlog) + 1
          /\ \A i \in 1 .. Len(backlog) : backlog'[i] = backlog[i]
          /\ backlog'[Len(backlog) + 1] = c
      BY <1>1, <2>2, AppendProperties
    <3>2. DOMAIN backlog' = 1 .. Len(backlog) + 1
      BY <3>1, LenProperties
    <3>3. backlog' # <<>>
      BY <1>1, <3>1, EmptySeq
    <3> QED BY <1>1, <2>2, <3>1, <3>2, <3>3
  <2> QED BY <2>1, <2>2
<1>3. SocketsTypeOK'
  <2>1. Len(down[c]) \in Nat /\ Len(down'[c]) \in Nat /\ Len(down[c]) <= BufferSize
    BY LenProperties DEF Structure, TypeOK, SocketsTypeOK
  <2>2. Len(down'[c]) <= BufferSize
    BY <2>1, Sizes
  <2>3. \A d \in Clients : Len(down'[d]) <= BufferSize /\ Len(up'[d]) <= BufferSize
    BY <2>2 DEF Structure, TypeOK, SocketsTypeOK
  <2> QED BY <1>2, <2>3 DEF Structure, TypeOK, SocketsTypeOK
<1>4. ServerTypeOK'
  BY DEF Structure, TypeOK, ServerTypeOK
<1>5. OwnObject' /\ Descriptors' /\ Counting' /\ Watching'
  BY DEF Structure, OwnObject, Descriptors, Counting, Watching, Broken, Object
<1>6. Stages'
  BY <1>2 DEF Structure, Stages, Broken
<1>7. Peers'
  <2>1. ASSUME NEW i \in DOMAIN backlog', NEW j \in DOMAIN backlog', backlog'[i] = backlog'[j]
        PROVE  i = j
    BY <1>2, <2>1 DEF Structure, Peers
  <2>2. \A d \in Clients : client[d] # "start" => client'[d] # "start"
    OBVIOUS
  <2>3. \A fd \in DOMAIN conn : conn[fd] \in Clients /\ client[conn[fd]] # "start"
    BY DEF Structure, TypeOK, ServerTypeOK, Peers
  <2>4. ASSUME NEW i \in DOMAIN backlog'
        PROVE  client'[backlog'[i]] # "start" /\ \A fd \in DOMAIN conn' : conn'[fd] # backlog'[i]
    <3>1. CASE i \in DOMAIN backlog
      <4>1. backlog[i] \in Clients
        BY <1>1, <3>1
      <4> QED BY <1>2, <2>2, <3>1, <4>1 DEF Structure, Peers
    <3>2. CASE i \notin DOMAIN backlog
      BY <1>2, <2>3, <3>2
    <3> QED BY <3>1, <3>2
  <2> QED BY <2>1, <2>2, <2>3, <2>4 DEF Peers
<1>8. Pending'
  <2>1. \A fd \in DOMAIN conn : conn[fd] \in Clients /\ client[conn[fd]] # "start"
    BY DEF Structure, TypeOK, ServerTypeOK, Peers
  <2>2. \A d \in Clients : client[d] # "start" /\ Gone(d) => Gone(d)'
    BY DEF Gone
  <2>3. ASSUME NEW d \in Clients, Room(down[d]) > 0 PROVE Room(down'[d]) > 0
    <3>1. Len(down[d]) \in Nat /\ Len(down'[d]) \in Nat
      BY LenProperties DEF Structure, TypeOK, SocketsTypeOK
    <3>2. Len(down'[d]) <= Len(down[d])
      <4>1. CASE d = c
        BY <4>1
      <4>2. CASE d # c
        <5>1. down'[d] = down[d]
          BY <4>2
        <5> HIDE DEF Moves
        <5> QED BY <3>1, <5>1
      <4> QED BY <4>1, <4>2
    <3> HIDE DEF Moves
    <3> QED BY <2>3, <3>1, <3>2, Sizes DEF Room
  <2>4. ASSUME NEW fd \in DOMAIN conn' \cap DOMAIN evlist', "OUT" \in evlist'[fd]
        PROVE  Gone(conn[fd])' \/ Room(down[conn[fd]])' > 0 \/ (pc' = "write" /\ writing' = fd)
    <3>1. fd \in DOMAIN conn \cap DOMAIN evlist /\ "OUT" \in evlist[fd] /\ conn'[fd] = conn[fd]
      BY <2>4
    <3>2. Gone(conn[fd]) \/ Room(down[conn[fd]]) > 0 \/ (pc = "write" /\ writing = fd)
      BY <3>1 DEF Structure, Pending
    <3>3. Gone(conn[fd])' \/ Room(down'[conn[fd]]) > 0 \/ (pc' = "write" /\ writing' = fd)
      <4>1. CASE Gone(conn[fd])
        <5>1. conn[fd] \in Clients /\ client[conn[fd]] # "start"
          BY <2>1, <3>1
        <5> QED BY <2>2, <3>1, <4>1, <5>1 DEF Gone
      <4>2. CASE Room(down[conn[fd]]) > 0
        BY <2>1, <2>3, <3>1, <4>2
      <4>3. CASE pc = "write" /\ writing = fd
        BY <4>3
      <4> QED BY <3>2, <4>1, <4>2, <4>3
    <3> QED BY <3>1, <3>3 DEF Room
  <2>5. connection_socket \in DOMAIN evlist' => backlog' # <<>>
    BY <1>2 DEF Structure, Pending
  <2> QED BY <2>4, <2>5 DEF Pending, Gone, Room
<1> QED BY <1>3, <1>4, <1>5, <1>6, <1>7, <1>8 DEF Structure, TypeOK

\* A client's steps are such moves.
LEMMA ClientMoves ==
  ASSUME Structure, NEW c \in Clients, ClientNext(c), UNCHANGED serverVars
  PROVE  Moves(c)
<1>1. /\ SocketsTypeOK /\ ClientTypeOK
      /\ line_buf[c] \in Seq(Symbols) /\ root[c] \subseteq Seq(Symbols) /\ buf[c] \in Seq(Symbols)
      /\ down[c] \in Seq(Symbols) /\ up[c] \in Seq(Symbols)
      /\ Len(up[c]) <= BufferSize /\ Len(down[c]) \in Nat
  <2>1. SocketsTypeOK /\ ClientTypeOK
    BY DEF Structure, TypeOK
  <2> QED BY <2>1, LenProperties DEF SocketsTypeOK, ClientTypeOK
<1>2. CASE connect(c) \/ connect_fails(c)
  <2>1. /\ client[c] = "start" /\ client' = [client EXCEPT ![c] = client'[c]]
        /\ client'[c] \in {"reading", "failed"}
        /\ UNCHANGED <<listening, down, up, line_buf, root, buf>>
    BY <1>1, <1>2 DEF connect, connect_fails, ClientIs, Become, ClientTypeOK, socketVars
  <2>2. /\ client_end' = [client_end EXCEPT ![c] = client_end'[c]]
        /\ client_end'[c] \in {client_end[c], "open"}
        /\ server_end' = [server_end EXCEPT ![c] = server_end'[c]]
        /\ server_end'[c] \in {server_end[c], "open"}
        /\ backlog' = backlog \/ (listening /\ backlog' = Append(backlog, c))
    BY <1>1, <1>2 DEF connect, connect_fails, SocketsTypeOK, socketVars
  <2>3. ClientTypeOK'
    BY <1>1, <2>1 DEF ClientTypeOK, ClientStates
  <2>4. /\ client_end' \in [Clients -> {"none", "open", "closed", "reset"}]
        /\ server_end' \in [Clients -> {"none", "open", "closed"}]
        /\ \A d \in Clients \ {c} : client_end'[d] = client_end[d]
    BY ZenonT(30), <1>1, <2>2 DEF SocketsTypeOK
  <2> QED BY <1>1, <2>1, <2>2, <2>3, <2>4 DEF Moves, SocketsTypeOK, ClientTypeOK
<1>3. CASE ReadPart(c) \/ ReadLine(c) \/ ReadStop(c)
  <2>1. /\ client[c] = "reading" /\ down[c] # <<>> /\ down' = [down EXCEPT ![c] = Tail(down[c])]
        /\ UNCHANGED <<listening, backlog, client_end, server_end, up, buf>>
    BY <1>3 DEF ReadPart, ReadLine, ReadStop, Take, ClientIs
  <2>2. /\ Head(down[c]) \in Symbols /\ Tail(down[c]) \in Seq(Symbols)
        /\ Len(Tail(down[c])) <= Len(down[c])
    BY <1>1, <2>1, HeadTailProperties
  <2>3. Append(line_buf[c], Head(down[c])) \in Seq(Symbols) /\ <<>> \in Seq(Symbols)
    BY <1>1, <2>2, AppendProperties, EmptySeq
  <2>4. /\ client' \in [Clients -> ClientStates] /\ client'[c] # "start"
        /\ \A d \in Clients \ {c} : client'[d] = client[d]
    BY <1>1, <1>3, <2>1 DEF ReadPart, ReadLine, ReadStop, Become, ClientTypeOK, ClientStates
  <2>5. /\ line_buf' \in [Clients -> Seq(Symbols)] /\ root' \in [Clients -> SUBSET Seq(Symbols)]
        /\ \A d \in Clients \ {c} : line_buf'[d] = line_buf[d] /\ root'[d] = root[d]
    <3>1. CASE ReadPart(c) \/ ReadStop(c)
      BY <1>1, <2>3, <3>1 DEF ReadPart, ReadStop, ClientTypeOK
    <3>2. CASE ReadLine(c)
      BY <1>1, <2>3, <3>2 DEF ReadLine, ClientTypeOK
    <3> QED BY <1>3, <3>1, <3>2
  <2> QED BY <1>1, <2>1, <2>2, <2>4, <2>5 DEF Moves, SocketsTypeOK, ClientTypeOK, Gone
<1>4. CASE ReadEnd(c)
  <2>1. /\ client[c] = "reading" /\ client' = [client EXCEPT ![c] = "writing"]
        /\ UNCHANGED <<listening, backlog, client_end, server_end, down, up, buf>>
        /\ line_buf' = [line_buf EXCEPT ![c] = <<>>]
        /\ \/ root' = [root EXCEPT ![c] = root[c] \cup ({line_buf[c]} \ {<<>>})]
           \/ root' = root
    BY <1>4 DEF ReadEnd, ClientIs, Become, socketVars
  <2>2. root' \in [Clients -> SUBSET Seq(Symbols)] /\ line_buf' \in [Clients -> Seq(Symbols)]
    BY <1>1, <2>1, EmptySeq DEF ClientTypeOK
  <2> QED BY <1>1, <2>1, <2>2 DEF Moves, SocketsTypeOK, ClientTypeOK, ClientStates, Gone
<1>5. CASE heap_delmin(c)
  <2>1. PICK text \in Smallest(root[c]) :
          root' = [root EXCEPT ![c] = root[c] \ {text}] /\ buf' = [buf EXCEPT ![c] = text]
    BY <1>5 DEF heap_delmin
  <2>2. text \in Seq(Symbols)
    BY <1>1, <2>1 DEF Smallest
  <2>3. /\ root' \in [Clients -> SUBSET Seq(Symbols)] /\ buf' \in [Clients -> Seq(Symbols)]
        /\ \A d \in Clients \ {c} : root'[d] = root[d] /\ buf'[d] = buf[d]
    BY <1>1, <2>1, <2>2 DEF ClientTypeOK
  <2>4. UNCHANGED <<socketVars, client, line_buf>> /\ client[c] = "writing"
    BY <1>5 DEF heap_delmin, ClientIs
  <2> QED BY <1>1, <2>3, <2>4 DEF Moves, SocketsTypeOK, ClientTypeOK, socketVars, Gone
<1>6. CASE write(c)
  <2> DEFINE n == Fitting(buf[c], up[c])
  <2>1. /\ n > 0 /\ client[c] = "writing"
        /\ up' = [up EXCEPT ![c] = up[c] \o SubSeq(buf[c], 1, n)]
        /\ buf' = [buf EXCEPT ![c] = SubSeq(buf[c], n + 1, Len(buf[c]))]
        /\ UNCHANGED <<listening, backlog, client_end, server_end, down, client, line_buf, root>>
    BY <1>6 DEF write, ClientIs
  <2>2. /\ n \in Nat /\ SubSeq(buf[c], 1, n) \in Seq(Symbols)
        /\ Len(up[c] \o SubSeq(buf[c], 1, n)) <= BufferSize
    BY <1>1, <2>1, FittingIs
  <2> HIDE DEF n
  <2>3. /\ up[c] \o SubSeq(buf[c], 1, n) \in Seq(Symbols)
        /\ SubSeq(buf[c], n + 1, Len(buf[c])) \in Seq(Symbols)
    BY <1>1, <2>2, ConcatProperties, RestIs
  <2> QED BY <1>1, <2>1, <2>2, <2>3 DEF Moves, SocketsTypeOK, ClientTypeOK, Gone
<1>7. CASE write_lost(c) \/ close(c)
  <2>1. /\ client[c] = "writing" /\ client' = [client EXCEPT ![c] = client'[c]]
        /\ client'[c] \in {"writing", "killed", "done"}
        /\ client_end' = [client_end EXCEPT ![c] = client_end'[c]]
        /\ client_end'[c] \in {client_end[c], "closed"}
        /\ UNCHANGED <<listening, backlog, server_end, down, up, line_buf, root>>
        /\ buf' = [buf EXCEPT ![c] = buf'[c]] /\ buf'[c] \in {buf[c], <<>>}
    BY <1>1, <1>7 DEF write_lost, close, ClientIs, Become, SocketsTypeOK, ClientTypeOK
  <2>2. ClientTypeOK'
    <3>1. buf'[c] \in Seq(Symbols) /\ client'[c] \in ClientStates
      BY <1>1, <2>1, EmptySeq DEF ClientStates
    <3>2. buf' \in [Clients -> Seq(Symbols)] /\ client' \in [Clients -> ClientStates]
      BY <1>1, <2>1, <3>1 DEF ClientTypeOK
    <3> QED BY <1>1, <2>1, <3>2 DEF ClientTypeOK
  <2>3. /\ client_end' \in [Clients -> {"none", "open", "closed", "reset"}]
        /\ \A d \in Clients \ {c} : client_end'[d] = client_end[d]
        /\ Gone(c) => Gone(c)'
    BY ZenonT(30), <1>1, <2>1 DEF SocketsTypeOK, Gone
  <2> QED BY <1>1, <2>1, <2>2, <2>3 DEF Moves, SocketsTypeOK, ClientTypeOK
<1>8. CASE die(c)
  <2>1. /\ client[c] \in {"reading", "writing"} /\ client' = [client EXCEPT ![c] = "killed"]
        /\ client_end' = [client_end EXCEPT ![c] = IF down[c] = <<>> THEN "closed" ELSE "reset"]
        /\ down' = [down EXCEPT ![c] = <<>>]
        /\ UNCHANGED <<listening, backlog, server_end, up, line_buf, root, buf>>
    BY <1>8 DEF die, Become
  <2>2. <<>> \in Seq(Symbols) /\ Len(<<>>) <= Len(down[c])
    BY <1>1, EmptySeq
  <2> QED BY <1>1, <2>1, <2>2 DEF Moves, SocketsTypeOK, ClientTypeOK, ClientStates, Gone
<1> QED BY <1>2, <1>3, <1>4, <1>5, <1>6, <1>7, <1>8 DEF ClientNext, read_and_insert

\* Every step keeps Structure.
LEMMA StructureNext ==
  ASSUME Structure, [Next]_vars
  PROVE  Structure'
<1>1. CASE ServerStep
  <2> USE <1>1 DEF ServerStep
  <2>1. CASE setup
    BY <2>1, SetupStructure
  <2>2. CASE error_helper \/ sigpipe \/ overrun
    BY <2>2, ExitStructure DEF error_helper, sigpipe, overrun
  <2>3. CASE epoll_wait
    BY <2>3, EpollWaitStructure
  <2>4. CASE accept
    BY <2>4, AcceptStructure
  <2>5. CASE write_line
    BY <2>5, WriteLineStructure, ServesStructure
  <2>6. CASE write_lost_line
    BY <2>6, WriteLostStructure, ServesStructure
  <2>7. CASE print \/ finish
    BY <2>7, PrintStructure
  <2>8. ASSUME NEW fd \in DOMAIN evlist,
               SendRest(fd) \/ SendLine(fd) \/ SendStop(fd) \/ Receive(fd)
        PROVE  Structure'
    <3>1. fd \in DOMAIN conn /\ Serves(fd)
      BY <2>8, SendStructure, SendStopStructure, ReceiveStructure
    <3> QED BY <3>1, ServesStructure
  <2>9. ASSUME NEW fd \in DOMAIN evlist, Hangup(fd) PROVE Structure'
    BY <2>9, HangupStructure
  <2> QED BY <2>1, <2>2, <2>3, <2>4, <2>5, <2>6, <2>7, <2>8, <2>9 DEF ServerNext
<1>2. ASSUME NEW c \in Clients, ClientStep(c) PROVE Structure'
  BY <1>2, ClientMoves, MovesStructure DEF ClientStep
<1>3. CASE UNCHANGED vars
  <2> USE <1>3 DEF vars, socketVars, serverVars, clientVars
  <2>1. TypeOK'
    BY DEF Structure, TypeOK, SocketsTypeOK, ServerTypeOK, ClientTypeOK
  <2>2. OwnObject' /\ Descriptors' /\ Stages' /\ Counting' /\ Peers' /\ Watching' /\ Pending'
    BY DEF Structure, OwnObject, Descriptors, Stages, Counting, Peers, Watching, Pending, Broken,
           Gone, Room, Object
  <2> QED BY <2>1, <2>2 DEF Structure
<1> QED BY <1>1, <1>2, <1>3 DEF Next, Stopped

\* The server's descriptors, connections and events always fit together (lab3/server.c).
THEOREM StructureHolds == Spec => []Structure
<1>1. Init => Structure
  BY StructureInit
<1>2. Structure /\ [Next]_vars => Structure'
  BY StructureNext
<1> QED BY <1>1, <1>2, PTL DEF Spec

\* Every variable of lab3's server, clients and sockets keeps its type.
THEOREM TypeCorrect == Spec => []TypeOK
<1>1. Structure => TypeOK
  BY DEF Structure
<1> QED BY <1>1, StructureHolds, PTL

\* Though descriptors are closed and used again, no two open connections of the server
\* share an rw_obj, and with it an input file, or a client.
THEOREM OwnObjects == Spec => []OwnObject
<1>1. Structure => OwnObject
  BY DEF Structure
<1> QED BY <1>1, StructureHolds, PTL

-----------------------------------------------------------------------------
(* con2rw_obj is large enough, with two input files or more.               *)

\* accept assigns no element beyond those con2rw_obj has been given.
LEMMA BoundsNext ==
  ASSUME Len(Inputs) > 1, Structure, InBounds, [Next]_vars
  PROVE  InBounds'
<1>1. CASE accept
  <2>1. /\ DOMAIN con2rw_obj' = DOMAIN con2rw_obj \cup {lowest_fd}
        /\ lowest_fd \in 5 .. epoll_fd + connections_size + 1
        /\ connections_size \in 0 .. inputs_size - 1
    BY <1>1, AcceptIs
  <2>2. inputs_size \in Nat /\ inputs_size > 1 /\ epoll_fd = inputs_size + 6
        /\ con2rw_obj_size = 3 * inputs_size + 5
    BY Sizes DEF inputs_size
  <2>3. lowest_fd \in 0 .. con2rw_obj_size - 1
    BY <2>1, <2>2
  <2> QED BY <2>1, <2>3 DEF InBounds
<1>2. CASE UNCHANGED con2rw_obj
  BY <1>2 DEF InBounds
<1>3. accept \/ UNCHANGED con2rw_obj
  <2>1. CASE ServerStep
    BY <2>1 DEF ServerStep, ServerNext, setup, error_helper, Exit, epoll_wait, write_line,
                write_lost_line, sigpipe, overrun, print, finish, SendRest, SendLine, SendStop,
                Receive, Hangup
  <2>2. CASE UNCHANGED serverVars
    BY <2>2 DEF serverVars
  <2> QED BY <2>1, <2>2 DEF Next, ClientStep, Stopped, vars
<1> QED BY <1>1, <1>2, <1>3

\* With two input files or more, accept never returns a descriptor beyond the end of
\* con2rw_obj (lab3/server.c:279).
THEOREM DescriptorsInBounds ==
  ASSUME Len(Inputs) > 1
  PROVE  Spec => []InBounds
<1>1. Init => InBounds
  BY DEF Init, ServerInit, InBounds
<1>2. Structure /\ InBounds /\ [Next]_vars => InBounds'
  BY BoundsNext
<1> QED BY <1>1, <1>2, StructureHolds, PTL DEF Spec

-----------------------------------------------------------------------------
(* What is on its way on each connection.                                  *)

\* The two ends of a client's connection, and what there is of it before it starts.
Ends(c) ==
  /\ client[c] \in {"reading", "writing"} => client_end[c] = "open"
  /\ client[c] \in {"writing", "done"} => down[c] = <<>>
  /\ client[c] \in {"start", "reading"} => up[c] = <<>> /\ buf[c] = <<>>
  /\ client[c] = "start" => line_buf[c] = <<>> /\ root[c] = {} /\ down[c] = <<>>
  /\ client[c] = "done" => buf[c] = <<>> /\ root[c] = {}
  /\ \A k \in 1 .. Len(line_buf[c]) : ~EndsLine(line_buf[c][k])

\* A client in the backlog has got nothing.
Waits(c) ==
  /\ server_end[c] = "open" /\ client[c] \in {"reading", "killed"}
  /\ up[c] = <<>> /\ down[c] = <<>>
  /\ client[c] = "reading" => line_buf[c] = <<>> /\ root[c] = {}

\* A client with these lines and this text still to come gets the file in the end.
Outward(lines, text, file) ==
  \E i \in 0 .. Len(file) :
    /\ lines = Range(Texts(SubSeq(file, 1, i)))
    /\ text = FlattenSeq(Texts(SubSeq(file, i + 1, Len(file)))) \o <<STOP>>

\* A client that reads has part of a file, whether its connection still stands or not.
Reads(c) ==
  client[c] = "reading" =>
    \E o \in Objects, x \in Seq(Symbols) :
      Outward(root[c], line_buf[c] \o (down[c] \o x), Inputs[o + 1])

ToSend(obj) ==
  SubSeq(obj.line_buf, obj.last_len + 1, Len(obj.line_buf))
    \o FlattenSeq(Texts(obj.fptr)) \o <<STOP>>

Unsent(fd) == IF "OUT" \in interest[fd] THEN ToSend(rw_objs[Object(fd)]) ELSE <<>>

Outgoing(fd) == line_buf[conn[fd]] \o down[conn[fd]] \o Unsent(fd)

\* LinesGoOut, for one connection.
GoesOut(fd) ==
  client[conn[fd]] = "reading" => Outward(root[conn[fd]], Outgoing(fd), FileOf(fd))

\* While the server sends, nothing comes back.
Sends(fd) ==
  "OUT" \in interest[fd] =>
    /\ client[conn[fd]] \in {"reading", "killed"} /\ up[conn[fd]] = <<>>
    /\ client[conn[fd]] = "reading" =>
         rw_objs[Object(fd)].last_len <= Len(rw_objs[Object(fd)].line_buf)

Stream(fd)  == Came(fd) \o buf[conn[fd]]
TextsOf(fd) == Range(Texts(FileOf(fd)))

\* The stream is whole lines, and those still to be written follow them.
InOrder(stream, lines) ==
  /\ compacted(stream) = <<>>
  /\ whole_lines(stream) \cup lines \subseteq AllTexts
  /\ \A s \in whole_lines(stream), t \in lines : KeyOf(s) <= KeyOf(t)

\* LinesComeBack, for one connection, with the part of it that outlives the client.
ComesBack(fd) ==
  "OUT" \notin interest[fd] =>
    /\ client[conn[fd]] \in {"reading", "writing", "done", "killed"}
    /\ client[conn[fd]] = "reading" => rw_objs[Object(fd)].line_buf = <<>>
    /\ \A k \in 1 .. Len(rw_objs[Object(fd)].line_buf) :
         ~EndsLine(rw_objs[Object(fd)].line_buf[k])
    /\ whole_lines(Came(fd)) \subseteq AllTexts
    /\ client[conn[fd]] \in {"writing", "done"} =>
         /\ InOrder(Stream(fd), root[conn[fd]])
         /\ "IN" \in interest[fd] =>
              whole_lines(Stream(fd)) \cup root[conn[fd]] \cup (heap_root \cap TextsOf(fd))
                = TextsOf(fd)

Connection(fd) ==
  server_end[conn[fd]] = "open" /\ GoesOut(fd) /\ Sends(fd) /\ ComesBack(fd)

\* What is printed and what is still to be printed.
Printed ==
  /\ heap_root \subseteq AllTexts
  /\ pc \in {"drain", "done"} => connections_limit = 0
  /\ pc \notin {"drain", "done"} => output = <<>>
  /\ PrintsInOrder
  /\ \A s \in Range(output), t \in heap_root : s # t /\ KeyOf(s) <= KeyOf(t)

Streams ==
  /\ \A c \in Clients : Ends(c) /\ Reads(c)
  /\ \A i \in DOMAIN backlog : Waits(backlog[i])
  /\ \A fd \in DOMAIN conn : Connection(fd)
  /\ Printed

-----------------------------------------------------------------------------
(* The texts of a file.                                                    *)

\* The texts of lines, one by one.
LEMMA TextsAre ==
  ASSUME NEW s \in Seq(Lines)
  PROVE  /\ Texts(s) \in Seq(Seq(Symbols)) /\ Len(Texts(s)) = Len(s)
         /\ \A i \in 1 .. Len(s) : Texts(s)[i] = Whole(s[i])
         /\ Range(Texts(s)) = {Whole(s[i]) : i \in 1 .. Len(s)}
         /\ s = <<>> => Texts(s) = <<>>
         /\ FlattenSeq(Texts(s)) \in Seq(Symbols)
<1>1. Len(s) \in Nat /\ DOMAIN s = 1 .. Len(s) /\ \A i \in 1 .. Len(s) : s[i] \in Lines
  BY LenProperties, ElementOfSeq
<1>2. /\ DOMAIN Texts(s) = 1 .. Len(s)
      /\ \A i \in 1 .. Len(s) : Texts(s)[i] = Whole(s[i])
      /\ Texts(s) = [i \in 1 .. Len(s) |-> Whole(s[i])]
  BY <1>1 DEF Texts
<1>3. \A i \in 1 .. Len(s) : Whole(s[i]) \in Seq(Symbols)
  BY <1>1, WholeIs
<1>4. Texts(s) \in Seq(Seq(Symbols)) /\ Len(Texts(s)) = Len(s)
  <2>1. [i \in 1 .. Len(s) |-> Whole(s[i])] \in Seq(Seq(Symbols))
    BY <1>1, <1>3, IsASeq
  <2> QED BY <1>1, <1>2, <2>1, LenProperties
<1>5. Range(Texts(s)) = {Whole(s[i]) : i \in 1 .. Len(s)}
  BY <1>2 DEF Range
<1>6. s = <<>> => Texts(s) = <<>>
  BY <1>1, <1>4, EmptySeq
<1>7. FlattenSeq(Texts(s)) \in Seq(Symbols)
  <2>1. <<>> \in Seq(Symbols)
    BY EmptySeq
  <2> QED BY <1>4, <2>1, FlattenCons
<1> QED BY <1>2, <1>4, <1>5, <1>6, <1>7

\* The first text of a file, and the rest.
LEMMA FirstText ==
  ASSUME NEW s \in Seq(Lines), s # <<>>
  PROVE  /\ Head(s) \in Lines /\ Tail(s) \in Seq(Lines)
         /\ FlattenSeq(Texts(s)) = Whole(Head(s)) \o FlattenSeq(Texts(Tail(s)))
<1>1. /\ Head(s) \in Lines /\ Tail(s) \in Seq(Lines) /\ Head(s) = s[1] /\ Len(s) \in Nat \ {0}
      /\ Len(Tail(s)) = Len(s) - 1 /\ \A i \in 1 .. Len(s) - 1 : Tail(s)[i] = s[i + 1]
  BY HeadTailProperties, LenProperties, EmptySeq
<1> DEFINE w == Whole(Head(s))   r == Texts(Tail(s))
<1>2. w \in Seq(Symbols) /\ r \in Seq(Seq(Symbols)) /\ Len(r) = Len(s) - 1
      /\ \A i \in 1 .. Len(s) - 1 : r[i] = Whole(s[i + 1])
  <2> DEFINE t == Tail(s)
  <2>1. t \in Seq(Lines) /\ Len(t) = Len(s) - 1 /\ \A i \in 1 .. Len(s) - 1 : t[i] = s[i + 1]
    BY <1>1
  <2> HIDE DEF t
  <2>2. /\ Texts(t) \in Seq(Seq(Symbols)) /\ Len(Texts(t)) = Len(t)
        /\ \A i \in 1 .. Len(t) : Texts(t)[i] = Whole(t[i])
    BY <2>1, TextsAre
  <2>3. \A i \in 1 .. Len(s) - 1 : Texts(t)[i] = Whole(s[i + 1])
    BY <2>1, <2>2
  <2>4. w \in Seq(Symbols)
    BY <1>1, WholeIs
  <2> QED BY <2>1, <2>2, <2>3, <2>4 DEF t
<1>3. /\ Texts(s) \in Seq(Seq(Symbols)) /\ Len(Texts(s)) = Len(s)
      /\ \A i \in 1 .. Len(s) : Texts(s)[i] = Whole(s[i])
  BY TextsAre
<1>4. w = Whole(s[1])
  BY <1>1
<1> HIDE DEF w, r
<1>5. /\ <<w>> \in Seq(Seq(Symbols)) /\ Len(<<w>>) = 1 /\ <<w>>[1] = w
  BY <1>2
<1>6. /\ <<w>> \o r \in Seq(Seq(Symbols)) /\ Len(<<w>> \o r) = Len(s)
      /\ \A i \in 1 .. Len(s) : (<<w>> \o r)[i] = IF i = 1 THEN w ELSE r[i - 1]
  <2>1. /\ <<w>> \o r \in Seq(Seq(Symbols)) /\ Len(<<w>> \o r) = Len(<<w>>) + Len(r)
        /\ \A i \in 1 .. Len(<<w>>) + Len(r) :
             (<<w>> \o r)[i] = IF i <= Len(<<w>>) THEN <<w>>[i] ELSE r[i - Len(<<w>>)]
    BY <1>2, <1>5, ConcatProperties
  <2>2. Len(<<w>>) + Len(r) = Len(s) /\ \A i \in 1 .. Len(s) : i <= 1 <=> i = 1
    BY <1>1, <1>2, <1>5
  <2> QED BY <1>5, <2>1, <2>2
<1>7. \A i \in 1 .. Len(s) : (<<w>> \o r)[i] = Texts(s)[i]
  <2> SUFFICES ASSUME NEW i \in 1 .. Len(s) PROVE (<<w>> \o r)[i] = Texts(s)[i]
    OBVIOUS
  <2>1. CASE i = 1
    BY <1>3, <1>4, <1>6, <2>1
  <2>2. CASE i # 1
    <3>1. i - 1 \in 1 .. Len(s) - 1 /\ (i - 1) + 1 = i
      BY <1>1, <2>2
    <3>2. r[i - 1] = Whole(s[i])
      BY <1>2, <3>1
    <3> QED BY <1>3, <1>6, <2>2, <3>2
  <2> QED BY <2>1, <2>2
<1>8. Texts(s) = <<w>> \o r
  BY ZenonT(30), <1>3, <1>6, <1>7, SeqEqual
<1>9. FlattenSeq(<<w>> \o r) = w \o FlattenSeq(r)
  BY <1>2, FlattenCons
<1> QED BY <1>1, <1>8, <1>9 DEF w, r

\* What is left of a file after some of its lines: nothing, or the next and the rest;
\* and the texts of those lines.
LEMMA RestOfFile ==
  ASSUME NEW file \in Seq(Lines), NEW i \in 0 .. Len(file)
  PROVE  /\ SubSeq(file, i + 1, Len(file)) \in Seq(Lines)
         /\ SubSeq(file, 1, i) \in Seq(Lines)
         /\ i = 0 => SubSeq(file, i + 1, Len(file)) = file /\ Range(Texts(SubSeq(file, 1, i))) = {}
         /\ i = Len(file) => /\ SubSeq(file, 1, i) = file
                             /\ FlattenSeq(Texts(SubSeq(file, i + 1, Len(file)))) = <<>>
         /\ i < Len(file) =>
              /\ file[i + 1] \in Lines
              /\ FlattenSeq(Texts(SubSeq(file, i + 1, Len(file))))
                   = Whole(file[i + 1]) \o FlattenSeq(Texts(SubSeq(file, i + 2, Len(file))))
              /\ Range(Texts(SubSeq(file, 1, i + 1)))
                   = Range(Texts(SubSeq(file, 1, i))) \cup {Whole(file[i + 1])}
<1>1. Len(file) \in Nat /\ \A k \in 1 .. Len(file) : file[k] \in Lines
  BY LenProperties, ElementOfSeq
<1>2. ASSUME NEW j \in 0 .. Len(file)
      PROVE  /\ SubSeq(file, 1, j) \in Seq(Lines) /\ Len(SubSeq(file, 1, j)) = j
             /\ \A k \in 1 .. j : SubSeq(file, 1, j)[k] = file[k]
             /\ SubSeq(file, j + 1, Len(file)) \in Seq(Lines)
             /\ Len(SubSeq(file, j + 1, Len(file))) = Len(file) - j
             /\ \A k \in 1 .. Len(file) - j : SubSeq(file, j + 1, Len(file))[k] = file[j + k]
  <2>1. /\ SubSeq(file, 1, j) \in Seq(Lines)
        /\ Len(SubSeq(file, 1, j)) = IF 1 <= j THEN j - 1 + 1 ELSE 0
        /\ \A k \in 1 .. j - 1 + 1 : SubSeq(file, 1, j)[k] = file[1 + k - 1]
    <3>1. \A k \in 1 .. j : file[k] \in Lines
      BY <1>1
    <3> QED BY <1>1, <3>1, SubSeqProperties
  <2>2. /\ SubSeq(file, j + 1, Len(file)) \in Seq(Lines)
        /\ Len(SubSeq(file, j + 1, Len(file)))
             = IF j + 1 <= Len(file) THEN Len(file) - (j + 1) + 1 ELSE 0
        /\ \A k \in 1 .. Len(file) - (j + 1) + 1 :
             SubSeq(file, j + 1, Len(file))[k] = file[(j + 1) + k - 1]
    <3>1. \A k \in j + 1 .. Len(file) : file[k] \in Lines
      BY <1>1
    <3> QED BY <1>1, <3>1, SubSeqProperties
  <2> QED BY <1>1, <2>1, <2>2
<1>3. ASSUME NEW j \in 0 .. Len(file)
      PROVE  Range(Texts(SubSeq(file, 1, j))) = {Whole(file[k]) : k \in 1 .. j}
  <2>1. Range(Texts(SubSeq(file, 1, j))) =
          {Whole(SubSeq(file, 1, j)[k]) : k \in 1 .. Len(SubSeq(file, 1, j))}
    BY <1>2, TextsAre
  <2>2. \A k \in 1 .. j : SubSeq(file, 1, j)[k] = file[k]
    BY <1>2
  <2>3. Len(SubSeq(file, 1, j)) = j
    BY <1>2
  <2> QED BY <2>1, <2>2, <2>3
<1>4. ASSUME i = 0
      PROVE  SubSeq(file, i + 1, Len(file)) = file /\ Range(Texts(SubSeq(file, 1, i))) = {}
  <2>1. SubSeq(file, 1, Len(file)) = file
    BY SubSeqFull
  <2>2. i + 1 = 1
    BY <1>4
  <2> QED BY <1>3, <1>4, <2>1, <2>2
<1>5. ASSUME i = Len(file)
      PROVE  SubSeq(file, 1, i) = file /\ FlattenSeq(Texts(SubSeq(file, i + 1, Len(file)))) = <<>>
  <2>1. SubSeq(file, i + 1, Len(file)) \in Seq(Lines) /\ Len(SubSeq(file, i + 1, Len(file))) = 0
    BY <1>1, <1>2, <1>5
  <2>2. SubSeq(file, i + 1, Len(file)) = <<>>
    BY <2>1, EmptySeq
  <2>3. Texts(<<>>) = <<>>
    BY TextsAre, EmptySeq
  <2>4. FlattenSeq(<<>>) = <<>>
    BY DEF FlattenSeq
  <2> QED BY <1>5, <2>2, <2>3, <2>4, SubSeqFull
<1>6. ASSUME i < Len(file)
      PROVE  /\ file[i + 1] \in Lines
             /\ FlattenSeq(Texts(SubSeq(file, i + 1, Len(file))))
                  = Whole(file[i + 1]) \o FlattenSeq(Texts(SubSeq(file, i + 2, Len(file))))
             /\ Range(Texts(SubSeq(file, 1, i + 1)))
                  = Range(Texts(SubSeq(file, 1, i))) \cup {Whole(file[i + 1])}
  <2> DEFINE r == SubSeq(file, i + 1, Len(file))   q == SubSeq(file, i + 2, Len(file))
  <2>1. i + 1 \in 0 .. Len(file) /\ (i + 1) + 1 = i + 2 /\ i + 1 \in 1 .. Len(file)
    BY <1>1, <1>6
  <2>2. /\ r \in Seq(Lines) /\ Len(r) = Len(file) - i
        /\ \A k \in 1 .. Len(file) - i : r[k] = file[i + k]
    BY <1>2
  <2>3. /\ q \in Seq(Lines) /\ Len(q) = Len(file) - (i + 1)
        /\ \A k \in 1 .. Len(file) - (i + 1) : q[k] = file[(i + 1) + k]
    <3>1. /\ SubSeq(file, (i + 1) + 1, Len(file)) \in Seq(Lines)
          /\ Len(SubSeq(file, (i + 1) + 1, Len(file))) = Len(file) - (i + 1)
          /\ \A k \in 1 .. Len(file) - (i + 1) :
               SubSeq(file, (i + 1) + 1, Len(file))[k] = file[(i + 1) + k]
      BY <1>2, <2>1
    <3> QED BY <2>1, <3>1
  <2> HIDE DEF r, q
  <2>4. r # <<>>
    BY <1>1, <1>6, <2>2, EmptySeq
  <2>5. /\ Head(r) = r[1] /\ Tail(r) \in Seq(Lines) /\ Len(Tail(r)) = Len(r) - 1
        /\ \A k \in 1 .. Len(r) - 1 : Tail(r)[k] = r[k + 1]
    BY <2>2, <2>4, HeadTailProperties
  <2>6. Tail(r) = q
    <3>1. Len(Tail(r)) = Len(q)
      BY <1>1, <2>2, <2>3, <2>5
    <3>2. ASSUME NEW k \in 1 .. Len(q) PROVE Tail(r)[k] = q[k]
      <4>1. k + 1 \in 1 .. Len(file) - i /\ k \in 1 .. Len(r) - 1 /\ k \in 1 .. Len(file) - (i + 1)
            /\ i + (k + 1) = (i + 1) + k
        BY <1>1, <2>2, <2>3
      <4> QED BY <2>2, <2>3, <2>5, <4>1
    <3> QED BY <2>3, <2>5, <3>1, <3>2, SeqEqual
  <2>7. Head(r) = file[i + 1]
    BY <1>1, <1>6, <2>2, <2>5
  <2>8. FlattenSeq(Texts(r)) = Whole(file[i + 1]) \o FlattenSeq(Texts(q))
    BY <2>2, <2>4, <2>6, <2>7, FirstText
  <2>9. {Whole(file[k]) : k \in 1 .. i + 1} = {Whole(file[k]) : k \in 1 .. i} \cup {Whole(file[i + 1])}
    <3>1. 1 .. i + 1 = (1 .. i) \cup {i + 1}
      BY <1>1
    <3> QED BY <3>1
  <2>10. Range(Texts(SubSeq(file, 1, i + 1)))
                  = Range(Texts(SubSeq(file, 1, i))) \cup {Whole(file[i + 1])}
    BY <1>3, <2>1, <2>9
  <2> QED BY <1>1, <2>1, <2>8, <2>10 DEF r, q
<1> QED BY <1>2, <1>4, <1>5, <1>6

\* The texts of all files, when every line ends with a newline.
LEMMA AllTextsAre ==
  ASSUME Unended = {}
  PROVE  /\ \A t \in AllTexts : /\ t \in Seq(Symbols) /\ t # <<>> /\ KeyOf(t) \in Nat
                                /\ whole_lines(t) = {t} /\ compacted(t) = <<>>
                                /\ EndsLine(t[Len(t)])
         /\ \A o \in Objects : Range(Texts(Inputs[o + 1])) \subseteq AllTexts
         /\ \A t \in AllTexts : \E o \in Objects : t \in Range(Texts(Inputs[o + 1]))
         /\ \A t \in AllTexts : \E l \in Lines : t = Whole(l)
<1>1. ASSUME NEW o \in Objects
      PROVE  /\ Inputs[o + 1] \in Seq(Lines) /\ o + 1 \in DOMAIN Inputs
             /\ Range(Inputs[o + 1]) \subseteq Lines
             /\ Range(Texts(Inputs[o + 1])) = {Whole(l) : l \in Range(Inputs[o + 1])}
  <2>1. Inputs[o + 1] \in Seq(Lines)
    BY Sizes
  <2>2. DOMAIN Inputs = 1 .. inputs_size
    BY ServerAssumption, LenProperties DEF inputs_size
  <2>3. o + 1 \in DOMAIN Inputs
    BY <2>2, Sizes
  <2> DEFINE s == Inputs[o + 1]
  <2>4. DOMAIN s = 1 .. Len(s) /\ \A i \in 1 .. Len(s) : s[i] \in Lines
    BY <2>1, LenProperties, ElementOfSeq
  <2>5. Range(Texts(s)) = {Whole(s[i]) : i \in 1 .. Len(s)}
    BY <2>1, TextsAre
  <2> HIDE DEF s
  <2>6. Range(s) = {s[i] : i \in 1 .. Len(s)}
    BY <2>4 DEF Range
  <2>7. Range(Texts(s)) = {Whole(l) : l \in Range(s)} /\ Range(s) \subseteq Lines
    BY <2>4, <2>5, <2>6
  <2> QED BY <2>1, <2>3, <2>7 DEF s
<1>2. ASSUME NEW i \in DOMAIN Inputs PROVE i - 1 \in Objects /\ (i - 1) + 1 = i
  <2>1. i \in 1 .. inputs_size
    BY ServerAssumption, LenProperties DEF inputs_size
  <2> QED BY <2>1, Sizes
<1>3. ASSUME NEW t \in AllTexts
      PROVE  \E o \in Objects : t \in Range(Texts(Inputs[o + 1])) /\ \E l \in Lines : t = Whole(l)
  <2>1. PICK i \in DOMAIN Inputs : \E l \in Range(Inputs[i]) : t = Whole(l)
    BY DEF AllTexts
  <2>2. i - 1 \in Objects /\ (i - 1) + 1 = i
    BY <1>2
  <2>3. /\ Range(Inputs[i]) \subseteq Lines
        /\ Range(Texts(Inputs[i])) = {Whole(l) : l \in Range(Inputs[i])}
    BY <1>1, <2>2
  <2>4. t \in Range(Texts(Inputs[(i - 1) + 1])) /\ \E l \in Lines : t = Whole(l)
    BY <2>1, <2>2, <2>3
  <2> QED BY <2>2, <2>4
<1>4. ASSUME NEW o \in Objects PROVE Range(Texts(Inputs[o + 1])) \subseteq AllTexts
  BY <1>1 DEF AllTexts
<1>5. ASSUME NEW t \in AllTexts
      PROVE  /\ t \in Seq(Symbols) /\ t # <<>> /\ KeyOf(t) \in Nat
             /\ whole_lines(t) = {t} /\ compacted(t) = <<>> /\ EndsLine(t[Len(t)])
  <2>1. PICK l \in Lines : t = Whole(l)
    BY <1>3
  <2> QED BY <2>1, WholeIs, WholeIsWhole
<1> QED BY <1>3, <1>4, <1>5

\* Texts behind each other.
LEMMA AppendTexts ==
  /\ \A a, b, c \in Seq(Symbols) : (a \o b) \o c = a \o (b \o c)
  /\ \A a, b \in Seq(Symbols) : a \o b \in Seq(Symbols)
  /\ \A a \in Seq(Symbols) : a \o <<>> = a /\ <<>> \o a = a
  /\ <<>> \in Seq(Symbols) /\ Len(<<>>) = 0
<1>1. \A a, b, c \in Seq(Symbols) : (a \o b) \o c = a \o (b \o c)
  BY Associative
<1>2. \A a, b \in Seq(Symbols) : a \o b \in Seq(Symbols)
  BY ConcatProperties
<1>3. \A a \in Seq(Symbols) : a \o <<>> = a /\ <<>> \o a = a
  BY ConcatEmptySeq
<1>4. Len(<<>>) = 0
  OBVIOUS
<1> QED BY <1>1, <1>2, <1>3, <1>4, EmptySeq

\* What the server has still to send is a text.
LEMMA ToSendIs ==
  ASSUME NEW obj \in RwObj
  PROVE  /\ SubSeq(obj.line_buf, obj.last_len + 1, Len(obj.line_buf)) \in Seq(Symbols)
         /\ FlattenSeq(Texts(obj.fptr)) \in Seq(Symbols) /\ <<STOP>> \in Seq(Symbols)
         /\ ToSend(obj) \in Seq(Symbols) /\ Len(ToSend(obj)) > 0
         /\ obj.last_len >= Len(obj.line_buf) => ToSend(obj) = FlattenSeq(Texts(obj.fptr)) \o <<STOP>>
<1> DEFINE rest == SubSeq(obj.line_buf, obj.last_len + 1, Len(obj.line_buf))
           all  == FlattenSeq(Texts(obj.fptr))
<1>1. obj.line_buf \in Seq(Symbols) /\ obj.last_len \in Nat /\ obj.fptr \in Seq(Lines)
  BY DEF RwObj
<1>2. /\ rest \in Seq(Symbols)
      /\ Len(rest) = IF obj.last_len <= Len(obj.line_buf) THEN Len(obj.line_buf) - obj.last_len ELSE 0
  BY <1>1, RestIs
<1>3. all \in Seq(Symbols)
  BY <1>1, TextsAre
<1>4. <<STOP>> \in Seq(Symbols) /\ Len(<<STOP>>) = 1
  <2>1. STOP \in Symbols
    BY DEF Symbols
  <2> QED BY <2>1
<1>5. obj.last_len >= Len(obj.line_buf) => rest = <<>>
  <2>1. Len(obj.line_buf) \in Nat
    BY <1>1, LenProperties
  <2>2. obj.last_len >= Len(obj.line_buf) => Len(rest) = 0
    BY <1>1, <1>2, <2>1
  <2> QED BY <1>2, <2>2, EmptySeq
<1> HIDE DEF rest, all
<1>6. rest \o all \in Seq(Symbols)
  BY <1>2, <1>3, ConcatProperties
<1>7. /\ (rest \o all) \o <<STOP>> \in Seq(Symbols)
      /\ Len((rest \o all) \o <<STOP>>) = Len(rest \o all) + 1 /\ Len(rest \o all) \in Nat
  BY <1>4, <1>6, ConcatProperties, LenProperties
<1>8. ToSend(obj) = (rest \o all) \o <<STOP>>
  BY DEF ToSend, rest, all
<1>9. rest = <<>> => rest \o all = all
  BY <1>3, ConcatEmptySeq
<1>10. Len(ToSend(obj)) > 0
  BY <1>7, <1>8
<1> QED BY <1>2, <1>3, <1>4, <1>5, <1>7, <1>8, <1>9, <1>10 DEF rest, all

\* The next symbol of what goes out is the stop, behind the last line; or it belongs to
\* the next line, and ends it only where the line ends.
LEMMA NextSymbol ==
  ASSUME Unended = {}, NEW file \in Seq(Lines), NEW lines,
         NEW lb \in Seq(Symbols), NEW h \in Symbols, NEW x \in Seq(Symbols),
         \A k \in 1 .. Len(lb) : ~EndsLine(lb[k]),
         Outward(lines, lb \o (<<h>> \o x), file)
  PROVE  \/ h = STOP /\ lb = <<>> /\ x = <<>> /\ lines = Range(Texts(file))
         \/ h # STOP /\ (EndsLine(h) => Outward(lines \cup {Append(lb, h)}, x, file))
<1> DEFINE T == lb \o (<<h>> \o x)
           n == Len(lb)
<1>1. PICK i \in 0 .. Len(file) :
        /\ lines = Range(Texts(SubSeq(file, 1, i)))
        /\ T = FlattenSeq(Texts(SubSeq(file, i + 1, Len(file)))) \o <<STOP>>
  BY DEF Outward
<1>2. /\ n \in Nat /\ Len(x) \in Nat /\ <<h>> \o x \in Seq(Symbols)
      /\ Len(<<h>> \o x) = 1 + Len(x) /\ (<<h>> \o x)[1] = h
      /\ \A k \in 1 .. Len(x) : (<<h>> \o x)[1 + k] = x[k]
  <2>1. <<h>> \in Seq(Symbols) /\ Len(<<h>>) = 1 /\ <<h>>[1] = h
    OBVIOUS
  <2>2. /\ <<h>> \o x \in Seq(Symbols) /\ Len(<<h>> \o x) = Len(<<h>>) + Len(x)
        /\ \A k \in 1 .. Len(<<h>>) + Len(x) :
             (<<h>> \o x)[k] = IF k <= Len(<<h>>) THEN <<h>>[k] ELSE x[k - Len(<<h>>)]
    BY <2>1, ConcatProperties
  <2> QED BY <2>1, <2>2, LenProperties
<1>3. /\ T \in Seq(Symbols) /\ Len(T) = n + 1 + Len(x) /\ T[n + 1] = h
      /\ \A k \in 1 .. n : T[k] = lb[k]
      /\ \A k \in 1 .. Len(x) : T[n + 1 + k] = x[k]
  <2> DEFINE y == <<h>> \o x
  <2>1. y \in Seq(Symbols) /\ Len(y) = 1 + Len(x) /\ y[1] = h /\ \A k \in 1 .. Len(x) : y[1 + k] = x[k]
    BY <1>2
  <2> HIDE DEF y
  <2> HIDE DEF T, n
  <2>2. /\ lb \o y \in Seq(Symbols) /\ Len(lb \o y) = n + Len(y)
        /\ \A k \in 1 .. n + Len(y) : (lb \o y)[k] = IF k <= n THEN lb[k] ELSE y[k - n]
    <3>1. y \in Seq(Symbols)
      BY <2>1
    <3>2. /\ lb \o y \in Seq(Symbols) /\ Len(lb \o y) = Len(lb) + Len(y)
          /\ \A k \in 1 .. Len(lb) + Len(y) :
               (lb \o y)[k] = IF k <= Len(lb) THEN lb[k] ELSE y[k - Len(lb)]
      BY <3>1, ConcatProperties
    <3> QED BY <3>2 DEF n
  <2> HIDE DEF n
  <2>3. (lb \o y)[n + 1] = y[1]
    <3>1. n + 1 \in 1 .. n + Len(y) /\ ~(n + 1 <= n) /\ (n + 1) - n = 1
      BY <1>2, <2>1
    <3> QED BY <2>2, <3>1
  <2>4. ASSUME NEW k \in 1 .. Len(x) PROVE (lb \o y)[n + 1 + k] = x[k]
    <3>1. n + 1 + k \in 1 .. n + Len(y) /\ ~(n + 1 + k <= n) /\ (n + 1 + k) - n = 1 + k
      BY <1>2, <2>1
    <3> QED BY <2>1, <2>2, <3>1
  <2>5. \A k \in 1 .. n : (lb \o y)[k] = lb[k]
    BY <1>2, <2>1, <2>2
  <2>6. Len(lb \o y) = n + 1 + Len(x)
    BY <1>2, <2>1, <2>2
  <2> QED BY <2>1, <2>2, <2>3, <2>4, <2>5, <2>6 DEF y, T
<1> HIDE DEF T, n
<1>4. STOP \in Symbols /\ <<STOP>> \in Seq(Symbols) /\ Len(<<STOP>>) = 1 /\ <<STOP>>[1] = STOP
  <2>1. STOP \in Symbols
    BY DEF Symbols
  <2> QED BY <2>1
<1>5. CASE i = Len(file)
  <2>1. /\ FlattenSeq(Texts(SubSeq(file, i + 1, Len(file)))) = <<>>
        /\ lines = Range(Texts(file))
    BY <1>1, <1>5, RestOfFile
  <2>2. <<>> \o <<STOP>> = <<STOP>>
    BY <1>4, ConcatEmptySeq
  <2>3. T = <<STOP>>
    BY <1>1, <2>1, <2>2
  <2>4. n = 0 /\ Len(x) = 0
    BY <1>2, <1>3, <1>4, <2>3
  <2>5. h = STOP /\ lb = <<>> /\ x = <<>>
    BY <1>3, <1>4, <2>3, <2>4, EmptySeq DEF n
  <2> QED BY <2>1, <2>5
<1>6. CASE i < Len(file)
  <2> DEFINE l == file[i + 1]
             w == Whole(l)
             f == FlattenSeq(Texts(SubSeq(file, i + 2, Len(file))))
             r == f \o <<STOP>>
             m == Len(w)
  <2>1. /\ l \in Lines
        /\ FlattenSeq(Texts(SubSeq(file, i + 1, Len(file)))) = w \o f
        /\ Range(Texts(SubSeq(file, 1, i + 1))) = lines \cup {w}
    BY <1>1, <1>6, RestOfFile
  <2>2. f \in Seq(Symbols) /\ r \in Seq(Symbols)
    <3>1. Len(file) \in Nat
      BY LenProperties
    <3>2. i + 1 \in 0 .. Len(file) /\ (i + 1) + 1 = i + 2
      BY <1>6, <3>1
    <3>3. SubSeq(file, i + 2, Len(file)) \in Seq(Lines)
      BY <3>2, RestOfFile
    <3>4. f \in Seq(Symbols)
      BY <3>3, TextsAre
    <3> HIDE DEF f
    <3> QED BY <1>4, <3>4, ConcatProperties
  <2>3. /\ w \in Seq(Symbols) /\ m \in Nat \ {0} /\ EndsLine(w[m])
        /\ \A k \in 1 .. m : w[k] # STOP /\ (k < m => ~EndsLine(w[k]))
    <3>1. /\ w \in Seq(Symbols) /\ m = Length[l] /\ Length[l] \in Nat \ {0}
          /\ \A k \in 1 .. m : w[k] = <<l, k>> /\ <<l, k>> # STOP
          /\ \A k \in 1 .. m - 1 : ~EndsLine(w[k])
          /\ EndsLine(w[m])
      BY <2>1, WholeIs
    <3> HIDE DEF w, l, m
    <3>2. \A k \in 1 .. m : k < m => k \in 1 .. m - 1
      BY <3>1
    <3> QED BY <3>1, <3>2
  <2> HIDE DEF f, w, l
  <2>4. T = w \o r
    <3>1. (w \o f) \o <<STOP>> = w \o (f \o <<STOP>>)
      BY SMTT(30), <1>4, <2>2, <2>3, AppendTexts
    <3> QED BY <1>1, <2>1, <3>1
  <2> HIDE DEF r
  <2>5. /\ Len(T) = m + Len(r) /\ Len(r) \in Nat
        /\ \A k \in 1 .. m : T[k] = w[k]
        /\ \A k \in 1 .. Len(r) : T[m + k] = r[k]
    <3>1. /\ Len(w \o r) = m + Len(r)
          /\ \A k \in 1 .. m + Len(r) : (w \o r)[k] = IF k <= m THEN w[k] ELSE r[k - m]
      BY <2>2, <2>3, ConcatProperties
    <3>2. Len(r) \in Nat
      BY <2>2, LenProperties
    <3> HIDE DEF m
    <3>3. ASSUME NEW k \in 1 .. Len(r) PROVE (w \o r)[m + k] = r[k]
      <4>1. m + k \in 1 .. m + Len(r) /\ ~(m + k <= m) /\ (m + k) - m = k
        BY <2>3, <3>2
      <4> QED BY <3>1, <4>1
    <3>4. \A k \in 1 .. m : (w \o r)[k] = w[k]
      BY <2>3, <3>1, <3>2
    <3> QED BY <2>4, <3>1, <3>2, <3>3, <3>4
  <2>6. n < m
    <3> SUFFICES ASSUME m <= n PROVE FALSE
      BY <1>2, <2>3
    <3>1. m \in 1 .. n /\ m \in 1 .. m
      BY <1>2, <2>3
    <3>2. lb[m] = w[m]
      BY <1>3, <2>5, <3>1
    <3> QED BY <2>3, <3>1, <3>2 DEF n
  <2> HIDE DEF m
  <2>7. h = w[n + 1] /\ n + 1 \in 1 .. m
    <3>1. n + 1 \in 1 .. m
      BY <1>2, <2>3, <2>6
    <3> QED BY <1>3, <2>5, <3>1
  <2>8. ASSUME EndsLine(h) PROVE Outward(lines \cup {Append(lb, h)}, x, file)
    <3>1. n + 1 = m
      BY <1>2, <2>3, <2>7, <2>8
    <3>2. Append(lb, h) = w
      <4>1. /\ Append(lb, h) \in Seq(Symbols) /\ Len(Append(lb, h)) = n + 1
            /\ \A k \in 1 .. n : Append(lb, h)[k] = lb[k]
            /\ Append(lb, h)[n + 1] = h
        BY AppendProperties DEF n
      <4>2. ASSUME NEW k \in 1 .. m PROVE Append(lb, h)[k] = w[k]
        <5>1. CASE k = n + 1
          BY <2>7, <4>1, <5>1
        <5>2. CASE k # n + 1
          <6>1. k \in 1 .. n
            BY <1>2, <3>1, <5>2
          <6> QED BY <1>3, <2>5, <4>1, <6>1
        <5> QED BY <5>1, <5>2
      <4> QED BY <2>3, <3>1, <4>1, <4>2, SeqEqual DEF m
    <3>3. x = r
      <4>1. Len(x) = Len(r)
        BY <1>2, <1>3, <2>3, <2>5, <3>1
      <4>2. \A k \in 1 .. Len(x) : x[k] = r[k]
        BY <1>3, <2>5, <3>1, <4>1
      <4> QED BY <2>2, <4>1, <4>2, SeqEqual
    <3>4. i + 1 \in 0 .. Len(file) /\ (i + 1) + 1 = i + 2
      <4>1. Len(file) \in Nat
        BY LenProperties
      <4> QED BY <1>6, <4>1
    <3>5. x = FlattenSeq(Texts(SubSeq(file, (i + 1) + 1, Len(file)))) \o <<STOP>>
      BY <3>3, <3>4 DEF r, f
    <3>6. lines \cup {Append(lb, h)} = Range(Texts(SubSeq(file, 1, i + 1)))
      BY <2>1, <3>2
    <3> QED BY <3>4, <3>5, <3>6 DEF Outward
  <2>9. h # STOP
    BY <2>3, <2>7
  <2> QED BY <2>8, <2>9
<1>7. i = Len(file) \/ i < Len(file)
  <2>1. Len(file) \in Nat
    BY LenProperties
  <2> QED BY <2>1
<1> QED BY <1>5, <1>6, <1>7

-----------------------------------------------------------------------------
(* What a step has to show.                                                *)

\* What a client has.
LEMMA ClientHas ==
  ASSUME Structure, NEW c \in Clients
  PROVE  /\ line_buf[c] \in Seq(Symbols) /\ root[c] \subseteq Seq(Symbols)
         /\ buf[c] \in Seq(Symbols) /\ down[c] \in Seq(Symbols) /\ up[c] \in Seq(Symbols)
         /\ SocketsTypeOK /\ ClientTypeOK
<1>1. SocketsTypeOK /\ ClientTypeOK
  BY DEF Structure, TypeOK
<1> QED BY <1>1 DEF SocketsTypeOK, ClientTypeOK

\* The texts of a connection.
LEMMA ConnectionTexts ==
  ASSUME Unended = {}, Structure, NEW fd \in DOMAIN conn
  PROVE  /\ FileOf(fd) \in Seq(Lines) /\ TextsOf(fd) \subseteq AllTexts
         /\ rw_objs[Object(fd)].line_buf \in Seq(Symbols)
         /\ Came(fd) \in Seq(Symbols) /\ Stream(fd) \in Seq(Symbols)
         /\ "OUT" \in interest[fd] =>
              Outgoing(fd) = line_buf[conn[fd]] \o (down[conn[fd]] \o ToSend(rw_objs[Object(fd)]))
         /\ "OUT" \notin interest[fd] => Outgoing(fd) = line_buf[conn[fd]] \o down[conn[fd]]
<1>1. /\ conn[fd] \in Clients /\ Object(fd) \in Objects /\ rw_objs[Object(fd)] \in RwObj
      /\ up[conn[fd]] \in Seq(Symbols) /\ down[conn[fd]] \in Seq(Symbols)
  BY ConnectionHas
<1>2. line_buf[conn[fd]] \in Seq(Symbols) /\ buf[conn[fd]] \in Seq(Symbols)
  BY <1>1, ClientHas
<1>3. rw_objs[Object(fd)].line_buf \in Seq(Symbols) /\ ToSend(rw_objs[Object(fd)]) \in Seq(Symbols)
  BY <1>1, ToSendIs DEF RwObj
<1>4. FileOf(fd) \in Seq(Lines) /\ TextsOf(fd) \subseteq AllTexts
  BY <1>1, Sizes, AllTextsAre DEF FileOf, TextsOf
<1>5. Came(fd) \in Seq(Symbols) /\ Stream(fd) \in Seq(Symbols)
  BY <1>1, <1>2, <1>3, AppendTexts DEF Came, Stream
<1>6. line_buf[conn[fd]] \o down[conn[fd]] \in Seq(Symbols)
  BY <1>1, <1>2, AppendTexts
<1>7. "OUT" \in interest[fd] =>
        Outgoing(fd) = line_buf[conn[fd]] \o (down[conn[fd]] \o ToSend(rw_objs[Object(fd)]))
  <2> DEFINE l == line_buf[conn[fd]]   d == down[conn[fd]]   t == ToSend(rw_objs[Object(fd)])
  <2>1. "OUT" \in interest[fd] => Outgoing(fd) = (l \o d) \o t
    BY DEF Outgoing, Unsent
  <2>2. l \in Seq(Symbols) /\ d \in Seq(Symbols) /\ t \in Seq(Symbols)
    BY <1>1, <1>2, <1>3
  <2> HIDE DEF l, d, t
  <2>3. (l \o d) \o t = l \o (d \o t)
    BY <2>2, AppendTexts
  <2> QED BY <2>1, <2>3 DEF l, d, t
<1>8. "OUT" \notin interest[fd] => Outgoing(fd) = line_buf[conn[fd]] \o down[conn[fd]]
  <2>1. "OUT" \notin interest[fd] => Outgoing(fd) = (line_buf[conn[fd]] \o down[conn[fd]]) \o <<>>
    BY DEF Outgoing, Unsent
  <2> QED BY <1>6, <2>1, AppendTexts
<1> QED BY <1>3, <1>4, <1>5, <1>7, <1>8

\* A connection no step touches keeps what it has, whatever comes back on others.
LEMMA Untouched ==
  ASSUME NEW g \in DOMAIN conn, Connection(g),
         conn'[g] = conn[g], con2rw_obj'[g] = con2rw_obj[g], interest'[g] = interest[g],
         rw_objs'[con2rw_obj[g]] = rw_objs[con2rw_obj[g]],
         server_end'[conn[g]] = server_end[conn[g]], client'[conn[g]] = client[conn[g]],
         line_buf'[conn[g]] = line_buf[conn[g]], root'[conn[g]] = root[conn[g]],
         buf'[conn[g]] = buf[conn[g]], down'[conn[g]] = down[conn[g]], up'[conn[g]] = up[conn[g]],
         heap_root \subseteq heap_root'
  PROVE  Connection(g)'
<1>1. /\ Object(g)' = Object(g) /\ FileOf(g)' = FileOf(g) /\ Outgoing(g)' = Outgoing(g)
      /\ Came(g)' = Came(g) /\ Stream(g)' = Stream(g) /\ TextsOf(g)' = TextsOf(g)
  BY DEF Object, FileOf, Outgoing, Unsent, Came, Stream, TextsOf
<1>2. (server_end'[conn'[g]] = "open") /\ GoesOut(g)' /\ Sends(g)'
  BY <1>1 DEF Connection, GoesOut, Sends, Object
<1>3. ComesBack(g)'
  BY <1>1 DEF Connection, ComesBack, Object
<1> QED BY <1>2, <1>3 DEF Connection

\* Nothing has been printed before the loop ends; and then there are no connections.
LEMMA NoConnections ==
  ASSUME Structure, Printed, pc \in {"drain", "done"}
  PROVE  DOMAIN conn = {} /\ connections_size = inputs_size
<1>1. connections_limit = 0 /\ connections_limit = inputs_size - connections_size + Cardinality(DOMAIN conn)
  BY DEF Structure, Counting, Printed, Broken
<1>2. connections_size \in 0 .. inputs_size /\ inputs_size \in Nat
  BY Sizes DEF Structure, TypeOK, ServerTypeOK
<1>3. IsFiniteSet(DOMAIN conn) /\ Cardinality(DOMAIN conn) \in Nat
  BY FiniteConnections
<1>4. Cardinality(DOMAIN conn) = 0 /\ connections_size = inputs_size
  BY <1>1, <1>2, <1>3
<1> QED BY <1>3, <1>4, FS_EmptySet

\* Printed, in the steps of the loop: nothing is printed.
LEMMA StillUnprinted ==
  ASSUME Printed, pc \notin {"drain", "done"}, output' = output, heap_root' \subseteq AllTexts,
         pc' \in {"drain", "done"} => connections_limit' = 0
  PROVE  Printed'
<1>1. output' = <<>>
  BY DEF Printed
<1>2. DOMAIN output' = {} /\ Range(output') = {}
  BY <1>1 DEF Range
<1>3. PrintsInOrder'
  BY <1>2 DEF PrintsInOrder
<1> QED BY <1>1, <1>2, <1>3 DEF Printed, AllTexts

\* The loop ends when connections_limit is 0.
LEMMA EndOfLoop ==
  ASSUME Structure', NEW fd, Handled(fd)
  PROVE  pc' # "done" /\ (pc' = "drain" => connections_limit' = 0)
<1>1. connections_limit' \in 0 .. inputs_size
  BY DEF Structure, TypeOK, ServerTypeOK, inputs_size
<1> QED BY <1>1, Sizes DEF Handled, LoopAgain

\* The server serves a connection.
LEMMA ServesStreams ==
  ASSUME Structure, Structure', Streams, NEW fd \in DOMAIN conn \cap DOMAIN evlist, Serves(fd),
         Connection(fd)', heap_root \subseteq heap_root', heap_root' \subseteq AllTexts,
         client[conn[fd]] \in {"writing", "done"} => down'[conn[fd]] = <<>>,
         client[conn[fd]] \in {"start", "reading"} => up'[conn[fd]] = <<>>,
         \A d \in Clients : client_end'[d] = client_end[d] \/ (Gone(d) /\ client_end'[d] = "closed")
  PROVE  Streams'
<1> DEFINE c == conn[fd]
<1>1. c \in Clients /\ client[c] # "start" /\ Object(fd) \in Objects
  BY ConnectionHas DEF Structure, Peers
<1>2. UNCHANGED <<backlog, server_end, conn, con2rw_obj, connections_limit, output,
                  client, line_buf, root, buf>>
  BY DEF Serves, clientVars
<1>3. \A d \in Clients \ {c} : down'[d] = down[d] /\ up'[d] = up[d]
  BY DEF Serves
<1>4. ASSUME NEW d \in Clients PROVE Ends(d)'
  <2>1. Ends(d)
    BY DEF Streams
  <2>2. client[d] \in {"reading", "writing"} => client_end'[d] = "open"
    BY <2>1 DEF Ends, Gone
  <2>3. CASE d = c
    BY <1>1, <1>2, <2>1, <2>2, <2>3 DEF Ends
  <2>4. CASE d # c
    BY <1>2, <1>3, <2>1, <2>2, <2>4 DEF Ends
  <2> QED BY <2>3, <2>4
<1>8. ASSUME NEW d \in Clients PROVE Reads(d)'
  <2>1. CASE d # c
    <3>1. UNCHANGED <<client[d], root[d], line_buf[d], down[d]>> /\ Reads(d)
      BY <1>2, <1>3, <2>1 DEF Streams
    <3> QED BY <3>1 DEF Reads
  <2>2. CASE d = c
    <3> SUFFICES ASSUME client'[c] = "reading"
                 PROVE  \E o \in Objects, x \in Seq(Symbols) :
                          Outward(root'[c], line_buf'[c] \o (down'[c] \o x), Inputs[o + 1])
      BY <2>2 DEF Reads
    <3>1. PICK x, l, e : x = Unsent(fd)' /\ l = line_buf'[c] /\ e = down'[c]
      OBVIOUS
    <3>2. /\ conn'[fd] = c /\ FileOf(fd)' = Inputs[Object(fd) + 1]
          /\ Outward(root'[c], Outgoing(fd)', FileOf(fd)')
      BY <1>2 DEF Connection, GoesOut, FileOf, Object
    <3>3. Outgoing(fd)' = (l \o e) \o x
      BY <3>1, <3>2 DEF Outgoing
    <3>4. /\ l \in Seq(Symbols) /\ e \in Seq(Symbols) /\ x \in Seq(Symbols)
      <4>1. SocketsTypeOK' /\ ClientTypeOK'
        BY DEF Structure, TypeOK
      <4>2. l \in Seq(Symbols) /\ e \in Seq(Symbols)
        BY <1>1, <3>1, <4>1 DEF SocketsTypeOK, ClientTypeOK
      <4>3. Object(fd)' \in Objects /\ rw_objs' \in [Objects -> RwObj]
        BY <1>1, <1>2 DEF Serves, Object
      <4>4. ToSend(rw_objs'[Object(fd)']) \in Seq(Symbols) /\ <<>> \in Seq(Symbols)
        BY <4>3, ToSendIs, EmptySeq
      <4> QED BY <3>1, <4>2, <4>4 DEF Unsent
    <3>5. (l \o e) \o x = l \o (e \o x)
      BY <3>4, AppendTexts
    <3> QED BY <1>1, <3>1, <3>2, <3>3, <3>4, <3>5
  <2> QED BY <2>1, <2>2
<1>5. ASSUME NEW i \in DOMAIN backlog' PROVE Waits(backlog[i])'
  <2>1. i \in DOMAIN backlog /\ backlog[i] # c
    BY <1>2 DEF Structure, Peers
  <2>2. backlog[i] \in Clients /\ Waits(backlog[i])
    BY <2>1, LenProperties, ElementOfSeq DEF Structure, TypeOK, SocketsTypeOK, Streams
  <2> QED BY <1>2, <1>3, <2>1, <2>2 DEF Waits
<1>6. ASSUME NEW g \in DOMAIN conn' PROVE Connection(g)'
  <2>1. CASE g = fd
    BY <2>1
  <2>2. CASE g # fd
    <3>1. g \in DOMAIN conn /\ Connection(g)
      BY <1>2 DEF Streams
    <3>2. conn[g] \in Clients \ {c} /\ Object(g) \in Objects \ {Object(fd)} /\ g \in DOMAIN interest
      BY <2>2, <3>1, ConnectionHas DEF Structure, OwnObject, Object
    <3>3. rw_objs'[con2rw_obj[g]] = rw_objs[con2rw_obj[g]] /\ interest'[g] = interest[g]
      BY <2>2, <3>2 DEF Serves, Object
    <3> QED BY <1>2, <1>3, <3>1, <3>2, <3>3, Untouched
  <2> QED BY <2>1, <2>2
<1>7. Printed'
  <2>1. pc \notin {"drain", "done"} /\ output' = output
    BY DEF Serves
  <2>2. pc' \in {"drain", "done"} => connections_limit' = 0
    BY EndOfLoop DEF Serves
  <2> QED BY <2>1, <2>2, StillUnprinted DEF Streams
<1> QED BY <1>4, <1>5, <1>6, <1>7, <1>8 DEF Streams

\* A client moves.
LEMMA MovesStreams ==
  ASSUME Structure, Structure', Streams, NEW c \in Clients, Moves(c), Ends(c)', Reads(c)',
         \A i \in DOMAIN backlog' : backlog'[i] = c => Waits(c)',
         \A fd \in DOMAIN conn : conn[fd] = c => Connection(fd)'
  PROVE  Streams'
<1>1. UNCHANGED <<pc, interest, conn, con2rw_obj, rw_objs, connections_limit, heap_root, output>>
  BY DEF Moves, serverVars
<1>2. \A d \in Clients \ {c} :
        /\ client'[d] = client[d] /\ client_end'[d] = client_end[d] /\ server_end'[d] = server_end[d]
        /\ down'[d] = down[d] /\ up'[d] = up[d] /\ line_buf'[d] = line_buf[d]
        /\ root'[d] = root[d] /\ buf'[d] = buf[d]
  BY DEF Moves
<1>3. ASSUME NEW d \in Clients PROVE Ends(d)' /\ Reads(d)'
  <2>1. CASE d = c
    BY <2>1
  <2>2. CASE d # c
    <3>1. Ends(d)'
      BY <1>2, <2>2 DEF Streams, Ends
    <3>2. UNCHANGED <<client[d], root[d], line_buf[d], down[d]>> /\ Reads(d)
      BY <1>2, <2>2 DEF Streams
    <3> QED BY <3>1, <3>2 DEF Reads
  <2> QED BY <2>1, <2>2
<1>4. ASSUME NEW i \in DOMAIN backlog' PROVE Waits(backlog[i])'
  <2>1. CASE backlog'[i] = c
    BY <2>1
  <2>2. CASE backlog'[i] # c
    <3>1. backlog \in Seq(Clients)
      BY DEF Structure, TypeOK, SocketsTypeOK
    <3>2. i \in DOMAIN backlog /\ backlog'[i] = backlog[i]
      <4>1. CASE backlog' = backlog
        BY <4>1
      <4>2. CASE backlog' = Append(backlog, c)
        <5>1. /\ Len(backlog') = Len(backlog) + 1 /\ backlog'[Len(backlog) + 1] = c
              /\ \A k \in 1 .. Len(backlog) : backlog'[k] = backlog[k]
              /\ backlog' \in Seq(Clients)
          BY <3>1, <4>2, AppendProperties
        <5>2. DOMAIN backlog' = 1 .. Len(backlog) + 1 /\ DOMAIN backlog = 1 .. Len(backlog)
              /\ Len(backlog) \in Nat
          BY <3>1, <5>1, LenProperties
        <5> QED BY <2>2, <5>1, <5>2
      <4> QED BY <4>1, <4>2 DEF Moves
    <3>3. backlog[i] \in Clients \ {c} /\ Waits(backlog[i])
      BY <2>2, <3>1, <3>2, LenProperties, ElementOfSeq DEF Streams
    <3> QED BY <1>2, <3>2, <3>3 DEF Waits
  <2> QED BY <2>1, <2>2
<1>5. ASSUME NEW g \in DOMAIN conn' PROVE Connection(g)'
  <2>1. g \in DOMAIN conn /\ Connection(g) /\ conn[g] \in Clients
    BY <1>1, ConnectionHas DEF Streams
  <2>2. CASE conn[g] = c
    BY <2>1, <2>2
  <2>3. CASE conn[g] # c
    BY <1>1, <1>2, <2>1, <2>3, Untouched
  <2> QED BY <2>2, <2>3
<1>6. Printed'
  BY <1>1 DEF Streams, Printed, PrintsInOrder, AllTexts
<1> QED BY <1>3, <1>4, <1>5, <1>6 DEF Streams

-----------------------------------------------------------------------------
(* The server's steps.                                                     *)

\* At first nothing is on its way.
LEMMA StreamsInit == Init => Streams
<1> SUFFICES ASSUME Init PROVE Streams
  OBVIOUS
<1> USE DEF Init, SocketsInit, ServerInit, ClientInit
<1>1. \A c \in Clients : Ends(c) /\ Reads(c)
  BY DEF Ends, Reads
<1>2. DOMAIN backlog = {} /\ DOMAIN conn = {} /\ DOMAIN output = {}
  OBVIOUS
<1>3. Printed
  BY <1>2 DEF Printed, PrintsInOrder, Range
<1> QED BY <1>1, <1>2, <1>3 DEF Streams

\* The steps that leave the connections alone, or close them all.
LEMMA QuietStreams ==
  ASSUME Structure, Streams, UNCHANGED <<clientVars, client_end, down, up, heap_root, output>>,
         pc \notin {"drain", "done"}, pc' \notin {"drain", "done"},
         \/ UNCHANGED <<backlog, server_end, conn, con2rw_obj, rw_objs>>
            /\ \A fd \in DOMAIN conn : interest'[fd] = interest[fd]
         \/ DOMAIN backlog' = {} /\ DOMAIN conn' = {}
  PROVE  Streams'
<1>1. \A c \in Clients : Ends(c)' /\ Reads(c)'
  BY DEF Streams, Ends, Reads, clientVars
<1>2. \A i \in DOMAIN backlog' : Waits(backlog[i])'
  BY DEF Streams, Waits, clientVars
<1>3. \A fd \in DOMAIN conn' : Connection(fd)'
  <2>1. CASE /\ UNCHANGED <<backlog, server_end, conn, con2rw_obj, rw_objs>>
             /\ \A fd \in DOMAIN conn : interest'[fd] = interest[fd]
    <3> SUFFICES ASSUME NEW fd \in DOMAIN conn' PROVE Connection(fd)'
      OBVIOUS
    <3>1. fd \in DOMAIN conn /\ Connection(fd)
      BY <2>1 DEF Streams
    <3> QED BY <2>1, <3>1, Untouched DEF clientVars
  <2> QED BY <2>1
<1>4. Printed'
  BY StillUnprinted DEF Streams, Printed
<1> QED BY <1>1, <1>2, <1>3, <1>4 DEF Streams

\* A new connection has all of its file to send, to a client that has got nothing.
LEMMA AcceptStreams ==
  ASSUME Unended = {}, Structure, Structure', Streams, accept, UNCHANGED clientVars
  PROVE  Streams'
<1>0. PICK f, c, file : f = lowest_fd /\ c = Head(backlog) /\ file = Inputs[connections_size + 1]
  OBVIOUS
<1>1. /\ Handled(connection_socket) /\ pc = "events"
      /\ backlog # <<>> /\ c \in Clients /\ connections_size \in 0 .. inputs_size - 1
      /\ f \notin DOMAIN conn /\ DOMAIN conn' = DOMAIN conn \cup {f} /\ conn'[f] = c
      /\ \A g \in DOMAIN conn : conn'[g] = conn[g] /\ con2rw_obj'[g] = con2rw_obj[g]
      /\ con2rw_obj'[f] = connections_size
      /\ rw_objs' = [rw_objs EXCEPT ![connections_size] = [NoObject EXCEPT !.fptr = file]]
      /\ f \in DOMAIN interest' /\ interest'[f] = {"OUT"}
      /\ DOMAIN interest' = DOMAIN conn' \cup (IF listening' THEN {connection_socket} ELSE {})
      /\ \A g \in DOMAIN interest \cap DOMAIN interest' : interest'[g] = interest[g]
  BY <1>0, AcceptIs
<1>2. /\ UNCHANGED <<client_end, down, up, heap_root, output, connections_limit>>
      /\ \/ Stop_listening({c})
         \/ backlog' = Tail(backlog) /\ UNCHANGED server_end
  BY <1>0 DEF accept
<1>3. UNCHANGED <<client, line_buf, root, buf>>
  BY DEF clientVars
<1>4. /\ backlog \in Seq(Clients) /\ Len(backlog) \in Nat \ {0} /\ DOMAIN backlog = 1 .. Len(backlog)
      /\ c = backlog[1] /\ Range(backlog) = {backlog[i] : i \in 1 .. Len(backlog)}
  <2>1. backlog \in Seq(Clients)
    BY DEF Structure, TypeOK, SocketsTypeOK
  <2>2. Len(backlog) \in Nat \ {0} /\ DOMAIN backlog = 1 .. Len(backlog)
    BY <1>1, <2>1, LenProperties, EmptySeq
  <2>3. c = backlog[1]
    BY <1>0, <2>1, <2>2
  <2> QED BY <2>1, <2>2, <2>3 DEF Range
<1>5. 1 \in DOMAIN backlog /\ Waits(c)
  <2>1. 1 \in DOMAIN backlog
    BY <1>4
  <2> QED BY <1>4, <2>1 DEF Streams
<1>6. \A d \in Clients : d = c \/ d \notin Range(backlog) => server_end'[d] = server_end[d]
  BY <1>2 DEF Stop_listening
<1>7. \A d \in Clients : Ends(d)' /\ Reads(d)'
  BY <1>2, <1>3 DEF Streams, Ends, Reads
<1>8. ASSUME NEW i \in DOMAIN backlog' PROVE Waits(backlog[i])'
  <2>1. backlog' = Tail(backlog) /\ UNCHANGED server_end
    BY <1>2 DEF Stop_listening
  <2>2. /\ backlog' \in Seq(Clients) /\ Len(backlog') = Len(backlog) - 1
        /\ \A k \in 1 .. Len(backlog') : backlog'[k] = backlog[k + 1]
    BY <1>1, <1>4, <2>1, HeadTailProperties
  <2>3. DOMAIN backlog' = 1 .. Len(backlog')
    BY <2>2, LenProperties
  <2>4. i + 1 \in DOMAIN backlog /\ backlog'[i] = backlog[i + 1]
    BY <1>4, <2>2, <2>3
  <2>5. Waits(backlog[i + 1])
    BY <2>4 DEF Streams
  <2> QED BY <1>2, <1>3, <2>1, <2>4, <2>5 DEF Waits
<1>9. connections_size \in Objects /\ file \in Seq(Lines) /\ rw_objs \in [Objects -> RwObj]
  <2>1. connections_size \in Objects
    BY <1>1, Sizes
  <2> QED BY <1>0, <2>1, Sizes DEF Structure, TypeOK, ServerTypeOK, RwObj
<1>10. /\ rw_objs'[connections_size] = [NoObject EXCEPT !.fptr = file]
       /\ \A o \in Objects \ {connections_size} : rw_objs'[o] = rw_objs[o]
  BY <1>1, <1>9
<1>11. ASSUME NEW g \in DOMAIN conn PROVE Connection(g)'
  <2>1. /\ conn[g] \in Clients /\ Connection(g) /\ con2rw_obj[g] \in Objects
        /\ con2rw_obj[g] < connections_size /\ g \in DOMAIN interest
    BY ConnectionHas DEF Streams, Object
  <2>2. rw_objs'[con2rw_obj[g]] = rw_objs[con2rw_obj[g]]
    <3>1. con2rw_obj[g] # connections_size
      BY <1>9, <2>1, Sizes
    <3> QED BY <1>10, <2>1, <3>1
  <2>3. server_end'[conn[g]] = server_end[conn[g]]
    <3>1. \A i \in DOMAIN backlog : conn[g] # backlog[i]
      BY DEF Structure, Peers
    <3> QED BY <1>4, <1>6, <2>1, <3>1
  <2>4. interest'[g] = interest[g]
    BY <1>1, <2>1
  <2> QED BY <1>1, <1>2, <1>3, <2>1, <2>2, <2>3, <2>4, Untouched
<1>12. Connection(f)'
  <2> DEFINE new == [NoObject EXCEPT !.fptr = file]
  <2>1. /\ new.line_buf = <<>> /\ new.last_len = 0 /\ new.fptr = file /\ new \in RwObj
    BY <1>9, EmptySeq DEF NoObject, RwObj
  <2> HIDE DEF new
  <2>2. /\ Object(f)' = connections_size /\ FileOf(f)' = file
        /\ rw_objs'[Object(f)'] = new /\ conn'[f] = c
    BY <1>0, <1>1, <1>10 DEF Object, FileOf, new
  <2>3. /\ server_end'[c] = "open" /\ up'[c] = <<>> /\ down'[c] = <<>>
        /\ client'[c] \in {"reading", "killed"}
        /\ client'[c] = "reading" => line_buf'[c] = <<>> /\ root'[c] = {}
    BY <1>1, <1>2, <1>3, <1>5, <1>6 DEF Waits
  <2>4. ASSUME client'[c] = "reading" PROVE Outward(root'[c], Outgoing(f)', file)
    <3>1. /\ Outgoing(f)' = (<<>> \o <<>>) \o ToSend(new) /\ ToSend(new) \in Seq(Symbols)
          /\ ToSend(new) = FlattenSeq(Texts(file)) \o <<STOP>>
      <4>1. Outgoing(f)' = (line_buf'[c] \o down'[c]) \o ToSend(new)
        BY <1>1, <2>2 DEF Outgoing, Unsent, Object
      <4>2. new.last_len >= Len(new.line_buf)
        BY <2>1, EmptySeq
      <4> QED BY <2>1, <2>3, <2>4, <4>1, <4>2, ToSendIs
    <3>2. Outgoing(f)' = FlattenSeq(Texts(file)) \o <<STOP>>
      BY <3>1, AppendTexts
    <3>3. 0 \in 0 .. Len(file) /\ SubSeq(file, 0 + 1, Len(file)) = file
          /\ Range(Texts(SubSeq(file, 1, 0))) = {}
      <4>1. 0 \in 0 .. Len(file)
        BY <1>9, LenProperties
      <4> QED BY <1>9, <4>1, RestOfFile
    <3> QED BY <2>3, <2>4, <3>2, <3>3 DEF Outward
  <2>5. GoesOut(f)'
    BY <2>2, <2>4 DEF GoesOut
  <2>6. Sends(f)'
    <3>1. new.last_len <= Len(new.line_buf)
      BY <2>1, EmptySeq
    <3> QED BY <1>1, <2>2, <2>3, <3>1 DEF Sends
  <2>7. ComesBack(f)'
    BY <1>1 DEF ComesBack
  <2> QED BY <2>2, <2>3, <2>5, <2>6, <2>7 DEF Connection
<1>13. Printed'
  <2>1. pc' # "done" /\ (pc' = "drain" => connections_limit' = 0)
    BY <1>1, EndOfLoop
  <2> QED BY <1>1, <1>2, <2>1, StillUnprinted DEF Streams, Printed
<1> QED BY <1>1, <1>7, <1>8, <1>11, <1>12, <1>13 DEF Streams

\* The next line goes into line_buf, in front of what follows it.
LEMMA SendLineStreams ==
  ASSUME Unended = {}, Structure, Streams, NEW fd \in DOMAIN evlist,
         SendRest(fd) \/ SendLine(fd), UNCHANGED clientVars
  PROVE  Connection(fd)'
<1> DEFINE c == conn[fd]   obj == rw_objs[Object(fd)]
<1>1. "OUT" \in evlist[fd] /\ fd \in DOMAIN conn /\ interest[fd] = {"OUT"}
  <2>1. "OUT" \in evlist[fd]
    BY DEF SendRest, SendLine, Sending, Has
  <2> QED BY <2>1, EventOf
<1>2. /\ Connection(fd) /\ Object(fd) \in Objects /\ obj \in RwObj /\ c \in Clients
      /\ rw_objs \in [Objects -> RwObj]
  BY <1>1, ConnectionHas DEF Streams, Structure, TypeOK, ServerTypeOK, RwObj
<1>3. /\ UNCHANGED <<server_end, down, up, interest, conn, con2rw_obj, heap_root>>
      /\ UNCHANGED <<client, line_buf, root, buf>>
  BY DEF SendRest, SendLine, socketVars, clientVars
<1>4. CASE SendRest(fd)
  <2>1. rw_objs' = rw_objs
    BY <1>4 DEF SendRest
  <2> QED BY <1>1, <1>2, <1>3, <2>1, Untouched
<1>5. CASE SendLine(fd)
  <2> DEFINE new == [obj EXCEPT !.line_buf = Whole(Head(obj.fptr)), !.last_len = 0,
                                !.fptr = Tail(obj.fptr)]
  <2>1. /\ obj.fptr \in Seq(Lines) /\ obj.fptr # <<>> /\ obj.last_len >= Len(obj.line_buf)
        /\ rw_objs' = [rw_objs EXCEPT ![Object(fd)] = new]
    BY <1>2, <1>5 DEF SendLine, LineSent, RwObj
  <2>2. /\ Head(obj.fptr) \in Lines /\ Tail(obj.fptr) \in Seq(Lines)
        /\ FlattenSeq(Texts(obj.fptr)) = Whole(Head(obj.fptr)) \o FlattenSeq(Texts(Tail(obj.fptr)))
    BY <2>1, FirstText
  <2> DEFINE w == Whole(Head(obj.fptr))   r == FlattenSeq(Texts(Tail(obj.fptr)))
  <2>3. w \in Seq(Symbols) /\ r \in Seq(Symbols) /\ Len(w) \in Nat
    BY <2>2, WholeIs, TextsAre, LenProperties
  <2>4. /\ new \in RwObj /\ new.line_buf = w /\ new.last_len = 0 /\ new.fptr = Tail(obj.fptr)
    BY <1>2, <2>2, <2>3 DEF RwObj
  <2>5. ToSend(obj) = (w \o r) \o <<STOP>>
    BY <1>2, <2>1, <2>2, ToSendIs
  <2>6. ToSend(new) = (w \o r) \o <<STOP>>
    <3>1. SubSeq(w, 0 + 1, Len(w)) = w
      BY <2>3, SubSeqFull
    <3> HIDE DEF new, w
    <3> QED BY <2>4, <3>1 DEF ToSend
  <2> HIDE DEF new, w, r
  <2>7. rw_objs'[Object(fd)] = new /\ Object(fd)' = Object(fd) /\ FileOf(fd)' = FileOf(fd)
    BY <1>2, <1>3, <2>1 DEF Object, FileOf
  <2>8. Outgoing(fd)' = Outgoing(fd)
    BY <1>1, <1>3, <2>5, <2>6, <2>7 DEF Outgoing, Unsent
  <2>9. GoesOut(fd)'
    BY <1>2, <1>3, <2>7, <2>8 DEF Connection, GoesOut
  <2>10. Sends(fd)'
    BY <1>1, <1>2, <1>3, <2>3, <2>4, <2>7 DEF Connection, Sends
  <2>11. ComesBack(fd)' /\ server_end'[conn'[fd]] = "open"
    BY <1>1, <1>2, <1>3 DEF Connection, ComesBack
  <2> QED BY <2>9, <2>10, <2>11 DEF Connection
<1> QED BY <1>4, <1>5

\* What is left of what is left.
LEMMA RestOfRest ==
  ASSUME NEW t \in Seq(Symbols), NEW m \in Nat,
         NEW n \in 0 .. Len(SubSeq(t, m + 1, Len(t)))
  PROVE  /\ SubSeq(t, (m + n) + 1, Len(t)) \in Seq(Symbols)
         /\ SubSeq(SubSeq(t, m + 1, Len(t)), 1, n) \in Seq(Symbols)
         /\ SubSeq(SubSeq(t, m + 1, Len(t)), 1, n) \o SubSeq(t, (m + n) + 1, Len(t))
              = SubSeq(t, m + 1, Len(t))
<1> DEFINE r == SubSeq(t, m + 1, Len(t))
           q == SubSeq(t, (m + n) + 1, Len(t))
<1>1. /\ r \in Seq(Symbols) /\ Len(r) = (IF m <= Len(t) THEN Len(t) - m ELSE 0)
      /\ \A i \in 1 .. Len(t) - m : r[i] = t[m + i]
  BY RestIs
<1>2. Len(t) \in Nat /\ Len(r) \in Nat /\ n \in Nat /\ n <= Len(r) /\ m + n \in Nat
  BY <1>1, LenProperties
<1>3. /\ q \in Seq(Symbols) /\ Len(q) = (IF m + n <= Len(t) THEN Len(t) - (m + n) ELSE 0)
      /\ \A i \in 1 .. Len(t) - (m + n) : q[i] = t[(m + n) + i]
  BY <1>2, RestIs
<1> HIDE DEF r, q
<1>4. /\ SubSeq(r, n + 1, Len(r)) \in Seq(Symbols) /\ Len(SubSeq(r, n + 1, Len(r))) = Len(r) - n
      /\ SubSeq(r, 1, n) \in Seq(Symbols)
      /\ SubSeq(r, 1, n) \o SubSeq(r, n + 1, Len(r)) = r
  <2>1. n \in 0 .. Len(r)
    BY <1>2
  <2> QED BY <1>1, <2>1, Split
<1>5. \A i \in 1 .. Len(r) - n : SubSeq(r, n + 1, Len(r))[i] = r[n + i]
  BY <1>1, <1>2, RestIs
<1>6. SubSeq(r, n + 1, Len(r)) = q
  <2>1. Len(q) = Len(r) - n
    BY <1>1, <1>2, <1>3
  <2>2. ASSUME NEW i \in 1 .. Len(q) PROVE SubSeq(r, n + 1, Len(r))[i] = q[i]
    <3>1. /\ i \in 1 .. Len(r) - n /\ n + i \in 1 .. Len(t) - m /\ i \in 1 .. Len(t) - (m + n)
          /\ m + (n + i) = (m + n) + i
      BY <1>1, <1>2, <1>3, <2>1
    <3>2. SubSeq(r, n + 1, Len(r))[i] = r[n + i]
      BY <1>5, <3>1
    <3>3. r[n + i] = t[m + (n + i)]
      BY <1>1, <3>1
    <3>4. q[i] = t[(m + n) + i]
      BY <1>3, <3>1
    <3> QED BY <3>1, <3>2, <3>3, <3>4
  <2> QED BY <1>3, <1>4, <2>1, <2>2, SeqEqual
<1> QED BY <1>3, <1>4, <1>6 DEF r, q

\* The same texts behind each other, taken together in two ways.
Regrouped(l, d, p, q, a, s) ==
  (l \o (d \o p)) \o ((q \o a) \o s) = (l \o d) \o (((p \o q) \o a) \o s)

\* It makes no difference how texts are taken together.
LEMMA Regroup ==
  ASSUME NEW l \in Seq(Symbols), NEW d \in Seq(Symbols), NEW p \in Seq(Symbols),
         NEW q \in Seq(Symbols), NEW a \in Seq(Symbols), NEW s \in Seq(Symbols)
  PROVE  Regrouped(l, d, p, q, a, s)
<1> DEFINE x == (q \o a) \o s
<1>1. /\ x \in Seq(Symbols) /\ q \o a \in Seq(Symbols) /\ l \o d \in Seq(Symbols)
      /\ p \o x \in Seq(Symbols)
  <2>1. q \o a \in Seq(Symbols) /\ l \o d \in Seq(Symbols)
    BY AppendTexts
  <2>2. x \in Seq(Symbols)
    BY <2>1, AppendTexts
  <2> HIDE DEF x
  <2> QED BY <2>1, <2>2, AppendTexts
<1>2. ((p \o q) \o a) \o s = p \o x
  <2>1. (p \o q) \o a = p \o (q \o a)
    BY ConcatAssociative, SMTT(60)
  <2>2. (p \o (q \o a)) \o s = p \o ((q \o a) \o s)
    <3> DEFINE y == q \o a
    <3>1. y \in Seq(Symbols)
      BY <1>1
    <3> HIDE DEF x, y
    <3>2. (p \o y) \o s = p \o (y \o s)
      BY <3>1, ConcatAssociative, SMTT(60)
    <3> QED BY <3>2 DEF y
  <2> QED BY <2>1, <2>2
<1> HIDE DEF x
<1>3. l \o (d \o p) = (l \o d) \o p
  BY ConcatAssociative, SMTT(60)
<1>4. ((l \o d) \o p) \o x = (l \o d) \o (p \o x)
  <2> DEFINE y == l \o d
  <2>1. y \in Seq(Symbols) /\ x \in Seq(Symbols)
    BY <1>1
  <2> HIDE DEF y
  <2>2. (y \o p) \o x = y \o (p \o x)
    BY <2>1, ConcatAssociative, SMTT(60)
  <2> QED BY <2>2 DEF y
<1> QED BY <1>2, <1>3, <1>4 DEF x, Regrouped

\* What a write puts into the socket it takes from what is still to be sent.
LEMMA WriteLineStreams ==
  ASSUME Unended = {}, Structure, Streams, write_line, UNCHANGED clientVars
  PROVE  \E fd : fd = writing /\ Connection(fd)'
<1>0. PICK fd : fd = writing
  OBVIOUS
<1>1. /\ fd \in DOMAIN conn /\ interest[fd] = {"OUT"}
  BY <1>0, WritingIs DEF write_line
<1> DEFINE c == conn[fd]   obj == rw_objs[Object(fd)]   t == obj.line_buf   m == obj.last_len
           rest == SubSeq(t, m + 1, Len(t))   n == Fitting(rest, down[c])
<1>2. /\ n > 0
      /\ down' = [down EXCEPT ![c] = down[c] \o SubSeq(rest, 1, n)]
      /\ rw_objs' = [rw_objs EXCEPT ![Object(fd)].last_len = m + n]
      /\ UNCHANGED <<server_end, up, interest, conn, con2rw_obj, heap_root,
                     client, line_buf, root, buf>>
  BY <1>0 DEF write_line, clientVars
<1>3. /\ Connection(fd) /\ Object(fd) \in Objects /\ obj \in RwObj /\ c \in Clients
      /\ rw_objs \in [Objects -> RwObj] /\ down \in [Clients -> Seq(Symbols)]
      /\ down[c] \in Seq(Symbols) /\ Len(down[c]) <= BufferSize /\ line_buf[c] \in Seq(Symbols)
  BY <1>1, ConnectionHas, ClientHas DEF Streams, Structure, TypeOK, ServerTypeOK, RwObj, SocketsTypeOK
<1>4. t \in Seq(Symbols) /\ m \in Nat /\ Len(t) \in Nat
  BY <1>3, LenProperties DEF RwObj
<1>5. rest \in Seq(Symbols) /\ Len(rest) = (IF m <= Len(t) THEN Len(t) - m ELSE 0)
  BY <1>4, RestIs
<1>6. n \in 1 .. Len(rest) /\ Len(rest) \in Nat
  <2> HIDE DEF rest, c
  <2> QED BY <1>2, <1>3, <1>5, FittingIs, LenProperties
<1> DEFINE new == [obj EXCEPT !.last_len = m + n]
           p == SubSeq(rest, 1, n)   q == SubSeq(t, (m + n) + 1, Len(t))
           all == FlattenSeq(Texts(obj.fptr))
<1>7. p \in Seq(Symbols) /\ q \in Seq(Symbols) /\ p \o q = rest
  <2>1. n \in 0 .. Len(rest)
    <3> HIDE DEF n, rest
    <3> QED BY <1>6
  <2> HIDE DEF n
  <2> QED BY <1>4, <2>1, RestOfRest
<1>8. all \in Seq(Symbols) /\ <<STOP>> \in Seq(Symbols)
  BY <1>3, ToSendIs
<1>9. /\ new \in RwObj /\ new.line_buf = t /\ new.last_len = m + n /\ new.fptr = obj.fptr
      /\ m <= Len(t) => m + n <= Len(t)
  <2>1. n \in Nat
    BY <1>6
  <2>2. m <= Len(t) => m + n <= Len(t)
    <3> DEFINE k == Len(rest)   j == Len(t)
    <3>1. m \in Nat /\ j \in Nat /\ k = (IF m <= j THEN j - m ELSE 0) /\ n \in 1 .. k
      BY <1>4, <1>5, <1>6
    <3> HIDE DEF n, m, k, j
    <3>2. m <= j => m + n <= j
      BY <3>1
    <3> QED BY <3>2 DEF j, m, n
  <2>3. m + n \in Nat
    BY <1>4, <2>1
  <2> DEFINE k == m + n
  <2>4. k \in Nat
    BY <2>3
  <2> HIDE DEF n, k
  <2>5. /\ [obj EXCEPT !.last_len = k] \in RwObj /\ [obj EXCEPT !.last_len = k].line_buf = t
        /\ [obj EXCEPT !.last_len = k].last_len = k /\ [obj EXCEPT !.last_len = k].fptr = obj.fptr
    BY <1>3, <2>4 DEF RwObj
  <2> QED BY <2>2, <2>5 DEF k
<1>10. ToSend(obj) = ((p \o q) \o all) \o <<STOP>> /\ ToSend(new) = (q \o all) \o <<STOP>>
  <2>1. ToSend(obj) = (rest \o all) \o <<STOP>>
    BY DEF ToSend
  <2> HIDE DEF new, p, n, rest
  <2>2. ToSend(new) = (q \o all) \o <<STOP>>
    BY <1>9 DEF ToSend
  <2> QED BY <1>7, <2>1, <2>2
<1>11. rw_objs'[Object(fd)] = new /\ down'[c] = down[c] \o p
  <2>1. rw_objs' = [rw_objs EXCEPT ![Object(fd)] = new]
    BY <1>2
  <2> HIDE DEF new
  <2> QED BY <1>2, <1>3, <2>1
<1> HIDE DEF new, p, q, rest, n, all
<1>12. Outgoing(fd)' = Outgoing(fd)
  <2>1. /\ Outgoing(fd) = (line_buf[c] \o down[c]) \o ToSend(obj)
        /\ Outgoing(fd)' = (line_buf[c] \o (down[c] \o p)) \o ToSend(new)
    <3>1. /\ conn'[fd] = c /\ "OUT" \in interest[fd] /\ "OUT" \in interest'[fd]
          /\ line_buf'[c] = line_buf[c] /\ Object(fd)' = Object(fd)
      BY <1>1, <1>2 DEF Object
    <3>2. rw_objs'[Object(fd)'] = new
      BY <1>11, <3>1
    <3>3. /\ Outgoing(fd)' = (line_buf'[c] \o down'[c]) \o ToSend(rw_objs'[Object(fd)'])
          /\ Outgoing(fd) = (line_buf[c] \o down[c]) \o ToSend(obj)
      BY <3>1 DEF Outgoing, Unsent
    <3> QED BY <1>11, <3>1, <3>2, <3>3
  <2> DEFINE l == line_buf[c]   d == down[c]   s == <<STOP>>
  <2>2. l \in Seq(Symbols) /\ d \in Seq(Symbols) /\ s \in Seq(Symbols)
    BY <1>3, <1>8
  <2>3. /\ Outgoing(fd) = (l \o d) \o (((p \o q) \o all) \o s)
        /\ Outgoing(fd)' = (l \o (d \o p)) \o ((q \o all) \o s)
    BY <1>10, <2>1
  <2> HIDE DEF l, d, s
  <2>4. p \in Seq(Symbols) /\ q \in Seq(Symbols) /\ all \in Seq(Symbols)
    BY <1>7, <1>8
  <2>5. Regrouped(l, d, p, q, all, s)
    BY <2>2, <2>4, Regroup
  <2> QED BY <2>3, <2>5 DEF Regrouped
<1>13. GoesOut(fd)'
  BY <1>2, <1>3, <1>12 DEF Connection, GoesOut, FileOf, Object
<1>14. Sends(fd)'
  BY <1>1, <1>2, <1>3, <1>9, <1>11 DEF Connection, Sends, Object
<1>15. ComesBack(fd)' /\ server_end'[conn'[fd]] = "open"
  BY <1>1, <1>2, <1>3 DEF Connection, ComesBack
<1> QED BY <1>0, <1>13, <1>14, <1>15 DEF Connection

\* A write that is lost was for a client that is killed.
LEMMA WriteLostStreams ==
  ASSUME Unended = {}, Structure, Streams, write_lost_line, UNCHANGED clientVars
  PROVE  \E fd : fd = writing /\ Connection(fd)'
<1>0. PICK fd : fd = writing
  OBVIOUS
<1>1. /\ fd \in DOMAIN conn /\ interest[fd] = {"OUT"} /\ conn[fd] \in Clients
  BY <1>0, WritingIs, ConnectionHas DEF write_lost_line
<1>2. /\ Gone(conn[fd])
      /\ UNCHANGED <<server_end, up, interest, conn, con2rw_obj, client>>
  BY <1>0 DEF write_lost_line, clientVars
<1>3. client[conn[fd]] # "reading"
  BY <1>1, <1>2 DEF Streams, Ends, Gone
<1>4. Connection(fd)
  BY <1>1 DEF Streams
<1>5. GoesOut(fd)' /\ Sends(fd)' /\ ComesBack(fd)' /\ server_end'[conn'[fd]] = "open"
  BY <1>1, <1>2, <1>3, <1>4 DEF Connection, GoesOut, Sends, ComesBack
<1> QED BY <1>0, <1>5 DEF Connection

\* The stop ends what goes out.
LEMMA SendStopStreams ==
  ASSUME Unended = {}, Structure, Streams, NEW fd \in DOMAIN evlist, SendStop(fd),
         UNCHANGED clientVars
  PROVE  Connection(fd)' /\ client[conn[fd]] \in {"reading", "killed"}
<1> DEFINE c == conn[fd]   obj == rw_objs[Object(fd)]   turned == [NoObject EXCEPT !.file_open = FALSE]
<1>1. fd \in DOMAIN conn /\ interest[fd] = {"OUT"}
  <2>1. "OUT" \in evlist[fd]
    BY DEF SendStop, SendsStop, Sending, Has
  <2> QED BY <2>1, EventOf
<1>2. /\ obj.last_len >= Len(obj.line_buf) /\ obj.fptr = <<>>
      /\ down' = IF Gone(c) THEN down ELSE [down EXCEPT ![c] = Append(@, STOP)]
      /\ rw_objs' = [rw_objs EXCEPT ![Object(fd)] = turned]
      /\ interest' = [interest EXCEPT ![fd] = {"IN", "RDHUP"}]
      /\ UNCHANGED <<server_end, up, conn, con2rw_obj, heap_root, client, line_buf, root, buf>>
  BY DEF SendStop, SendsStop, LineSent, clientVars
<1>3. /\ Connection(fd) /\ Object(fd) \in Objects /\ obj \in RwObj /\ c \in Clients
      /\ rw_objs \in [Objects -> RwObj] /\ down \in [Clients -> Seq(Symbols)]
      /\ down[c] \in Seq(Symbols) /\ line_buf[c] \in Seq(Symbols) /\ fd \in DOMAIN interest
  BY <1>1, ConnectionHas, ClientHas DEF Streams, Structure, TypeOK, ServerTypeOK, RwObj, SocketsTypeOK
<1>4. client[c] \in {"reading", "killed"} /\ up[c] = <<>>
  BY <1>1, <1>3 DEF Connection, Sends
<1>5. turned.line_buf = <<>>
  BY DEF NoObject
<1> HIDE DEF turned
<1>6. /\ rw_objs'[Object(fd)] = turned /\ interest'[fd] = {"IN", "RDHUP"}
      /\ Object(fd)' = Object(fd) /\ FileOf(fd)' = FileOf(fd)
  BY <1>2, <1>3 DEF Object, FileOf
<1>7. ASSUME client[c] = "reading" PROVE Outgoing(fd)' = Outgoing(fd)
  <2>1. ~Gone(c)
    BY <1>3, <1>7 DEF Streams, Ends, Gone
  <2>2. down'[c] = Append(down[c], STOP)
    BY <1>2, <1>3, <2>1
  <2>3. STOP \in Symbols /\ <<STOP>> \in Seq(Symbols) /\ Append(down[c], STOP) = down[c] \o <<STOP>>
    BY SMTT(30), <1>3 DEF Symbols
  <2>4. ToSend(obj) = <<STOP>>
    <3>1. FlattenSeq(Texts(<<>>)) = <<>>
      <4>1. Texts(<<>>) = <<>>
        BY TextsAre, EmptySeq
      <4> QED BY <4>1 DEF FlattenSeq
    <3>2. ToSend(obj) = <<>> \o <<STOP>>
      BY <1>2, <1>3, <3>1, ToSendIs
    <3> QED BY <2>3, <3>2, AppendTexts
  <2>5. Outgoing(fd) = line_buf[c] \o (down[c] \o <<STOP>>)
    BY <1>1, <2>4, ConnectionTexts
  <2>6. Outgoing(fd)' = (line_buf[c] \o (down[c] \o <<STOP>>)) \o <<>>
    BY <1>2, <1>6, <2>2, <2>3 DEF Outgoing, Unsent
  <2>7. line_buf[c] \o (down[c] \o <<STOP>>) \in Seq(Symbols)
    BY <1>3, <2>3, AppendTexts
  <2> QED BY <2>5, <2>6, <2>7, AppendTexts
<1>8. GoesOut(fd)'
  BY <1>2, <1>3, <1>6, <1>7 DEF Connection, GoesOut
<1>9. Sends(fd)'
  BY <1>6 DEF Sends
<1>10. ComesBack(fd)'
  <2>1. Came(fd)' = <<>> \o <<>>
    BY <1>2, <1>4, <1>5, <1>6 DEF Came
  <2>2. <<>> \o <<>> = <<>> /\ whole_lines(<<>>) = {} /\ Len(<<>>) = 0
    <3>1. <<>> \in Seq(Symbols) /\ \A a \in Seq(Symbols) : a \o <<>> = a
      BY AppendTexts
    <3>2. Len(<<>>) = 0
      OBVIOUS
    <3> DEFINE e == <<>>
    <3>3. e \in Seq(Symbols) /\ Len(e) = 0
      BY <3>1, <3>2
    <3> HIDE DEF e
    <3>4. \A k \in 1 .. Len(e) : ~EndsLine(e[k])
      BY <3>3
    <3>5. whole_lines(e) = {}
      BY <3>3, <3>4, NoLineEnds
    <3> QED BY <3>1, <3>2, <3>5 DEF e
  <2>3. whole_lines(Came(fd))' = {}
    BY <2>1, <2>2
  <2> QED BY <1>2, <1>4, <1>5, <1>6, <2>2, <2>3 DEF ComesBack
<1>11. server_end'[conn'[fd]] = "open"
  BY <1>2, <1>3 DEF Connection
<1> QED BY <1>4, <1>8, <1>9, <1>10, <1>11 DEF Connection

\* Lines that have come whole go from the stream into the heap; the rest stays.
LEMMA ReceiveStreams ==
  ASSUME Unended = {}, Structure, Streams, NEW fd \in DOMAIN evlist, Receive(fd),
         UNCHANGED clientVars
  PROVE  /\ Connection(fd)' /\ heap_root \subseteq heap_root' /\ heap_root' \subseteq AllTexts
         /\ client[conn[fd]] \in {"start", "reading"} => up'[conn[fd]] = <<>>
<1>0. PICK c, got, left : c = conn[fd] /\ got = Got(fd) /\ left = Left(fd)
  OBVIOUS
<1>1. /\ fd \in DOMAIN conn /\ interest[fd] = {"IN", "RDHUP"}
      /\ got \in Seq(Symbols) /\ left \in Seq(Symbols) /\ Len(left) <= Len(up[c])
      /\ Came(fd) = got \o left
      /\ up' = [up EXCEPT ![c] = left]
      /\ heap_root' = heap_root \cup whole_lines(got)
      /\ rw_objs' = [rw_objs EXCEPT ![Object(fd)].line_buf = compacted(got),
                                    ![Object(fd)].last_len = Len(compacted(got))]
      /\ interest' = AfterRead(fd, Taken(fd))
  BY <1>0, ReceiveIs
<1>2. /\ UNCHANGED <<server_end, down, conn, con2rw_obj, client, line_buf, root, buf>>
  BY DEF Receive, clientVars
<1>3. /\ Connection(fd) /\ Object(fd) \in Objects /\ c \in Clients /\ fd \in DOMAIN interest
      /\ rw_objs \in [Objects -> RwObj] /\ up \in [Clients -> Seq(Symbols)]
      /\ buf[c] \in Seq(Symbols) /\ up[c] \in Seq(Symbols)
      /\ rw_objs[Object(fd)].line_buf \in Seq(Symbols)
  BY <1>0, <1>1, ConnectionHas, ClientHas, ConnectionTexts
     DEF Streams, Structure, TypeOK, ServerTypeOK, RwObj, SocketsTypeOK
<1> DEFINE comp == compacted(got)
<1>4. comp \in Seq(Symbols) /\ \A k \in 1 .. Len(comp) : ~EndsLine(comp[k])
  BY <1>1, CompactedIs
<1>5. rw_objs'[Object(fd)].line_buf = comp
  <2> DEFINE obj == rw_objs[Object(fd)]
             new == [obj EXCEPT !.line_buf = comp, !.last_len = Len(comp)]
  <2>1. rw_objs' = [rw_objs EXCEPT ![Object(fd)] = new]
    BY <1>1, <1>3
  <2>2. obj \in RwObj
    BY <1>3
  <2> HIDE DEF obj, comp
  <2>3. new.line_buf = comp
    BY <2>2 DEF RwObj
  <2> HIDE DEF new
  <2> QED BY <1>3, <2>1, <2>3
<1>6. /\ "OUT" \notin interest[fd] /\ "OUT" \notin interest'[fd]
      /\ "IN" \in interest[fd]
      /\ Object(fd)' = Object(fd) /\ FileOf(fd)' = FileOf(fd) /\ TextsOf(fd)' = TextsOf(fd)
  <2>1. interest'[fd] \in {{"IN", "RDHUP"}, {"RDHUP"}}
    BY <1>1, <1>3 DEF AfterRead
  <2>2. /\ Object(fd)' = Object(fd) /\ FileOf(fd)' = FileOf(fd) /\ TextsOf(fd)' = TextsOf(fd)
    BY <1>2 DEF Object, FileOf, TextsOf
  <2> QED BY <1>1, <2>1, <2>2
<1>7. up'[c] = left
  BY <1>1, <1>3
<1> DEFINE B == buf[c]
<1>8. /\ Came(fd)' = comp \o left /\ Stream(fd)' = (comp \o left) \o B
      /\ Stream(fd) = (got \o left) \o B
  BY <1>0, <1>1, <1>2, <1>5, <1>6, <1>7 DEF Came, Stream
<1>9. B \in Seq(Symbols)
  BY <1>3
<1> HIDE DEF comp, B
<1>10. /\ (comp \o left) \o B = comp \o (left \o B) /\ (got \o left) \o B = got \o (left \o B)
       /\ left \o B \in Seq(Symbols)
  <2>1. left \o B \in Seq(Symbols)
    BY <1>1, <1>9, AppendTexts
  <2>2. (comp \o left) \o B = comp \o (left \o B)
    BY SMTT(30), <1>1, <1>4, <1>9, AppendTexts
  <2>3. (got \o left) \o B = got \o (left \o B)
    BY SMTT(30), <1>1, <1>9, AppendTexts
  <2> QED BY <2>1, <2>2, <2>3
<1>11. /\ whole_lines(Came(fd)) = whole_lines(got) \cup whole_lines(Came(fd)')
       /\ whole_lines(Stream(fd)) = whole_lines(got) \cup whole_lines(Stream(fd)')
       /\ compacted(Stream(fd)) = compacted(Stream(fd)')
  <2>1. whole_lines(got \o left) = whole_lines(got) \cup whole_lines(comp \o left)
    BY <1>1, Growth DEF comp
  <2> DEFINE r == left \o B
  <2>2. r \in Seq(Symbols)
    BY <1>10
  <2> HIDE DEF r
  <2>3. /\ whole_lines(got \o r) = whole_lines(got) \cup whole_lines(comp \o r)
        /\ compacted(got \o r) = compacted(comp \o r)
    BY <1>1, <2>2, Growth DEF comp
  <2> QED BY <1>1, <1>8, <1>10, <2>1, <2>3 DEF r
<1>12. ComesBack(fd)
  BY <1>3 DEF Connection
<1>13. whole_lines(Came(fd)) \subseteq AllTexts
  BY <1>6, <1>12 DEF ComesBack
<1>14. ASSUME client[c] = "reading" PROVE comp = <<>> /\ left = <<>>
  <2>1. up[c] = <<>> /\ rw_objs[Object(fd)].line_buf = <<>>
    BY <1>0, <1>3, <1>6, <1>12, <1>14 DEF Streams, Ends, ComesBack
  <2>2. Came(fd) = <<>> \o <<>>
    BY <1>0, <2>1 DEF Came
  <2>3. got \o left = <<>>
    BY <1>1, <2>2, AppendTexts
  <2>4. Len(got \o left) = Len(got) + Len(left) /\ Len(got) \in Nat /\ Len(left) \in Nat
    BY <1>1, ConcatProperties, LenProperties
  <2>5. got \o left \in Seq(Symbols) /\ Len(got \o left) = 0
    BY <2>3, EmptySeq
  <2>6. got = <<>> /\ left = <<>>
    BY <1>1, <2>4, <2>5, EmptySeq
  <2>7. Len(comp) = 0
    <3>1. Len(comp) = Len(got) - LastEnd(got) /\ LastEnd(got) \in 0 .. Len(got)
      BY <1>1, CompactedIs, LastEndIs DEF comp
    <3>2. Len(got) = 0
      BY <2>4, <2>5
    <3> QED BY <3>1, <3>2
  <2> QED BY <1>4, <2>6, <2>7, EmptySeq
<1>15. GoesOut(fd)' /\ Sends(fd)' /\ server_end'[conn'[fd]] = "open"
  <2>1. Outgoing(fd)' = Outgoing(fd)
    BY <1>2, <1>6 DEF Outgoing, Unsent
  <2> QED BY <1>2, <1>3, <1>6, <2>1 DEF Connection, GoesOut, Sends
<1>16. ASSUME client[c] \in {"writing", "done"}
       PROVE  /\ InOrder(Stream(fd)', root[c])
              /\ whole_lines(Stream(fd)') \cup root[c] \cup (heap_root' \cap TextsOf(fd))
                   = TextsOf(fd)
  <2>1. /\ InOrder(Stream(fd), root[c])
        /\ whole_lines(Stream(fd)) \cup root[c] \cup (heap_root \cap TextsOf(fd)) = TextsOf(fd)
    BY <1>0, <1>6, <1>12, <1>16 DEF ComesBack
  <2>2. InOrder(Stream(fd)', root[c])
    BY <1>11, <2>1 DEF InOrder
  <2> QED BY <1>1, <1>11, <2>1, <2>2
<1>17. ComesBack(fd)'
  <2>1. /\ client[c] \in {"reading", "writing", "done", "killed"}
        /\ rw_objs'[Object(fd)'].line_buf = comp /\ conn'[fd] = c
    BY <1>0, <1>2, <1>5, <1>6, <1>12 DEF ComesBack
  <2>2. whole_lines(Came(fd)') \subseteq AllTexts
    BY <1>11, <1>13
  <2> QED BY <1>2, <1>4, <1>6, <1>14, <1>16, <2>1, <2>2 DEF ComesBack
<1>18. heap_root \subseteq heap_root' /\ heap_root' \subseteq AllTexts
  BY <1>1, <1>11, <1>13 DEF Streams, Printed
<1>19. client[c] \in {"start", "reading"} => up'[c] = <<>>
  <2>1. client[c] # "start"
    BY <1>0, <1>1 DEF Structure, Peers
  <2> QED BY <1>7, <1>14, <2>1
<1> QED BY <1>0, <1>15, <1>17, <1>18, <1>19 DEF Connection

\* A connection is closed on the server's side.
LEMMA HangupStreams ==
  ASSUME Unended = {}, Structure, Structure', Streams, NEW fd \in DOMAIN evlist, Hangup(fd),
         UNCHANGED clientVars
  PROVE  Streams'
<1>1. /\ fd \in DOMAIN conn /\ Handled(fd) /\ pc = "events"
      /\ DOMAIN conn' = DOMAIN conn \ {fd} /\ DOMAIN interest' = DOMAIN interest \ {fd}
      /\ \A g \in DOMAIN conn' : conn'[g] = conn[g]
      /\ \A g \in DOMAIN interest' : interest'[g] = interest[g]
  BY HangupIs
<1>2. /\ UNCHANGED <<backlog, client_end, down, up, con2rw_obj, rw_objs, heap_root, output>>
      /\ UNCHANGED <<client, line_buf, root, buf>>
      /\ server_end' = [server_end EXCEPT ![conn[fd]] = "closed"]
  BY DEF Hangup, clientVars
<1>3. server_end \in [Clients -> {"none", "open", "closed"}] /\ backlog \in Seq(Clients)
  BY DEF Structure, TypeOK, SocketsTypeOK
<1>4. \A c \in Clients : Ends(c)' /\ Reads(c)'
  BY <1>2 DEF Streams, Ends, Reads
<1>5. ASSUME NEW i \in DOMAIN backlog' PROVE Waits(backlog[i])'
  <2>1. i \in DOMAIN backlog /\ backlog[i] \in Clients /\ backlog[i] # conn[fd] /\ Waits(backlog[i])
    BY <1>1, <1>2, <1>3, LenProperties, ElementOfSeq DEF Streams, Structure, Peers
  <2> QED BY <1>2, <1>3, <2>1 DEF Waits
<1>6. ASSUME NEW g \in DOMAIN conn' PROVE Connection(g)'
  <2>1. /\ g \in DOMAIN conn /\ g # fd /\ Connection(g) /\ conn[g] \in Clients
        /\ g \in DOMAIN interest
    BY <1>1, ConnectionHas DEF Streams
  <2>2. conn[g] # conn[fd]
    BY <1>1, <2>1 DEF Structure, OwnObject
  <2>3. server_end'[conn[g]] = server_end[conn[g]]
    BY <1>2, <1>3, <2>1, <2>2
  <2>4. conn'[g] = conn[g] /\ interest'[g] = interest[g]
    BY <1>1, <2>1
  <2> QED BY <1>2, <2>1, <2>3, <2>4, Untouched
<1>7. Printed'
  <2>1. pc' # "done" /\ (pc' = "drain" => connections_limit' = 0)
    BY <1>1, EndOfLoop
  <2> QED BY <1>1, <1>2, <2>1, StillUnprinted DEF Streams, Printed
<1> QED BY <1>4, <1>5, <1>6, <1>7 DEF Streams

\* The smallest line of the heap is printed after those printed before it.
LEMMA PrintStreams ==
  ASSUME Unended = {}, Structure, Streams, print \/ finish, UNCHANGED clientVars
  PROVE  Streams'
<1>1. UNCHANGED <<backlog, client_end, server_end, down, up, conn, connections_limit,
                  client, line_buf, root, buf>>
  BY DEF print, finish, socketVars, clientVars
<1>2. \A c \in Clients : Ends(c)' /\ Reads(c)'
  BY <1>1 DEF Streams, Ends, Reads
<1>3. \A i \in DOMAIN backlog' : Waits(backlog[i])'
  BY <1>1 DEF Streams, Waits
<1>4. pc = "drain" /\ pc' \in {"drain", "done"} /\ Printed
  BY DEF Streams, print, finish
<1>5. DOMAIN conn' = {} /\ connections_limit' = 0
  BY <1>1, <1>4, NoConnections DEF Printed
<1>6. CASE print
  <2>1. PICK text \in Smallest(heap_root) : heap_root' = heap_root \ {text}
                                            /\ output' = Append(output, text)
    BY <1>6 DEF print
  <2>2. /\ text \in heap_root /\ text \in AllTexts
        /\ \A t \in heap_root : KeyOf(text) <= KeyOf(t)
    BY <1>4, <2>1 DEF Smallest, Printed
  <2>3. /\ output \in Seq(Seq(Symbols)) /\ text \in Seq(Symbols)
    BY <2>2, AllTextsAre DEF Structure, TypeOK, ServerTypeOK
  <2> DEFINE n == Len(output)
  <2>4. /\ n \in Nat /\ DOMAIN output = 1 .. n /\ DOMAIN output' = 1 .. n + 1
        /\ output'[n + 1] = text /\ \A i \in 1 .. n : output'[i] = output[i]
    <3>1. output' \in Seq(Seq(Symbols)) /\ Len(output') = n + 1
          /\ output'[n + 1] = text /\ \A i \in 1 .. n : output'[i] = output[i]
      BY <2>1, <2>3, AppendProperties
    <3> QED BY <2>3, <3>1, LenProperties
  <2> HIDE DEF n
  <2>5. Range(output') = Range(output) \cup {text}
    <3>1. Range(output) = {output[i] : i \in 1 .. n}
      BY <2>4 DEF Range
    <3>2. Range(output') = {output'[i] : i \in 1 .. n + 1}
      BY <2>4 DEF Range
    <3>3. 1 .. n + 1 = (1 .. n) \cup {n + 1}
      BY <2>4
    <3> QED BY <2>4, <3>1, <3>2, <3>3
  <2>6. \A s \in Range(output) : s # text /\ KeyOf(s) <= KeyOf(text)
    BY <1>4, <2>2 DEF Printed
  <2>7. ASSUME NEW i \in DOMAIN output', NEW j \in DOMAIN output', i < j
        PROVE  output'[i] # output'[j] /\ KeyOf(output'[i]) <= KeyOf(output'[j])
    <3>1. i \in 1 .. n /\ output'[i] = output[i] /\ output[i] \in Range(output)
      <4>1. i \in 1 .. n
        BY <2>4, <2>7
      <4> QED BY <2>4, <4>1 DEF Range
    <3>2. CASE j = n + 1
      BY <2>4, <2>6, <3>1, <3>2
    <3>3. CASE j # n + 1
      <4>1. j \in 1 .. n
        BY <2>4, <3>3
      <4> QED BY <1>4, <2>4, <2>7, <3>1, <4>1 DEF Printed, PrintsInOrder
    <3> QED BY <3>2, <3>3
  <2>8. Range(output') \subseteq AllTexts
    BY <1>4, <2>2, <2>5 DEF Printed, PrintsInOrder
  <2>9. PrintsInOrder'
    BY <2>7, <2>8 DEF PrintsInOrder, AllTexts
  <2>10. \A s \in Range(output'), t \in heap_root' : s # t /\ KeyOf(s) <= KeyOf(t)
    BY <1>4, <2>1, <2>2, <2>5 DEF Printed
  <2>11. heap_root' \subseteq AllTexts
    BY <1>4, <2>1 DEF Printed
  <2>12. Printed'
    BY <1>4, <1>5, <2>9, <2>10, <2>11 DEF Printed, AllTexts
  <2> QED BY <1>2, <1>3, <1>5, <2>12 DEF Streams
<1>7. CASE finish
  <2>1. UNCHANGED <<heap_root, output>>
    BY <1>7 DEF finish
  <2>2. Printed'
    BY <1>4, <1>5, <2>1 DEF Printed, PrintsInOrder, AllTexts
  <2> QED BY <1>2, <1>3, <1>5, <2>2 DEF Streams
<1> QED BY <1>6, <1>7

\* Every step of the server.
LEMMA ServerStreams ==
  ASSUME Unended = {}, Structure, Structure', Streams, ServerStep
  PROVE  Streams'
<1>1. UNCHANGED clientVars /\ ServerNext
  BY DEF ServerStep
<1>2. ASSUME NEW fd \in DOMAIN conn \cap DOMAIN evlist, Serves(fd), Connection(fd)',
             UNCHANGED <<client_end, up, heap_root>>,
             client[conn[fd]] \in {"writing", "done"} => down'[conn[fd]] = <<>>
      PROVE  Streams'
  <2>1. conn[fd] \in Clients
    BY ConnectionHas
  <2>2. client[conn[fd]] \in {"start", "reading"} => up'[conn[fd]] = <<>>
    BY <1>2, <2>1 DEF Streams, Ends
  <2>3. heap_root \subseteq heap_root' /\ heap_root' \subseteq AllTexts
    BY <1>2 DEF Streams, Printed
  <2> QED BY <1>2, <2>2, <2>3, ServesStreams
<1>3. CASE setup
  <2>1. /\ UNCHANGED <<clientVars, client_end, down, up, heap_root, output>>
        /\ pc = "start" /\ pc' = "wait" /\ UNCHANGED <<backlog, server_end, conn, con2rw_obj, rw_objs>>
    BY <1>1, <1>3 DEF setup
  <2>2. DOMAIN conn = {}
    BY <2>1 DEF Structure, Stages
  <2> QED BY <2>1, <2>2, QuietStreams
<1>4. ASSUME NEW how \in {"failed", "killed"}, Exit(how), pc \notin {"drain", "done"}
      PROVE  Streams'
  <2>1. /\ UNCHANGED <<clientVars, client_end, down, up, heap_root, output>>
        /\ pc' = how /\ DOMAIN backlog' = {} /\ DOMAIN conn' = {}
    BY <1>1, <1>4 DEF Exit
  <2> QED BY <1>4, <2>1, QuietStreams
<1>5. CASE error_helper
  BY <1>4, <1>5 DEF error_helper
<1>6. CASE epoll_wait
  <2>1. /\ UNCHANGED <<clientVars, client_end, down, up, heap_root, output>>
        /\ pc = "wait" /\ pc' = "events"
        /\ UNCHANGED <<backlog, server_end, conn, con2rw_obj, rw_objs, interest>>
    BY <1>1, <1>6 DEF epoll_wait, socketVars
  <2> QED BY <2>1, QuietStreams
<1>7. CASE accept
  BY <1>1, <1>7, AcceptStreams
<1>8. CASE write_line
  <2>1. writing \in DOMAIN conn \cap DOMAIN evlist /\ Serves(writing)
    BY <1>1, <1>8, WriteLineStructure
  <2>2. PICK fd : fd = writing /\ Connection(fd)'
    BY <1>1, <1>8, WriteLineStreams
  <2>3. UNCHANGED <<client_end, up, heap_root>> /\ interest[fd] = {"OUT"}
    BY <1>8, <2>2, WritingIs DEF write_line
  <2>4. client[conn[fd]] \in {"reading", "killed"}
    BY <2>1, <2>2, <2>3 DEF Streams, Connection, Sends
  <2> QED BY <1>2, <2>1, <2>2, <2>3, <2>4
<1>9. CASE write_lost_line
  <2>1. writing \in DOMAIN conn \cap DOMAIN evlist /\ Serves(writing)
    BY <1>1, <1>9, WriteLostStructure
  <2>2. PICK fd : fd = writing /\ Connection(fd)'
    BY <1>1, <1>9, WriteLostStreams
  <2>3. UNCHANGED <<up, down, heap_root>> /\ Reported(conn[fd]) /\ conn[fd] \in Clients
    BY <1>9, <2>1, <2>2, ConnectionHas DEF write_lost_line
  <2>4. \A d \in Clients : client_end'[d] = client_end[d] \/ (Gone(d) /\ client_end'[d] = "closed")
    BY <2>3, ReportedIs, ClientHas
  <2>5. /\ client[conn[fd]] \in {"writing", "done"} => down'[conn[fd]] = <<>>
        /\ client[conn[fd]] \in {"start", "reading"} => up'[conn[fd]] = <<>>
        /\ heap_root \subseteq heap_root' /\ heap_root' \subseteq AllTexts
    BY <2>3 DEF Streams, Ends, Printed
  <2> QED BY <2>1, <2>2, <2>4, <2>5, ServesStreams
<1>10. CASE sigpipe
  BY <1>4, <1>10 DEF sigpipe, SendsStop, Sending, Has
<1>11. CASE overrun
  BY <1>4, <1>11 DEF overrun, Has
<1>12. CASE print \/ finish
  BY <1>1, <1>12, PrintStreams
<1>13. ASSUME NEW fd \in DOMAIN evlist, SendRest(fd) \/ SendLine(fd) PROVE Streams'
  <2>1. fd \in DOMAIN conn \cap DOMAIN evlist /\ Serves(fd)
    BY <1>1, <1>13, SendStructure
  <2>2. Connection(fd)'
    BY <1>1, <1>13, SendLineStreams
  <2>3. UNCHANGED <<client_end, up, down, heap_root>>
    BY <1>13 DEF SendRest, SendLine, socketVars
  <2>4. client[conn[fd]] \in {"writing", "done"} => down'[conn[fd]] = <<>>
    BY <2>1, <2>3, ConnectionHas DEF Streams, Ends
  <2> QED BY <1>2, <2>1, <2>2, <2>3, <2>4
<1>14. ASSUME NEW fd \in DOMAIN evlist, SendStop(fd) PROVE Streams'
  <2>1. fd \in DOMAIN conn \cap DOMAIN evlist /\ Serves(fd) /\ conn[fd] \in Clients
    BY <1>1, <1>14, SendStopStructure, ConnectionHas
  <2>2. Connection(fd)' /\ client[conn[fd]] \in {"reading", "killed"}
    BY <1>1, <1>14, SendStopStreams
  <2>3. UNCHANGED <<up, heap_root>> /\ Reported(conn[fd])
    BY <1>14 DEF SendStop
  <2>4. \A d \in Clients : client_end'[d] = client_end[d] \/ (Gone(d) /\ client_end'[d] = "closed")
    BY <2>1, <2>3, ReportedIs, ClientHas
  <2>5. /\ client[conn[fd]] \in {"start", "reading"} => up'[conn[fd]] = <<>>
        /\ heap_root \subseteq heap_root' /\ heap_root' \subseteq AllTexts
    BY <2>1, <2>3 DEF Streams, Ends, Printed
  <2> QED BY <2>1, <2>2, <2>4, <2>5, ServesStreams
<1>15. ASSUME NEW fd \in DOMAIN evlist, Receive(fd) PROVE Streams'
  <2>1. fd \in DOMAIN conn \cap DOMAIN evlist /\ Serves(fd) /\ conn[fd] \in Clients
    BY <1>1, <1>15, ReceiveStructure, ConnectionHas
  <2>2. /\ Connection(fd)' /\ heap_root \subseteq heap_root' /\ heap_root' \subseteq AllTexts
        /\ client[conn[fd]] \in {"start", "reading"} => up'[conn[fd]] = <<>>
    BY <1>1, <1>15, ReceiveStreams
  <2>3. UNCHANGED <<client_end, down>>
    BY <1>15 DEF Receive
  <2>4. client[conn[fd]] \in {"writing", "done"} => down'[conn[fd]] = <<>>
    BY <2>1, <2>3 DEF Streams, Ends
  <2> QED BY <2>1, <2>2, <2>3, <2>4, ServesStreams
<1>16. ASSUME NEW fd \in DOMAIN evlist, Hangup(fd) PROVE Streams'
  BY <1>1, <1>16, HangupStreams
<1> QED BY <1>1, <1>3, <1>5, <1>6, <1>7, <1>8, <1>9, <1>10, <1>11, <1>12, <1>13, <1>14, <1>15, <1>16
        DEF ServerNext

-----------------------------------------------------------------------------
(* The clients' steps.                                                     *)

\* A text is its first symbol and what follows.
LEMMA FirstSymbol ==
  ASSUME NEW t \in Seq(Symbols), t # <<>>
  PROVE  /\ Head(t) \in Symbols /\ Tail(t) \in Seq(Symbols)
         /\ t = <<Head(t)>> \o Tail(t)
<1>1. /\ Head(t) \in Symbols /\ Tail(t) \in Seq(Symbols) /\ Head(t) = t[1]
      /\ Len(Tail(t)) = Len(t) - 1 /\ \A i \in 1 .. Len(t) - 1 : Tail(t)[i] = t[i + 1]
  BY HeadTailProperties
<1> DEFINE h == Head(t)   r == Tail(t)   u == <<h>> \o r
<1>2. <<h>> \in Seq(Symbols) /\ Len(<<h>>) = 1 /\ <<h>>[1] = h /\ r \in Seq(Symbols)
  BY <1>1
<1>3. Len(t) \in Nat \ {0} /\ Len(r) = Len(t) - 1 /\ h = t[1]
      /\ \A i \in 1 .. Len(t) - 1 : r[i] = t[i + 1]
  BY <1>1, LenProperties, EmptySeq
<1> HIDE DEF h, r
<1>4. /\ u \in Seq(Symbols) /\ Len(u) = Len(<<h>>) + Len(r)
      /\ \A i \in 1 .. Len(<<h>>) + Len(r) :
           u[i] = IF i <= Len(<<h>>) THEN <<h>>[i] ELSE r[i - Len(<<h>>)]
  BY <1>2, ConcatProperties
<1>5. Len(u) = Len(t)
  BY <1>2, <1>3, <1>4
<1>6. ASSUME NEW i \in 1 .. Len(t) PROVE u[i] = t[i]
  <2>1. i \in 1 .. Len(<<h>>) + Len(r)
    BY <1>2, <1>3
  <2>2. CASE i = 1
    BY <1>2, <1>3, <1>4, <2>1, <2>2
  <2>3. CASE i # 1
    <3>1. ~(i <= Len(<<h>>)) /\ i - 1 \in 1 .. Len(t) - 1 /\ (i - 1) + 1 = i
      BY <1>2, <1>3, <2>3
    <3>2. u[i] = r[i - 1]
      BY <1>2, <1>4, <2>1, <3>1
    <3> QED BY <1>3, <3>1, <3>2
  <2> QED BY <2>2, <2>3
<1>7. t = u
  <2> HIDE DEF u
  <2> QED BY <1>4, <1>5, <1>6, SeqEqual
<1> QED BY <1>1, <1>7 DEF h, r

\* What each client of a connection sees of it: the server's part does not change.
LEMMA ServerRests ==
  ASSUME Structure, NEW fd \in DOMAIN conn, UNCHANGED serverVars
  PROVE  /\ conn'[fd] = conn[fd] /\ interest'[fd] = interest[fd] /\ heap_root' = heap_root
         /\ Object(fd)' = Object(fd) /\ FileOf(fd)' = FileOf(fd) /\ TextsOf(fd)' = TextsOf(fd)
         /\ rw_objs'[Object(fd)'] = rw_objs[Object(fd)] /\ Unsent(fd)' = Unsent(fd)
         /\ Unsent(fd) \in Seq(Symbols)
         /\ "OUT" \notin interest[fd] => Unsent(fd) = <<>>
         /\ "OUT" \in interest[fd] => Len(Unsent(fd)) > 0
<1>1. UNCHANGED <<conn, interest, con2rw_obj, rw_objs, heap_root>>
  BY DEF serverVars
<1>2. /\ Object(fd)' = Object(fd) /\ FileOf(fd)' = FileOf(fd) /\ TextsOf(fd)' = TextsOf(fd)
      /\ Unsent(fd)' = Unsent(fd)
  BY <1>1 DEF Object, FileOf, TextsOf, Unsent
<1>3. rw_objs[Object(fd)] \in RwObj
  BY ConnectionHas
<1>4. ToSend(rw_objs[Object(fd)]) \in Seq(Symbols) /\ Len(ToSend(rw_objs[Object(fd)])) > 0
      /\ <<>> \in Seq(Symbols)
  BY <1>3, ToSendIs, EmptySeq
<1> QED BY <1>1, <1>2, <1>4 DEF Unsent

\* A client connects, or fails to.
LEMMA ConnectStreams ==
  ASSUME Unended = {}, Structure, Structure', Streams, NEW c \in Clients,
         connect(c) \/ connect_fails(c), UNCHANGED serverVars
  PROVE  Streams'
<1>1. Moves(c)
  BY ClientMoves DEF ClientNext
<1>2. /\ client[c] = "start" /\ Ends(c) /\ UNCHANGED <<down, up, line_buf, root, buf>>
  BY DEF connect, connect_fails, ClientIs, socketVars, Streams
<1>3. \A fd \in DOMAIN conn : conn[fd] # c
  BY <1>2 DEF Structure, Peers
<1>4. /\ client \in [Clients -> ClientStates]
      /\ client_end \in [Clients -> {"none", "open", "closed", "reset"}]
      /\ server_end \in [Clients -> {"none", "open", "closed"}]
      /\ backlog \in Seq(Clients)
  BY DEF Structure, TypeOK, SocketsTypeOK, ClientTypeOK
<1>5. CASE connect(c)
  <2>1. client'[c] = "reading" /\ client_end'[c] = "open" /\ server_end'[c] = "open"
    BY <1>4, <1>5 DEF connect, Become
  <2>2. Ends(c)' /\ Waits(c)'
    BY <1>2, <2>1 DEF Ends, Waits
  <2>3. Reads(c)'
    <3> DEFINE file == Inputs[0 + 1]   x == FlattenSeq(Texts(file)) \o <<STOP>>
    <3>1. 0 \in Objects /\ file \in Seq(Lines)
      <4>1. 0 \in Objects
        BY Sizes
      <4> QED BY <4>1, Sizes
    <3>2. FlattenSeq(Texts(file)) \in Seq(Symbols) /\ <<STOP>> \in Seq(Symbols)
      <4>1. STOP \in Symbols
        BY DEF Symbols
      <4> QED BY <3>1, <4>1, TextsAre
    <3>3. x \in Seq(Symbols)
      BY <3>2, AppendTexts
    <3>4. 0 \in 0 .. Len(file) /\ SubSeq(file, 0 + 1, Len(file)) = file
          /\ Range(Texts(SubSeq(file, 1, 0))) = {}
      <4>1. 0 \in 0 .. Len(file)
        BY <3>1, LenProperties
      <4> QED BY <3>1, <4>1, RestOfFile
    <3>5. Outward({}, x, file)
      BY <3>4 DEF Outward
    <3> HIDE DEF x, file
    <3>6. <<>> \o (<<>> \o x) = x
      BY <3>3, AppendTexts
    <3>7. root'[c] = {} /\ line_buf'[c] = <<>> /\ down'[c] = <<>>
      BY <1>2 DEF Ends
    <3>8. Outward(root'[c], line_buf'[c] \o (down'[c] \o x), Inputs[0 + 1])
      BY <3>5, <3>6, <3>7 DEF file
    <3> QED BY <3>1, <3>3, <3>8 DEF Reads
  <2> QED BY <1>1, <1>3, <2>2, <2>3, MovesStreams
<1>6. CASE connect_fails(c)
  <2>1. client'[c] = "failed" /\ backlog' = backlog
    BY <1>4, <1>6 DEF connect_fails, Become, socketVars
  <2>2. Ends(c)' /\ Reads(c)'
    BY <1>2, <2>1 DEF Ends, Reads
  <2>3. \A i \in DOMAIN backlog' : backlog'[i] # c
    BY <1>2, <2>1 DEF Structure, Peers
  <2> QED BY <1>1, <1>3, <2>2, <2>3, MovesStreams
<1> QED BY <1>5, <1>6

\* A client takes a symbol: of a line, the last of a line, or the stop.
LEMMA TakeStreams ==
  ASSUME Unended = {}, Structure, Structure', Streams, NEW c \in Clients,
         ReadPart(c) \/ ReadLine(c) \/ ReadStop(c), UNCHANGED serverVars
  PROVE  Streams'
<1>0. PICK h, rest, lb, lines : /\ h = Head(down[c]) /\ rest = Tail(down[c])
                                /\ lb = line_buf[c] /\ lines = root[c]
  OBVIOUS
<1>1. Moves(c)
  BY ClientMoves DEF ClientNext, read_and_insert
<1>2. /\ client[c] = "reading" /\ down[c] # <<>> /\ Ends(c) /\ Reads(c)
      /\ UNCHANGED <<backlog, client_end, server_end, up, buf>>
      /\ down' = [down EXCEPT ![c] = rest]
  BY <1>0 DEF ReadPart, ReadLine, ReadStop, Take, ClientIs, Streams
<1>3. /\ client \in [Clients -> ClientStates] /\ down \in [Clients -> Seq(Symbols)]
      /\ line_buf \in [Clients -> Seq(Symbols)] /\ root \in [Clients -> SUBSET Seq(Symbols)]
      /\ down[c] \in Seq(Symbols) /\ lb \in Seq(Symbols)
  BY <1>0 DEF Structure, TypeOK, SocketsTypeOK, ClientTypeOK
<1>4. h \in Symbols /\ rest \in Seq(Symbols) /\ down[c] = <<h>> \o rest
  BY <1>0, <1>2, <1>3, FirstSymbol
<1>5. /\ client_end[c] = "open" /\ up[c] = <<>> /\ buf[c] = <<>>
      /\ \A k \in 1 .. Len(lb) : ~EndsLine(lb[k])
  BY <1>0, <1>2 DEF Ends
<1>6. \A i \in DOMAIN backlog' : backlog'[i] # c
  BY <1>2 DEF Streams, Waits
<1>7. down'[c] = rest
  BY <1>2, <1>3
<1>8. \/ /\ ReadPart(c) /\ ~EndsLine(h) /\ client'[c] = "reading" /\ root'[c] = lines
         /\ line_buf'[c] = Append(lb, h)
      \/ /\ ReadLine(c) /\ EndsLine(h) /\ (h = STOP => lb # <<>>) /\ client'[c] = "reading"
         /\ root'[c] = lines \cup {Append(lb, h)} /\ line_buf'[c] = <<>>
      \/ /\ ReadStop(c) /\ h = STOP /\ lb = <<>> /\ client'[c] = "writing"
         /\ root'[c] = lines /\ line_buf'[c] = <<>>
  BY <1>0, <1>2, <1>3 DEF ReadPart, ReadLine, ReadStop, Take, Become
\* What follows from what is still to come, for the client and for its connection.
<1>9. ASSUME NEW file \in Seq(Lines), NEW x \in Seq(Symbols),
             Outward(lines, lb \o (down[c] \o x), file)
      PROVE  /\ client'[c] = "reading" => Outward(root'[c], line_buf'[c] \o (rest \o x), file)
             /\ client'[c] = "writing" => rest = <<>> /\ x = <<>> /\ lines = Range(Texts(file))
  <2> DEFINE y == rest \o x
  <2>1. (<<h>> \o rest) \o x = <<h>> \o y /\ y \in Seq(Symbols)
    <3>1. <<h>> \in Seq(Symbols)
      BY <1>4
    <3> QED BY <1>4, <3>1, AppendTexts
  <2>2. Outward(lines, lb \o (<<h>> \o y), file)
    BY <1>4, <1>9, <2>1
  <2>3. y = <<>> => rest = <<>> /\ x = <<>>
    <3>1. Len(y) = Len(rest) + Len(x) /\ Len(rest) \in Nat /\ Len(x) \in Nat
      BY <1>4, ConcatProperties, LenProperties
    <3>2. y = <<>> => Len(y) = 0
      OBVIOUS
    <3> HIDE DEF y
    <3> QED BY <1>4, <3>1, <3>2, EmptySeq
  <2> HIDE DEF y
  <2>4. \/ h = STOP /\ lb = <<>> /\ y = <<>> /\ lines = Range(Texts(file))
        \/ h # STOP /\ (EndsLine(h) => Outward(lines \cup {Append(lb, h)}, y, file))
    BY <1>3, <1>4, <1>5, <2>1, <2>2, NextSymbol
  <2>5. CASE client'[c] = "writing"
    BY <1>8, <2>3, <2>4, <2>5
  <2>6. CASE client'[c] = "reading" /\ EndsLine(h)
    <3>1. <<>> \o y = y
      BY <2>1, AppendTexts
    <3> QED BY <1>8, <2>4, <2>6, <3>1 DEF y
  <2>7. CASE client'[c] = "reading" /\ ~EndsLine(h)
    <3>1. line_buf'[c] = lb \o <<h>> /\ root'[c] = lines
      <4>1. Append(lb, h) = lb \o <<h>>
        BY <1>3, <1>4
      <4> QED BY <1>8, <2>7, <4>1
    <3>2. (lb \o <<h>>) \o y = lb \o (<<h>> \o y)
      <4>1. <<h>> \in Seq(Symbols)
        BY <1>4
      <4> QED BY SMTT(30), <1>3, <2>1, <4>1, AppendTexts
    <3> QED BY <2>2, <2>7, <3>1, <3>2 DEF y
  <2> QED BY <1>8, <2>5, <2>6, <2>7
<1>10. client'[c] = "writing" => rest = <<>>
  <2>1. PICK o \in Objects, x \in Seq(Symbols) :
          Outward(lines, lb \o (down[c] \o x), Inputs[o + 1])
    BY <1>0, <1>2 DEF Reads
  <2> QED BY <1>9, <2>1, Sizes
<1>11. Reads(c)'
  <2>1. PICK o \in Objects, x \in Seq(Symbols) :
          Outward(lines, lb \o (down[c] \o x), Inputs[o + 1])
    BY <1>0, <1>2 DEF Reads
  <2>2. client'[c] = "reading" => Outward(root'[c], line_buf'[c] \o (rest \o x), Inputs[o + 1])
    BY <1>9, <2>1, Sizes
  <2> QED BY <1>7, <2>1, <2>2 DEF Reads
<1>12. \A k \in 1 .. Len(line_buf'[c]) : ~EndsLine(line_buf'[c][k])
  <2>1. CASE line_buf'[c] = <<>>
    BY <2>1
  <2>2. CASE ~EndsLine(h) /\ line_buf'[c] = Append(lb, h)
    <3>1. /\ Len(Append(lb, h)) = Len(lb) + 1 /\ Append(lb, h)[Len(lb) + 1] = h
          /\ \A k \in 1 .. Len(lb) : Append(lb, h)[k] = lb[k]
      BY <1>3, <1>4, AppendProperties
    <3>2. ASSUME NEW k \in 1 .. Len(lb) + 1 PROVE ~EndsLine(Append(lb, h)[k])
      <4>1. Len(lb) \in Nat
        BY <1>3, LenProperties
      <4>2. k \in 1 .. Len(lb) \/ k = Len(lb) + 1
        BY <4>1
      <4> QED BY <1>5, <2>2, <3>1, <4>2
    <3> QED BY <2>2, <3>1, <3>2
  <2> QED BY <1>8, <2>1, <2>2
<1>13. Ends(c)'
  BY <1>2, <1>5, <1>7, <1>8, <1>10, <1>12 DEF Ends
<1>14. ASSUME NEW fd \in DOMAIN conn, conn[fd] = c PROVE Connection(fd)'
  <2>1. /\ conn'[fd] = c /\ interest'[fd] = interest[fd] /\ heap_root' = heap_root
        /\ Object(fd)' = Object(fd) /\ FileOf(fd)' = FileOf(fd) /\ TextsOf(fd)' = TextsOf(fd)
        /\ rw_objs'[Object(fd)'] = rw_objs[Object(fd)] /\ Unsent(fd)' = Unsent(fd)
        /\ "OUT" \notin interest[fd] => Unsent(fd) = <<>>
        /\ "OUT" \in interest[fd] => Len(Unsent(fd)) > 0
    BY <1>14, ServerRests
  <2>2. PICK x : x = Unsent(fd) /\ x \in Seq(Symbols)
    BY ServerRests
  <2>3. Connection(fd)
    BY DEF Streams
  <2>4. FileOf(fd) \in Seq(Lines) /\ TextsOf(fd) \subseteq AllTexts
    BY ConnectionTexts
  <2>5. Outward(lines, lb \o (down[c] \o x), FileOf(fd))
    <3>1. Outward(lines, Outgoing(fd), FileOf(fd))
      BY <1>0, <1>2, <1>14, <2>3 DEF Connection, GoesOut
    <3>2. Outgoing(fd) = (lb \o down[c]) \o x
      BY <1>0, <1>14, <2>2 DEF Outgoing
    <3>3. (lb \o down[c]) \o x = lb \o (down[c] \o x)
      BY <1>3, <2>2, AppendTexts
    <3> QED BY <3>1, <3>2, <3>3
  <2>6. /\ client'[c] = "reading" => Outward(root'[c], line_buf'[c] \o (rest \o x), FileOf(fd))
        /\ client'[c] = "writing" => rest = <<>> /\ x = <<>> /\ lines = TextsOf(fd)
    BY <1>9, <2>2, <2>4, <2>5 DEF TextsOf
  <2>7. GoesOut(fd)'
    <3> SUFFICES ASSUME client'[c] = "reading" PROVE Outward(root'[c], Outgoing(fd)', FileOf(fd))
      BY <2>1 DEF GoesOut
    <3>1. PICK l : l = line_buf'[c]
      OBVIOUS
    <3>2. Outgoing(fd)' = (l \o rest) \o x
      BY <1>7, <2>1, <2>2, <3>1 DEF Outgoing
    <3>3. l \in Seq(Symbols)
      BY <3>1 DEF Structure, TypeOK, ClientTypeOK
    <3>4. (l \o rest) \o x = l \o (rest \o x)
      BY <1>4, <2>2, <3>3, AppendTexts
    <3> QED BY <2>6, <3>1, <3>2, <3>4
  <2>8. "OUT" \in interest[fd] => client'[c] = "reading"
    <3>1. x = <<>> => Len(x) = 0
      OBVIOUS
    <3> QED BY <1>8, <2>1, <2>2, <2>6, <3>1
  <2>9. Sends(fd)'
    BY <1>2, <1>14, <2>1, <2>3, <2>8 DEF Connection, Sends
  <2>10. ComesBack(fd)'
    <3> SUFFICES ASSUME "OUT" \notin interest[fd] PROVE ComesBack(fd)'
      BY <2>1 DEF ComesBack
    <3>1. /\ rw_objs[Object(fd)].line_buf = <<>>
          /\ whole_lines(Came(fd)) \subseteq AllTexts
      BY <1>2, <1>14, <2>3 DEF Connection, ComesBack
    <3>2. Came(fd)' = Came(fd) /\ Stream(fd)' = Stream(fd)
      BY <1>2, <1>14, <2>1 DEF Came, Stream
    <3>3. <<>> \o <<>> = <<>> /\ <<>> \in Seq(Symbols)
      <4>1. \A a \in Seq(Symbols) : a \o <<>> = a
        BY AppendTexts
      <4> QED BY <4>1, EmptySeq
    <3>4. Stream(fd) = <<>>
      <4>1. Came(fd) = <<>> \o <<>> /\ Stream(fd) = Came(fd) \o <<>>
        BY <1>5, <1>14, <3>1 DEF Came, Stream
      <4> QED BY <3>3, <4>1
    <3>5. whole_lines(<<>>) = {} /\ compacted(<<>>) = <<>>
      <4> DEFINE e == <<>>
      <4>1. e \in Seq(Symbols) /\ Len(e) = 0
        BY <3>3
      <4> HIDE DEF e
      <4>2. \A k \in 1 .. Len(e) : ~EndsLine(e[k])
        BY <4>1
      <4>3. whole_lines(e) = {} /\ compacted(e) = e
        BY <4>1, <4>2, NoLineEnds
      <4> QED BY <4>3 DEF e
    <3>6. client'[c] = "writing" => /\ InOrder(<<>>, root'[c])
                                    /\ root'[c] = TextsOf(fd)
      BY <1>8, <2>4, <2>6, <3>5 DEF InOrder
    <3>7. \A k \in 1 .. Len(<<>>) : ~EndsLine(<<>>[k])
      OBVIOUS
    <3>8. client'[c] \in {"reading", "writing"}
      BY <1>8
    <3> QED BY <2>1, <3>1, <3>2, <3>4, <3>5, <3>6, <3>7, <3>8 DEF ComesBack
  <2> QED BY <1>2, <1>14, <2>1, <2>3, <2>7, <2>9, <2>10 DEF Connection
<1> QED BY <1>1, <1>6, <1>11, <1>13, <1>14, MovesStreams

\* A client finds the server gone.
LEMMA ReadEndStreams ==
  ASSUME Unended = {}, Structure, Structure', Streams, NEW c \in Clients,
         ReadEnd(c) \/ write_lost(c), UNCHANGED serverVars
  PROVE  Streams'
<1>1. Moves(c)
  BY ClientMoves DEF ClientNext, read_and_insert
<1>2. /\ server_end[c] = "closed" /\ client[c] \in {"reading", "writing"} /\ down[c] = <<>>
      /\ UNCHANGED <<backlog, down, up>> /\ Ends(c) /\ client_end[c] = "open"
  BY DEF ReadEnd, write_lost, ClientIs, socketVars, Streams, Ends
<1>3. /\ client \in [Clients -> ClientStates] /\ line_buf \in [Clients -> Seq(Symbols)]
      /\ buf \in [Clients -> Seq(Symbols)]
      /\ client_end \in [Clients -> {"none", "open", "closed", "reset"}]
  BY DEF Structure, TypeOK, SocketsTypeOK, ClientTypeOK
<1>4. \/ /\ client'[c] = "writing" /\ client_end'[c] = "open"
         /\ line_buf'[c] = <<>> \/ line_buf'[c] = line_buf[c]
      \/ client'[c] = "killed" /\ line_buf'[c] = line_buf[c]
  BY <1>2, <1>3 DEF ReadEnd, write_lost, Become, ClientIs, socketVars
<1>5. Ends(c)' /\ Reads(c)'
  BY <1>2, <1>4 DEF Ends, Reads
<1>6. \A i \in DOMAIN backlog' : backlog'[i] # c
  BY <1>2 DEF Streams, Waits
<1>7. \A fd \in DOMAIN conn : conn[fd] # c
  BY <1>2 DEF Streams, Connection
<1> QED BY <1>1, <1>5, <1>6, <1>7, MovesStreams

\* A connection to a client that writes.
LEMMA WritesOn ==
  ASSUME Unended = {}, Structure, Streams, NEW fd \in DOMAIN conn, client[conn[fd]] = "writing"
  PROVE  /\ server_end[conn[fd]] = "open" /\ "OUT" \notin interest[fd]
         /\ InOrder(Stream(fd), root[conn[fd]])
         /\ "IN" \in interest[fd] =>
              whole_lines(Stream(fd)) \cup root[conn[fd]] \cup (heap_root \cap TextsOf(fd))
                = TextsOf(fd)
         /\ \A k \in 1 .. Len(rw_objs[Object(fd)].line_buf) :
              ~EndsLine(rw_objs[Object(fd)].line_buf[k])
         /\ whole_lines(Came(fd)) \subseteq AllTexts
<1>1. Connection(fd)
  BY DEF Streams
<1>2. "OUT" \notin interest[fd]
  BY <1>1 DEF Connection, Sends
<1> QED BY <1>1, <1>2 DEF Connection, ComesBack

\* And what a step of that client has to show of it.
LEMMA WritesOnStill ==
  ASSUME Unended = {}, Structure, Streams, NEW fd \in DOMAIN conn, client[conn[fd]] = "writing",
         UNCHANGED serverVars, server_end'[conn[fd]] = server_end[conn[fd]],
         client'[conn[fd]] \in {"writing", "done", "killed"},
         whole_lines(Came(fd)') \subseteq AllTexts,
         client'[conn[fd]] # "killed" =>
           /\ InOrder(Stream(fd)', root'[conn[fd]])
           /\ whole_lines(Stream(fd)') \cup root'[conn[fd]] = whole_lines(Stream(fd)) \cup root[conn[fd]]
  PROVE  Connection(fd)'
<1>1. /\ server_end[conn[fd]] = "open" /\ "OUT" \notin interest[fd]
      /\ "IN" \in interest[fd] =>
              whole_lines(Stream(fd)) \cup root[conn[fd]] \cup (heap_root \cap TextsOf(fd))
                = TextsOf(fd)
      /\ \A k \in 1 .. Len(rw_objs[Object(fd)].line_buf) :
              ~EndsLine(rw_objs[Object(fd)].line_buf[k])
  BY WritesOn
<1>2. /\ conn'[fd] = conn[fd] /\ interest'[fd] = interest[fd] /\ heap_root' = heap_root
      /\ TextsOf(fd)' = TextsOf(fd) /\ rw_objs'[Object(fd)'] = rw_objs[Object(fd)]
  BY ServerRests
<1>3. GoesOut(fd)' /\ Sends(fd)'
  BY <1>1, <1>2 DEF GoesOut, Sends
<1>4. ComesBack(fd)'
  <2>1. /\ client'[conn'[fd]] \in {"writing", "done", "killed"}
        /\ whole_lines(Came(fd)') \subseteq AllTexts
        /\ \A k \in 1 .. Len(rw_objs'[Object(fd)'].line_buf) :
             ~EndsLine(rw_objs'[Object(fd)'].line_buf[k])
    BY <1>1, <1>2
  <2>2. client'[conn'[fd]] \in {"writing", "done"} =>
         /\ InOrder(Stream(fd)', root'[conn'[fd]])
         /\ "IN" \in interest'[fd] =>
              whole_lines(Stream(fd)') \cup root'[conn'[fd]] \cup (heap_root' \cap TextsOf(fd)')
                = TextsOf(fd)'
    BY <1>1, <1>2
  <2> QED BY <2>1, <2>2 DEF ComesBack
<1> QED BY <1>1, <1>2, <1>3, <1>4 DEF Connection

\* The smallest line of the client's heap follows those written before it.
LEMMA DelminStreams ==
  ASSUME Unended = {}, Structure, Structure', Streams, NEW c \in Clients,
         heap_delmin(c), UNCHANGED serverVars
  PROVE  Streams'
<1>1. Moves(c)
  BY ClientMoves DEF ClientNext
<1>2. PICK text \in Smallest(root[c]) : /\ root' = [root EXCEPT ![c] = root[c] \ {text}]
                                       /\ buf' = [buf EXCEPT ![c] = text]
  BY DEF heap_delmin
<1>3. /\ client[c] = "writing" /\ buf[c] = <<>> /\ Ends(c)
      /\ UNCHANGED <<backlog, client_end, server_end, down, up, client, line_buf>>
  BY DEF heap_delmin, ClientIs, socketVars, Streams
<1>4. /\ root \in [Clients -> SUBSET Seq(Symbols)] /\ buf \in [Clients -> Seq(Symbols)]
  BY DEF Structure, TypeOK, ClientTypeOK
<1>5. /\ root'[c] = root[c] \ {text} /\ buf'[c] = text /\ text \in root[c]
      /\ \A t \in root[c] : KeyOf(text) <= KeyOf(t)
  BY <1>2, <1>4 DEF Smallest
<1>6. Ends(c)' /\ Reads(c)'
  BY <1>3 DEF Ends, Reads
<1>7. \A i \in DOMAIN backlog' : backlog'[i] # c
  BY <1>3 DEF Streams, Waits
<1>8. ASSUME NEW fd \in DOMAIN conn, conn[fd] = c PROVE Connection(fd)'
  <2>1. /\ InOrder(Stream(fd), root[c]) /\ whole_lines(Came(fd)) \subseteq AllTexts
    BY <1>3, <1>8, WritesOn
  <2>2. PICK s : s = Came(fd) /\ s \in Seq(Symbols)
    BY ConnectionTexts
  <2>3. Came(fd)' = s /\ Stream(fd)' = s \o text
    <3>1. Came(fd)' = s
      BY <1>3, <1>8, <2>2, ServerRests DEF Came
    <3> QED BY <1>5, <1>8, <3>1, ServerRests DEF Stream
  <2>4. Stream(fd) = s
    <3>1. Stream(fd) = s \o <<>>
      BY <1>3, <1>8, <2>2 DEF Stream
    <3> QED BY <2>2, <3>1, AppendTexts
  <2>5. text \in AllTexts
    BY <1>5, <2>1 DEF InOrder
  <2>6. text \in Seq(Symbols) /\ whole_lines(text) = {text} /\ compacted(text) = <<>>
    BY <2>5, AllTextsAre
  <2>7. whole_lines(s \o text) = whole_lines(s) \cup {text} /\ compacted(s \o text) = <<>>
    <3>1. LastEnd(s) = Len(s)
      BY <2>1, <2>2, <2>4, CompactedEmpty DEF InOrder
    <3> QED BY <2>2, <2>6, <3>1, ConcatWhole
  <2>8. InOrder(s \o text, root[c] \ {text})
    BY <1>5, <2>1, <2>4, <2>5, <2>7 DEF InOrder
  <2>9. whole_lines(s \o text) \cup (root[c] \ {text}) = whole_lines(s) \cup root[c]
    BY <1>5, <2>7
  <2> QED BY <1>3, <1>5, <1>8, <2>1, <2>2, <2>3, <2>4, <2>8, <2>9, WritesOnStill
<1> QED BY <1>1, <1>6, <1>7, <1>8, MovesStreams

\* What is written moves from one text to the one before.
Shifted(l, u, p, q) == (l \o (u \o p)) \o q = (l \o u) \o (p \o q)

\* That leaves the whole as it is.
LEMMA Shift ==
  ASSUME NEW l \in Seq(Symbols), NEW u \in Seq(Symbols), NEW p \in Seq(Symbols),
         NEW q \in Seq(Symbols)
  PROVE  Shifted(l, u, p, q)
<1>1. l \o (u \o p) = (l \o u) \o p
  BY ConcatAssociative, SMTT(60)
<1> DEFINE y == l \o u
<1>2. y \in Seq(Symbols)
  BY AppendTexts
<1> HIDE DEF y
<1>3. (y \o p) \o q = y \o (p \o q)
  BY <1>2, ConcatAssociative, SMTT(60)
<1> QED BY <1>1, <1>3 DEF y, Shifted

\* What a client writes goes from its buffer into the socket.
LEMMA WriteStreams ==
  ASSUME Unended = {}, Structure, Structure', Streams, NEW c \in Clients,
         write(c), UNCHANGED serverVars
  PROVE  Streams'
<1>1. Moves(c)
  BY ClientMoves DEF ClientNext
<1> DEFINE n == Fitting(buf[c], up[c])
<1>2. /\ client[c] = "writing" /\ Ends(c) /\ n > 0
      /\ UNCHANGED <<backlog, client_end, server_end, down, client, line_buf, root>>
      /\ up' = [up EXCEPT ![c] = up[c] \o SubSeq(buf[c], 1, n)]
      /\ buf' = [buf EXCEPT ![c] = SubSeq(buf[c], n + 1, Len(buf[c]))]
  BY DEF write, ClientIs, Streams
<1>3. /\ up \in [Clients -> Seq(Symbols)] /\ buf \in [Clients -> Seq(Symbols)]
      /\ Len(up[c]) <= BufferSize
  BY DEF Structure, TypeOK, SocketsTypeOK, ClientTypeOK
<1>4. PICK p, q : p = SubSeq(buf[c], 1, n) /\ q = SubSeq(buf[c], n + 1, Len(buf[c]))
  OBVIOUS
<1>5. p \in Seq(Symbols) /\ q \in Seq(Symbols) /\ p \o q = buf[c]
  <2>1. buf[c] \in Seq(Symbols) /\ up[c] \in Seq(Symbols)
    BY <1>3
  <2>2. n \in 1 .. Len(buf[c])
    BY <1>2, <1>3, <2>1, FittingIs
  <2>3. n \in 0 .. Len(buf[c])
    <3> HIDE DEF n
    <3> QED BY <2>1, <2>2, LenProperties
  <2> HIDE DEF n
  <2> QED BY <1>4, <2>1, <2>3, Split
<1>6. up'[c] = up[c] \o p /\ buf'[c] = q /\ root'[c] = root[c]
  BY <1>2, <1>3, <1>4
<1>7. Ends(c)' /\ Reads(c)'
  BY <1>2 DEF Ends, Reads
<1>8. \A i \in DOMAIN backlog' : backlog'[i] # c
  BY <1>2 DEF Streams, Waits
<1>9. ASSUME NEW fd \in DOMAIN conn, conn[fd] = c PROVE Connection(fd)'
  <2>1. /\ InOrder(Stream(fd), root[c])
    BY <1>2, <1>9, WritesOn
  <2>2. PICK l, u : /\ l = rw_objs[Object(fd)].line_buf /\ u = up[c]
                    /\ l \in Seq(Symbols) /\ u \in Seq(Symbols)
    BY <1>3, <1>9, ConnectionTexts
  <2>3. /\ Came(fd) = l \o u /\ Stream(fd) = (l \o u) \o (p \o q)
        /\ Came(fd)' = l \o (u \o p) /\ Stream(fd)' = (l \o (u \o p)) \o q
    <3>1. conn'[fd] = c /\ rw_objs'[Object(fd)'].line_buf = l
      BY <1>9, <2>2, ServerRests
    <3>2. Came(fd) = l \o u /\ Stream(fd) = (l \o u) \o (p \o q)
      BY <1>5, <1>9, <2>2 DEF Came, Stream
    <3>3. Came(fd)' = l \o (u \o p)
      BY <1>6, <2>2, <3>1 DEF Came
    <3> QED BY <1>6, <3>1, <3>2, <3>3 DEF Stream
  <2>4. l \o u \in Seq(Symbols) /\ l \o (u \o p) \in Seq(Symbols)
    <3>1. l \o u \in Seq(Symbols) /\ u \o p \in Seq(Symbols)
      BY <1>5, <2>2, AppendTexts
    <3> QED BY <2>2, <3>1, AppendTexts
  <2>5. (l \o (u \o p)) \o q = (l \o u) \o (p \o q)
    <3>1. Shifted(l, u, p, q)
      BY <1>5, <2>2, Shift
    <3> QED BY <3>1 DEF Shifted
  <2>6. Stream(fd)' = Stream(fd)
    BY <2>3, <2>5
  <2>7. whole_lines(Came(fd)') \subseteq AllTexts
    <3> DEFINE z == l \o (u \o p)
    <3>1. z \in Seq(Symbols) /\ Came(fd)' = z /\ Stream(fd) = z \o q
      BY <2>3, <2>4, <2>5
    <3> HIDE DEF z
    <3>2. whole_lines(z) \subseteq whole_lines(z \o q)
      BY <1>5, <3>1, Growth
    <3>3. whole_lines(Stream(fd)) \subseteq AllTexts
      BY <2>1 DEF InOrder
    <3> QED BY <3>1, <3>2, <3>3
  <2> QED BY <1>2, <1>6, <1>9, <2>1, <2>6, <2>7, WritesOnStill
<1> QED BY <1>1, <1>7, <1>8, <1>9, MovesStreams

\* A client has written all and closes its connection.
LEMMA CloseStreams ==
  ASSUME Unended = {}, Structure, Structure', Streams, NEW c \in Clients,
         close(c), UNCHANGED serverVars
  PROVE  Streams'
<1>1. Moves(c)
  BY ClientMoves DEF ClientNext
<1>2. /\ client[c] = "writing" /\ Ends(c) /\ buf[c] = <<>> /\ root[c] = {}
      /\ client' = [client EXCEPT ![c] = "done"]
      /\ UNCHANGED <<backlog, server_end, down, up, line_buf, root, buf>>
  BY DEF close, ClientIs, Become, Streams
<1>3. client'[c] = "done"
  BY <1>2 DEF Structure, TypeOK, ClientTypeOK
<1>4. Ends(c)' /\ Reads(c)'
  BY <1>2, <1>3 DEF Ends, Reads
<1>5. \A i \in DOMAIN backlog' : backlog'[i] # c
  BY <1>2 DEF Streams, Waits
<1>6. ASSUME NEW fd \in DOMAIN conn, conn[fd] = c PROVE Connection(fd)'
  <2>1. /\ InOrder(Stream(fd), root[c]) /\ whole_lines(Came(fd)) \subseteq AllTexts
    BY <1>2, <1>6, WritesOn
  <2>2. Came(fd)' = Came(fd) /\ Stream(fd)' = Stream(fd)
    <3>1. Came(fd)' = Came(fd)
      BY <1>2, <1>6, ServerRests DEF Came
    <3> QED BY <1>2, <1>6, <3>1, ServerRests DEF Stream
  <2> QED BY <1>2, <1>3, <1>6, <2>1, <2>2, WritesOnStill
<1> QED BY <1>1, <1>4, <1>5, <1>6, MovesStreams

\* A client is killed: what it has sent is still whole lines and part of one.
LEMMA DieStreams ==
  ASSUME Unended = {}, Structure, Structure', Streams, NEW c \in Clients,
         die(c), UNCHANGED serverVars
  PROVE  Streams'
<1>1. Moves(c)
  BY ClientMoves DEF ClientNext
<1>2. /\ client[c] \in {"reading", "writing"} /\ Ends(c)
      /\ client' = [client EXCEPT ![c] = "killed"] /\ down' = [down EXCEPT ![c] = <<>>]
      /\ UNCHANGED <<backlog, server_end, up, line_buf, root, buf>>
  BY DEF die, Become, Streams
<1>3. client'[c] = "killed" /\ down'[c] = <<>>
  BY <1>2 DEF Structure, TypeOK, ClientTypeOK, SocketsTypeOK
<1>4. Ends(c)' /\ Reads(c)'
  BY <1>2, <1>3 DEF Ends, Reads
<1>5. ASSUME NEW i \in DOMAIN backlog', backlog'[i] = c PROVE Waits(c)'
  <2>1. Waits(c)
    BY <1>2, <1>5 DEF Streams
  <2> QED BY <1>2, <1>3, <2>1 DEF Waits
<1>6. ASSUME NEW fd \in DOMAIN conn, conn[fd] = c PROVE Connection(fd)'
  <2>1. Connection(fd)
    BY DEF Streams
  <2>2. /\ conn'[fd] = c /\ interest'[fd] = interest[fd]
        /\ rw_objs'[Object(fd)'] = rw_objs[Object(fd)]
    BY <1>6, ServerRests
  <2>3. Came(fd)' = Came(fd)
    BY <1>2, <1>6, <2>2 DEF Came
  <2>4. GoesOut(fd)' /\ Sends(fd)'
    BY <1>2, <1>3, <1>6, <2>1, <2>2 DEF Connection, GoesOut, Sends
  <2>5. ComesBack(fd)'
    BY <1>3, <2>1, <2>2, <2>3 DEF Connection, ComesBack, AllTexts
  <2> QED BY <1>2, <1>6, <2>1, <2>2, <2>4, <2>5 DEF Connection
<1> QED BY <1>1, <1>4, <1>5, <1>6, MovesStreams

-----------------------------------------------------------------------------
(* The theorems.                                                           *)

\* Every step keeps the streams.
LEMMA StreamsNext ==
  ASSUME Unended = {}, Structure, Structure', Streams, [Next]_vars
  PROVE  Streams'
<1>1. CASE UNCHANGED vars
  <2>1. UNCHANGED <<pc, backlog, server_end, client_end, down, up, interest, conn, con2rw_obj,
                    rw_objs, connections_limit, heap_root, output, client, line_buf, root, buf>>
    BY <1>1 DEF vars, socketVars, serverVars, clientVars
  <2>2. \A c \in Clients : Ends(c)' /\ Reads(c)'
    BY <2>1 DEF Streams, Ends, Reads
  <2>3. \A i \in DOMAIN backlog' : Waits(backlog[i])'
    BY <2>1 DEF Streams, Waits
  <2>4. \A fd \in DOMAIN conn' : Connection(fd)'
    BY <2>1, Untouched DEF Streams
  <2>5. Printed'
    BY <2>1 DEF Streams, Printed, PrintsInOrder, AllTexts
  <2> QED BY <2>2, <2>3, <2>4, <2>5 DEF Streams
<1>2. CASE ServerStep
  BY <1>2, ServerStreams
<1>3. ASSUME NEW c \in Clients, ClientStep(c) PROVE Streams'
  <2>1. ClientNext(c) /\ UNCHANGED serverVars
    BY <1>3 DEF ClientStep
  <2>2. CASE connect(c) \/ connect_fails(c)
    BY <2>1, <2>2, ConnectStreams
  <2>3. CASE ReadPart(c) \/ ReadLine(c) \/ ReadStop(c)
    BY <2>1, <2>3, TakeStreams
  <2>4. CASE ReadEnd(c) \/ write_lost(c)
    BY <2>1, <2>4, ReadEndStreams
  <2>5. CASE heap_delmin(c)
    BY <2>1, <2>5, DelminStreams
  <2>6. CASE write(c)
    BY <2>1, <2>6, WriteStreams
  <2>7. CASE close(c)
    BY <2>1, <2>7, CloseStreams
  <2>8. CASE die(c)
    BY <2>1, <2>8, DieStreams
  <2> QED BY <2>1, <2>2, <2>3, <2>4, <2>5, <2>6, <2>7, <2>8 DEF ClientNext, read_and_insert
<1> QED BY <1>1, <1>2, <1>3 DEF Next, Stopped

\* What is on its way on each connection, at every moment.
THEOREM StreamsHold ==
  ASSUME Unended = {}
  PROVE  Spec => [](Structure /\ Streams)
<1>1. Init => Structure /\ Streams
  BY StructureInit, StreamsInit
<1>2. Structure /\ Streams /\ [Next]_vars => (Structure /\ Streams)'
  BY StructureNext, StreamsNext
<1> QED BY <1>1, <1>2, PTL DEF Spec

\* On the way to a client nothing is lost, doubled or reordered: read_and_send's short
\* writes, of lines longer than the socket or the buffer, included.
THEOREM LinesAllGoOut ==
  ASSUME Unended = {}
  PROVE  Spec => []LinesGoOut
<1>1. Streams => LinesGoOut
  BY DEF Streams, Connection, GoesOut, Outward, Outgoing, Unsent, ToSend, LinesGoOut
<1> QED BY <1>1, StreamsHold, PTL

\* Nor on the way back, where the server puts the lines together from what each read
\* brings, and the client writes them by number.
THEOREM LinesAllComeBack ==
  ASSUME Unended = {}
  PROVE  Spec => []LinesComeBack
<1>1. Structure /\ Streams => LinesComeBack
  <2> SUFFICES ASSUME Structure, Streams, NEW fd \in DOMAIN conn,
                      client[conn[fd]] \in {"writing", "done"}, "IN" \in interest[fd]
               PROVE  /\ InOrder(Stream(fd), root[conn[fd]])
                      /\ whole_lines(Stream(fd)) \cup root[conn[fd]] \cup (heap_root \cap TextsOf(fd))
                           = TextsOf(fd)
    BY DEF LinesComeBack, InOrder, Stream, Came, TextsOf
  <2>1. "OUT" \notin interest[fd]
    BY ConnectionHas
  <2> QED BY <2>1 DEF Streams, Connection, ComesBack
<1> QED BY <1>1, StreamsHold, PTL

\* What is printed is whole lines, each at most once, by number, also when clients are
\* killed.
THEOREM PrintedInOrder ==
  ASSUME Unended = {}
  PROVE  Spec => []PrintsInOrder
<1>1. Streams => PrintsInOrder
  BY DEF Streams, Printed
<1> QED BY <1>1, StreamsHold, PTL

-----------------------------------------------------------------------------
(* That nothing is lost when no client is killed (MayDie = {}) and every   *)
(* line fits into line_buf: a longer one fills it, and read then returns 0 *)
(* as at the end of the stream (lab3/server.c:350).                        *)

\* The server is not killed, and no client is but by the end of its connection.
Alive ==
  /\ pc # "killed"
  /\ \A c \in Clients :
       /\ client_end[c] # "reset"
       /\ client_end[c] = "closed" => client[c] \in {"done", "killed"}
       /\ client[c] = "killed" => server_end[c] = "closed"

AllRead(c) == server_end[c] = "closed" /\ pc # "failed" => up[c] = <<>>

\* The events of a connection are still what they were when epoll reported them.
Fresh(fd) ==
  fd \in DOMAIN evlist =>
    /\ "IN" \in evlist[fd] => up[conn[fd]] # <<>> \/ Gone(conn[fd])
    /\ "RDHUP" \in evlist[fd] =>
         Gone(conn[fd]) /\ ("IN" \in interest[fd] => "IN" \in evlist[fd])

\* The end of a stream is noticed when all of it has come.
AtEnd(fd) ==
  interest[fd] = {"RDHUP"} =>
    /\ client[conn[fd]] = "done" /\ up[conn[fd]] = <<>>
    /\ TextsOf(fd) \subseteq heap_root

\* A connection is closed when all lines of its file are back.
Returned ==
  ~Broken =>
    \A o \in Objects :
      \/ o >= connections_size
      \/ \E fd \in DOMAIN conn : con2rw_obj[fd] = o
      \/ Range(Texts(Inputs[o + 1])) \subseteq heap_root \cup Range(output)

Delivery ==
  /\ Alive
  /\ \A c \in Clients : AllRead(c)
  /\ \A fd \in DOMAIN conn : Fresh(fd) /\ AtEnd(fd)
  /\ Returned

\* What has come of a line is shorter than line_buf, when more is to come.
LEMMA LineFits ==
  ASSUME Unended = {}, \A l \in Lines : Length[l] <= RD_BUF_SIZE,
         NEW s \in Seq(Symbols), NEW r \in Seq(Symbols),
         \A k \in 1 .. Len(s) : ~EndsLine(s[k]),
         compacted(s \o r) = <<>>, whole_lines(s \o r) \subseteq AllTexts, Len(s \o r) > 0
  PROVE  Len(s) < RD_BUF_SIZE
<1> DEFINE t == s \o r
<1>1. /\ t \in Seq(Symbols) /\ Len(t) = Len(s) + Len(r) /\ Len(s) \in Nat /\ Len(r) \in Nat
      /\ \A i \in 1 .. Len(s) + Len(r) : t[i] = IF i <= Len(s) THEN s[i] ELSE r[i - Len(s)]
  BY ConcatProperties, LenProperties
<1>2. compacted(t) = <<>> /\ whole_lines(t) \subseteq AllTexts /\ Len(t) > 0
  OBVIOUS
<1> HIDE DEF t
<1>3. Len(t) \in LineEnds(t) /\ LineEnds(t) \in SUBSET (1 .. Len(t))
  <2>1. LastEnd(t) = Len(t)
    BY <1>1, <1>2, CompactedEmpty
  <2> QED BY <1>1, <1>2, <2>1, LastEndIs
<1>4. PICK j : j = Min(LineEnds(t))
  OBVIOUS
<1>5. j \in LineEnds(t) /\ \A i \in LineEnds(t) : j <= i
  <2>1. LineEnds(t) \in SUBSET Nat /\ LineEnds(t) # {}
    BY <1>1, <1>3
  <2> QED BY <1>4, <2>1, MinNat
<1>6. j \in 1 .. Len(t) /\ j \in Nat /\ Len(t) \in Nat
  BY <1>1, <1>3, <1>5
<1>7. SubSeq(t, 1, j) \in whole_lines(t)
  <2>1. Line(t, 0, j)
    BY <1>5, <1>6 DEF Line
  <2>2. SubSeq(t, 0 + 1, j) \in whole_lines(t)
    BY <1>1, <1>6, <2>1, WholeLinesAre
  <2>3. 0 + 1 = 1
    OBVIOUS
  <2> QED BY <2>2, <2>3
<1>8. j <= RD_BUF_SIZE
  <2>1. PICK l \in Lines : SubSeq(t, 1, j) = Whole(l)
    BY <1>2, <1>7, AllTextsAre
  <2>2. Len(SubSeq(t, 1, j)) = j
    BY <1>1, <1>6, Split
  <2>3. Len(Whole(l)) = Length[l]
    BY WholeIs
  <2> QED BY <2>1, <2>2, <2>3
<1>9. ~(j <= Len(s))
  <2> SUFFICES ASSUME j <= Len(s) PROVE FALSE
    OBVIOUS
  <2>1. j \in 1 .. Len(s) /\ t[j] = s[j]
    BY <1>1, <1>6
  <2>2. EndsLine(t[j])
    BY <1>5 DEF LineEnds
  <2> QED BY <2>1, <2>2
<1> QED BY <1>1, <1>6, <1>8, <1>9, Sizes

\* A connection that is open has a client that is not killed.
LEMMA AliveAt ==
  ASSUME Structure, Streams, Alive, NEW fd \in DOMAIN conn
  PROVE  /\ client[conn[fd]] # "killed" /\ server_end[conn[fd]] = "open"
         /\ Gone(conn[fd]) => client[conn[fd]] = "done"
         /\ client_end[conn[fd]] # "reset"
<1>1. conn[fd] \in Clients
  BY ConnectionHas
<1>2. Connection(fd)
  BY DEF Streams
<1>3. client[conn[fd]] # "killed" /\ server_end[conn[fd]] = "open" /\ client_end[conn[fd]] # "reset"
  BY <1>1, <1>2 DEF Alive, Connection
<1>4. Gone(conn[fd]) => client[conn[fd]] = "done"
  BY <1>1, <1>3 DEF Alive, Gone
<1> QED BY <1>3, <1>4

\* At first nothing has come and nothing is missed.
LEMMA DeliveryInit == Init => Delivery
<1> SUFFICES ASSUME Init PROVE Delivery
  OBVIOUS
<1> USE DEF Init, SocketsInit, ServerInit, ClientInit
<1>1. Alive
  BY DEF Alive
<1>2. \A c \in Clients : AllRead(c)
  BY DEF AllRead
<1>3. DOMAIN conn = {} /\ connections_size = 0
  OBVIOUS
<1>4. Returned
  BY <1>3, Sizes DEF Returned
<1> QED BY <1>1, <1>2, <1>3, <1>4 DEF Delivery

\* What a step does not touch stays so.
LEMMA SameDelivery ==
  ASSUME NEW g \in DOMAIN conn, Fresh(g), AtEnd(g),
         conn'[g] = conn[g], con2rw_obj'[g] = con2rw_obj[g], interest'[g] = interest[g],
         g \in DOMAIN evlist' => g \in DOMAIN evlist /\ evlist'[g] = evlist[g],
         client'[conn[g]] = client[conn[g]], client_end'[conn[g]] = client_end[conn[g]],
         up'[conn[g]] = up[conn[g]], heap_root \subseteq heap_root'
  PROVE  Fresh(g)' /\ AtEnd(g)'
<1>1. TextsOf(g)' = TextsOf(g)
  BY DEF TextsOf, FileOf, Object
<1>2. Fresh(g)'
  BY DEF Fresh, Gone
<1>3. AtEnd(g)'
  BY <1>1 DEF AtEnd
<1> QED BY <1>2, <1>3

\* The server serves a connection.
LEMMA ServesDelivery ==
  ASSUME Structure, Structure', Streams, Delivery, NEW fd \in DOMAIN conn \cap DOMAIN evlist,
         Serves(fd), client_end' = client_end, heap_root \subseteq heap_root', AtEnd(fd)'
  PROVE  Delivery'
<1>1. /\ UNCHANGED <<server_end, conn, con2rw_obj, connections_size, output, client, client_end>>
      /\ pc' \in {"events", "wait", "drain", "write"} /\ pc \in {"events", "write"}
  BY HandledIs DEF Serves, clientVars
<1>2. Alive'
  BY <1>1 DEF Delivery, Alive
<1>3. ASSUME NEW c \in Clients PROVE AllRead(c)'
  <2>1. CASE c = conn[fd]
    <3>1. server_end[c] = "open"
      BY <2>1 DEF Streams, Connection
    <3> QED BY <1>1, <3>1 DEF AllRead
  <2>2. CASE c # conn[fd]
    <3>1. up'[c] = up[c] /\ AllRead(c)
      BY <2>2 DEF Serves, Delivery
    <3> QED BY <1>1, <3>1 DEF AllRead
  <2> QED BY <2>1, <2>2
<1>4. ASSUME NEW g \in DOMAIN conn' PROVE Fresh(g)' /\ AtEnd(g)'
  <2>1. CASE g = fd
    <3>1. CASE Handled(fd)
      <4>1. fd \notin DOMAIN evlist'
        BY <3>1, HandledIs
      <4> QED BY <2>1, <4>1 DEF Fresh
    <3>2. CASE evlist' = evlist /\ "OUT" \in evlist[fd]
      <4>1. evlist'[fd] = {"OUT"}
        BY <3>2, EventOf
      <4> QED BY <2>1, <4>1 DEF Fresh
    <3> QED BY <3>1, <3>2 DEF Serves
  <2>2. CASE g # fd
    <3>1. /\ g \in DOMAIN conn /\ Fresh(g) /\ AtEnd(g) /\ g \in DOMAIN interest
          /\ conn[g] \in Clients \ {conn[fd]}
      BY <1>1, <2>2, ConnectionHas DEF Delivery, Structure, OwnObject
    <3>2. interest'[g] = interest[g] /\ up'[conn[g]] = up[conn[g]]
      BY <2>2, <3>1 DEF Serves
    <3>3. g \in DOMAIN evlist' => g \in DOMAIN evlist /\ evlist'[g] = evlist[g]
      BY HandledIs DEF Serves
    <3> QED BY <1>1, <3>1, <3>2, <3>3, SameDelivery
  <2> QED BY <2>1, <2>2
<1>5. Returned'
  <2>1. ~Broken
    BY <1>1 DEF Broken
  <2> QED BY <1>1, <2>1 DEF Delivery, Returned
<1> QED BY <1>2, <1>3, <1>4, <1>5 DEF Delivery

\* The end of a stream is noticed when read returns 0; all of it has come by then.
LEMMA ReceiveDelivery ==
  ASSUME Unended = {}, \A l \in Lines : Length[l] <= RD_BUF_SIZE,
         Structure, Structure', Streams, Delivery, NEW fd \in DOMAIN evlist, Receive(fd),
         UNCHANGED clientVars
  PROVE  AtEnd(fd)'
<1>1. /\ fd \in DOMAIN conn /\ interest[fd] = {"IN", "RDHUP"} /\ "IN" \in evlist[fd]
      /\ Taken(fd) = 0 => up[conn[fd]] = <<>> \/ rw_objs[Object(fd)].last_len = RD_BUF_SIZE
      /\ up' = [up EXCEPT ![conn[fd]] = Left(fd)]
      /\ Left(fd) \in Seq(Symbols) /\ Len(Left(fd)) <= Len(up[conn[fd]])
      /\ heap_root' = heap_root \cup whole_lines(Got(fd))
      /\ interest' = AfterRead(fd, Taken(fd))
  BY ReceiveIs
<1>2. PICK c, s, u, b : /\ c = conn[fd] /\ s = rw_objs[Object(fd)].line_buf /\ u = up[c]
                        /\ b = buf[c]
  OBVIOUS
<1>3. /\ c \in Clients /\ s \in Seq(Symbols) /\ u \in Seq(Symbols) /\ b \in Seq(Symbols)
      /\ up \in [Clients -> Seq(Symbols)] /\ fd \in DOMAIN interest
  BY <1>1, <1>2, ConnectionHas, ClientHas, ConnectionTexts DEF SocketsTypeOK
<1>4. /\ conn' = conn /\ client' = client /\ con2rw_obj' = con2rw_obj
  BY DEF Receive, clientVars
<1>5. SUFFICES ASSUME interest'[fd] = {"RDHUP"} PROVE AtEnd(fd)'
  BY DEF AtEnd
<1>6. u = <<>> \/ Len(s) = RD_BUF_SIZE
  <2>1. Taken(fd) = 0
    <3>1. "IN" \in interest[fd] /\ "IN" \notin interest'[fd]
      BY <1>1, <1>5
    <3>2. interest' # interest
      BY <3>1
    <3> QED BY <1>1, <3>2 DEF AfterRead
  <2>2. rw_objs[Object(fd)].last_len = Len(s)
    BY <1>1, <1>2 DEF Structure, Watching
  <2> QED BY <1>1, <1>2, <2>1, <2>2
<1>7. /\ client[c] \in {"reading", "writing", "done"} /\ (Gone(c) => client[c] = "done")
      /\ Connection(fd) /\ "OUT" \notin interest[fd] /\ "IN" \in interest[fd]
  <2>1. Connection(fd) /\ "OUT" \notin interest[fd] /\ "IN" \in interest[fd]
    BY <1>1 DEF Streams
  <2>2. client[c] # "killed" /\ (Gone(c) => client[c] = "done")
    BY <1>1, <1>2, AliveAt DEF Delivery
  <2> QED BY <1>2, <2>1, <2>2 DEF Connection, ComesBack
<1>8. client[c] = "reading" => u = <<>>
  BY <1>2, <1>3 DEF Streams, Ends
<1>9. client[c] \in {"writing", "done"} =>
        /\ InOrder(Stream(fd), root[c])
        /\ whole_lines(Stream(fd)) \cup root[c] \cup (heap_root \cap TextsOf(fd)) = TextsOf(fd)
  BY <1>2, <1>7 DEF Connection, ComesBack
<1>10. \A k \in 1 .. Len(s) : ~EndsLine(s[k])
  BY <1>2, <1>7 DEF Connection, ComesBack
<1>11. Stream(fd) = s \o (u \o b) /\ u \o b \in Seq(Symbols) /\ s \o (u \o b) \in Seq(Symbols)
  <2>1. Stream(fd) = (s \o u) \o b
    BY <1>2 DEF Stream, Came
  <2>2. (s \o u) \o b = s \o (u \o b)
    BY <1>3, AppendTexts
  <2>3. u \o b \in Seq(Symbols)
    BY <1>3, AppendTexts
  <2>4. s \o (u \o b) \in Seq(Symbols)
    BY <1>3, <2>3, AppendTexts
  <2> QED BY <2>1, <2>2, <2>3, <2>4
<1>12. u = <<>>
  <2> SUFFICES ASSUME u # <<>> PROVE FALSE
    OBVIOUS
  <2>1. client[c] \in {"writing", "done"} /\ Len(s) = RD_BUF_SIZE
    BY <1>6, <1>7, <1>8
  <2> DEFINE r == u \o b
  <2>2. /\ compacted(s \o r) = <<>> /\ whole_lines(s \o r) \subseteq AllTexts
        /\ r \in Seq(Symbols)
    BY <1>9, <1>11, <2>1 DEF InOrder
  <2>3. Len(s \o r) > 0
    <3> HIDE DEF r
    <3>1. Len(s \o r) = Len(s) + Len(r) /\ Len(r) \in Nat /\ Len(s) \in Nat
      BY <1>3, <2>2, ConcatProperties, LenProperties
    <3> QED BY <2>1, <3>1, Sizes
  <2> HIDE DEF r
  <2>4. Len(s) < RD_BUF_SIZE
    BY <1>3, <1>10, <2>2, <2>3, LineFits
  <2> QED BY <2>1, <2>4, Sizes
<1>13. client[c] = "done"
  <2>1. Fresh(fd)
    BY <1>1 DEF Delivery
  <2> QED BY <1>1, <1>2, <1>7, <1>12, <2>1 DEF Fresh
<1>14. b = <<>> /\ root[c] = {}
  BY <1>2, <1>3, <1>13 DEF Streams, Ends
<1>15. s \o (u \o b) = s
  <2>1. u \o b = <<>>
    BY <1>3, <1>12, <1>14, AppendTexts
  <2> QED BY <1>3, <2>1, AppendTexts
<1>16. TextsOf(fd) \subseteq heap_root
  <2>1. whole_lines(s) = {}
    BY <1>3, <1>10, NoLineEnds
  <2> QED BY <1>9, <1>11, <1>13, <1>14, <1>15, <2>1
<1>17. up'[c] = <<>>
  <2>1. up'[c] = Left(fd)
    BY <1>1, <1>2, <1>3
  <2>2. Len(Left(fd)) = 0
    <3>1. Len(<<>>) = 0
      OBVIOUS
    <3>2. Len(Left(fd)) \in Nat
      BY <1>1, LenProperties
    <3> QED BY <1>1, <1>2, <1>12, <3>1, <3>2
  <2> QED BY <1>1, <2>1, <2>2, EmptySeq
<1>18. TextsOf(fd)' = TextsOf(fd)
  BY <1>4 DEF TextsOf, FileOf, Object
<1> QED BY <1>1, <1>2, <1>4, <1>13, <1>16, <1>17, <1>18 DEF AtEnd

\* A connection is closed by the server when all of it has come.
LEMMA HangupDelivery ==
  ASSUME Structure, Structure', Streams, Delivery, NEW fd \in DOMAIN evlist, Hangup(fd),
         UNCHANGED clientVars
  PROVE  Delivery'
<1>1. /\ fd \in DOMAIN conn /\ Handled(fd) /\ pc = "events" /\ evlist[fd] = {"RDHUP"}
      /\ DOMAIN conn' = DOMAIN conn \ {fd} /\ DOMAIN interest' = DOMAIN interest \ {fd}
      /\ \A g \in DOMAIN conn' : conn'[g] = conn[g]
      /\ \A g \in DOMAIN interest' : interest'[g] = interest[g]
  BY HangupIs
<1>2. /\ UNCHANGED <<client_end, up, con2rw_obj, heap_root, output, connections_size, client>>
      /\ server_end' = [server_end EXCEPT ![conn[fd]] = "closed"]
  BY DEF Hangup, clientVars
<1>3. server_end \in [Clients -> {"none", "open", "closed"}] /\ conn[fd] \in Clients
  BY <1>1, ConnectionHas DEF Structure, TypeOK, SocketsTypeOK
<1>4. pc' \in {"events", "wait", "drain"}
  BY <1>1, HandledIs
<1>5. Fresh(fd) /\ AtEnd(fd)
  BY <1>1 DEF Delivery
<1>6. interest[fd] = {"RDHUP"}
  <2>1. interest[fd] \in {{"OUT"}, {"IN", "RDHUP"}, {"RDHUP"}} /\ evlist[fd] \subseteq interest[fd]
    BY <1>1, ConnectionHas, EventOf
  <2>2. "RDHUP" \in interest[fd] /\ "IN" \notin interest[fd]
    BY <1>1, <1>5, <2>1 DEF Fresh
  <2> QED BY <2>1, <2>2
<1>7. up[conn[fd]] = <<>> /\ TextsOf(fd) \subseteq heap_root
  BY <1>5, <1>6 DEF AtEnd
<1>8. Alive'
  BY <1>2, <1>3, <1>4 DEF Delivery, Alive
<1>9. \A c \in Clients : AllRead(c)'
  BY <1>1, <1>2, <1>3, <1>7 DEF Delivery, AllRead
<1>10. ASSUME NEW g \in DOMAIN conn' PROVE Fresh(g)' /\ AtEnd(g)'
  <2>1. /\ g \in DOMAIN conn /\ Fresh(g) /\ AtEnd(g) /\ conn'[g] = conn[g]
        /\ g \in DOMAIN interest'
    BY <1>1, ConnectionHas DEF Delivery
  <2>2. interest'[g] = interest[g] /\ (g \in DOMAIN evlist' => g \in DOMAIN evlist /\ evlist'[g] = evlist[g])
    BY <1>1, <2>1, HandledIs
  <2> QED BY <1>2, <2>1, <2>2, SameDelivery
<1>11. Returned'
  <2> SUFFICES ASSUME NEW o \in Objects, o < connections_size
               PROVE  \/ \E g \in DOMAIN conn' : con2rw_obj[g] = o
                      \/ Range(Texts(Inputs[o + 1])) \subseteq heap_root \cup Range(output)
    <3>1. connections_size \in Nat
      BY Sizes DEF Structure, TypeOK, ServerTypeOK
    <3>2. \A o \in Objects : o >= connections_size \/ o < connections_size
      BY <3>1, Sizes
    <3> QED BY <1>2, <3>2 DEF Returned
  <2>1. \/ \E g \in DOMAIN conn : con2rw_obj[g] = o
        \/ Range(Texts(Inputs[o + 1])) \subseteq heap_root \cup Range(output)
    <3>1. ~Broken
      BY <1>1 DEF Broken
    <3>2. ~(o >= connections_size)
      BY Sizes DEF Structure, TypeOK, ServerTypeOK
    <3> QED BY <3>1, <3>2 DEF Delivery, Returned
  <2>2. con2rw_obj[fd] = o => Range(Texts(Inputs[o + 1])) \subseteq heap_root
    BY <1>7 DEF TextsOf, FileOf, Object
  <2> QED BY <1>1, <2>1, <2>2
<1> QED BY <1>8, <1>9, <1>10, <1>11 DEF Delivery

\* A new connection has nothing of its own yet; a connection refused had sent nothing.
LEMMA AcceptDelivery ==
  ASSUME Structure, Structure', Streams, Delivery, accept, UNCHANGED clientVars
  PROVE  Delivery'
<1>0. PICK f, c : f = lowest_fd /\ c = Head(backlog)
  OBVIOUS
<1>1. /\ Handled(connection_socket) /\ pc = "events" /\ connections_size \in 0 .. inputs_size - 1
      /\ f \notin DOMAIN conn /\ f # connection_socket /\ DOMAIN conn' = DOMAIN conn \cup {f}
      /\ \A g \in DOMAIN conn : conn'[g] = conn[g] /\ con2rw_obj'[g] = con2rw_obj[g]
      /\ con2rw_obj'[f] = connections_size
      /\ interest'[f] = {"OUT"}
      /\ DOMAIN interest' = DOMAIN conn' \cup (IF listening' THEN {connection_socket} ELSE {})
      /\ \A g \in DOMAIN interest \cap DOMAIN interest' : interest'[g] = interest[g]
  BY <1>0, AcceptIs
<1>2. /\ UNCHANGED <<client_end, up, heap_root, output, client>>
      /\ Stop_listening({c}) \/ UNCHANGED server_end
      /\ connections_size' = connections_size + 1
  BY <1>0 DEF accept, clientVars
<1>3. pc' \in {"events", "wait", "drain"}
  BY <1>1, HandledIs
<1>4. \A d \in Clients : \/ server_end'[d] = server_end[d]
                         \/ server_end'[d] = "closed" /\ up[d] = <<>>
  <2> SUFFICES ASSUME NEW d \in Clients, Stop_listening({c}), d \in Range(backlog) \ {c}
               PROVE  server_end'[d] = "closed" /\ up[d] = <<>>
    BY <1>2 DEF Stop_listening
  <2>1. PICK i \in DOMAIN backlog : backlog[i] = d
    BY DEF Range
  <2>2. up[d] = <<>>
    BY <2>1 DEF Streams, Waits
  <2> QED BY <2>2 DEF Stop_listening
<1>5. Alive'
  BY <1>2, <1>3, <1>4 DEF Delivery, Alive
<1>6. \A d \in Clients : AllRead(d)'
  BY <1>1, <1>2, <1>4 DEF Delivery, AllRead
<1>7. ASSUME NEW g \in DOMAIN conn' PROVE Fresh(g)' /\ AtEnd(g)'
  <2>1. CASE g = f
    <3>1. f \notin DOMAIN evlist
      BY <1>1, EventOf
    <3>2. f \notin DOMAIN evlist'
      BY <1>1, <3>1, HandledIs
    <3>3. interest'[f] # {"RDHUP"}
      BY <1>1
    <3> QED BY <2>1, <3>2, <3>3 DEF Fresh, AtEnd
  <2>2. CASE g # f
    <3>1. g \in DOMAIN conn /\ Fresh(g) /\ AtEnd(g) /\ g \in DOMAIN interest
      BY <1>1, <2>2, ConnectionHas DEF Delivery
    <3>2. /\ interest'[g] = interest[g] /\ conn'[g] = conn[g] /\ con2rw_obj'[g] = con2rw_obj[g]
          /\ g \in DOMAIN evlist' => g \in DOMAIN evlist /\ evlist'[g] = evlist[g]
      BY <1>1, <3>1, HandledIs
    <3> QED BY <1>2, <3>1, <3>2, SameDelivery
  <2> QED BY <2>1, <2>2
<1>8. Returned'
  <2> SUFFICES ASSUME NEW o \in Objects
               PROVE  \/ o >= connections_size'
                      \/ \E g \in DOMAIN conn' : con2rw_obj'[g] = o
                      \/ Range(Texts(Inputs[o + 1])) \subseteq heap_root' \cup Range(output')
    BY DEF Returned
  <2>1. CASE o = connections_size
    BY <1>1, <2>1
  <2>2. CASE o # connections_size
    <3>1. ~Broken
      BY <1>1 DEF Broken
    <3>2. o >= connections_size => o >= connections_size'
      BY <1>1, <1>2, <2>2, Sizes
    <3> QED BY <1>1, <1>2, <3>1, <3>2 DEF Delivery, Returned
  <2> QED BY <2>1, <2>2
<1> QED BY <1>5, <1>6, <1>7, <1>8 DEF Delivery

\* The other steps of the server.
LEMMA QuietDelivery ==
  ASSUME Structure, Structure', Streams, Delivery, UNCHANGED clientVars,
         setup \/ error_helper \/ epoll_wait \/ print \/ finish
  PROVE  Delivery'
<1>1. UNCHANGED <<client_end, up, client, connections_size, con2rw_obj>>
  BY DEF setup, error_helper, Exit, epoll_wait, print, finish, socketVars, clientVars
<1>2. CASE error_helper
  <2>1. /\ pc' = "failed" /\ DOMAIN conn' = {}
        /\ server_end' = [c \in Clients |-> IF server_end[c] = "open" THEN "closed" ELSE server_end[c]]
    BY <1>2 DEF error_helper, Exit
  <2>2. Alive'
    BY <1>1, <2>1 DEF Delivery, Alive
  <2>3. \A c \in Clients : AllRead(c)'
    BY <2>1 DEF AllRead
  <2>4. Returned'
    BY <2>1 DEF Returned, Broken
  <2> QED BY <2>1, <2>2, <2>3, <2>4 DEF Delivery
<1>3. CASE setup \/ epoll_wait \/ print \/ finish
  <2>1. /\ UNCHANGED <<server_end, conn>> /\ pc \in {"start", "wait", "drain"}
        /\ pc' \in {"wait", "events", "drain", "done"}
        /\ heap_root \cup Range(output) \subseteq heap_root' \cup Range(output')
    <3>1. CASE print
      <4>1. PICK text \in heap_root : heap_root' = heap_root \ {text} /\ output' = Append(output, text)
        BY <3>1 DEF print, Smallest
      <4>2. Range(output) \cup {text} \subseteq Range(output')
        <5>1. output \in Seq(Seq(Symbols)) /\ text \in Seq(Symbols)
          BY <4>1 DEF Structure, TypeOK, ServerTypeOK
        <5>2. /\ Len(output) \in Nat /\ DOMAIN output = 1 .. Len(output)
              /\ DOMAIN output' = 1 .. Len(output) + 1 /\ output'[Len(output) + 1] = text
              /\ \A i \in 1 .. Len(output) : output'[i] = output[i]
          <6>1. /\ output' \in Seq(Seq(Symbols)) /\ Len(output') = Len(output) + 1
                /\ output'[Len(output) + 1] = text
                /\ \A i \in 1 .. Len(output) : output'[i] = output[i]
            BY <4>1, <5>1, AppendProperties
          <6> QED BY <5>1, <6>1, LenProperties
        <5> DEFINE n == Len(output)
        <5>3. n \in Nat /\ DOMAIN output = 1 .. n /\ DOMAIN output' = 1 .. n + 1
              /\ output'[n + 1] = text /\ \A i \in 1 .. n : output'[i] = output[i]
          BY <5>2
        <5> HIDE DEF n
        <5>4. 1 .. n \subseteq 1 .. n + 1 /\ n + 1 \in 1 .. n + 1
          BY <5>3
        <5> QED BY <5>3, <5>4 DEF Range
      <4> QED BY <3>1, <4>1, <4>2 DEF print, socketVars
    <3>2. CASE setup \/ epoll_wait \/ finish
      BY <3>2 DEF setup, epoll_wait, finish, socketVars
    <3> QED BY <1>3, <3>1, <3>2
  <2>2. Alive'
    BY <1>1, <2>1 DEF Delivery, Alive
  <2>3. \A c \in Clients : AllRead(c)'
    BY <1>1, <2>1 DEF Delivery, AllRead
  <2>4. Returned'
    BY <1>1, <2>1 DEF Delivery, Returned, Broken
  <2>5. CASE epoll_wait
    <3>1. UNCHANGED <<interest, heap_root>>
      BY <2>5 DEF epoll_wait
    <3> SUFFICES ASSUME NEW fd \in DOMAIN conn PROVE Fresh(fd)' /\ AtEnd(fd)'
      BY <2>1, <2>2, <2>3, <2>4 DEF Delivery
    <3>2. AtEnd(fd)'
      BY <1>1, <2>1, <3>1 DEF Delivery, AtEnd, TextsOf, FileOf, Object
    <3>3. fd \in DOMAIN evlist' => evlist'[fd] = Events(fd)
      BY <2>5 DEF epoll_wait
    <3>4. fd # connection_socket
      BY ConnectionHas
    <3>5. Events(fd) = {e \in interest[fd] :
                          \/ e = "IN" /\ (up[conn[fd]] # <<>> \/ Gone(conn[fd]))
                          \/ e = "OUT" /\ (Room(down[conn[fd]]) > 0 \/ Gone(conn[fd]))
                          \/ e = "RDHUP" /\ Gone(conn[fd])}
      BY <3>4 DEF Events
    <3>6. Fresh(fd)'
      BY <1>1, <2>1, <3>1, <3>3, <3>5 DEF Fresh, Gone
    <3> QED BY <3>2, <3>6
  <2>6. CASE setup \/ print \/ finish
    <3>1. DOMAIN conn = {}
      <4>1. CASE setup
        BY <4>1 DEF setup, Structure, Stages
      <4>2. CASE print \/ finish
        <5>1. pc = "drain"
          BY <4>2 DEF print, finish
        <5> QED BY <5>1, NoConnections DEF Streams
      <4> QED BY <2>6, <4>1, <4>2
    <3> QED BY <2>1, <2>2, <2>3, <2>4, <3>1 DEF Delivery
  <2> QED BY <1>3, <2>5, <2>6
<1> QED BY <1>2, <1>3

\* A server that sends to a client that is there is not killed.
LEMMA NotKilled ==
  ASSUME Structure, Streams, Alive
  PROVE  ~sigpipe /\ ~overrun /\ ~write_lost_line
         /\ \A c \in Clients : Reported(c) => client_end' = client_end
<1>1. ASSUME NEW fd \in DOMAIN conn, interest[fd] = {"OUT"}, Gone(conn[fd]) PROVE FALSE
  <2>1. client[conn[fd]] = "done"
    BY <1>1, AliveAt
  <2>2. Sends(fd)
    BY DEF Streams, Connection
  <2> QED BY <1>1, <2>1, <2>2 DEF Sends
<1>2. ~write_lost_line
  BY <1>1, WritingIs DEF write_lost_line
<1>3. ~sigpipe
  <2>1. ASSUME NEW fd \in DOMAIN evlist, SendsStop(fd), Gone(conn[fd]) PROVE FALSE
    BY <1>1, <2>1, EventOf DEF SendsStop, Sending, Has
  <2> QED BY <1>1, <2>1, WritingIs DEF sigpipe
<1>4. ~overrun
  <2>1. ASSUME NEW fd \in DOMAIN evlist \ {connection_socket}, Has(fd, "IN"),
               client_end[conn[fd]] = "reset"
        PROVE  FALSE
    <3>1. fd \in DOMAIN conn
      BY <2>1, EventOf DEF Has
    <3> QED BY <2>1, <3>1, AliveAt
  <2> QED BY <2>1 DEF overrun
<1>5. ASSUME NEW c \in Clients, Reported(c) PROVE client_end' = client_end
  <2>1. client_end \in [Clients -> {"none", "open", "closed", "reset"}]
    BY DEF Structure, TypeOK, SocketsTypeOK
  <2>2. Gone(c) => client_end[c] = "closed"
    BY DEF Alive, Gone
  <2> QED BY <1>5, <2>1, <2>2 DEF Reported
<1> QED BY <1>2, <1>3, <1>4, <1>5

\* Every step of the server.
LEMMA ServerDelivery ==
  ASSUME Unended = {}, \A l \in Lines : Length[l] <= RD_BUF_SIZE,
         Structure, Structure', Streams, Delivery, ServerStep
  PROVE  Delivery'
<1>1. UNCHANGED clientVars /\ ServerNext
  BY DEF ServerStep
<1>2. /\ ~sigpipe /\ ~overrun /\ ~write_lost_line
      /\ \A c \in Clients : Reported(c) => client_end' = client_end
  BY NotKilled DEF Delivery
<1>3. CASE write_line
  <2>1. writing \in DOMAIN conn \cap DOMAIN evlist /\ Serves(writing)
    BY <1>1, <1>3, WriteLineStructure
  <2>2. PICK fd : fd = writing
    OBVIOUS
  <2>3. UNCHANGED <<client_end, heap_root, interest>> /\ interest[fd] = {"OUT"}
    BY <1>3, <2>2, WritingIs DEF write_line
  <2>4. AtEnd(fd)'
    BY <2>3 DEF AtEnd
  <2> QED BY <2>1, <2>2, <2>3, <2>4, ServesDelivery
<1>4. ASSUME NEW fd \in DOMAIN evlist, SendRest(fd) \/ SendLine(fd) PROVE Delivery'
  <2>1. fd \in DOMAIN conn \cap DOMAIN evlist /\ Serves(fd)
    BY <1>1, <1>4, SendStructure
  <2>2. UNCHANGED <<client_end, heap_root, interest>> /\ "OUT" \in evlist[fd]
    BY <1>4 DEF SendRest, SendLine, Sending, Has, socketVars
  <2>3. AtEnd(fd)'
    <3>1. interest'[fd] = {"OUT"}
      BY <2>2, EventOf
    <3> QED BY <3>1 DEF AtEnd
  <2> QED BY <2>1, <2>2, <2>3, ServesDelivery
<1>5. ASSUME NEW fd \in DOMAIN evlist, SendStop(fd) PROVE Delivery'
  <2>1. fd \in DOMAIN conn \cap DOMAIN evlist /\ Serves(fd) /\ conn[fd] \in Clients
        /\ fd \in DOMAIN interest
    BY <1>1, <1>5, SendStopStructure, ConnectionHas
  <2>2. /\ UNCHANGED heap_root /\ Reported(conn[fd])
        /\ interest' = [interest EXCEPT ![fd] = {"IN", "RDHUP"}]
    BY <1>5 DEF SendStop
  <2>3. AtEnd(fd)'
    <3>1. "IN" \in interest'[fd]
      BY <2>1, <2>2
    <3> QED BY <3>1 DEF AtEnd
  <2> QED BY <1>2, <2>1, <2>2, <2>3, ServesDelivery
<1>6. ASSUME NEW fd \in DOMAIN evlist, Receive(fd) PROVE Delivery'
  <2>1. fd \in DOMAIN conn \cap DOMAIN evlist /\ Serves(fd)
    BY <1>1, <1>6, ReceiveStructure
  <2>2. UNCHANGED client_end /\ heap_root \subseteq heap_root'
    BY <1>1, <1>6, ReceiveIs DEF Receive
  <2>3. AtEnd(fd)'
    BY <1>1, <1>6, ReceiveDelivery
  <2> QED BY <2>1, <2>2, <2>3, ServesDelivery
<1> QED BY <1>1, <1>2, <1>3, <1>4, <1>5, <1>6, QuietDelivery, AcceptDelivery, HangupDelivery
        DEF ServerNext

\* What a step of a client does to the ends of its connection and to what it has sent.
LEMMA ClientEnds ==
  ASSUME Structure, Streams, Alive, MayDie = {}, NEW c \in Clients, ClientNext(c)
  PROVE  /\ client[c] \in {"start", "reading", "writing"}
         /\ client_end'[c] # "reset"
         /\ client_end'[c] = "closed" => client'[c] \in {"done", "killed"}
         /\ client'[c] = "killed" => server_end'[c] = "closed"
         /\ server_end'[c] = "closed" => server_end[c] = "closed" /\ up'[c] = up[c]
         /\ up[c] # <<>> => up'[c] # <<>>
<1>1. /\ client \in [Clients -> ClientStates]
      /\ client_end \in [Clients -> {"none", "open", "closed", "reset"}]
      /\ server_end \in [Clients -> {"none", "open", "closed"}]
      /\ up \in [Clients -> Seq(Symbols)] /\ buf \in [Clients -> Seq(Symbols)]
      /\ Len(up[c]) <= BufferSize
  BY DEF Structure, TypeOK, SocketsTypeOK, ClientTypeOK
<1>2. client_end[c] # "reset" /\ (client_end[c] = "closed" => client[c] \in {"done", "killed"})
  BY DEF Alive
<1>3. client[c] \in {"reading", "writing"} => client_end[c] = "open"
  BY DEF Streams, Ends
<1>4. CASE connect(c)
  BY <1>1, <1>4 DEF connect, Become, ClientIs
<1>5. CASE connect_fails(c)
  BY <1>1, <1>2, <1>5 DEF connect_fails, Become, ClientIs, socketVars
<1>6. CASE read_and_insert(c)
  <2>1. UNCHANGED <<client_end, server_end, up>> /\ client[c] = "reading"
        /\ client'[c] \in {"reading", "writing"}
    BY <1>1, <1>6
       DEF read_and_insert, ReadPart, ReadLine, ReadStop, ReadEnd, Take, Become, ClientIs, socketVars
  <2> QED BY <1>3, <2>1
<1>7. CASE heap_delmin(c)
  BY <1>3, <1>7 DEF heap_delmin, ClientIs, socketVars
<1>8. CASE write(c)
  <2>1. /\ client[c] = "writing" /\ server_end[c] = "open"
        /\ UNCHANGED <<client, client_end, server_end>>
        /\ Fitting(buf[c], up[c]) > 0
        /\ up' = [up EXCEPT ![c] = up[c] \o SubSeq(buf[c], 1, Fitting(buf[c], up[c]))]
    BY <1>8 DEF write, ClientIs
  <2>2. PICK p : p = SubSeq(buf[c], 1, Fitting(buf[c], up[c]))
    OBVIOUS
  <2>3. buf[c] \in Seq(Symbols) /\ up[c] \in Seq(Symbols)
    BY <1>1
  <2>4. p \in Seq(Symbols)
    BY <1>1, <2>1, <2>2, <2>3, FittingIs
  <2>5. up'[c] = up[c] \o p
    BY <1>1, <2>1, <2>2
  <2>6. up[c] # <<>> => up[c] \o p # <<>>
    <3> DEFINE u == up[c]
    <3>1. u \in Seq(Symbols)
      BY <2>3
    <3> HIDE DEF u
    <3>2. Len(u \o p) = Len(u) + Len(p) /\ Len(u) \in Nat /\ Len(p) \in Nat
      BY <2>4, <3>1, ConcatProperties, LenProperties
    <3>3. u # <<>> => Len(u) # 0
      BY <3>1, EmptySeq
    <3>4. u \o p = <<>> => Len(u \o p) = 0
      OBVIOUS
    <3>5. u # <<>> => u \o p # <<>>
      BY <3>2, <3>3, <3>4
    <3> QED BY <3>5 DEF u
  <2> QED BY <1>3, <2>1, <2>5, <2>6
<1>9. CASE write_lost(c)
  BY <1>1, <1>3, <1>9 DEF write_lost, Become, ClientIs
<1>10. CASE close(c)
  BY <1>1, <1>10 DEF close, Become, ClientIs
<1>11. ~die(c)
  BY DEF die
<1> QED BY <1>4, <1>5, <1>6, <1>7, <1>8, <1>9, <1>10, <1>11 DEF ClientNext

\* Every step of a client.
LEMMA ClientDelivery ==
  ASSUME Structure, Structure', Streams, Delivery, MayDie = {}, NEW c \in Clients, ClientStep(c)
  PROVE  Delivery'
<1>1. ClientNext(c) /\ UNCHANGED serverVars
  BY DEF ClientStep
<1>2. Moves(c)
  BY <1>1, ClientMoves
<1>3. /\ client[c] \in {"start", "reading", "writing"}
      /\ client_end'[c] # "reset"
      /\ client_end'[c] = "closed" => client'[c] \in {"done", "killed"}
      /\ client'[c] = "killed" => server_end'[c] = "closed"
      /\ server_end'[c] = "closed" => server_end[c] = "closed" /\ up'[c] = up[c]
      /\ up[c] # <<>> => up'[c] # <<>>
  BY <1>1, ClientEnds DEF Delivery
<1>4. /\ UNCHANGED <<pc, evlist, interest, conn, con2rw_obj, heap_root, output, connections_size>>
      /\ \A d \in Clients \ {c} :
           /\ client'[d] = client[d] /\ client_end'[d] = client_end[d]
           /\ server_end'[d] = server_end[d] /\ up'[d] = up[d]
      /\ client[c] # "start" /\ Gone(c) => Gone(c)'
  BY <1>1, <1>2 DEF Moves, serverVars
<1>5. Alive'
  <2>1. ASSUME NEW d \in Clients
        PROVE  /\ client_end'[d] # "reset"
               /\ client_end'[d] = "closed" => client'[d] \in {"done", "killed"}
               /\ client'[d] = "killed" => server_end'[d] = "closed"
    <3>1. CASE d = c
      BY <1>3, <3>1
    <3>2. CASE d # c
      BY <1>4, <3>2 DEF Delivery, Alive
    <3> QED BY <3>1, <3>2
  <2> QED BY <1>4, <2>1 DEF Delivery, Alive
<1>6. ASSUME NEW d \in Clients PROVE AllRead(d)'
  <2>1. AllRead(d)
    BY DEF Delivery
  <2>2. CASE d = c
    BY <1>3, <1>4, <2>1, <2>2 DEF AllRead
  <2>3. CASE d # c
    BY <1>4, <2>1, <2>3 DEF AllRead
  <2> QED BY <2>2, <2>3
<1>7. ASSUME NEW fd \in DOMAIN conn' PROVE Fresh(fd)' /\ AtEnd(fd)'
  <2>1. fd \in DOMAIN conn /\ conn'[fd] = conn[fd] /\ conn[fd] \in Clients /\ Fresh(fd) /\ AtEnd(fd)
        /\ client[conn[fd]] # "start"
    BY <1>4, ConnectionHas DEF Delivery, Structure, Peers
  <2>2. CASE conn[fd] = c
    <3>1. Fresh(fd)'
      BY <1>3, <1>4, <2>1, <2>2 DEF Fresh
    <3>2. AtEnd(fd)'
      BY <1>3, <1>4, <2>1, <2>2 DEF AtEnd
    <3> QED BY <3>1, <3>2
  <2>3. CASE conn[fd] # c
    BY <1>4, <2>1, <2>3, SameDelivery
  <2> QED BY <2>2, <2>3
<1>8. Returned'
  BY <1>4 DEF Delivery, Returned, Broken
<1> QED BY <1>5, <1>6, <1>7, <1>8 DEF Delivery

\* What the theorems on delivery assume: every line ends with a newline and fits into
\* the server's buffer, and no client is killed.
Benign == Unended = {} /\ MayDie = {} /\ \A l \in Lines : Length[l] <= RD_BUF_SIZE

\* Every step keeps what Delivery says.
LEMMA DeliveryNext ==
  ASSUME Benign, Structure, Structure', Streams, Delivery, [Next]_vars
  PROVE  Delivery'
<1>1. CASE UNCHANGED vars
  <2>1. UNCHANGED <<pc, server_end, client_end, up, interest, conn, con2rw_obj, evlist,
                    connections_size, heap_root, output, client>>
    BY <1>1 DEF vars, socketVars, serverVars, clientVars
  <2>2. Alive' /\ \A c \in Clients : AllRead(c)'
    BY <2>1 DEF Delivery, Alive, AllRead
  <2>3. \A fd \in DOMAIN conn' : Fresh(fd)' /\ AtEnd(fd)'
    BY <2>1, SameDelivery DEF Delivery
  <2>4. Returned'
    BY <2>1 DEF Delivery, Returned, Broken
  <2> QED BY <2>2, <2>3, <2>4 DEF Delivery
<1>2. CASE ServerStep
  BY <1>2, ServerDelivery DEF Benign
<1>3. ASSUME NEW c \in Clients, ClientStep(c) PROVE Delivery'
  BY <1>3, ClientDelivery DEF Benign
<1> QED BY <1>1, <1>2, <1>3 DEF Next, Stopped

\* What has come and what has been closed, at every moment.
THEOREM DeliveryHolds ==
  ASSUME Benign
  PROVE  Spec => [](Structure /\ Streams /\ Delivery)
<1>1. Init => Structure /\ Streams /\ Delivery
  BY StructureInit, StreamsInit, DeliveryInit
<1>2. Structure /\ Streams /\ Delivery /\ [Next]_vars => (Structure /\ Streams /\ Delivery)'
  BY StructureNext, StreamsNext, DeliveryNext DEF Benign
<1> QED BY <1>1, <1>2, PTL DEF Spec

\* Neither end closes a connection with anything left to read in it, which would make
\* the kernel drop what is on its way.
THEOREM NothingIsLeftUnread ==
  ASSUME Benign
  PROVE  Spec => []NothingLeftUnread
<1>1. Streams /\ Delivery => NothingLeftUnread
  BY DEF Streams, Ends, Delivery, AllRead, NothingLeftUnread
<1> QED BY <1>1, DeliveryHolds, PTL

\* After the loop the heap holds the lines that are still to be printed.
LEMMA StillToPrint ==
  ASSUME Unended = {}, Structure, Streams, Delivery, pc = "drain"
  PROVE  Sorting!Missing = heap_root
<1>1. heap_root \cup Range(output) = AllTexts
  <2>1. heap_root \subseteq AllTexts /\ Range(output) \subseteq AllTexts
    BY DEF Streams, Printed, PrintsInOrder
  <2>2. ASSUME NEW t \in AllTexts PROVE t \in heap_root \cup Range(output)
    <3>1. PICK o \in Objects : t \in Range(Texts(Inputs[o + 1]))
      BY AllTextsAre
    <3>2. DOMAIN conn = {} /\ connections_size = inputs_size
      BY NoConnections DEF Streams
    <3>3. ~(o >= connections_size)
      BY <3>2, Sizes
    <3>4. Range(Texts(Inputs[o + 1])) \subseteq heap_root \cup Range(output)
      BY <3>2, <3>3 DEF Delivery, Returned, Broken
    <3> QED BY <3>1, <3>4
  <2> QED BY <2>1, <2>2
<1>2. \A t \in heap_root : t \notin Range(output)
  BY DEF Streams, Printed
<1>3. Sorting!Missing = AllTexts \ Range(output)
  BY DEF Sorting!Missing, Sorting!Range, Range
<1> QED BY <1>1, <1>2, <1>3

\* The server as a whole implements what is promised of it: however lines are split and
\* delayed on their way to the clients and back, it prints all of them, once each, by
\* number, and ends when it has printed all, or ends with an error.
THEOREM ServerSorts ==
  ASSUME Benign
  PROVE  Spec => ImplementsSorter
<1>1. Init => Sorting!Init
  BY DEF Init, ServerInit, Sorting!Init
<1>2. ASSUME Structure, Streams, Delivery, [Next]_vars PROVE [Sorting!Next]_Sorting!vars
  <2>1. CASE print
    <3>1. PICK text \in Smallest(heap_root) : /\ heap_root' = heap_root \ {text}
                                              /\ output' = Append(output, text)
      BY <2>1 DEF print
    <3>2. pc = "drain" /\ pc' = pc
      BY <2>1 DEF print
    <3>3. Sorting!Missing = heap_root /\ heap_root \subseteq AllTexts
      BY <1>2, <3>2, StillToPrint DEF Benign, Streams, Printed
    <3>4. text \in heap_root /\ text \in AllTexts /\ \A u \in heap_root : KeyOf(text) <= KeyOf(u)
      BY <3>1, <3>3 DEF Smallest
    <3>5. Sorting!PrintNext(text)
      BY <3>1, <3>2, <3>3, <3>4 DEF Sorting!PrintNext
    <3> QED BY <3>4, <3>5 DEF Sorting!Next
  <2>2. CASE finish
    <3>1. pc = "drain" /\ heap_root = {} /\ pc' = "done" /\ output' = output
      BY <2>2 DEF finish
    <3>2. Sorting!Missing = {}
      BY <1>2, <3>1, StillToPrint DEF Benign
    <3> QED BY <3>1, <3>2 DEF Sorting!Next, Sorting!Finish
  <2>3. CASE output' = output /\ (pc' = "done" <=> pc = "done")
    BY <2>3 DEF Sorting!vars
  <2>4. ASSUME ServerStep, ~print, ~finish PROVE output' = output /\ (pc' = "done" <=> pc = "done")
    <3>1. ASSUME NEW fd, Handled(fd) PROVE pc' \in {"events", "wait", "drain"}
      BY <3>1 DEF Handled
    <3> QED BY <2>4, <3>1
            DEF ServerStep, ServerNext, setup, error_helper, Exit, epoll_wait, accept, write_line,
                write_lost_line, sigpipe, overrun, SendRest, SendLine, SendStop, SendsStop, Sending,
                Receive, Hangup, OnlyHungUp, Has
  <2>5. ASSUME NEW c \in Clients, ClientStep(c) PROVE output' = output /\ pc' = pc
    BY <2>5 DEF ClientStep, serverVars
  <2>6. UNCHANGED vars => output' = output /\ pc' = pc
    BY DEF vars, serverVars
  <2> QED BY <1>2, <2>1, <2>2, <2>3, <2>4, <2>5, <2>6 DEF Next, Stopped
<1> QED BY <1>1, <1>2, DeliveryHolds, PTL DEF Spec, ImplementsSorter, Sorting!Spec

-----------------------------------------------------------------------------
(* That lab3 does not stand still: the server and the clients never wait   *)
(* for each other in a circle, also when clients are killed.               *)

\* What the server can be kept in: epoll_wait without an event, a write without room.
ServerWaits ==
  \/ pc = "wait" /\ \A fd \in DOMAIN interest : Events(fd) = {}
  \/ pc = "write" /\ ~Gone(conn[writing]) /\ Room(down[conn[writing]]) = 0

\* And a client: a read of nothing, a write without room, on a connection that stands.
ClientWaits(c) ==
  \/ client[c] = "reading" /\ down[c] = <<>> /\ server_end[c] # "closed"
  \/ client[c] = "writing" /\ buf[c] # <<>> /\ Room(up[c]) = 0 /\ server_end[c] # "closed"

Standstill ==
  /\ pc \in Ended \/ ServerWaits
  /\ \A c \in Clients : client[c] \in Ended \/ ClientWaits(c)

\* Nothing moves only when all clients have ended, and the server has or is short of
\* clients: that is Stopped.
OnlyWhenStopped ==
  Standstill =>
    /\ \A c \in Clients : client[c] \in Ended
    /\ pc \in Ended \/ (pc = "wait" /\ connections_size < inputs_size)

\* The server knows of every client whose connection stands.
Attached(c) ==
  /\ client[c] \in {"reading", "writing"} => server_end[c] # "none"
  /\ client[c] \in {"done", "killed"} => Gone(c)
  /\ server_end[c] = "open" => \/ \E i \in DOMAIN backlog : backlog[i] = c
                               \/ \E fd \in DOMAIN conn : conn[fd] = c

\* It stops to read from a connection only when the client is gone.
EndSeen(fd) ==
  /\ fd \in DOMAIN evlist /\ "IN" \in evlist[fd] => up[conn[fd]] # <<>> \/ Gone(conn[fd])
  /\ fd \in DOMAIN evlist /\ "RDHUP" \in evlist[fd] => Gone(conn[fd])
  /\ interest[fd] = {"RDHUP"} => Gone(conn[fd])

Turning ==
  /\ pc = "wait" => connections_limit > 0
  /\ Broken => ~listening

Attention ==
  /\ \A c \in Clients : Attached(c)
  /\ \A fd \in DOMAIN conn : EndSeen(fd)
  /\ Turning

\* What it takes: every line ends with a newline, and fits into the server's buffer.
Readable == Unended = {} /\ \A l \in Lines : Length[l] <= RD_BUF_SIZE

\* At first there is nobody.
LEMMA AttentionInit == Init => Attention
BY DEF Init, SocketsInit, ServerInit, ClientInit, Attention, Attached, Turning, Broken

\* A connection that a step does not touch.
LEMMA SameEndSeen ==
  ASSUME NEW g \in DOMAIN conn, EndSeen(g),
         conn'[g] = conn[g], interest'[g] = interest[g],
         g \in DOMAIN evlist' => g \in DOMAIN evlist /\ evlist'[g] = evlist[g],
         Gone(conn[g]) => Gone(conn[g])', up[conn[g]] # <<>> => up'[conn[g]] # <<>>
  PROVE  EndSeen(g)'
BY DEF EndSeen, Gone

\* The loop goes round only while connections are to come or to be closed.
LEMMA HandledTurning ==
  ASSUME Turning, NEW fd, Handled(fd) \/ pc' = "write" PROVE Turning'
BY DEF Turning, Handled, LoopAgain, Broken

\* The server serves a connection.
LEMMA ServesAttention ==
  ASSUME Structure, Structure', Attention, NEW fd \in DOMAIN conn \cap DOMAIN evlist,
         Serves(fd), interest'[fd] = {"RDHUP"} => Gone(conn[fd])
  PROVE  Attention'
<1>1. /\ UNCHANGED <<server_end, backlog, conn, client>>
      /\ \A c \in Clients : Gone(c)' <=> Gone(c)
  BY DEF Serves, clientVars
<1>2. \A c \in Clients : Attached(c)'
  BY <1>1 DEF Attention, Attached
<1>3. ASSUME NEW g \in DOMAIN conn' PROVE EndSeen(g)'
  <2>1. g \in DOMAIN conn /\ EndSeen(g) /\ g \in DOMAIN interest /\ conn[g] \in Clients
        /\ (Gone(conn[g])' <=> Gone(conn[g]))
    <3>1. g \in DOMAIN conn /\ EndSeen(g) /\ g \in DOMAIN interest /\ conn[g] \in Clients
      BY <1>1, ConnectionHas DEF Attention
    <3> QED BY <1>1, <3>1 DEF Gone
  <2>2. CASE g = fd
    <3>1. g \in DOMAIN evlist' => "IN" \notin evlist'[g] /\ "RDHUP" \notin evlist'[g]
      <4>1. CASE Handled(fd)
        BY <2>2, <4>1, HandledIs
      <4>2. CASE evlist' = evlist /\ "OUT" \in evlist[fd]
        BY <2>2, <4>2, EventOf
      <4> QED BY <4>1, <4>2 DEF Serves
    <3> QED BY <1>1, <2>1, <2>2, <3>1 DEF EndSeen, Gone
  <2>3. CASE g # fd
    <3>1. conn[g] # conn[fd]
      BY <2>1, <2>3 DEF Structure, OwnObject
    <3>2. interest'[g] = interest[g] /\ up'[conn[g]] = up[conn[g]]
      BY <2>1, <2>3, <3>1 DEF Serves
    <3>3. g \in DOMAIN evlist' => g \in DOMAIN evlist /\ evlist'[g] = evlist[g]
      BY HandledIs DEF Serves
    <3>4. conn'[g] = conn[g]
      BY <1>1
    <3> QED BY <2>1, <3>2, <3>3, <3>4, SameEndSeen
  <2> QED BY <2>2, <2>3
<1>4. Turning'
  BY HandledTurning DEF Serves, Attention
<1> QED BY <1>2, <1>3, <1>4 DEF Attention

\* read returns 0 only at the end of the stream, as there is room for the line that
\* is coming.
LEMMA ReceiveSeesEnd ==
  ASSUME Readable, Structure, Streams, Attention, NEW fd \in DOMAIN evlist, Receive(fd)
  PROVE  interest'[fd] = {"RDHUP"} => Gone(conn[fd])
<1> SUFFICES ASSUME interest'[fd] = {"RDHUP"}, ~Gone(conn[fd]) PROVE FALSE
  OBVIOUS
<1>1. /\ fd \in DOMAIN conn /\ interest[fd] = {"IN", "RDHUP"} /\ "IN" \in evlist[fd]
      /\ Taken(fd) = 0 => up[conn[fd]] = <<>> \/ rw_objs[Object(fd)].last_len = RD_BUF_SIZE
      /\ interest' = AfterRead(fd, Taken(fd))
  BY ReceiveIs
<1>2. PICK c, s, u, b : /\ c = conn[fd] /\ s = rw_objs[Object(fd)].line_buf /\ u = up[c]
                        /\ b = buf[c]
  OBVIOUS
<1>3. c \in Clients /\ s \in Seq(Symbols) /\ u \in Seq(Symbols) /\ b \in Seq(Symbols)
  BY <1>1, <1>2, ConnectionHas, ClientHas, ConnectionTexts DEF Readable
<1>4. u # <<>>
  <2>1. EndSeen(fd)
    BY <1>1 DEF Attention
  <2> QED BY <1>1, <1>2, <2>1 DEF EndSeen
<1>5. Len(s) = RD_BUF_SIZE
  <2>1. Taken(fd) = 0
    <3>1. "IN" \in interest[fd] /\ "IN" \notin interest'[fd]
      BY <1>1
    <3>2. interest' # interest
      BY <3>1
    <3> QED BY <1>1, <3>2 DEF AfterRead
  <2>2. rw_objs[Object(fd)].last_len = Len(s)
    BY <1>1, <1>2 DEF Structure, Watching
  <2> QED BY <1>1, <1>2, <1>4, <2>1, <2>2
<1>6. Connection(fd) /\ "OUT" \notin interest[fd]
  BY <1>1 DEF Streams
<1>7. client[c] = "writing"
  <2>1. client[c] \in {"reading", "writing", "done", "killed"}
    BY <1>2, <1>6 DEF Connection, ComesBack
  <2>2. client[c] # "reading"
    BY <1>2, <1>3, <1>4 DEF Streams, Ends
  <2>3. client[c] \notin {"done", "killed"}
    BY <1>2, <1>3 DEF Attention, Attached
  <2> QED BY <2>1, <2>2, <2>3
<1>8. InOrder(Stream(fd), root[c]) /\ \A k \in 1 .. Len(s) : ~EndsLine(s[k])
  BY <1>2, <1>6, <1>7 DEF Connection, ComesBack
<1> DEFINE r == u \o b
<1>9. Stream(fd) = s \o r /\ r \in Seq(Symbols)
  <2>1. Stream(fd) = (s \o u) \o b
    BY <1>2 DEF Stream, Came
  <2>2. (s \o u) \o b = s \o (u \o b)
    BY <1>3, AppendTexts
  <2>3. u \o b \in Seq(Symbols)
    BY <1>3, AppendTexts
  <2> QED BY <2>1, <2>2, <2>3
<1>10. compacted(s \o r) = <<>> /\ whole_lines(s \o r) \subseteq AllTexts
  BY <1>8, <1>9 DEF InOrder
<1> HIDE DEF r
<1>11. Len(s \o r) > 0
  <2>1. Len(s \o r) = Len(s) + Len(r) /\ Len(r) \in Nat /\ Len(s) \in Nat
    BY <1>3, <1>9, ConcatProperties, LenProperties
  <2> QED BY <1>5, <2>1, Sizes
<1>12. Len(s) < RD_BUF_SIZE
  BY <1>3, <1>8, <1>9, <1>10, <1>11, LineFits DEF Readable
<1> QED BY <1>5, <1>12, Sizes

\* A connection is closed, and its client forgotten.
LEMMA HangupAttention ==
  ASSUME Structure, Structure', Attention, NEW fd \in DOMAIN evlist, Hangup(fd),
         UNCHANGED clientVars
  PROVE  Attention'
<1>1. /\ fd \in DOMAIN conn /\ Handled(fd)
      /\ DOMAIN conn' = DOMAIN conn \ {fd} /\ DOMAIN interest' = DOMAIN interest \ {fd}
      /\ \A g \in DOMAIN conn' : conn'[g] = conn[g]
      /\ \A g \in DOMAIN interest' : interest'[g] = interest[g]
  BY HangupIs
<1>2. /\ UNCHANGED <<backlog, client_end, up, client>>
      /\ server_end' = [server_end EXCEPT ![conn[fd]] = "closed"]
  BY DEF Hangup, clientVars
<1>3. server_end \in [Clients -> {"none", "open", "closed"}] /\ conn[fd] \in Clients
  BY <1>1, ConnectionHas DEF Structure, TypeOK, SocketsTypeOK
<1>4. ASSUME NEW c \in Clients PROVE Attached(c)'
  <2>1. Attached(c)
    BY DEF Attention
  <2>2. CASE c = conn[fd]
    <3>1. server_end'[c] = "closed"
      BY <1>2, <1>3, <2>2
    <3> QED BY <1>2, <2>1, <3>1 DEF Attached, Gone
  <2>3. CASE c # conn[fd]
    <3>1. server_end'[c] = server_end[c]
      BY <1>2, <1>3, <2>3
    <3>2. (\E g \in DOMAIN conn : conn[g] = c) => \E g \in DOMAIN conn' : conn'[g] = c
      BY <1>1, <2>3
    <3> QED BY <1>2, <2>1, <3>1, <3>2 DEF Attached, Gone
  <2> QED BY <2>2, <2>3
<1>5. ASSUME NEW g \in DOMAIN conn' PROVE EndSeen(g)'
  <2>1. /\ g \in DOMAIN conn /\ EndSeen(g) /\ conn'[g] = conn[g] /\ g \in DOMAIN interest'
    BY <1>1, ConnectionHas DEF Attention
  <2>2. interest'[g] = interest[g] /\ (g \in DOMAIN evlist' => g \in DOMAIN evlist /\ evlist'[g] = evlist[g])
    BY <1>1, <2>1, HandledIs
  <2>3. Gone(conn[g]) => Gone(conn[g])'
    BY <1>2, <2>1 DEF Gone
  <2> QED BY <1>2, <2>1, <2>2, <2>3, SameEndSeen
<1>6. Turning'
  BY <1>1, HandledTurning DEF Attention
<1> QED BY <1>4, <1>5, <1>6 DEF Attention

\* A client goes from the backlog to a connection; with the last one, the others are
\* told.
LEMMA AcceptAttention ==
  ASSUME Structure, Structure', Attention, accept, UNCHANGED clientVars
  PROVE  Attention'
<1>0. PICK f, c : f = lowest_fd /\ c = Head(backlog)
  OBVIOUS
<1>1. /\ Handled(connection_socket) /\ backlog # <<>>
      /\ f \notin DOMAIN conn /\ f # connection_socket /\ DOMAIN conn' = DOMAIN conn \cup {f}
      /\ conn'[f] = c
      /\ \A g \in DOMAIN conn : conn'[g] = conn[g]
      /\ interest'[f] = {"OUT"}
      /\ DOMAIN interest' = DOMAIN conn' \cup (IF listening' THEN {connection_socket} ELSE {})
      /\ \A g \in DOMAIN interest \cap DOMAIN interest' : interest'[g] = interest[g]
  BY <1>0, AcceptIs
<1>2. /\ UNCHANGED <<client_end, up, client>>
      /\ Stop_listening({c}) \/ (backlog' = Tail(backlog) /\ UNCHANGED server_end)
  BY <1>0 DEF accept, clientVars
<1>3. /\ backlog \in Seq(Clients) /\ Len(backlog) \in Nat /\ DOMAIN backlog = 1 .. Len(backlog)
      /\ backlog[1] = c /\ Tail(backlog) \in Seq(Clients)
      /\ Len(Tail(backlog)) = Len(backlog) - 1
      /\ \A i \in 1 .. Len(backlog) - 1 : Tail(backlog)[i] = backlog[i + 1]
  <2>1. backlog \in Seq(Clients)
    BY DEF Structure, TypeOK, SocketsTypeOK
  <2> QED BY <1>0, <1>1, <2>1, LenProperties, HeadTailProperties
<1>4. ASSUME NEW d \in Clients PROVE Attached(d)'
  <2>1. Attached(d)
    BY DEF Attention
  <2>2. server_end'[d] = server_end[d] \/ server_end'[d] = "closed"
    BY <1>2 DEF Stop_listening
  <2>3. ASSUME server_end'[d] = "open"
        PROVE  \/ \E i \in DOMAIN backlog' : backlog'[i] = d
               \/ \E fd \in DOMAIN conn' : conn'[fd] = d
    <3>1. server_end[d] = "open"
      BY <2>2, <2>3
    <3>2. CASE \E fd \in DOMAIN conn : conn[fd] = d
      BY <1>1, <3>2
    <3>3. ASSUME NEW i \in DOMAIN backlog, backlog[i] = d
          PROVE  \/ \E j \in DOMAIN backlog' : backlog'[j] = d
                 \/ \E fd \in DOMAIN conn' : conn'[fd] = d
      <4>1. CASE d = c
        BY <1>1, <4>1
      <4>2. CASE d # c
        <5>1. ~Stop_listening({c})
          <6>1. d \in Range(backlog) \ {c}
            BY <3>3, <4>2 DEF Range
          <6>2. Stop_listening({c}) => server_end'[d] = "closed"
            BY <6>1 DEF Stop_listening
          <6> QED BY <2>3, <6>2
        <5>2. backlog' = Tail(backlog)
          BY <1>2, <5>1
        <5>3. i # 1
          BY <1>3, <3>3, <4>2
        <5>4. i - 1 \in 1 .. Len(backlog) - 1 /\ (i - 1) + 1 = i
          BY <1>3, <3>3, <5>3
        <5>5. Tail(backlog)[i - 1] = d
          BY <1>3, <3>3, <5>4
        <5>6. i - 1 \in DOMAIN Tail(backlog)
          BY <1>3, <5>4, LenProperties
        <5> QED BY <5>2, <5>5, <5>6
      <4> QED BY <4>1, <4>2
    <3> QED BY <2>1, <3>1, <3>2, <3>3 DEF Attached
  <2>4. client[d] \in {"reading", "writing"} => server_end'[d] # "none"
    BY <2>1, <2>2 DEF Attached
  <2>5. client'[d] = client[d] /\ client_end' = client_end
    BY <1>2
  <2> QED BY <2>1, <2>3, <2>4, <2>5 DEF Attached, Gone
<1>5. ASSUME NEW g \in DOMAIN conn' PROVE EndSeen(g)'
  <2>1. CASE g = f
    <3>1. f \notin DOMAIN evlist'
      <4>1. f \notin DOMAIN evlist
        BY <1>1, EventOf
      <4> QED BY <1>1, <4>1, HandledIs
    <3>2. interest'[f] # {"RDHUP"}
      BY <1>1
    <3> QED BY <2>1, <3>1, <3>2 DEF EndSeen
  <2>2. CASE g # f
    <3>1. g \in DOMAIN conn /\ EndSeen(g) /\ g \in DOMAIN interest
      BY <1>1, <2>2, ConnectionHas DEF Attention
    <3>2. /\ interest'[g] = interest[g] /\ conn'[g] = conn[g]
          /\ g \in DOMAIN evlist' => g \in DOMAIN evlist /\ evlist'[g] = evlist[g]
      BY <1>1, <3>1, HandledIs
    <3>3. Gone(conn[g]) => Gone(conn[g])'
      BY <1>2, <3>2 DEF Gone
    <3> QED BY <1>2, <3>1, <3>2, <3>3, SameEndSeen
  <2> QED BY <2>1, <2>2
<1>6. Turning'
  BY <1>1, HandledTurning DEF Attention
<1> QED BY <1>4, <1>5, <1>6 DEF Attention

\* The steps of the server outside its loop, epoll_wait, and the ways it ends.
LEMMA QuietAttention ==
  ASSUME Structure, Structure', Streams, Attention, UNCHANGED clientVars,
         setup \/ error_helper \/ sigpipe \/ overrun \/ epoll_wait \/ print \/ finish
  PROVE  Attention'
<1>1. UNCHANGED <<client_end, up, client>>
  BY DEF setup, error_helper, sigpipe, overrun, Exit, epoll_wait, print, finish, socketVars,
         clientVars
<1>2. CASE error_helper \/ sigpipe \/ overrun
  <2>1. /\ pc' \in {"failed", "killed"} /\ DOMAIN conn' = {} /\ listening' = FALSE
        /\ server_end' = [c \in Clients |-> IF server_end[c] = "open" THEN "closed" ELSE server_end[c]]
    BY <1>2 DEF error_helper, sigpipe, overrun, Exit
  <2>2. \A c \in Clients : Attached(c)'
    BY <1>1, <2>1 DEF Attention, Attached, Gone
  <2>3. Turning'
    BY <2>1 DEF Turning
  <2> QED BY <2>1, <2>2, <2>3 DEF Attention
<1>3. CASE setup \/ epoll_wait \/ print \/ finish
  <2>1. UNCHANGED <<server_end, conn, backlog>>
    BY <1>3 DEF setup, epoll_wait, print, finish, socketVars
  <2>2. \A c \in Clients : Attached(c)'
    BY <1>1, <2>1 DEF Attention, Attached, Gone
  <2>3. CASE epoll_wait
    <3>1. UNCHANGED interest /\ pc' = "events"
      BY <2>3 DEF epoll_wait
    <3>2. ASSUME NEW fd \in DOMAIN conn PROVE EndSeen(fd)'
      <4>1. fd \in DOMAIN evlist' => evlist'[fd] = Events(fd)
        BY <2>3 DEF epoll_wait
      <4>2. fd # connection_socket
        BY ConnectionHas
      <4>3. /\ "IN" \in Events(fd) => up[conn[fd]] # <<>> \/ Gone(conn[fd])
            /\ "RDHUP" \in Events(fd) => Gone(conn[fd])
        BY <4>2 DEF Events
      <4>4. EndSeen(fd)
        BY DEF Attention
      <4> QED BY <1>1, <2>1, <3>1, <4>1, <4>3, <4>4 DEF EndSeen, Gone
    <3>3. Turning'
      BY <3>1 DEF Turning, Broken
    <3> QED BY <2>1, <2>2, <3>2, <3>3 DEF Attention
  <2>4. CASE setup
    <3>1. DOMAIN conn = {} /\ connections_size = 0 /\ pc' = "wait" /\ pc = "start"
          /\ connections_limit' = connections_limit
      BY <2>4 DEF setup, Structure, Stages
    <3>2. connections_limit = inputs_size - connections_size + Cardinality({})
      BY <3>1 DEF Structure, Counting, Broken
    <3>3. connections_limit > 0
      BY <3>1, <3>2, FS_EmptySet, Sizes
    <3> QED BY <2>1, <2>2, <3>1, <3>3 DEF Attention, Turning, Broken
  <2>5. CASE print \/ finish
    <3>1. pc = "drain" /\ pc' \in {"drain", "done"}
      BY <2>5 DEF print, finish
    <3>2. DOMAIN conn = {}
      BY <3>1, NoConnections DEF Streams
    <3> QED BY <2>1, <2>2, <3>1, <3>2 DEF Attention, Turning, Broken
  <2> QED BY <1>3, <2>3, <2>4, <2>5
<1> QED BY <1>2, <1>3

\* Every step of the server.
LEMMA ServerAttention ==
  ASSUME Readable, Structure, Structure', Streams, Attention, ServerStep
  PROVE  Attention'
<1>1. UNCHANGED clientVars /\ ServerNext
  BY DEF ServerStep
<1>2. CASE write_line \/ write_lost_line
  <2>1. writing \in DOMAIN conn \cap DOMAIN evlist /\ Serves(writing)
    BY <1>1, <1>2, WriteLineStructure, WriteLostStructure
  <2>2. interest'[writing] = {"OUT"}
    BY <1>2, WritingIs DEF write_line, write_lost_line
  <2>3. PICK fd : fd = writing
    OBVIOUS
  <2>4. interest'[fd] # {"RDHUP"}
    BY <2>2, <2>3
  <2> QED BY <2>1, <2>3, <2>4, ServesAttention
<1>3. ASSUME NEW fd \in DOMAIN evlist, SendRest(fd) \/ SendLine(fd) PROVE Attention'
  <2>1. fd \in DOMAIN conn \cap DOMAIN evlist /\ Serves(fd)
    BY <1>1, <1>3, SendStructure
  <2>2. UNCHANGED interest /\ "OUT" \in evlist[fd]
    BY <1>3 DEF SendRest, SendLine, Sending, Has
  <2>3. interest'[fd] # {"RDHUP"}
    BY <2>2, EventOf
  <2> QED BY <2>1, <2>3, ServesAttention
<1>4. ASSUME NEW fd \in DOMAIN evlist, SendStop(fd) PROVE Attention'
  <2>1. fd \in DOMAIN conn \cap DOMAIN evlist /\ Serves(fd) /\ fd \in DOMAIN interest
    BY <1>1, <1>4, SendStopStructure, ConnectionHas
  <2>2. interest'[fd] # {"RDHUP"}
    BY <1>4, <2>1 DEF SendStop
  <2> QED BY <2>1, <2>2, ServesAttention
<1>5. ASSUME NEW fd \in DOMAIN evlist, Receive(fd) PROVE Attention'
  <2>1. fd \in DOMAIN conn \cap DOMAIN evlist /\ Serves(fd)
    BY <1>1, <1>5, ReceiveStructure
  <2> QED BY <1>5, <2>1, ReceiveSeesEnd, ServesAttention
<1> QED BY <1>1, <1>2, <1>3, <1>4, <1>5, QuietAttention, AcceptAttention, HangupAttention
        DEF ServerNext

\* A client takes nothing back of what it has sent.
LEMMA SentStays ==
  ASSUME Structure, NEW c \in Clients, ClientNext(c), up[c] # <<>>
  PROVE  up'[c] # <<>>
<1>1. /\ up \in [Clients -> Seq(Symbols)] /\ buf[c] \in Seq(Symbols)
      /\ Len(up[c]) <= BufferSize
  BY DEF Structure, TypeOK, SocketsTypeOK, ClientTypeOK
<1>2. CASE write(c)
  <2>1. PICK u, p : u = up[c] /\ p = SubSeq(buf[c], 1, Fitting(buf[c], up[c]))
    OBVIOUS
  <2>2. /\ Fitting(buf[c], up[c]) > 0
        /\ up' = [up EXCEPT ![c] = u \o p]
    BY <1>2, <2>1 DEF write
  <2>3. u \in Seq(Symbols) /\ p \in Seq(Symbols) /\ u # <<>>
    BY <1>1, <2>1, <2>2, FittingIs
  <2>4. Len(u \o p) = Len(u) + Len(p) /\ Len(u) \in Nat \ {0} /\ Len(p) \in Nat
    BY <2>3, ConcatProperties, LenProperties, EmptySeq
  <2>5. u \o p # <<>>
    <3>1. u \o p = <<>> => Len(u \o p) = 0
      OBVIOUS
    <3> QED BY <2>4, <3>1
  <2> QED BY <1>1, <2>2, <2>5
<1>3. CASE ~write(c)
  <2>1. up' = up
    BY <1>3 DEF ClientNext, connect, connect_fails, read_and_insert, ReadPart, ReadLine, ReadStop,
                ReadEnd, Take, heap_delmin, write_lost, close, die, socketVars
  <2> QED BY <2>1
<1> QED BY <1>2, <1>3

\* A client joins the backlog, and leaves by closing its end.
LEMMA ClientAttached ==
  ASSUME Structure, NEW c \in Clients, Attached(c), ClientNext(c), UNCHANGED serverVars
  PROVE  Attached(c)'
<1>1. /\ client \in [Clients -> ClientStates]
      /\ client_end \in [Clients -> {"none", "open", "closed", "reset"}]
      /\ server_end \in [Clients -> {"none", "open", "closed"}]
      /\ backlog \in Seq(Clients) /\ conn' = conn
  BY DEF Structure, TypeOK, SocketsTypeOK, ClientTypeOK, serverVars
<1>2. CASE connect(c)
  <2>1. backlog' = Append(backlog, c) /\ client'[c] = "reading" /\ server_end'[c] = "open"
    BY <1>1, <1>2 DEF connect, Become
  <2>2. \E i \in DOMAIN backlog' : backlog'[i] = c
    <3>1. /\ backlog' \in Seq(Clients) /\ Len(backlog') = Len(backlog) + 1
          /\ backlog'[Len(backlog) + 1] = c
      BY <1>1, <2>1, AppendProperties
    <3>2. Len(backlog) \in Nat /\ DOMAIN backlog' = 1 .. Len(backlog')
      BY <1>1, <3>1, LenProperties
    <3>3. Len(backlog) + 1 \in DOMAIN backlog'
      BY <3>1, <3>2
    <3> QED BY <3>1, <3>3
  <2> QED BY <2>1, <2>2 DEF Attached
<1>3. CASE ~connect(c)
  <2>1. UNCHANGED <<server_end, backlog>>
    BY <1>3 DEF ClientNext, connect_fails, read_and_insert, ReadPart, ReadLine, ReadStop, ReadEnd,
                Take, heap_delmin, write, write_lost, close, die, socketVars
  <2>2. client'[c] \in {"reading", "writing"} => client[c] \in {"reading", "writing"}
    BY <1>1, <1>3
       DEF ClientNext, connect_fails, read_and_insert, ReadPart, ReadLine, ReadStop, ReadEnd, Take,
           heap_delmin, write, write_lost, close, die, ClientIs, Become
  <2>3. client'[c] \in {"done", "killed"} => client_end'[c] \in {"closed", "reset"}
    <3>1. CASE close(c)
      BY <1>1, <3>1 DEF close
    <3>2. CASE die(c)
      BY <1>1, <3>2 DEF die
    <3>3. CASE write_lost(c)
      BY <1>1, <3>3 DEF write_lost, ClientIs
    <3>4. CASE connect_fails(c) \/ read_and_insert(c) \/ heap_delmin(c) \/ write(c)
      BY <1>1, <3>4
         DEF connect_fails, read_and_insert, ReadPart, ReadLine, ReadStop, ReadEnd, Take,
             heap_delmin, write, ClientIs, Become, socketVars
    <3> QED BY <1>3, <3>1, <3>2, <3>3, <3>4 DEF ClientNext
  <2> QED BY <1>1, <2>1, <2>2, <2>3 DEF Attached, Gone
<1> QED BY <1>2, <1>3

\* Every step of a client.
LEMMA ClientAttention ==
  ASSUME Structure, Structure', Attention, NEW c \in Clients, ClientStep(c)
  PROVE  Attention'
<1>1. ClientNext(c) /\ UNCHANGED serverVars /\ Moves(c)
  BY ClientMoves DEF ClientStep
<1>2. /\ UNCHANGED <<pc, evlist, interest, conn, connections_limit, listening>>
      /\ \A d \in Clients \ {c} :
           /\ client'[d] = client[d] /\ client_end'[d] = client_end[d]
           /\ server_end'[d] = server_end[d] /\ up'[d] = up[d]
      /\ client[c] # "start" /\ Gone(c) => Gone(c)'
  BY <1>1 DEF Moves, serverVars
<1>3. DOMAIN backlog \subseteq DOMAIN backlog' /\ \A i \in DOMAIN backlog : backlog'[i] = backlog[i]
  <2>1. backlog \in Seq(Clients)
    BY DEF Structure, TypeOK, SocketsTypeOK
  <2>2. CASE backlog' = Append(backlog, c)
    <3>1. /\ backlog' \in Seq(Clients) /\ Len(backlog') = Len(backlog) + 1
          /\ \A i \in 1 .. Len(backlog) : backlog'[i] = backlog[i]
      BY <2>1, <2>2, AppendProperties
    <3>2. /\ Len(backlog) \in Nat /\ DOMAIN backlog = 1 .. Len(backlog)
          /\ DOMAIN backlog' = 1 .. Len(backlog')
      BY <2>1, <3>1, LenProperties
    <3> QED BY <3>1, <3>2
  <2> QED BY <1>1, <2>2 DEF Moves
<1>4. ASSUME NEW d \in Clients PROVE Attached(d)'
  <2>1. Attached(d)
    BY DEF Attention
  <2>2. CASE d = c
    BY <1>1, <2>1, <2>2, ClientAttached
  <2>3. CASE d # c
    BY <1>2, <1>3, <2>1, <2>3 DEF Attached, Gone
  <2> QED BY <2>2, <2>3
<1>5. ASSUME NEW fd \in DOMAIN conn' PROVE EndSeen(fd)'
  <2>1. fd \in DOMAIN conn /\ conn'[fd] = conn[fd] /\ conn[fd] \in Clients /\ EndSeen(fd)
        /\ client[conn[fd]] # "start"
    BY <1>2, ConnectionHas DEF Attention, Structure, Peers
  <2>2. up[conn[fd]] # <<>> => up'[conn[fd]] # <<>>
    <3>1. CASE conn[fd] = c
      BY <1>1, <3>1, SentStays
    <3>2. CASE conn[fd] # c
      BY <1>2, <2>1, <3>2
    <3> QED BY <3>1, <3>2
  <2>3. Gone(conn[fd]) => Gone(conn[fd])'
    <3>1. Gone(conn[fd]) => client_end'[conn[fd]] \in {"closed", "reset"}
      BY <1>2, <2>1 DEF Gone
    <3> QED BY <2>1, <3>1 DEF Gone
  <2> QED BY <1>2, <2>1, <2>2, <2>3, SameEndSeen
<1>6. Turning'
  BY <1>2 DEF Attention, Turning, Broken
<1> QED BY <1>4, <1>5, <1>6 DEF Attention

\* Every step keeps that the server attends to every connection.
LEMMA AttentionNext ==
  ASSUME Readable, Structure, Structure', Streams, Attention, [Next]_vars
  PROVE  Attention'
<1>1. CASE UNCHANGED vars
  BY <1>1 DEF vars, socketVars, serverVars, clientVars, Attention, Attached, EndSeen, Turning,
              Broken, Gone
<1>2. CASE ServerStep
  BY <1>2, ServerAttention
<1>3. ASSUME NEW c \in Clients, ClientStep(c) PROVE Attention'
  BY <1>3, ClientAttention
<1> QED BY <1>1, <1>2, <1>3 DEF Next, Stopped

\* While the server waits in a write, its client has something to read.
LEMMA WriterServed ==
  ASSUME Structure, Streams, Attention, pc = "write", ServerWaits
  PROVE  \E c \in Clients : client[c] \notin Ended /\ ~ClientWaits(c)
<1>1. PICK fd \in DOMAIN conn : fd = writing /\ interest[fd] = {"OUT"}
  BY WritingIs
<1>2. PICK c \in Clients : c = conn[fd]
  BY ConnectionHas
<1>3. ~Gone(c) /\ Room(down[c]) = 0
  BY <1>1, <1>2 DEF ServerWaits
<1>4. client[c] \in {"reading", "killed"}
  BY <1>1, <1>2 DEF Streams, Connection, Sends
<1>5. client[c] = "reading"
  BY <1>3, <1>4 DEF Attention, Attached
<1>6. down[c] # <<>>
  <2>1. down[c] = <<>> => Len(down[c]) = 0
    OBVIOUS
  <2> QED BY <1>3, <2>1, Sizes DEF Room
<1> QED BY <1>5, <1>6 DEF ClientWaits, Ended

\* Nobody is waited for in vain on a connection: there is an event for the server, or
\* the client can go on.
LEMMA ConnectionGoesOn ==
  ASSUME Readable, Structure, Streams, Attention, NEW fd \in DOMAIN conn, Events(fd) = {}
  PROVE  client[conn[fd]] \notin Ended /\ ~ClientWaits(conn[fd])
<1>1. PICK c \in Clients : c = conn[fd]
  BY ConnectionHas
<1>2. /\ interest[fd] \in {{"OUT"}, {"IN", "RDHUP"}, {"RDHUP"}} /\ fd # connection_socket
      /\ down[c] \in Seq(Symbols) /\ up[c] \in Seq(Symbols)
  BY <1>1, ConnectionHas
<1>3. \A e \in interest[fd] : ~(\/ e = "IN" /\ (up[c] # <<>> \/ Gone(c))
                                \/ e = "OUT" /\ (Room(down[c]) > 0 \/ Gone(c))
                                \/ e = "RDHUP" /\ Gone(c))
  BY <1>1, <1>2 DEF Events
<1>4. ~Gone(c) /\ ("OUT" \in interest[fd] => ~(Room(down[c]) > 0))
      /\ ("IN" \in interest[fd] => up[c] = <<>>)
  BY <1>2, <1>3
<1>5. client[c] \notin {"done", "killed"}
  BY <1>4 DEF Attention, Attached
<1>6. Connection(fd) /\ Ends(c)
  BY DEF Streams
<1>7. client[c] \in {"reading", "writing"}
  BY <1>1, <1>5, <1>6 DEF Connection, Sends, ComesBack
<1>8. Room(<<>>) > 0
  BY Sizes DEF Room
<1>9. ASSUME client[c] = "reading" PROVE down[c] # <<>>
  <2>1. CASE "OUT" \in interest[fd]
    BY <1>4, <1>8, <2>1
  <2>2. CASE "OUT" \notin interest[fd]
    <3> SUFFICES ASSUME down[c] = <<>> PROVE FALSE
      OBVIOUS
    <3>1. line_buf[c] \in Seq(Symbols)
      BY ClientHas
    <3>2. Outgoing(fd) = line_buf[c]
      <4>1. Outgoing(fd) = line_buf[c] \o <<>>
        BY <1>1, <2>2, ConnectionTexts DEF Readable
      <4> QED BY <3>1, <4>1, AppendTexts
    <3>3. PICK i \in 0 .. Len(FileOf(fd)) :
            line_buf[c] = FlattenSeq(Texts(SubSeq(FileOf(fd), i + 1, Len(FileOf(fd))))) \o <<STOP>>
      BY <1>1, <1>6, <1>9, <3>2 DEF Connection, GoesOut, Outward
    <3>4. PICK t : t = FlattenSeq(Texts(SubSeq(FileOf(fd), i + 1, Len(FileOf(fd)))))
      OBVIOUS
    <3>5. t \in Seq(Symbols) /\ <<STOP>> \in Seq(Symbols) /\ Len(<<STOP>>) = 1 /\ <<STOP>>[1] = STOP
      <4>1. PICK file : file = FileOf(fd)
        OBVIOUS
      <4>2. file \in Seq(Lines) /\ i \in 0 .. Len(file)
        BY <3>3, <4>1, ConnectionTexts DEF Readable
      <4>3. SubSeq(file, i + 1, Len(file)) \in Seq(Lines)
        BY <4>2, RestOfFile
      <4>4. t \in Seq(Symbols)
        BY <3>4, <4>1, <4>3, TextsAre
      <4>5. STOP \in Symbols
        BY DEF Symbols
      <4> QED BY <4>4, <4>5
    <3>6. /\ Len(line_buf[c]) = Len(t) + 1 /\ Len(t) \in Nat
          /\ line_buf[c][Len(t) + 1] = STOP
      <4>1. line_buf[c] = t \o <<STOP>>
        BY <3>3, <3>4
      <4>2. /\ Len(t \o <<STOP>>) = Len(t) + Len(<<STOP>>) /\ Len(t) \in Nat
            /\ \A k \in 1 .. Len(t) + Len(<<STOP>>) :
                 (t \o <<STOP>>)[k] = IF k <= Len(t) THEN t[k] ELSE <<STOP>>[k - Len(t)]
        BY <3>5, ConcatProperties, LenProperties
      <4> QED BY <3>5, <4>1, <4>2
    <3>7. ~EndsLine(line_buf[c][Len(t) + 1])
      BY <1>6, <1>1, <3>6 DEF Streams, Ends
    <3> QED BY <3>6, <3>7 DEF EndsLine
  <2> QED BY <2>1, <2>2
<1>10. ASSUME client[c] = "writing" PROVE Room(up[c]) > 0
  <2>1. "OUT" \notin interest[fd]
    BY <1>1, <1>6, <1>10 DEF Connection, Sends
  <2>2. interest[fd] # {"RDHUP"}
    BY <1>1, <1>4 DEF Attention, EndSeen
  <2> QED BY <1>2, <1>4, <1>8, <2>1, <2>2
<1>11. Room(up[c]) > 0 => Room(up[c]) # 0
  OBVIOUS
<1> QED BY <1>1, <1>7, <1>9, <1>10, <1>11 DEF ClientWaits, Ended

\* When nothing moves, no connection stands: the server has closed all or never had them.
LEMMA NothingStands ==
  ASSUME Readable, Structure, Streams, Attention, Standstill
  PROVE  OnlyWhenStopped
<1>1. \A c \in Clients : client[c] \in Ended \/ ClientWaits(c)
  BY DEF Standstill
<1>2. pc # "write"
  <2>1. pc = "write" => ServerWaits
    BY DEF Standstill, Ended
  <2> QED BY <1>1, <2>1, WriterServed
<1>3. pc \in Ended \/ (pc = "wait" /\ \A fd \in DOMAIN interest : Events(fd) = {})
  BY <1>2 DEF Standstill, ServerWaits
<1>4. DOMAIN conn = {}
  <2> SUFFICES ASSUME NEW fd \in DOMAIN conn PROVE FALSE
    OBVIOUS
  <2>1. conn[fd] \in Clients /\ fd \in DOMAIN interest /\ ~Broken
    BY ConnectionHas
  <2>2. pc # "done"
    BY NoConnections DEF Streams
  <2>3. Events(fd) = {}
    BY <1>3, <2>1, <2>2 DEF Ended, Broken
  <2> QED BY <1>1, <2>1, <2>3, ConnectionGoesOn
<1>5. DOMAIN backlog = {}
  <2>1. CASE listening
    <3>1. pc \notin {"failed", "killed"}
      BY <2>1 DEF Attention, Turning, Broken
    <3>2. pc # "done"
      <4>1. connections_size < inputs_size
        BY <2>1 DEF Structure, Stages
      <4> QED BY <4>1, NoConnections, Sizes DEF Streams
    <3>3. connection_socket \in DOMAIN interest /\ interest[connection_socket] = {"IN"}
      BY <2>1 DEF Structure, TypeOK, ServerTypeOK, Watching
    <3>4. Events(connection_socket) = {}
      BY <1>3, <3>1, <3>2, <3>3 DEF Ended
    <3>5. backlog = <<>>
      BY <2>1, <3>3, <3>4 DEF Events
    <3> QED BY <3>5
  <2>2. CASE ~listening
    BY <2>2 DEF Structure, Stages
  <2> QED BY <2>1, <2>2
<1>6. ASSUME NEW c \in Clients PROVE client[c] \in Ended
  <2>1. server_end[c] # "open"
    BY <1>4, <1>5 DEF Attention, Attached
  <2>2. server_end[c] \in {"none", "open", "closed"}
    BY DEF Structure, TypeOK, SocketsTypeOK
  <2> QED BY <1>1, <2>1, <2>2 DEF Attention, Attached, ClientWaits
<1>7. pc = "wait" => connections_size < inputs_size
  <2> SUFFICES ASSUME pc = "wait" PROVE connections_size < inputs_size
    OBVIOUS
  <2>1. connections_limit > 0 /\ ~Broken
    BY DEF Attention, Turning, Broken
  <2>2. connections_limit = inputs_size - connections_size + Cardinality({})
    BY <1>4, <2>1 DEF Structure, Counting
  <2>3. connections_size \in Nat /\ inputs_size \in Nat
    BY Sizes DEF Structure, TypeOK, ServerTypeOK
  <2> QED BY <2>1, <2>2, <2>3, FS_EmptySet
<1> QED BY <1>3, <1>6, <1>7 DEF OnlyWhenStopped

\* What the server attends to, at every moment.
THEOREM AttentionHolds ==
  ASSUME Readable
  PROVE  Spec => [](Structure /\ Streams /\ Attention)
<1>1. Init => Structure /\ Streams /\ Attention
  BY StructureInit, StreamsInit, AttentionInit
<1>2. Structure /\ Streams /\ Attention /\ [Next]_vars => (Structure /\ Streams /\ Attention)'
  BY StructureNext, StreamsNext, AttentionNext DEF Readable
<1> QED BY <1>1, <1>2, PTL DEF Spec

\* The server and its clients never all wait for each other: for any number of clients
\* and files, sockets of any size, lines that fit line_buf, and whoever is killed, they stop
\* only when the clients have ended and the server has, or waits for more of them to
\* come (lab3/server.c:302-413, lab3/client.c:202-226).
THEOREM NeverStandsStill ==
  ASSUME Readable
  PROVE  Spec => []OnlyWhenStopped
<1>1. Structure /\ Streams /\ Attention => OnlyWhenStopped
  BY NothingStands DEF OnlyWhenStopped
<1> QED BY <1>1, AttentionHolds, PTL

\* What epoll_wait has told of a descriptor holds when its turn comes: no accept, read or
\* write finds nothing and waits, whatever was handled and whoever moved in between.
StillTrue(fd) ==
  /\ fd = connection_socket => backlog # <<>>
  /\ fd # connection_socket /\ "IN" \in evlist[fd] => up[conn[fd]] # <<>> \/ Gone(conn[fd])
  /\ "OUT" \in evlist[fd] => \/ Room(down[conn[fd]]) > 0 \/ Gone(conn[fd])
                             \/ pc = "write" /\ writing = fd
  /\ "RDHUP" \in evlist[fd] => Gone(conn[fd])

\* Up to EVENT_SIZE events are handled one after the other (lab3/server.c:305-411),
\* and none of them becomes stale.
THEOREM EventsStayTrue ==
  ASSUME Readable
  PROVE  Spec => [](\A fd \in DOMAIN evlist : StillTrue(fd))
<1>1. Structure /\ Attention => \A fd \in DOMAIN evlist : StillTrue(fd)
  <2> SUFFICES ASSUME Structure, Attention, NEW fd \in DOMAIN evlist PROVE StillTrue(fd)
    OBVIOUS
  <2>1. fd = connection_socket => backlog # <<>>
    BY DEF Structure, Pending
  <2>2. CASE fd \in DOMAIN conn
    <3>1. fd # connection_socket
      BY <2>2, ConnectionHas
    <3>2. EndSeen(fd)
      BY <2>2 DEF Attention
    <3>3. "OUT" \in evlist[fd] => \/ Gone(conn[fd]) \/ Room(down[conn[fd]]) > 0
                                  \/ pc = "write" /\ writing = fd
      <4>1. Pending
        BY DEF Structure
      <4>2. fd \in DOMAIN conn \cap DOMAIN evlist
        BY <2>2
      <4> QED BY <4>1, <4>2 DEF Pending
    <3> QED BY <3>1, <3>2, <3>3 DEF StillTrue, EndSeen
  <2>3. CASE fd = connection_socket /\ evlist[fd] = {"IN"}
    BY <2>1, <2>3 DEF StillTrue
  <2> QED BY <2>2, <2>3, EventOf
<1> QED BY <1>1, AttentionHolds, PTL
=============================================================================
