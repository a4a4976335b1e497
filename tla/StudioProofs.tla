---------------------------- MODULE StudioProofs ----------------------------
(***************************************************************************)
(* Studio18 (Signals) and Studio16 (Numbers).  The two share no variable   *)
(* and no constant; each theorem is about the specification of one.        *)
(*                                                                         *)
(* Studio18, for any number of senders, counts and limits: no signal is    *)
(* lost, an end comes after what its sender sent, and a sender is turned   *)
(* away only when together they ask for more than the limit.               *)
(*                                                                         *)
(* Studio16, for any clients, codes and number of data: the server prints  *)
(* what its clients send, whole and in order, and ends with the first that *)
(* tells it to.                                                            *)
(***************************************************************************)
EXTENDS Signals, Numbers, FiniteSetTheorems, SequenceTheorems, WellFoundedInduction, TLAPS

(***************************************************************************)
(* Sums over the senders.                                                  *)
(***************************************************************************)

\* Every set of natural numbers has a least element.
LEMMA LeastNumber ==
  ASSUME NEW S \in SUBSET Nat, S # {}
  PROVE  \E m \in S : \A x \in S : m <= x
<1> DEFINE R == OpToRel(<, Nat)
<1>1. PICK m \in S : \A x \in S : ~(<<x, m>> \in R)
  <2> HIDE DEF R
  <2>1. IsWellFoundedOn(R, Nat)
    BY NatLessThanWellFounded DEF R
  <2> QED BY <2>1, WFMin
<1>2. ASSUME NEW x \in S, ~(m <= x) PROVE FALSE
  <2>1. x \in Nat /\ m \in Nat /\ x < m
    BY <1>2
  <2>2. <<x, m>> \in R
    BY <2>1 DEF OpToRel
  <2> HIDE DEF R
  <2> QED BY <1>1, <2>2
<1> QED BY <1>2

\* The element a sum over s takes first, and the sums over all subsets of S.
First(s) == CHOOSE x \in s : TRUE

SumOf(f, s, g) == IF s = {} THEN 0 ELSE f[First(s)] + g[s \ {First(s)}]

Sums(f, S, g) == g = [s \in SUBSET S |-> SumOf(f, s, g)]

\* Taking the first element away makes a set smaller.
LEMMA WithoutFirst ==
  ASSUME NEW S, IsFiniteSet(S), NEW s \in SUBSET S, s # {}
  PROVE  /\ First(s) \in s /\ First(s) \in S /\ s \ {First(s)} \in SUBSET S
         /\ Cardinality(s) \in Nat \ {0}
         /\ Cardinality(s \ {First(s)}) = Cardinality(s) - 1
<1>1. First(s) \in s
  BY DEF First
<1>2. IsFiniteSet(s)
  BY FS_Subset
<1>3. Cardinality(s) \in Nat \ {0}
  BY <1>2, FS_CardinalityType, FS_EmptySet
<1>4. Cardinality(s \ {First(s)}) = Cardinality(s) - 1
  BY <1>1, <1>2, FS_RemoveElement
<1> QED BY <1>1, <1>3, <1>4

\* With the sums over the subsets of n - 1 elements there are those over the subsets
\* of n, so there are sums over all subsets.
LEMMA SumsExist ==
  ASSUME NEW S, IsFiniteSet(S), NEW f
  PROVE  \E g : Sums(f, S, g)
<1> DEFINE Upto(n) == {s \in SUBSET S : Cardinality(s) <= n}
           Has(n, g) == g = [s \in Upto(n) |-> SumOf(f, s, g)]
           B == {n \in Nat : ~\E g : Has(n, g)}
<1>0. \A s \in SUBSET S : Cardinality(s) \in Nat /\ Cardinality(s) <= Cardinality(S)
  BY FS_Subset, FS_CardinalityType
<1>1. B = {}
  <2>1. SUFFICES ASSUME B # {} PROVE FALSE
    OBVIOUS
  <2>2. B \in SUBSET Nat
    OBVIOUS
  <2>3. PICK m \in B : \A x \in B : m <= x
    <3> HIDE DEF B
    <3> QED BY <2>1, <2>2, LeastNumber
  <2>4. m \in Nat /\ ~\E g : Has(m, g)
    OBVIOUS
  <2> HIDE DEF Has
  <2>5. CASE m = 0
    <3> DEFINE g == [s \in Upto(0) |-> 0]
    <3>1. ASSUME NEW s \in Upto(0), s # {} PROVE FALSE
      <4>1. s \in SUBSET S /\ Cardinality(s) <= 0
        OBVIOUS
      <4>2. Cardinality(s) \in Nat \ {0}
        BY <3>1, <4>1, WithoutFirst
      <4> QED BY <4>1, <4>2
    <3>2. Has(0, g)
      BY <3>1 DEF Has, SumOf
    <3> QED BY <2>4, <2>5, <3>2
  <2>6. CASE m # 0
    <3>1. m - 1 \in Nat /\ ~(m <= m - 1)
      BY <2>4, <2>6
    <3>2. PICK g : Has(m - 1, g)
      BY <2>3, <3>1
    <3> DEFINE h == [s \in Upto(m) |-> SumOf(f, s, g)]
    <3>3. ASSUME NEW s \in Upto(m) PROVE h[s] = SumOf(f, s, h)
      <4>1. CASE s = {}
        BY <4>1 DEF SumOf
      <4>2. CASE s # {}
        <5> DEFINE r == s \ {First(s)}
        <5>1. r \in SUBSET S /\ Cardinality(r) = Cardinality(s) - 1 /\ Cardinality(s) \in Nat
          BY <4>2, WithoutFirst
        <5>2. r \in Upto(m - 1) /\ r \in Upto(m)
          BY <2>4, <5>1
        <5>3. h[r] = SumOf(f, r, g)
          BY <5>2
        <5>4. g[r] = SumOf(f, r, g)
          BY <3>2, <5>2 DEF Has
        <5>5. h[s] = f[First(s)] + g[r]
          BY <4>2 DEF SumOf
        <5> QED BY <4>2, <5>3, <5>4, <5>5 DEF SumOf
      <4> QED BY <4>1, <4>2
    <3>4. Has(m, h)
      BY <3>3 DEF Has
    <3> QED BY <2>4, <3>4
  <2> QED BY <2>5, <2>6
<1>2. PICK g : Has(Cardinality(S), g)
  <2>1. Cardinality(S) \in Nat
    BY FS_CardinalityType
  <2> QED BY <1>1, <2>1
<1>3. Upto(Cardinality(S)) = SUBSET S
  BY <1>0
<1> HIDE DEF Upto
<1> QED BY <1>2, <1>3 DEF Sums

Total(f) == MapThenSumSet(LAMBDA s : f[s], Senders)

\* The total is such a sum, over all senders.
LEMMA SumIs ==
  ASSUME NEW f \in [Senders -> Nat]
  PROVE  \E g : /\ g \in [SUBSET Senders -> Nat]
                /\ \A s \in SUBSET Senders : g[s] = SumOf(f, s, g)
                /\ Total(f) = g[Senders]
<1> DEFINE g == CHOOSE h : Sums(f, Senders, h)
<1>0. IsFiniteSet(Senders)
  BY SignalsAssumption
<1>1. Sums(f, Senders, g)
  BY <1>0, SumsExist
<1>2. Total(f) = g[Senders]
  <2>1. Total(f) = (CHOOSE h : Sums(f, Senders, h))[Senders]
    BY Zenon DEF MapThenSumSet, MapThenFoldSet, Total, Sums, SumOf, First
  <2> QED BY <2>1
<1> HIDE DEF g
<1>3. \A s \in SUBSET Senders : g[s] = SumOf(f, s, g)
  <2> DEFINE h == [s \in SUBSET Senders |-> SumOf(f, s, g)]
  <2>1. g = h
    BY <1>1 DEF Sums
  <2>2. \A s \in SUBSET Senders : h[s] = SumOf(f, s, g)
    OBVIOUS
  <2> HIDE DEF h
  <2> QED BY <2>1, <2>2
<1>4. ASSUME NEW s \in SUBSET Senders, s # {}, g[s \ {First(s)}] \in Nat PROVE g[s] \in Nat
  <2>1. First(s) \in Senders
    BY <1>0, <1>4, WithoutFirst
  <2>2. f[First(s)] \in Nat
    BY <2>1
  <2>3. g[s] = f[First(s)] + g[s \ {First(s)}]
    BY <1>3, <1>4 DEF SumOf
  <2> QED BY <1>4, <2>2, <2>3
<1>5. \A s \in SUBSET Senders : g[s] \in Nat
  <2> DEFINE B == {Cardinality(s) : s \in {r \in SUBSET Senders : g[r] \notin Nat}}
  <2>1. B \in SUBSET Nat
    BY <1>0, FS_Subset, FS_CardinalityType
  <2>2. SUFFICES ASSUME B # {} PROVE FALSE
    OBVIOUS
  <2>3. PICK m \in B : \A x \in B : m <= x
    <3> HIDE DEF B
    <3> QED BY <2>1, <2>2, LeastNumber
  <2>4. PICK s \in SUBSET Senders : m = Cardinality(s) /\ g[s] \notin Nat
    BY <2>3
  <2>5. s # {}
    <3>1. g[{}] = 0
      BY <1>3 DEF SumOf
    <3> QED BY <2>4, <3>1
  <2> DEFINE r == s \ {First(s)}
  <2>6. r \in SUBSET Senders /\ Cardinality(r) = m - 1 /\ m \in Nat
    BY <1>0, <2>4, <2>5, WithoutFirst
  <2>7. g[r] \notin Nat
    BY <1>4, <2>4, <2>5
  <2>8. m - 1 \in B
    BY <2>6, <2>7
  <2> HIDE DEF B
  <2> QED BY <2>3, <2>6, <2>8
<1>6. g \in [SUBSET Senders -> Nat]
  <2>1. g = [s \in SUBSET Senders |-> g[s]]
    BY <1>1 DEF Sums
  <2> QED BY <1>5, <2>1
<1> QED BY <1>2, <1>3, <1>6

\* What is more for one sender, and no less for the others, is more in total.
LEMMA TotalsCompare ==
  ASSUME NEW f \in [Senders -> Nat], NEW e \in [Senders -> Nat], NEW t \in Senders, NEW c \in Int,
         \A x \in Senders : x # t => f[x] <= e[x],
         f[t] + c <= e[t]
  PROVE  /\ Total(f) \in Nat /\ Total(e) \in Nat
         /\ Total(f) + c <= Total(e)
<1>0. IsFiniteSet(Senders)
  BY SignalsAssumption
<1>1. PICK g : /\ g \in [SUBSET Senders -> Nat]
               /\ \A s \in SUBSET Senders : g[s] = SumOf(f, s, g)
               /\ Total(f) = g[Senders]
  BY SumIs
<1>2. PICK h : /\ h \in [SUBSET Senders -> Nat]
               /\ \A s \in SUBSET Senders : h[s] = SumOf(e, s, h)
               /\ Total(e) = h[Senders]
  BY SumIs
<1> DEFINE Right(s) == g[s] + (IF t \in s THEN c ELSE 0) <= h[s]
<1>3. ASSUME NEW s \in SUBSET Senders, s # {}, Right(s \ {First(s)}) PROVE Right(s)
  <2> DEFINE r == s \ {First(s)}
  <2>1. First(s) \in s /\ First(s) \in Senders /\ r \in SUBSET Senders
    BY <1>0, <1>3, WithoutFirst
  <2>2. g[s] = f[First(s)] + g[r] /\ h[s] = e[First(s)] + h[r]
    BY <1>1, <1>2, <1>3 DEF SumOf
  <2>3. g[r] \in Nat /\ h[r] \in Nat /\ f[First(s)] \in Nat /\ e[First(s)] \in Nat
    BY <1>1, <1>2, <2>1
  <2>4. t \in r <=> t \in s /\ t # First(s)
    OBVIOUS
  <2>5. g[r] + (IF t \in r THEN c ELSE 0) <= h[r]
    BY <1>3
  <2>6. CASE First(s) = t
    <3>1. g[r] <= h[r]
      BY <2>3, <2>4, <2>5, <2>6
    <3>2. f[First(s)] + c <= e[First(s)]
      BY <2>6
    <3> HIDE DEF r
    <3> QED BY <2>1, <2>2, <2>3, <2>6, <3>1, <3>2
  <2>7. CASE First(s) # t
    <3>1. f[First(s)] <= e[First(s)]
      BY <2>1, <2>7
    <3> HIDE DEF r
    <3> QED BY <2>2, <2>3, <2>4, <2>5, <2>7, <3>1
  <2> QED BY <2>6, <2>7
<1>4. \A s \in SUBSET Senders : Right(s)
  <2> DEFINE B == {Cardinality(s) : s \in {r \in SUBSET Senders : ~Right(r)}}
  <2>1. B \in SUBSET Nat
    BY <1>0, FS_Subset, FS_CardinalityType
  <2>2. SUFFICES ASSUME B # {} PROVE FALSE
    OBVIOUS
  <2>3. PICK m \in B : \A x \in B : m <= x
    <3> HIDE DEF B
    <3> QED BY <2>1, <2>2, LeastNumber
  <2>4. PICK s \in SUBSET Senders : m = Cardinality(s) /\ ~Right(s)
    BY <2>3
  <2>5. s # {}
    <3>1. g[{}] = 0 /\ h[{}] = 0
      BY <1>1, <1>2 DEF SumOf
    <3> QED BY <2>4, <3>1
  <2> DEFINE r == s \ {First(s)}
  <2>6. r \in SUBSET Senders /\ Cardinality(r) = m - 1 /\ m \in Nat
    BY <1>0, <2>4, <2>5, WithoutFirst
  <2>7. ~Right(r)
    BY <1>3, <2>4, <2>5
  <2>8. m - 1 \in B
    BY <2>6, <2>7
  <2> HIDE DEF B
  <2> QED BY <2>3, <2>6, <2>8
<1>5. Right(Senders)
  BY <1>4
<1> QED BY <1>1, <1>2, <1>5

\* Totals of natural numbers are natural numbers.
LEMMA TotalTyped ==
  ASSUME NEW f \in [Senders -> Nat]
  PROVE  Total(f) \in Nat
BY SumIs

\* One more of one sender is one more in total.
LEMMA TotalCounts ==
  ASSUME NEW f \in [Senders -> Nat], NEW t \in Senders
  PROVE  Total(f) \in Nat /\ Total([f EXCEPT ![t] = @ + 1]) = Total(f) + 1
<1> DEFINE e == [f EXCEPT ![t] = @ + 1]
<1>1. e \in [Senders -> Nat] /\ e[t] = f[t] + 1 /\ \A x \in Senders : x # t => e[x] = f[x]
  OBVIOUS
<1>2. f[t] \in Nat /\ \A x \in Senders : f[x] \in Nat
  OBVIOUS
<1> HIDE DEF e
<1>3. Total(f) \in Nat /\ Total(e) \in Nat /\ Total(f) + 1 <= Total(e)
  <2>1. \A x \in Senders : x # t => f[x] <= e[x]
    BY <1>1, <1>2
  <2>2. f[t] + 1 <= e[t]
    BY <1>1, <1>2
  <2> QED BY <1>1, <2>1, <2>2, TotalsCompare
<1>4. Total(e) + (-1) <= Total(f)
  <2>1. \A x \in Senders : x # t => e[x] <= f[x]
    BY <1>1, <1>2
  <2>2. e[t] + (-1) <= f[t]
    BY <1>1, <1>2
  <2> QED BY <1>1, <2>1, <2>2, TotalsCompare
<1>5. Total(e) = Total(f) + 1
  BY <1>3, <1>4
<1> QED BY <1>3, <1>5 DEF e

\* What one sender has is part of the total.
LEMMA PartOfTotal ==
  ASSUME NEW f \in [Senders -> Nat], NEW t \in Senders
  PROVE  f[t] <= Total(f) /\ Total(f) \in Nat
<1> DEFINE z == [x \in Senders |-> 0]
<1>1. f[t] \in Nat /\ \A x \in Senders : f[x] \in Nat /\ z[x] = 0
  OBVIOUS
<1>2. z \in [Senders -> Nat]
  OBVIOUS
<1> HIDE DEF z
<1>3. Total(z) \in Nat /\ Total(f) \in Nat /\ Total(z) + f[t] <= Total(f)
  <2>1. \A x \in Senders : x # t => z[x] <= f[x]
    BY <1>1
  <2>2. z[t] + f[t] <= f[t]
    BY <1>1
  <2> QED BY <1>1, <1>2, <2>1, <2>2, TotalsCompare
<1> QED BY <1>1, <1>3

-----------------------------------------------------------------------------
(* The places of signals in the queue. *)

Places(q, V) == {k \in DOMAIN q : q[k] \in V}

\* How many signals of V there are before and after one more is queued.
LEMMA PlacesAppend ==
  ASSUME NEW q \in Seq(Signal), NEW x \in Signal, NEW V
  PROVE  /\ Cardinality(Places(q, V)) \in Nat
         /\ Cardinality(Places(Append(q, x), V)) = Cardinality(Places(q, V)) + (IF x \in V THEN 1 ELSE 0)
<1> DEFINE P == Places(q, V)
           a == Append(q, x)
           n == Len(q) + 1
<1>1. /\ Len(q) \in Nat /\ DOMAIN q = 1 .. Len(q) /\ DOMAIN a = 1 .. n
      /\ \A k \in 1 .. Len(q) : a[k] = q[k]
      /\ a[n] = x
  OBVIOUS
<1>2. IsFiniteSet(P) /\ Cardinality(P) \in Nat
  <2>1. IsFiniteSet(1 .. Len(q)) /\ P \in SUBSET (1 .. Len(q))
    BY <1>1, FS_Interval DEF Places
  <2> HIDE DEF P
  <2> QED BY <2>1, FS_Subset, FS_CardinalityType
<1>3. n \notin P
  BY <1>1 DEF Places
<1>4. Places(a, V) = IF x \in V THEN P \cup {n} ELSE P
  BY <1>1 DEF Places
<1>5. Cardinality(P \cup {n}) = Cardinality(P) + 1
  <2> HIDE DEF P, n
  <2> QED BY <1>2, <1>3, FS_AddElement
<1> QED BY <1>2, <1>4, <1>5

\* And before and after the oldest is delivered.
LEMMA PlacesTail ==
  ASSUME NEW q \in Seq(Signal), q # <<>>, NEW V
  PROVE  /\ Cardinality(Places(Tail(q), V)) \in Nat
         /\ Cardinality(Places(q, V)) = Cardinality(Places(Tail(q), V)) + (IF Head(q) \in V THEN 1 ELSE 0)
<1> DEFINE t == Tail(q)
           T == Places(t, V)
           R == Places(q, V) \ {1}
           f == [k \in T |-> k + 1]
<1>1. /\ Len(q) \in Nat /\ Len(q) >= 1 /\ DOMAIN q = 1 .. Len(q) /\ DOMAIN t = 1 .. Len(q) - 1
      /\ \A k \in 1 .. Len(q) - 1 : t[k] = q[k + 1]
      /\ q[1] = Head(q)
  BY EmptySeq
<1>2. IsFiniteSet(T) /\ Cardinality(T) \in Nat
  <2>1. IsFiniteSet(1 .. Len(q) - 1) /\ T \in SUBSET (1 .. Len(q) - 1)
    BY <1>1, FS_Interval DEF Places
  <2> HIDE DEF T
  <2> QED BY <2>1, FS_Subset, FS_CardinalityType
<1> HIDE DEF t
<1>3. IsFiniteSet(R) /\ Cardinality(R) = Cardinality(T)
  <2>1. ASSUME NEW k \in T PROVE k \in Nat /\ k + 1 \in R
    BY <1>1 DEF Places
  <2>2. ASSUME NEW k \in R PROVE \E l \in T : l + 1 = k
    <3>1. k \in 2 .. Len(q) /\ q[k] \in V
      BY <1>1 DEF Places
    <3>2. k - 1 \in 1 .. Len(q) - 1 /\ (k - 1) + 1 = k
      BY <1>1, <3>1
    <3>3. k - 1 \in T
      BY <1>1, <3>1, <3>2 DEF Places
    <3> QED BY <3>2, <3>3
  <2> HIDE DEF T, R
  <2>3. f \in [T -> R]
    BY <2>1
  <2>4. \A k, l \in T : f[k] = f[l] => k = l
    BY <2>1
  <2>5. \A r \in R : \E k \in T : f[k] = r
    BY <2>2
  <2> HIDE DEF f
  <2>6. f \in Bijection(T, R)
    BY <2>3, <2>4, <2>5 DEF Bijection, Injection, Surjection, IsInjective
  <2>7. ExistsBijection(T, R)
    BY <2>6 DEF ExistsBijection
  <2> QED BY <1>2, <2>7, FS_Bijection
<1>4. Places(q, V) = IF Head(q) \in V THEN R \cup {1} ELSE R
  BY <1>1 DEF Places
<1>5. Cardinality(R \cup {1}) = Cardinality(R) + 1
  <2>1. 1 \notin R
    OBVIOUS
  <2> HIDE DEF R
  <2> QED BY <1>3, <2>1, FS_AddElement
<1> HIDE DEF T, R
<1>6. Cardinality(Places(q, V)) = Cardinality(T) + (IF Head(q) \in V THEN 1 ELSE 0)
  <2>1. CASE Head(q) \in V
    BY <1>3, <1>4, <1>5, <2>1
  <2>2. CASE Head(q) \notin V
    BY <1>2, <1>3, <1>4, <2>2
  <2> QED BY <2>1, <2>2
<1> QED BY <1>2, <1>6 DEF T, t

-----------------------------------------------------------------------------
(* The invariant. *)

Typed ==
  /\ receiver \in {"starting", "spinning", "handling", "printed", "reaped"}
  /\ done \in {0, 1} /\ count \in Nat /\ si_value \in {0, 1}
  /\ queue \in Seq(Signal)
  /\ sender \in [Senders -> {"usage", "sending", "returned"}]
  /\ asked \in [Senders -> Int]
  /\ i \in [Senders -> Nat]
  /\ ret \in [Senders -> {0, -2, -3}]

\* A sender that has queued everything, its end included.
Finished(s) == sender[s] = "returned" /\ ret[s] = 0

\* How far a sender is in its loop.
Loops ==
  \A s \in Senders :
    /\ sender[s] # "returned" => ret[s] = 0
    /\ sender[s] = "sending" => asked[s] > 0 /\ i[s] <= asked[s]
    /\ ret[s] = -2 => i[s] = 0
    /\ ret[s] = -3 => asked[s] > 0 /\ i[s] <= asked[s]
    /\ Finished(s) => asked[s] > 0 /\ i[s] = asked[s]
    /\ sender[s] = "usage" => i[s] = 0

\* The end of a sender is the last of its signals.
EndsLast ==
  \A k \in DOMAIN queue :
    queue[k].value = 1 =>
      /\ Finished(queue[k].from)
      /\ \A l \in DOMAIN queue : l > k => queue[l].from # queue[k].from

\* What a sender has sent is counted or queued.
SentBy(s) == {x \in Signal : x.from = s /\ x.value = 0}

CountedOrQueued ==
  Alive => \A s \in Senders : i[s] <= count + Handled + Cardinality(Places(queue, SentBy(s)))

\* All that s has sent is counted, and its end was delivered.
AllCounted(s) ==
  /\ Finished(s)
  /\ count >= asked[s]
  /\ \A k \in DOMAIN queue : queue[k].from # s

EndHandled == receiver = "handling" /\ si_value = 1 => \E s \in Senders : AllCounted(s)

\* What sigqueue took from each sender, its end included, and what it wants to send.
Taken == [s \in Senders |-> i[s] + (IF Finished(s) THEN 1 ELSE 0)]
Wanted == [s \in Senders |-> IF asked[s] > 0 THEN asked[s] + 1 ELSE 0]

AtMostTaken == Len(queue) <= Total(Taken)

IInv == /\ Typed /\ Loops /\ EndsLast /\ CountedOrQueued /\ EndHandled /\ AtMostTaken
        /\ NoneLost /\ EndComesLast /\ FailsOnlyOverLimit

\* The sums of the properties are totals, in both states of a step.
LEMMA SentTotal ==
  /\ MapThenSumSet(LAMBDA s : i[s], Senders) = Total(i)
  /\ MapThenSumSet(LAMBDA s : i[s], Senders)' = Total(i')
<1>1. MapThenSumSet(LAMBDA s : i[s], Senders) = Total(i)
  BY DEF Total
<1>2. MapThenSumSet(LAMBDA s : i[s], Senders)' = Total(i')
  BY Zenon DEF MapThenSumSet, MapThenFoldSet, Total
<1> QED BY <1>1, <1>2

\* The sum in FailsOnlyOverLimit is a total.
LEMMA WantedSum ==
  ASSUME NEW a, NEW w, w = [s \in Senders |-> IF a[s] > 0 THEN a[s] + 1 ELSE 0]
  PROVE  MapThenSumSet(LAMBDA t : IF a[t] > 0 THEN a[t] + 1 ELSE 0, Senders) = Total(w)
<1> DEFINE Of(h) == [s \in SUBSET Senders |->
                       IF s = {} THEN 0
                       ELSE (IF a[First(s)] > 0 THEN a[First(s)] + 1 ELSE 0) + h[s \ {First(s)}]]
           P(h) == h = Of(h)
<1>1. MapThenSumSet(LAMBDA t : IF a[t] > 0 THEN a[t] + 1 ELSE 0, Senders)
        = (CHOOSE h : P(h))[Senders]
  BY Zenon DEF MapThenSumSet, MapThenFoldSet, First
<1>2. Total(w) = (CHOOSE h : Sums(w, Senders, h))[Senders]
  BY Zenon DEF MapThenSumSet, MapThenFoldSet, Total, Sums, SumOf, First
<1>3. ASSUME NEW h PROVE P(h) <=> Sums(w, Senders, h)
  <2>1. ASSUME NEW s \in SUBSET Senders
        PROVE  Of(h)[s] = SumOf(w, s, h)
    <3>1. CASE s = {}
      BY <3>1 DEF SumOf
    <3>2. CASE s # {}
      <4>1. First(s) \in Senders
        BY <3>2 DEF First
      <4> QED BY <3>2, <4>1 DEF SumOf
    <3> QED BY <3>1, <3>2
  <2>2. Of(h) = [s \in SUBSET Senders |-> SumOf(w, s, h)]
    <3> DEFINE q == [s \in SUBSET Senders |-> SumOf(w, s, h)]   o == Of(h)
    <3>1. DOMAIN o = SUBSET Senders /\ o = [s \in SUBSET Senders |-> o[s]]
      OBVIOUS
    <3>2. \A s \in SUBSET Senders : o[s] = SumOf(w, s, h)
      BY <2>1
    <3> HIDE DEF o
    <3>3. o = q
      BY <3>1, <3>2
    <3> QED BY <3>3 DEF o
  <2> QED BY <2>2 DEF Sums
<1> HIDE DEF P
<1>4. (CHOOSE h : P(h)) = (CHOOSE h : Sums(w, Senders, h))
  BY <1>3, Zenon
<1> QED BY <1>1, <1>2, <1>4

-----------------------------------------------------------------------------
(* Steps. *)

\* Every step keeps the types.
LEMMA TypedStep == Typed /\ [Next]_vars => Typed'
<1> SUFFICES ASSUME Typed, [Next]_vars PROVE Typed'
  OBVIOUS
<1>1. CASE UNCHANGED vars \/ Ended
  BY <1>1 DEF vars, Ended, Typed
<1>2. CASE sigaction \/ sig_action \/ print \/ reap
  <2>1. CASE sigaction \/ reap
    BY <2>1 DEF sigaction, reap, Typed
  <2>2. CASE sig_action
    BY <2>2 DEF sig_action, Typed
  <2>3. CASE print
    BY <2>3, EmptySeq DEF print, Typed
  <2> QED BY <1>2, <2>1, <2>2, <2>3
<1>3. CASE deliver
  <2>1. queue \in Seq(Signal) /\ queue # <<>>
    BY <1>3 DEF deliver, Typed
  <2>2. Head(queue) \in Signal /\ Tail(queue) \in Seq(Signal)
    BY <2>1
  <2> QED BY <1>3, <2>2 DEF deliver, Typed, Signal
<1>4. ASSUME NEW s \in Senders, NEW v \in {0, 1}, sigqueue(s, v) PROVE queue' \in Seq(Signal)
  <2>1. [from |-> s, value |-> v] \in Signal /\ queue \in Seq(Signal)
    BY DEF Signal, Typed
  <2>2. queue' = IF Alive THEN Append(queue, [from |-> s, value |-> v]) ELSE queue
    BY <1>4 DEF sigqueue
  <2> QED BY <2>1, <2>2
<1>5. ASSUME NEW s \in Senders, unexpected_count(s) \/ run(s) PROVE Typed'
  <2>1. CASE unexpected_count(s)
    BY <2>1 DEF unexpected_count, Return, receiverVars, Typed
  <2>2. CASE getrlimit(s)
    BY <2>2, SignalsAssumption DEF getrlimit, Limited, receiverVars, Typed
  <2>3. CASE send_signal(s)
    BY <1>4, <2>3 DEF send_signal, receiverVars, Typed
  <2>4. CASE send_end(s)
    BY <1>4, <2>4 DEF send_end, Return, receiverVars, Typed
  <2>5. CASE send_fails(s)
    BY <2>5 DEF send_fails, Return, receiverVars, Typed
  <2> QED BY <1>5, <2>1, <2>2, <2>3, <2>4, <2>5 DEF run
<1> QED BY <1>1, <1>2, <1>3, <1>5 DEF Next, main

\* Every step keeps the bounds of the senders' loops.
LEMMA LoopsStep == Typed /\ Loops /\ [Next]_vars => Loops'
<1> SUFFICES ASSUME Typed, Loops, [Next]_vars PROVE Loops'
  OBVIOUS
<1>1. ASSUME UNCHANGED <<sender, asked, i, ret>> PROVE Loops'
  BY <1>1 DEF Loops, Finished
<1>2. ASSUME NEW s \in Senders, unexpected_count(s) \/ run(s) PROVE Loops'
  <2> SUFFICES ASSUME NEW u \in Senders
               PROVE  /\ sender'[u] # "returned" => ret'[u] = 0
                      /\ sender'[u] = "sending" => asked'[u] > 0 /\ i'[u] <= asked'[u]
                      /\ ret'[u] = -2 => i'[u] = 0
                      /\ ret'[u] = -3 => asked'[u] > 0 /\ i'[u] <= asked'[u]
                      /\ Finished(u)' => asked'[u] > 0 /\ i'[u] = asked'[u]
                      /\ sender'[u] = "usage" => i'[u] = 0
    BY DEF Loops
  <2>1. CASE unexpected_count(s)
    BY <2>1 DEF unexpected_count, Return, Loops, Finished, Typed
  <2>2. CASE getrlimit(s)
    BY <2>2, SignalsAssumption DEF getrlimit, Limited, Loops, Finished, Typed
  <2>3. CASE send_signal(s)
    BY <2>3 DEF send_signal, More, Loops, Finished, Typed
  <2>4. CASE send_end(s)
    BY <2>4 DEF send_end, More, Return, Loops, Finished, Typed
  <2>5. CASE send_fails(s)
    BY <2>5 DEF send_fails, Return, Loops, Finished, Typed
  <2> QED BY <1>2, <2>1, <2>2, <2>3, <2>4, <2>5 DEF run
<1> QED BY <1>1, <1>2 DEF Next, main, sigaction, deliver, sig_action, print, reap, Ended, vars

\* What becomes of the counts when a signal is queued, delivered or counted.
LEMMA Zero ==
  ASSUME Typed
  PROVE  Zeros = Places(queue, {x \in Signal : x.value = 0})
<1>1. \A k \in DOMAIN queue : queue[k] \in Signal
  BY DEF Typed
<1> QED BY <1>1 DEF Zeros, Places

\* Every step keeps the number of signals sent equal to those counted and queued.
LEMMA NoneLostStep == Typed /\ NoneLost /\ [Next]_vars => NoneLost'
<1> SUFFICES ASSUME Typed, NoneLost, [Next]_vars PROVE NoneLost'
  OBVIOUS
<1> DEFINE Z == {x \in Signal : x.value = 0}
<1>0. Typed'
  BY TypedStep
<1>1. Zeros = Places(queue, Z) /\ Zeros' = Places(queue', Z)
  <2>1. \A k \in DOMAIN queue' : queue'[k] \in Signal
    BY <1>0 DEF Typed
  <2>2. Zeros' = Places(queue', Z)
    BY <2>1 DEF Zeros, Places
  <2> QED BY <2>2, Zero
<1>2. /\ NoneLost <=> (Alive => count + Handled + Cardinality(Places(queue, Z)) = Total(i))
      /\ NoneLost' <=> (Alive' => count' + Handled' + Cardinality(Places(queue', Z)) = Total(i'))
  <2>1. NoneLost <=> (Alive => count + Handled + Cardinality(Zeros) = Total(i))
    BY SentTotal DEF NoneLost
  <2>2. NoneLost' <=> (Alive' => count' + Handled' + Cardinality(Zeros') = Total(i'))
    BY SentTotal, Zenon DEF NoneLost
  <2> QED BY <1>1, <2>1, <2>2
<1> HIDE DEF Z
<1>3. ASSUME UNCHANGED <<count, Handled, queue, i>>, Alive' => Alive PROVE NoneLost'
  BY <1>2, <1>3
<1>4. CASE UNCHANGED vars \/ Ended
  BY <1>3, <1>4 DEF vars, Ended, Handled, Alive
<1>5. CASE sigaction \/ print \/ reap
  <2>1. CASE sigaction
    BY <1>3, <2>1 DEF sigaction, Handled, Alive
  <2>2. CASE print \/ reap
    BY <1>2, <2>2 DEF print, reap, Alive
  <2> QED BY <1>5, <2>1, <2>2
<1>6. CASE deliver
  <2>1. /\ queue \in Seq(Signal) /\ queue # <<>> /\ queue' = Tail(queue)
        /\ Handled = 0 /\ Handled' = IF Head(queue).value = 0 THEN 1 ELSE 0
        /\ Alive /\ UNCHANGED <<count, i>> /\ count \in Nat
    BY <1>6 DEF deliver, Typed, Handled, Alive
  <2>2. Head(queue) \in Z <=> Head(queue).value = 0
    BY <2>1 DEF Z
  <2>3. /\ Cardinality(Places(queue', Z)) \in Nat
        /\ Cardinality(Places(queue, Z)) = Cardinality(Places(queue', Z)) + Handled'
    BY <2>1, <2>2, PlacesTail
  <2>4. Handled' \in {0, 1}
    BY <2>1
  <2> QED BY <1>2, <2>1, <2>3, <2>4
<1>7. CASE sig_action
  <2>1. /\ count' + Handled' = count + Handled /\ Alive
        /\ UNCHANGED <<queue, i>>
    BY <1>7 DEF sig_action, Typed, Handled, Alive
  <2> QED BY <1>2, <2>1
<1>8. ASSUME NEW s \in Senders, unexpected_count(s) \/ run(s) PROVE NoneLost'
  <2>1. UNCHANGED <<receiver, count, si_value>>
    BY <1>8 DEF unexpected_count, run, getrlimit, send_signal, send_end, send_fails, receiverVars
  <2>2. UNCHANGED <<count, Handled>> /\ (Alive <=> Alive')
    BY <2>1 DEF Handled, Alive
  <2>3. CASE unexpected_count(s) \/ getrlimit(s) \/ send_fails(s)
    BY <1>3, <2>2, <2>3 DEF unexpected_count, getrlimit, send_fails
  <2>4. CASE send_signal(s)
    <3> SUFFICES ASSUME Alive PROVE NoneLost'
      BY <1>2, <2>2
    <3>1. /\ queue' = Append(queue, [from |-> s, value |-> 0])
          /\ i' = [i EXCEPT ![s] = @ + 1]
      BY <2>4 DEF send_signal, sigqueue
    <3>2. [from |-> s, value |-> 0] \in Signal /\ [from |-> s, value |-> 0] \in Z
      BY DEF Signal, Z
    <3>3. queue \in Seq(Signal) /\ i \in [Senders -> Nat] /\ count \in Nat /\ Handled \in {0, 1}
      BY DEF Typed, Handled
    <3>4. /\ Cardinality(Places(queue, Z)) \in Nat
          /\ Cardinality(Places(queue', Z)) = Cardinality(Places(queue, Z)) + 1
      BY <3>1, <3>2, <3>3, PlacesAppend
    <3>5. Total(i') = Total(i) + 1
      BY <3>1, <3>3, TotalCounts
    <3>6. count + Handled + Cardinality(Places(queue, Z)) = Total(i)
      BY <1>2
    <3> QED BY <1>2, <2>2, <3>3, <3>4, <3>5, <3>6
  <2>5. CASE send_end(s)
    <3> SUFFICES ASSUME Alive PROVE NoneLost'
      BY <1>2, <2>2
    <3>1. /\ queue' = Append(queue, [from |-> s, value |-> 1])
          /\ i' = i
      BY <2>5 DEF send_end, sigqueue
    <3>2. [from |-> s, value |-> 1] \in Signal /\ [from |-> s, value |-> 1] \notin Z
      BY DEF Signal, Z
    <3>3. queue \in Seq(Signal)
      BY DEF Typed
    <3>4. Cardinality(Places(queue', Z)) = Cardinality(Places(queue, Z))
      BY <3>1, <3>2, <3>3, PlacesAppend
    <3>5. count + Handled + Cardinality(Places(queue, Z)) = Total(i)
      BY <1>2
    <3> QED BY <1>2, <2>2, <3>1, <3>4, <3>5
  <2> QED BY <1>8, <2>3, <2>4, <2>5 DEF run
<1> QED BY <1>4, <1>5, <1>6, <1>7, <1>8 DEF Next, main

\* A sender that has finished sends no more.
LEMMA FinishedStays ==
  ASSUME Typed, [Next]_vars, NEW u \in Senders, Finished(u)
  PROVE  Finished(u)' /\ asked'[u] = asked[u] /\ i'[u] = i[u]
<1>1. ASSUME UNCHANGED <<sender, asked, i, ret>>
      PROVE  Finished(u)' /\ asked'[u] = asked[u] /\ i'[u] = i[u]
  BY <1>1 DEF Finished
<1>2. ASSUME NEW s \in Senders, unexpected_count(s) \/ run(s)
      PROVE  Finished(u)' /\ asked'[u] = asked[u] /\ i'[u] = i[u]
  <2>1. s # u
    BY <1>2 DEF unexpected_count, run, getrlimit, send_signal, send_end, send_fails, Finished
  <2> QED BY <1>2, <2>1 DEF unexpected_count, run, getrlimit, send_signal, send_end, send_fails,
                          Return, Finished, Typed
<1> QED BY <1>1, <1>2 DEF Next, main, sigaction, deliver, sig_action, print, reap, Ended, vars

\* What a step does to the queue: it takes the oldest, all, or adds one of a sender
\* that has not finished.
Queued(s, v) == queue' = Append(queue, [from |-> s, value |-> v])

\* What a step may do to the queue.
LEMMA QueueSteps ==
  ASSUME Typed, [Next]_vars
  PROVE  \/ UNCHANGED queue
         \/ queue' = <<>>
         \/ queue # <<>> /\ queue' = Tail(queue)
         \/ \E s \in Senders : sender[s] = "sending" /\ Queued(s, 0)
         \/ \E s \in Senders : sender[s] = "sending" /\ Queued(s, 1) /\ Finished(s)'
<1>1. CASE UNCHANGED vars \/ Ended \/ sigaction \/ sig_action \/ reap \/ print \/ deliver
  BY <1>1 DEF vars, Ended, sigaction, sig_action, reap, print, deliver
<1>2. ASSUME NEW s \in Senders, unexpected_count(s) \/ run(s)
      PROVE  \/ UNCHANGED queue
             \/ sender[s] = "sending" /\ Queued(s, 0)
             \/ sender[s] = "sending" /\ Queued(s, 1) /\ Finished(s)'
  <2>1. CASE unexpected_count(s) \/ getrlimit(s) \/ send_fails(s)
    BY <2>1 DEF unexpected_count, getrlimit, send_fails
  <2>2. CASE send_signal(s)
    BY <2>2 DEF send_signal, sigqueue, Queued
  <2>3. CASE send_end(s)
    BY <2>3 DEF send_end, sigqueue, Queued, Return, Finished, Typed
  <2> QED BY <1>2, <2>1, <2>2, <2>3 DEF run
<1> QED BY <1>1, <1>2 DEF Next, main

\* The places of a queue with one more, and of one with the oldest taken.
LEMMA Shape ==
  ASSUME Typed
  PROVE  /\ Len(queue) \in Nat /\ DOMAIN queue = 1 .. Len(queue)
         /\ \A k \in DOMAIN queue : queue[k] \in Signal
         /\ \A s, v : Queued(s, v) =>
              /\ DOMAIN queue' = 1 .. Len(queue) + 1
              /\ \A k \in DOMAIN queue : queue'[k] = queue[k]
              /\ queue'[Len(queue) + 1] = [from |-> s, value |-> v]
         /\ queue # <<>> /\ queue' = Tail(queue) =>
              /\ 1 \in DOMAIN queue /\ Head(queue) = queue[1]
              /\ \A k \in DOMAIN queue' : k + 1 \in DOMAIN queue /\ queue'[k] = queue[k + 1]
         /\ queue' = <<>> => DOMAIN queue' = {}
<1>1. queue \in Seq(Signal) /\ Len(queue) \in Nat /\ DOMAIN queue = 1 .. Len(queue)
  BY DEF Typed
<1>2. \A k \in DOMAIN queue : queue[k] \in Signal
  BY <1>1
<1>3. ASSUME NEW s, NEW v, Queued(s, v)
      PROVE  /\ DOMAIN queue' = 1 .. Len(queue) + 1
             /\ \A k \in DOMAIN queue : queue'[k] = queue[k]
             /\ queue'[Len(queue) + 1] = [from |-> s, value |-> v]
  BY <1>1, <1>3 DEF Queued
<1>4. ASSUME queue # <<>>, queue' = Tail(queue)
      PROVE  /\ 1 \in DOMAIN queue /\ Head(queue) = queue[1]
             /\ \A k \in DOMAIN queue' : k + 1 \in DOMAIN queue /\ queue'[k] = queue[k + 1]
  <2>1. Len(queue) >= 1
    BY <1>1, <1>4, EmptySeq
  <2>2. Head(queue) = queue[1]
    BY <1>1
  <2>3. \A k \in DOMAIN queue' : k \in 1 .. Len(queue) - 1 /\ queue'[k] = queue[k + 1]
    BY <1>1, <1>4, <2>1
  <2> QED BY <1>1, <2>1, <2>2, <2>3
<1>5. queue' = <<>> => DOMAIN queue' = {}
  BY EmptySeq
<1> QED BY <1>1, <1>2, <1>3, <1>4, <1>5

\* Every step keeps ends behind what their sender sent.
LEMMA EndsLastStep == Typed /\ EndsLast /\ [Next]_vars => EndsLast'
<1> SUFFICES ASSUME Typed, EndsLast, [Next]_vars,
                    NEW k \in DOMAIN queue', queue'[k].value = 1
             PROVE  /\ \E u \in Senders : queue'[k].from = u /\ Finished(u)'
                    /\ \A l \in DOMAIN queue' : l > k => queue'[l].from # queue'[k].from
  BY Zenon DEF EndsLast, Finished
<1>0. \A u \in Senders : Finished(u) => Finished(u)'
  BY FinishedStays
<1>1. \A l \in DOMAIN queue : queue[l].from \in Senders
  BY Shape DEF Signal
<1>2. CASE UNCHANGED queue
  <2>1. Finished(queue[k].from) /\ \A l \in DOMAIN queue : l > k => queue[l].from # queue[k].from
    BY <1>2 DEF EndsLast
  <2> QED BY <1>0, <1>1, <1>2, <2>1
<1>3. CASE queue' = <<>>
  BY <1>3, Shape
<1>4. CASE queue # <<>> /\ queue' = Tail(queue)
  <2>1. /\ k \in Nat /\ k + 1 \in DOMAIN queue /\ queue'[k] = queue[k + 1]
        /\ \A l \in DOMAIN queue' : l \in Nat /\ l + 1 \in DOMAIN queue /\ queue'[l] = queue[l + 1]
    BY <1>4, Shape, TypedStep DEF Typed
  <2>2. /\ Finished(queue[k + 1].from)
        /\ \A l \in DOMAIN queue : l > k + 1 => queue[l].from # queue[k + 1].from
    BY <2>1 DEF EndsLast
  <2>3. \A l \in DOMAIN queue' : l > k => queue'[l].from # queue'[k].from
    BY <2>1, <2>2
  <2> QED BY <1>0, <1>1, <2>1, <2>2, <2>3
<1>5. ASSUME NEW s \in Senders, NEW v \in {0, 1}, sender[s] = "sending", Queued(s, v),
             v = 1 => Finished(s)'
      PROVE  /\ \E u \in Senders : queue'[k].from = u /\ Finished(u)'
             /\ \A l \in DOMAIN queue' : l > k => queue'[l].from # queue'[k].from
  <2> DEFINE n == Len(queue) + 1
  <2>1. /\ Len(queue) \in Nat /\ DOMAIN queue = 1 .. Len(queue) /\ DOMAIN queue' = 1 .. n
        /\ \A l \in DOMAIN queue : queue'[l] = queue[l]
        /\ queue'[n] = [from |-> s, value |-> v]
    BY <1>5, Shape
  <2>2. CASE k = n
    <3>1. queue'[k].from = s /\ v = 1 /\ \A l \in DOMAIN queue' : ~(l > k)
      BY <2>1, <2>2
    <3> QED BY <1>5, <3>1
  <2>3. CASE k # n
    <3>1. k \in DOMAIN queue /\ queue'[k] = queue[k]
      BY <2>1, <2>3
    <3>2. Finished(queue[k].from) /\ \A l \in DOMAIN queue : l > k => queue[l].from # queue[k].from
      BY <3>1 DEF EndsLast
    <3>3. queue[k].from # s
      BY <1>5, <3>2 DEF Finished
    <3>4. \A l \in DOMAIN queue' : l > k => queue'[l].from # queue'[k].from
      BY <2>1, <3>1, <3>2, <3>3
    <3> QED BY <1>0, <1>1, <3>1, <3>2, <3>4
  <2> QED BY <2>2, <2>3
<1> QED BY <1>2, <1>3, <1>4, <1>5, QueueSteps

\* Every signal a sender sent is counted or queued, and stays so.
LEMMA CountedOrQueuedStep == Typed /\ CountedOrQueued /\ [Next]_vars => CountedOrQueued'
<1> SUFFICES ASSUME Typed, CountedOrQueued, [Next]_vars, Alive', NEW u \in Senders
             PROVE  i'[u] <= count' + Handled' + Cardinality(Places(queue', SentBy(u)))
  BY Zenon DEF CountedOrQueued, SentBy, Places
<1> DEFINE V == SentBy(u)
           Goal == i'[u] <= count' + Handled' + Cardinality(Places(queue', V))
<1>0. /\ queue \in Seq(Signal) /\ count \in Nat /\ i \in [Senders -> Nat] /\ i[u] \in Nat
      /\ Handled \in {0, 1} /\ Handled' \in {0, 1} /\ count' \in Nat
  BY TypedStep DEF Typed, Handled
<1>1. Alive => i[u] <= count + Handled + Cardinality(Places(queue, V))
  BY DEF CountedOrQueued
<1>2. \A x \in Signal : x \in V <=> x.from = u /\ x.value = 0
  BY DEF SentBy
<1> SUFFICES Goal
  OBVIOUS
<1> HIDE DEF V
<1>3. ASSUME UNCHANGED <<count, Handled, queue, i>>, Alive PROVE Goal
  BY <1>1, <1>3
<1>4. CASE UNCHANGED vars \/ Ended \/ sigaction
  <2>1. UNCHANGED <<count, Handled, queue, i>> /\ Alive
    BY <1>4 DEF vars, Ended, sigaction, Handled, Alive
  <2> QED BY <1>3, <2>1
<1>5. CASE print \/ reap
  BY <1>5 DEF print, reap, Alive
<1>6. CASE deliver
  <2>1. /\ queue # <<>> /\ queue' = Tail(queue) /\ Head(queue) \in Signal /\ i' = i
        /\ Handled = 0 /\ Handled' = (IF Head(queue).value = 0 THEN 1 ELSE 0)
        /\ Alive /\ count' = count
    BY <1>0, <1>6 DEF deliver, Handled, Alive
  <2>2. /\ Cardinality(Places(queue', V)) \in Nat
        /\ Cardinality(Places(queue, V))
             = Cardinality(Places(queue', V)) + (IF Head(queue) \in V THEN 1 ELSE 0)
    BY <1>0, <2>1, PlacesTail
  <2>3. Head(queue) \in V => Handled' = 1
    BY <1>2, <2>1
  <2>4. i[u] <= count + Cardinality(Places(queue, V))
    BY <1>0, <1>1, <2>1, <2>2
  <2>5. CASE Head(queue) \in V
    <3>1. Cardinality(Places(queue, V)) = Cardinality(Places(queue', V)) + 1 /\ Handled' = 1
      BY <2>2, <2>3, <2>5
    <3>2. i'[u] = i[u] /\ count' = count
      BY <2>1
    <3> QED BY <1>0, <2>2, <2>4, <3>1, <3>2
  <2>6. CASE Head(queue) \notin V
    <3>1. Cardinality(Places(queue, V)) = Cardinality(Places(queue', V))
      BY <2>2, <2>6
    <3>2. i'[u] = i[u] /\ count' = count
      BY <2>1
    <3> QED BY <1>0, <2>2, <2>4, <3>1, <3>2
  <2> QED BY <2>5, <2>6
<1>7. CASE sig_action
  <2>1. /\ count' + Handled' = count + Handled /\ Alive
        /\ UNCHANGED <<queue, i>>
    BY <1>7 DEF sig_action, Typed, Handled, Alive
  <2>2. i[u] <= (count + Handled) + Cardinality(Places(queue, V))
    BY <1>1, <2>1
  <2> QED BY <2>1, <2>2
<1>8. ASSUME NEW s \in Senders, unexpected_count(s) \/ run(s) PROVE Goal
  <2>1. UNCHANGED <<receiver, count, si_value>>
    BY <1>8 DEF unexpected_count, run, getrlimit, send_signal, send_end, send_fails, receiverVars
  <2>2. UNCHANGED <<count, Handled>> /\ Alive
    BY <2>1 DEF Handled, Alive
  <2>3. CASE unexpected_count(s) \/ getrlimit(s) \/ send_fails(s)
    BY <1>3, <2>2, <2>3 DEF unexpected_count, getrlimit, send_fails
  <2>4. ASSUME NEW v \in {0, 1}, sigqueue(s, v), i'[u] = i[u] + (IF v = 0 /\ s = u THEN 1 ELSE 0)
        PROVE  Goal
    <3> DEFINE x == [from |-> s, value |-> v]
    <3>1. queue' = Append(queue, x) /\ x \in Signal /\ x.from = s /\ x.value = v
      BY <2>2, <2>4 DEF sigqueue, Signal
    <3> HIDE DEF x
    <3>2. x \in V <=> v = 0 /\ s = u
      BY <1>2, <3>1
    <3>3. /\ Cardinality(Places(queue, V)) \in Nat
          /\ Cardinality(Places(queue', V))
               = Cardinality(Places(queue, V)) + (IF x \in V THEN 1 ELSE 0)
      BY <1>0, <3>1, PlacesAppend
    <3>4. i[u] <= count + Handled + Cardinality(Places(queue, V))
      BY <1>1, <2>2
    <3>5. CASE x \in V
      <4>1. i'[u] = i[u] + 1
        BY <2>4, <3>2, <3>5
      <4>2. Cardinality(Places(queue', V)) = Cardinality(Places(queue, V)) + 1
        BY <3>3, <3>5
      <4> QED BY <1>0, <2>2, <3>3, <3>4, <4>1, <4>2
    <3>6. CASE x \notin V
      <4>1. i'[u] = i[u]
        BY <1>0, <2>4, <3>2, <3>6
      <4>2. Cardinality(Places(queue', V)) = Cardinality(Places(queue, V))
        BY <3>3, <3>6
      <4> QED BY <1>0, <2>2, <3>3, <3>4, <4>1, <4>2
    <3> QED BY <3>5, <3>6
  <2>5. CASE send_signal(s)
    <3>1. sigqueue(s, 0) /\ i' = [i EXCEPT ![s] = @ + 1]
      BY <2>5 DEF send_signal
    <3>2. i'[u] = i[u] + (IF s = u THEN 1 ELSE 0)
      BY <1>0, <3>1
    <3> QED BY <2>4, <3>1, <3>2
  <2>6. CASE send_end(s)
    <3>1. sigqueue(s, 1) /\ i' = i
      BY <2>6 DEF send_end
    <3>2. i'[u] = i[u] + 0
      BY <1>0, <3>1
    <3> QED BY <2>4, <3>1, <3>2
  <2> QED BY <1>8, <2>3, <2>5, <2>6 DEF run
<1> QED BY <1>4, <1>5, <1>6, <1>7, <1>8 DEF Next, main

\* A sender whose signals are all counted stays one.
LEMMA AllCountedStays ==
  ASSUME Typed, [Next]_vars, NEW s \in Senders, AllCounted(s)
  PROVE  AllCounted(s)'
<1>1. Finished(s)' /\ asked'[s] = asked[s]
  BY FinishedStays DEF AllCounted
<1>2. count' >= asked'[s]
  <2>1. count' = count \/ count' = count + 1
    BY DEF Next, main, sigaction, deliver, sig_action, print, reap, unexpected_count, run,
           getrlimit, send_signal, send_end, send_fails, receiverVars, Ended, vars
  <2> QED BY <1>1, <2>1 DEF AllCounted, Typed
<1>3. ASSUME NEW k \in DOMAIN queue' PROVE queue'[k].from # s
  <2>1. \A l \in DOMAIN queue : queue[l].from # s
    BY DEF AllCounted
  <2>2. CASE UNCHANGED queue
    BY <2>1, <2>2
  <2>3. CASE queue' = <<>>
    BY <2>3, Shape
  <2>4. CASE queue # <<>> /\ queue' = Tail(queue)
    <3>1. k + 1 \in DOMAIN queue /\ queue'[k] = queue[k + 1]
      BY <2>4, Shape
    <3> QED BY <2>1, <3>1
  <2>5. ASSUME NEW u \in Senders, NEW v \in {0, 1}, sender[u] = "sending", Queued(u, v)
        PROVE  queue'[k].from # s
    <3>1. u # s
      BY <2>5 DEF AllCounted, Finished
    <3>2. /\ Len(queue) \in Nat /\ DOMAIN queue = 1 .. Len(queue)
          /\ DOMAIN queue' = 1 .. Len(queue) + 1
          /\ \A l \in DOMAIN queue : queue'[l] = queue[l]
          /\ queue'[Len(queue) + 1] = [from |-> u, value |-> v]
      BY <2>5, Shape
    <3>3. k \in DOMAIN queue \/ k = Len(queue) + 1
      BY <3>2
    <3> QED BY <2>1, <3>1, <3>2, <3>3
  <2> QED BY <2>2, <2>3, <2>4, <2>5, QueueSteps
<1> QED BY <1>1, <1>2, <1>3 DEF AllCounted

\* When an end is delivered, all its sender sent is counted.
LEMMA EndStep ==
  Typed /\ Loops /\ EndsLast /\ CountedOrQueued /\ EndHandled /\ EndComesLast /\ [Next]_vars
    => EndHandled' /\ EndComesLast'
<1> SUFFICES ASSUME Typed, Loops, EndsLast, CountedOrQueued, EndHandled, EndComesLast, [Next]_vars
             PROVE  EndHandled' /\ EndComesLast'
  OBVIOUS
<1>1. /\ EndComesLast <=> (done = 1 => \E s \in Senders : AllCounted(s))
      /\ EndComesLast' <=> (done' = 1 => \E s \in Senders : AllCounted(s)')
  BY DEF EndComesLast, AllCounted, Finished
<1>2. ASSUME NEW s \in Senders, AllCounted(s)' PROVE EndHandled' /\ EndComesLast'
  BY <1>1, <1>2 DEF EndHandled
<1>3. CASE \E s \in Senders : AllCounted(s)
  BY <1>2, <1>3, AllCountedStays
<1>4. CASE ~\E s \in Senders : AllCounted(s)
  <2>1. done # 1 /\ ~(receiver = "handling" /\ si_value = 1)
    BY <1>1, <1>4 DEF EndHandled
  <2>2. CASE deliver
    <3>1. queue # <<>> /\ queue' = Tail(queue) /\ receiver = "spinning" /\ done' = done
          /\ si_value' = Head(queue).value /\ count' = count
      BY <2>2 DEF deliver
    <3>2. CASE si_value' = 1
      <4>1. /\ 1 \in DOMAIN queue /\ queue[1].value = 1 /\ queue[1].from \in Senders
            /\ \A k \in DOMAIN queue' : k + 1 \in DOMAIN queue /\ queue'[k] = queue[k + 1] /\ k \in Nat \ {0}
        <5>1. 1 \in DOMAIN queue /\ queue[1] = Head(queue) /\ queue[1] \in Signal
          BY <3>1, Shape
        <5>2. \A k \in DOMAIN queue' : k \in Nat \ {0}
          BY TypedStep DEF Typed
        <5> QED BY <3>1, <3>2, <5>1, <5>2, Shape DEF Signal
      <4>2. PICK s \in Senders : s = queue[1].from
        BY <4>1
      <4>3. Finished(s) /\ \A l \in DOMAIN queue : l > 1 => queue[l].from # s
        BY <4>1, <4>2 DEF EndsLast, Finished
      <4>4. asked[s] = i[s] /\ i[s] \in Nat
        BY <4>3 DEF Loops, Typed
      <4>5. i[s] <= count + 0 + Cardinality(Places(queue, SentBy(s)))
        <5>1. Alive /\ Handled = 0
          BY <3>1 DEF Alive, Handled
        <5> QED BY <5>1 DEF CountedOrQueued
      <4>6. Places(queue, SentBy(s)) = {}
        <5>1. ASSUME NEW l \in DOMAIN queue, queue[l] \in SentBy(s) PROVE FALSE
          <6>1. queue[l].from = s /\ queue[l].value = 0
            BY <5>1 DEF SentBy
          <6>2. l \in Nat \ {0} /\ ~(l > 1)
            BY <4>3, <6>1, Shape
          <6>3. l = 1
            BY <6>2
          <6> QED BY <4>1, <6>1, <6>3
        <5> QED BY <5>1 DEF Places
      <4>7. count >= asked[s] /\ count \in Nat
        <5>1. Cardinality(Places(queue, SentBy(s))) = 0
          BY <4>6, FS_EmptySet
        <5> QED BY <4>4, <4>5, <5>1 DEF Typed
      <4>8. Finished(s)' /\ asked'[s] = asked[s]
        BY <4>3, FinishedStays
      <4>9. \A k \in DOMAIN queue' : queue'[k].from # s
        <5>1. \A k \in DOMAIN queue' : k + 1 > 1
          BY <4>1
        <5> QED BY <4>1, <4>3, <5>1
      <4>10. count' >= asked'[s]
        BY <3>1, <4>7, <4>8
      <4>11. AllCounted(s)'
        BY <4>8, <4>9, <4>10 DEF AllCounted
      <4> QED BY <1>2, <4>11
    <3>3. CASE si_value' # 1
      BY <1>1, <2>1, <3>1, <3>3 DEF EndHandled
    <3> QED BY <3>2, <3>3
  <2>3. CASE sig_action
    BY <1>1, <2>1, <2>3 DEF sig_action, EndHandled
  <2>4. CASE ~deliver /\ ~sig_action
    <3>1. done' = done /\ si_value' = si_value /\ (receiver' = "handling" => receiver = "handling")
      BY <2>4 DEF Next, main, sigaction, print, reap, unexpected_count, run,
             getrlimit, send_signal, send_end, send_fails, receiverVars, Ended, vars
    <3> QED BY <1>1, <2>1, <3>1 DEF EndHandled
  <2> QED BY <2>2, <2>3, <2>4
<1> QED BY <1>3, <1>4

-----------------------------------------------------------------------------
(* The limit. *)

\* What senders have taken of the limit are natural numbers.
LEMMA TakenTyped == Typed => Taken \in [Senders -> Nat]
BY DEF Typed, Taken

\* One sender takes one more.
LEMMA TakenIs ==
  ASSUME NEW s \in Senders,
         \A u \in Senders : Taken'[u] = IF u = s THEN Taken[u] + 1 ELSE Taken[u]
  PROVE  Taken' = [Taken EXCEPT ![s] = @ + 1]
<1>1. PICK f, e : f = Taken /\ e = Taken'
  OBVIOUS
<1>2. f = [u \in Senders |-> f[u]] /\ e = [u \in Senders |-> e[u]]
  BY <1>1 DEF Taken
<1>3. \A u \in Senders : e[u] = IF u = s THEN f[u] + 1 ELSE f[u]
  BY <1>1
<1> QED BY <1>1, <1>2, <1>3

\* There are never more signals queued than were taken.
LEMMA AtMostTakenStep == Typed /\ AtMostTaken /\ [Next]_vars => AtMostTaken'
<1> SUFFICES ASSUME Typed, AtMostTaken, [Next]_vars PROVE Len(queue') <= Total(Taken')
  BY Zenon DEF AtMostTaken, Total, MapThenSumSet, MapThenFoldSet
<1>0. queue \in Seq(Signal) /\ Len(queue) \in Nat /\ Len(queue) <= Total(Taken)
  BY DEF Typed, AtMostTaken
<1>1. ASSUME NEW s \in Senders, Taken' = [Taken EXCEPT ![s] = @ + 1], Len(queue') <= Len(queue) + 1,
             Len(queue') \in Nat
      PROVE  Len(queue') <= Total(Taken')
  <2>1. Total(Taken) \in Nat /\ Total([Taken EXCEPT ![s] = @ + 1]) = Total(Taken) + 1
    BY TakenTyped, TotalCounts
  <2> QED BY <1>0, <1>1, <2>1
<1>2. ASSUME Taken' = Taken, Len(queue') <= Len(queue), Len(queue') \in Nat
      PROVE  Len(queue') <= Total(Taken')
  <2>1. Total(Taken) \in Nat
    BY TakenTyped, TotalTyped
  <2> QED BY <1>0, <1>2, <2>1
<1>3. CASE UNCHANGED vars \/ Ended \/ main \/ reap
  <2>1. UNCHANGED <<sender, i, ret>>
    BY <1>3 DEF vars, Ended, main, sigaction, deliver, sig_action, print, reap
  <2>2. Taken' = Taken
    BY <2>1 DEF Taken, Finished
  <2>3. UNCHANGED queue \/ queue' = <<>> \/ (queue # <<>> /\ queue' = Tail(queue))
    BY <1>3 DEF vars, Ended, main, sigaction, deliver, sig_action, print, reap
  <2>4. Len(queue') <= Len(queue) /\ Len(queue') \in Nat
    BY <1>0, <2>3, EmptySeq
  <2> QED BY <1>2, <2>2, <2>4
<1>4. ASSUME NEW s \in Senders, unexpected_count(s) \/ run(s) PROVE Len(queue') <= Total(Taken')
  <2>0. sender[s] # "returned"
    BY <1>4 DEF unexpected_count, run, getrlimit, send_signal, send_end, send_fails
  <2>1. CASE unexpected_count(s) \/ getrlimit(s) \/ send_fails(s)
    <3>1. UNCHANGED <<queue, i>> /\ ~Finished(s) /\ ~Finished(s)'
          /\ \A u \in Senders : u # s => (Finished(u)' <=> Finished(u))
      BY <2>0, <2>1 DEF unexpected_count, getrlimit, send_fails, Return, Finished, Typed
    <3>2. \A u \in Senders : Finished(u)' <=> Finished(u)
      BY <3>1
    <3>3. Taken' = Taken
      BY <3>1, <3>2 DEF Taken
    <3> QED BY <1>0, <1>2, <3>1, <3>3
  <2>2. ASSUME NEW v \in {0, 1}, sigqueue(s, v)
        PROVE  Len(queue') <= Len(queue) + 1 /\ Len(queue') \in Nat
    <3>1. queue' = queue \/ queue' = Append(queue, [from |-> s, value |-> v])
      BY <2>2 DEF sigqueue
    <3> QED BY <1>0, <3>1
  <2>3. CASE send_signal(s)
    <3>1. sigqueue(s, 0) /\ i' = [i EXCEPT ![s] = @ + 1] /\ UNCHANGED <<sender, ret>>
      BY <2>3 DEF send_signal
    <3>2. ~Finished(s) /\ \A u \in Senders : Finished(u)' <=> Finished(u)
      BY <2>0, <3>1 DEF Finished
    <3>3. Taken' = [Taken EXCEPT ![s] = @ + 1]
      <4>1. \A u \in Senders : i'[u] = i[u] + (IF u = s THEN 1 ELSE 0) /\ i[u] \in Nat
        BY <3>1 DEF Typed
      <4>2. ASSUME NEW u \in Senders PROVE Taken'[u] = IF u = s THEN Taken[u] + 1 ELSE Taken[u]
        BY <3>2, <4>1 DEF Taken
      <4> QED BY <4>2, TakenIs
    <3> QED BY <1>1, <2>2, <3>1, <3>3
  <2>4. CASE send_end(s)
    <3>1. sigqueue(s, 1) /\ i' = i /\ ~Finished(s) /\ Finished(s)'
          /\ \A u \in Senders : u # s => (Finished(u)' <=> Finished(u))
      BY <2>0, <2>4 DEF send_end, Return, Finished, Typed
    <3>2. Taken' = [Taken EXCEPT ![s] = @ + 1]
      <4>1. ASSUME NEW u \in Senders PROVE Taken'[u] = IF u = s THEN Taken[u] + 1 ELSE Taken[u]
        BY <3>1 DEF Taken, Typed
      <4> QED BY <4>1, TakenIs
    <3> QED BY <1>1, <2>2, <3>1, <3>2
  <2> QED BY <1>4, <2>1, <2>3, <2>4 DEF run
<1> QED BY <1>3, <1>4 DEF Next

\* FailsOnlyOverLimit in terms of totals.
LEMMA WantedTotal ==
  /\ FailsOnlyOverLimit <=>
       \A s \in Senders : ret[s] = -3 => receiver = "reaped" \/ Total(Wanted) > soft_limit
  /\ FailsOnlyOverLimit' <=>
       \A s \in Senders : ret'[s] = -3 => receiver' = "reaped" \/ Total(Wanted') > soft_limit
<1>1. MapThenSumSet(LAMBDA t : IF asked[t] > 0 THEN asked[t] + 1 ELSE 0, Senders) = Total(Wanted)
  BY WantedSum DEF Wanted
<1>2. MapThenSumSet(LAMBDA t : IF asked[t] > 0 THEN asked[t] + 1 ELSE 0, Senders)' = Total(Wanted')
  <2>1. PICK a : a = asked'
    OBVIOUS
  <2>2. Wanted' = [s \in Senders |-> IF a[s] > 0 THEN a[s] + 1 ELSE 0]
    BY <2>1 DEF Wanted
  <2>3. PICK w : w = Wanted'
    OBVIOUS
  <2>4. MapThenSumSet(LAMBDA t : IF a[t] > 0 THEN a[t] + 1 ELSE 0, Senders) = Total(w)
    BY <2>2, <2>3, WantedSum
  <2>5. MapThenSumSet(LAMBDA t : IF asked[t] > 0 THEN asked[t] + 1 ELSE 0, Senders)'
          = MapThenSumSet(LAMBDA t : IF a[t] > 0 THEN a[t] + 1 ELSE 0, Senders)
    BY <2>1, Zenon DEF MapThenSumSet, MapThenFoldSet
  <2> QED BY <2>3, <2>4, <2>5
<1> QED BY <1>1, <1>2, Zenon DEF FailsOnlyOverLimit

\* What senders want are natural numbers.
LEMMA WantedTyped == Typed => Wanted \in [Senders -> Nat]
BY DEF Typed, Wanted

\* Who finds the queue full: the signal it is turned away with is one more than were taken.
LEMMA LimitStep ==
  Typed /\ Loops /\ AtMostTaken /\ FailsOnlyOverLimit /\ [Next]_vars => FailsOnlyOverLimit'
<1> SUFFICES ASSUME Typed, Loops, AtMostTaken, FailsOnlyOverLimit, [Next]_vars,
                    NEW u \in Senders, ret'[u] = -3
             PROVE  receiver' = "reaped" \/ Total(Wanted') > soft_limit
  BY WantedTotal
<1>0. /\ ret[u] = -3 => receiver = "reaped" \/ Total(Wanted) > soft_limit
      /\ Typed'
  BY WantedTotal, TypedStep
<1>1. receiver = "reaped" => receiver' = "reaped"
  BY DEF Next, main, sigaction, deliver, sig_action, print, reap, unexpected_count, run,
         getrlimit, send_signal, send_end, send_fails, receiverVars, Ended, vars
<1>2. ASSUME asked' = asked PROVE Total(Wanted') = Total(Wanted)
  BY <1>2 DEF Wanted
<1>3. CASE UNCHANGED vars \/ Ended \/ main \/ reap
  <2>1. UNCHANGED <<asked, ret>>
    BY <1>3 DEF vars, Ended, main, sigaction, deliver, sig_action, print, reap
  <2> QED BY <1>0, <1>1, <1>2, <2>1
<1>4. ASSUME NEW s \in Senders, unexpected_count(s) \/ run(s)
      PROVE  receiver' = "reaped" \/ Total(Wanted') > soft_limit
  <2>1. CASE unexpected_count(s) \/ send_end(s) \/ send_signal(s)
    <3>1. asked' = asked /\ ret[u] = -3
      BY <2>1 DEF unexpected_count, send_end, send_signal, Return, Typed
    <3> QED BY <1>0, <1>1, <1>2, <3>1
  <2>2. CASE getrlimit(s)
    <3>1. ret[u] = -3 /\ asked[s] > 0 /\ asked' = [asked EXCEPT ![s] = Limited(@)]
      BY <2>2 DEF getrlimit
    <3>2. CASE asked[s] < soft_limit
      <4>1. asked' = asked
        BY <3>1, <3>2, SignalsAssumption DEF Limited, Typed
      <4> QED BY <1>0, <1>1, <1>2, <3>1, <4>1
    <3>3. CASE ~(asked[s] < soft_limit)
      <4>1. PICK w : w = Wanted'
        OBVIOUS
      <4>2. w \in [Senders -> Nat] /\ w[s] = soft_limit + 1
        <5>1. asked' \in [Senders -> Int] /\ asked'[s] = soft_limit
          BY <1>0, <3>1, <3>3, SignalsAssumption DEF Limited, Typed
        <5> QED BY <4>1, <5>1, SignalsAssumption DEF Wanted
      <4>3. w[s] <= Total(w) /\ Total(w) \in Nat
        BY <4>2, PartOfTotal
      <4> QED BY <4>1, <4>2, <4>3, SignalsAssumption
    <3> QED BY <3>2, <3>3
  <2>3. CASE send_fails(s)
    <3>1. /\ asked' = asked /\ sender[s] = "sending"
          /\ receiver = "reaped" \/ Len(queue) = soft_limit
      BY <2>3 DEF send_fails, Refused
    <3>2. CASE Len(queue) = soft_limit
      <4>1. Total(Taken) + 1 <= Total(Wanted) /\ Total(Taken) \in Nat /\ Total(Wanted) \in Nat
        <5>1. Taken \in [Senders -> Nat] /\ Wanted \in [Senders -> Nat]
          BY TakenTyped, WantedTyped
        <5>2. ASSUME NEW x \in Senders PROVE Taken[x] <= Wanted[x]
          <6>1. /\ asked[x] > 0 => i[x] <= asked[x]
                /\ asked[x] <= 0 => i[x] = 0 /\ ~Finished(x)
            BY DEF Loops, Typed, Finished
          <6> QED BY <6>1 DEF Taken, Wanted, Typed
        <5>3. Taken[s] + 1 <= Wanted[s]
          BY <3>1 DEF Taken, Wanted, Loops, Finished, Typed
        <5>4. PICK f \in [Senders -> Nat], e \in [Senders -> Nat] : f = Taken /\ e = Wanted
          BY <5>1
        <5>5. Total(f) + 1 <= Total(e) /\ Total(f) \in Nat /\ Total(e) \in Nat
          BY <5>2, <5>3, <5>4, TotalsCompare
        <5> QED BY <5>4, <5>5
      <4> QED BY <1>2, <3>1, <3>2, <4>1, SignalsAssumption DEF AtMostTaken
    <3> QED BY <1>1, <3>1, <3>2
  <2> QED BY <1>4, <2>1, <2>2, <2>3 DEF run
<1> QED BY <1>3, <1>4 DEF Next

-----------------------------------------------------------------------------
(* What holds of Studio18. *)

\* The invariant holds at the start.
LEMMA InitIInv == Init => IInv
<1> SUFFICES ASSUME Init PROVE IInv
  OBVIOUS
<1>0. queue = <<>> /\ DOMAIN queue = {} /\ Len(queue) = 0
  BY EmptySeq DEF Init
<1>1. Typed
  BY <1>0, EmptySeq DEF Init, Typed
<1>2. Loops /\ EndsLast /\ EndHandled /\ EndComesLast
  BY <1>0 DEF Init, Loops, EndsLast, EndHandled, EndComesLast, Finished
<1>3. Zeros = {} /\ \A s \in Senders : Places(queue, SentBy(s)) = {}
  BY <1>0 DEF Zeros, Places
<1>4. Cardinality({}) = 0
  BY FS_EmptySet
<1>5. Handled = 0 /\ count = 0 /\ i = [s \in Senders |-> 0]
  BY DEF Init, Handled
<1>6. CountedOrQueued
  BY <1>3, <1>4, <1>5 DEF CountedOrQueued
<1>7. PICK z \in [Senders -> Nat] : z = [s \in Senders |-> 0] /\ Total(z) \in Nat
  <2>1. [s \in Senders |-> 0] \in [Senders -> Nat]
    OBVIOUS
  <2> QED BY <2>1, TotalTyped
<1>8. Total(z) = 0
  <2>1. PICK g : /\ g \in [SUBSET Senders -> Nat]
                 /\ \A s \in SUBSET Senders : g[s] = SumOf(z, s, g)
                 /\ Total(z) = g[Senders]
    BY SumIs
  <2> DEFINE B == {Cardinality(s) : s \in {r \in SUBSET Senders : g[r] # 0}}
  <2>2. B \in SUBSET Nat
    BY SignalsAssumption, FS_Subset, FS_CardinalityType
  <2>3. SUFFICES ASSUME B # {} PROVE FALSE
    BY <2>1
  <2>4. PICK m \in B : \A x \in B : m <= x
    <3> HIDE DEF B
    <3> QED BY <2>2, <2>3, LeastNumber
  <2>5. PICK s \in SUBSET Senders : m = Cardinality(s) /\ g[s] # 0
    BY <2>4
  <2>6. s # {} /\ g[s] = z[First(s)] + g[s \ {First(s)}]
    BY <2>1, <2>5 DEF SumOf
  <2> DEFINE r == s \ {First(s)}
  <2>7. /\ r \in SUBSET Senders /\ Cardinality(r) = m - 1 /\ m \in Nat \ {0}
        /\ First(s) \in Senders
    BY <2>5, <2>6, SignalsAssumption, WithoutFirst
  <2>8. g[r] # 0
    BY <1>7, <2>1, <2>5, <2>6, <2>7
  <2>9. m - 1 \in B
    BY <2>7, <2>8
  <2> HIDE DEF B
  <2> QED BY <2>4, <2>7, <2>9
<1>9. NoneLost
  BY <1>3, <1>4, <1>5, <1>7, <1>8, SentTotal DEF NoneLost
<1>10. AtMostTaken
  <2>1. Total(Taken) \in Nat
    BY <1>1, TakenTyped, TotalTyped
  <2> QED BY <1>0, <2>1 DEF AtMostTaken
<1>11. FailsOnlyOverLimit
  <2>1. \A s \in Senders : ret[s] # -3
    BY DEF Init
  <2> QED BY <2>1, WantedTotal
<1> QED BY <1>1, <1>2, <1>6, <1>9, <1>10, <1>11 DEF IInv

\* The invariant holds in every state of the sender and the receiver.
LEMMA Inductive == Spec => []IInv
<1>1. IInv /\ [Next]_vars => IInv'
  BY TypedStep, LoopsStep, EndsLastStep, CountedOrQueuedStep, EndStep, AtMostTakenStep,
     NoneLostStep, LimitStep DEF IInv
<1> QED BY <1>1, InitIInv, PTL DEF Spec

\* Every signal that sigqueue took while the receiver lived is counted by its handler,
\* is being handled or still queued, for any number of senders (sender.c, receiver.c).
THEOREM NoSignalLost == Spec => []NoneLost
<1>1. IInv => NoneLost
  BY DEF IInv
<1> QED BY <1>1, Inductive, PTL

\* When the receiver takes a signal for the end, it has counted all that some sender
\* was asked for, because signals arrive in the order they were queued in.
THEOREM EndIsLast == Spec => []EndComesLast
<1>1. IInv => EndComesLast
  BY DEF IInv
<1> QED BY <1>1, Inductive, PTL

\* No sender is turned away while all that the senders were asked for, an end for
\* each included, is within RLIMIT_SIGPENDING, however they interleave.
THEOREM TurnedAwayOverLimit == Spec => []FailsOnlyOverLimit
<1>1. IInv => FailsOnlyOverLimit
  BY DEF IInv
<1> QED BY <1>1, Inductive, PTL
-----------------------------------------------------------------------------
(***************************************************************************)
(* Studio16.  FlattenSeq takes one sequence after another.                 *)
(***************************************************************************)

\* The sequences flattened so far, for each of them.
FlattensTo(seqs, n, f) ==
  f = [k \in 1 .. n |-> IF k = 1 THEN seqs[k] ELSE f[k - 1] \o seqs[k]]

\* There is such a function: with one for n - 1 sequences there is one for n.
LEMMA FlattensToExists ==
  ASSUME NEW seqs, NEW n \in Nat \ {0}
  PROVE  \E f : FlattensTo(seqs, n, f)
<1> DEFINE B == {k \in Nat \ {0} : ~\E f : FlattensTo(seqs, k, f)}
<1>1. SUFFICES ASSUME B # {} PROVE FALSE
  BY <1>1
<1>2. B \in SUBSET Nat
  OBVIOUS
<1>3. PICK m \in B : \A x \in B : m <= x
  <2> HIDE DEF B
  <2> QED BY <1>1, <1>2, LeastNumber
<1>4. m \in Nat \ {0} /\ ~\E f : FlattensTo(seqs, m, f)
  OBVIOUS
<1>5. CASE m = 1
  <2> DEFINE g == [k \in 1 .. 1 |-> seqs[k]]
  <2>1. g = [k \in 1 .. 1 |-> IF k = 1 THEN seqs[k] ELSE g[k - 1] \o seqs[k]]
    OBVIOUS
  <2> HIDE DEF g
  <2>2. FlattensTo(seqs, m, g)
    BY <1>5, <2>1 DEF FlattensTo
  <2> QED BY <1>4, <2>2
<1>6. CASE m > 1
  <2>1. m - 1 \in Nat \ {0} /\ ~(m <= m - 1)
    BY <1>4, <1>6
  <2>2. PICK f : FlattensTo(seqs, m - 1, f)
    BY <1>3, <2>1
  <2> DEFINE g == [k \in 1 .. m |-> IF k < m THEN f[k] ELSE f[m - 1] \o seqs[m]]
  <2>3. ASSUME NEW k \in 1 .. m
        PROVE  g[k] = IF k = 1 THEN seqs[k] ELSE g[k - 1] \o seqs[k]
    <3>1. CASE k = m
      BY <1>4, <1>6, <3>1
    <3>2. CASE k < m
      <4>1. k \in 1 .. m - 1 /\ g[k] = f[k] /\ (k # 1 => g[k - 1] = f[k - 1])
        BY <1>4, <3>2
      <4>2. f[k] = IF k = 1 THEN seqs[k] ELSE f[k - 1] \o seqs[k]
        BY <2>2, <4>1 DEF FlattensTo
      <4> QED BY <4>1, <4>2
    <3> QED BY <1>4, <3>1, <3>2
  <2>4. FlattensTo(seqs, m, g)
    BY <2>3 DEF FlattensTo
  <2> HIDE DEF g
  <2> QED BY <1>4, <2>4
<1> QED BY <1>4, <1>5, <1>6

\* FlattenSeq goes through the sequences from the first to the last.
LEMMA FlattenSeqIs ==
  ASSUME NEW S, NEW seqs \in Seq(Seq(S)), seqs # <<>>
  PROVE  \E f : /\ f[1] = seqs[1]
                /\ \A k \in 2 .. Len(seqs) : f[k] = f[k - 1] \o seqs[k]
                /\ \A k \in 1 .. Len(seqs) : f[k] \in Seq(S)
                /\ FlattenSeq(seqs) = f[Len(seqs)]
<1> DEFINE n == Len(seqs)
           f == CHOOSE g : FlattensTo(seqs, n, g)
<1>1. n \in Nat \ {0} /\ \A k \in 1 .. n : seqs[k] \in Seq(S)
  BY EmptySeq, ElementOfSeq
<1>2. FlattensTo(seqs, n, f)
  <2> HIDE DEF n
  <2> QED BY <1>1, FlattensToExists
<1>3. FlattenSeq(seqs) = f[n]
  BY <1>1, Zenon DEF FlattenSeq, FlattensTo
<1> HIDE DEF f, n
<1>4. \A k \in 1 .. n : f[k] = IF k = 1 THEN seqs[k] ELSE f[k - 1] \o seqs[k]
  <2> DEFINE h == [k \in 1 .. n |-> IF k = 1 THEN seqs[k] ELSE f[k - 1] \o seqs[k]]
  <2>1. f = h
    BY <1>2 DEF FlattensTo
  <2>2. \A k \in 1 .. n : h[k] = IF k = 1 THEN seqs[k] ELSE f[k - 1] \o seqs[k]
    OBVIOUS
  <2> HIDE DEF h
  <2> QED BY <2>1, <2>2
<1>5. f[1] = seqs[1] /\ \A k \in 2 .. n : f[k] = f[k - 1] \o seqs[k]
  <2>1. 1 \in 1 .. n
    BY <1>1
  <2>2. ASSUME NEW k \in 2 .. n PROVE f[k] = f[k - 1] \o seqs[k]
    <3>1. k \in 1 .. n /\ k # 1
      BY <1>1
    <3> QED BY <1>4, <3>1
  <2> QED BY <1>4, <2>1, <2>2
<1>6. \A k \in 1 .. n : f[k] \in Seq(S)
  <2> DEFINE B == {k \in 1 .. n : f[k] \notin Seq(S)}
  <2>1. SUFFICES ASSUME B # {} PROVE FALSE
    OBVIOUS
  <2>2. B \in SUBSET Nat
    OBVIOUS
  <2>3. PICK m \in B : \A x \in B : m <= x
    <3> HIDE DEF B
    <3> QED BY <2>1, <2>2, LeastNumber
  <2>4. m \in 1 .. n /\ f[m] \notin Seq(S)
    OBVIOUS
  <2>5. m # 1
    BY <1>1, <1>5, <2>4
  <2>6. m - 1 \in 1 .. n /\ ~(m <= m - 1) /\ m \in 2 .. n
    BY <1>1, <2>4, <2>5
  <2>7. f[m - 1] \in Seq(S)
    BY <2>3, <2>6
  <2>8. f[m] = f[m - 1] \o seqs[m] /\ seqs[m] \in Seq(S)
    BY <1>1, <1>5, <2>4, <2>6
  <2>9. f[m - 1] \o seqs[m] \in Seq(S)
    BY <2>7, <2>8, ConcatProperties
  <2> QED BY <2>4, <2>8, <2>9
<1> QED BY <1>3, <1>5, <1>6 DEF n

\* One more sequence comes after what was flattened before.
LEMMA FlattenAppend ==
  ASSUME NEW S, NEW s \in Seq(Seq(S)), NEW x \in Seq(S)
  PROVE  /\ FlattenSeq(s) \in Seq(S)
         /\ FlattenSeq(Append(s, x)) = FlattenSeq(s) \o x
<1> DEFINE t == Append(s, x)
           n == Len(s)
<1>1. /\ t \in Seq(Seq(S)) /\ Len(t) = n + 1 /\ n \in Nat /\ t[n + 1] = x
      /\ \A k \in 1 .. n : t[k] = s[k]
  BY AppendProperties, LenProperties
<1>2. t # <<>>
  BY <1>1, EmptySeq
<1>3. PICK f : /\ f[1] = t[1]
               /\ \A k \in 2 .. Len(t) : f[k] = f[k - 1] \o t[k]
               /\ \A k \in 1 .. Len(t) : f[k] \in Seq(S)
               /\ FlattenSeq(t) = f[Len(t)]
  <2> HIDE DEF t
  <2> QED BY <1>1, <1>2, FlattenSeqIs
<1>4. CASE s = <<>>
  <2>1. n = 0 /\ FlattenSeq(s) = <<>>
    BY <1>4, EmptySeq DEF FlattenSeq
  <2>2. FlattenSeq(t) = x
    <3> HIDE DEF n, t
    <3> QED BY <1>1, <1>3, <2>1
  <2> HIDE DEF t
  <2> QED BY <2>1, <2>2, EmptySeq, ConcatEmptySeq DEF t
<1>5. CASE s # <<>>
  <2>1. n \in Nat \ {0}
    BY <1>5, EmptySeq
  <2>2. PICK g : /\ g[1] = s[1]
                 /\ \A k \in 2 .. n : g[k] = g[k - 1] \o s[k]
                 /\ \A k \in 1 .. n : g[k] \in Seq(S)
                 /\ FlattenSeq(s) = g[n]
    BY <1>5, FlattenSeqIs
  <2> HIDE DEF n, t
  <2>3. ASSUME NEW k \in 1 .. n, f[k] # g[k] PROVE FALSE
    <3> DEFINE B == {j \in 1 .. n : f[j] # g[j]}
    <3>1. B \in SUBSET Nat /\ B # {}
      BY <2>1, <2>3
    <3>2. PICK m \in B : \A y \in B : m <= y
      <4> HIDE DEF B
      <4> QED BY <3>1, LeastNumber
    <3>3. m \in 1 .. n /\ f[m] # g[m]
      OBVIOUS
    <3>4. m # 1
      BY <1>1, <1>3, <2>1, <2>2, <3>3
    <3>5. m - 1 \in 1 .. n /\ m \in 2 .. n /\ m \in 2 .. Len(t) /\ ~(m <= m - 1)
      BY <1>1, <3>3, <3>4
    <3>6. f[m - 1] = g[m - 1]
      BY <3>2, <3>5
    <3> HIDE DEF B
    <3> QED BY <1>1, <1>3, <2>2, <3>3, <3>5, <3>6
  <2>4. f[n + 1] = f[n] \o x /\ f[n] = g[n]
    <3>1. n \in 1 .. n /\ n + 1 \in 2 .. Len(t) /\ (n + 1) - 1 = n
      BY <1>1, <2>1
    <3> QED BY <1>1, <1>3, <2>3, <3>1
  <2>5. g[n] \in Seq(S)
    BY <2>1, <2>2
  <2> QED BY <1>1, <1>3, <2>2, <2>4, <2>5 DEF t
<1> QED BY <1>4, <1>5

-----------------------------------------------------------------------------
(* What a client sends. *)

Body(c) == IF local THEN Data ELSE IF short_flag[c] THEN send_short ELSE send_array

NumbersTyped ==
  /\ local \in BOOLEAN
  /\ client \in [Clients -> {"away", "refused", "connected", "sent", "killed"}]
  /\ short_flag \in [Clients -> BOOLEAN]
  /\ quit_flag \in [Clients -> BOOLEAN]
  /\ socket \in [Clients -> Seq(Nat)]
  /\ backlog \in Seq(Clients)
  /\ pc \in {"accept", "code", "short", "length", "array", "ended"}
  /\ data_fp \in Seq(Clients)
  /\ end \in BOOLEAN
  /\ unread \in Nat
  /\ printed \in Seq(Nat)

\* The data are the numbers below DATA_MAX, in order.
LEMMA DataIs ==
  /\ Data \in Seq(Nat)
  /\ Len(Data) = DATA_MAX
  /\ \A n \in 1 .. DATA_MAX : Data[n] = n - 1
<1>1. DATA_MAX \in Nat
  BY NumbersAssumption
<1>2. \A n \in 1 .. DATA_MAX : n - 1 \in Nat
  BY <1>1
<1>3. Data \in [1 .. DATA_MAX -> Nat]
  BY <1>2 DEF Data
<1> QED BY <1>1, <1>3 DEF Data

\* In the form "short" a code comes before each of them.
LEMMA ShortIs ==
  /\ send_short \in Seq(Nat)
  /\ Len(send_short) = 2 * DATA_MAX
  /\ \A p \in 0 .. DATA_MAX - 1 :
       send_short[2 * p + 1] = SHORT_CODE /\ send_short[2 * p + 2] = Data[p + 1]
<1>1. DATA_MAX \in Nat /\ SHORT_CODE \in Nat
  BY NumbersAssumption
<1>2. \A n \in 1 .. 2 * DATA_MAX : n % 2 # 1 => n \div 2 \in 1 .. DATA_MAX
  BY <1>1
<1>3. \A n \in 1 .. DATA_MAX : Data[n] \in Nat
  BY DataIs, <1>1
<1>4. \A n \in 1 .. 2 * DATA_MAX : (IF n % 2 = 1 THEN SHORT_CODE ELSE Data[n \div 2]) \in Nat
  BY <1>1, <1>2, <1>3
<1>5. send_short \in [1 .. 2 * DATA_MAX -> Nat] /\ 2 * DATA_MAX \in Nat
  BY <1>1, <1>4 DEF send_short
<1>6. ASSUME NEW p \in 0 .. DATA_MAX - 1
      PROVE  send_short[2 * p + 1] = SHORT_CODE /\ send_short[2 * p + 2] = Data[p + 1]
  <2>1. /\ 2 * p + 1 \in 1 .. 2 * DATA_MAX /\ (2 * p + 1) % 2 = 1
        /\ 2 * p + 2 \in 1 .. 2 * DATA_MAX /\ (2 * p + 2) % 2 # 1 /\ (2 * p + 2) \div 2 = p + 1
    BY <1>1
  <2> QED BY <2>1 DEF send_short
<1> QED BY <1>5, <1>6

\* In the form "array" one code comes before their number, and all of them.
LEMMA ArrayIs ==
  /\ send_array \in Seq(Nat)
  /\ Len(send_array) = DATA_MAX + 2
  /\ send_array[1] = ARRAY_CODE /\ send_array[2] = DATA_MAX
  /\ \A p \in 0 .. DATA_MAX - 1 : send_array[p + 3] = Data[p + 1]
<1>1. DATA_MAX \in Nat /\ ARRAY_CODE \in Nat
  BY NumbersAssumption
<1> DEFINE h == <<ARRAY_CODE, DATA_MAX>>
<1>2. h \in Seq(Nat) /\ Len(h) = 2 /\ h[1] = ARRAY_CODE /\ h[2] = DATA_MAX
  BY <1>1
<1>3. send_array = h \o Data
  BY DEF send_array
<1> HIDE DEF h
<1>4. /\ send_array \in Seq(Nat) /\ Len(send_array) = Len(h) + Len(Data)
      /\ \A n \in 1 .. Len(h) + Len(Data) :
           send_array[n] = IF n <= Len(h) THEN h[n] ELSE Data[n - Len(h)]
  BY <1>2, <1>3, DataIs, ConcatProperties
<1>5. \A n \in 1 .. 2 + DATA_MAX : send_array[n] = IF n <= 2 THEN h[n] ELSE Data[n - 2]
  BY <1>2, <1>4, DataIs
<1>6. 1 \in 1 .. 2 + DATA_MAX /\ 2 \in 1 .. 2 + DATA_MAX
  BY <1>1
<1>7. ASSUME NEW p \in 0 .. DATA_MAX - 1 PROVE send_array[p + 3] = Data[p + 1]
  <2>1. p + 3 \in 1 .. 2 + DATA_MAX /\ ~(p + 3 <= 2) /\ (p + 3) - 2 = p + 1
    BY <1>1
  <2> QED BY <1>5, <2>1
<1> QED BY <1>1, <1>2, <1>4, <1>5, <1>6, <1>7, DataIs

\* A message is the client's data in its form, and END_CODE when it is told to quit.
LEMMA MessageIs ==
  ASSUME NumbersTyped, NEW c \in Clients
  PROVE  /\ Body(c) \in Seq(Nat) /\ Len(Body(c)) \in Nat
         /\ Message(c) \in Seq(Nat)
         /\ Len(Message(c)) = Len(Body(c)) + (IF quit_flag[c] THEN 1 ELSE 0)
         /\ \A n \in 1 .. Len(Body(c)) : Message(c)[n] = Body(c)[n]
         /\ quit_flag[c] => Message(c)[Len(Body(c)) + 1] = END_CODE
<1>1. END_CODE \in Nat /\ quit_flag[c] \in BOOLEAN
  BY NumbersAssumption DEF NumbersTyped
<1>2. Body(c) \in Seq(Nat) /\ Len(Body(c)) \in Nat
  BY DataIs, ShortIs, ArrayIs, LenProperties DEF Body
<1>3. /\ end_code(c) \in Seq(Nat)
      /\ Len(end_code(c)) = IF quit_flag[c] THEN 1 ELSE 0
      /\ quit_flag[c] => end_code(c)[1] = END_CODE
  BY <1>1 DEF end_code
<1>4. Message(c) = Body(c) \o end_code(c)
  BY DEF Message, Body
<1> HIDE DEF Body, Message, end_code
<1>5. /\ Message(c) \in Seq(Nat) /\ Len(Message(c)) = Len(Body(c)) + Len(end_code(c))
      /\ \A n \in 1 .. Len(Body(c)) + Len(end_code(c)) :
           Message(c)[n] = IF n <= Len(Body(c)) THEN Body(c)[n] ELSE end_code(c)[n - Len(Body(c))]
  BY <1>2, <1>3, <1>4, ConcatProperties
<1>6. ASSUME NEW n \in 1 .. Len(Body(c)) PROVE Message(c)[n] = Body(c)[n]
  <2>1. n \in 1 .. Len(Body(c)) + Len(end_code(c)) /\ n <= Len(Body(c))
    BY <1>2, <1>3
  <2> QED BY <1>5, <2>1
<1>7. ASSUME quit_flag[c] PROVE Message(c)[Len(Body(c)) + 1] = END_CODE
  <2>1. /\ Len(Body(c)) + 1 \in 1 .. Len(Body(c)) + Len(end_code(c))
        /\ ~(Len(Body(c)) + 1 <= Len(Body(c)))
        /\ (Len(Body(c)) + 1) - Len(Body(c)) = 1
    BY <1>2, <1>3, <1>7
  <2> QED BY <1>3, <1>5, <1>7, <2>1
<1> QED BY <1>2, <1>3, <1>5, <1>6, <1>7

\* Every entry of the message, by its form.
LEMMA EntryIs ==
  ASSUME NumbersTyped, NEW c \in Clients
  PROVE  LET L == Len(Message(c))
             M == Message(c)
             q == IF quit_flag[c] THEN 1 ELSE 0
         IN  /\ local => /\ L = DATA_MAX + q
                         /\ \A p \in 0 .. DATA_MAX - 1 : M[p + 1] = p
                         /\ quit_flag[c] => M[DATA_MAX + 1] = END_CODE
             /\ ~local /\ short_flag[c] =>
                  /\ L = 2 * DATA_MAX + q
                  /\ \A p \in 0 .. DATA_MAX - 1 : M[2 * p + 1] = SHORT_CODE /\ M[2 * p + 2] = p
                  /\ quit_flag[c] => M[2 * DATA_MAX + 1] = END_CODE
             /\ ~local /\ ~short_flag[c] =>
                  /\ L = DATA_MAX + 2 + q
                  /\ M[1] = ARRAY_CODE /\ M[2] = DATA_MAX
                  /\ \A p \in 0 .. DATA_MAX - 1 : M[p + 3] = p
                  /\ quit_flag[c] => M[DATA_MAX + 3] = END_CODE
<1>1. DATA_MAX \in Nat
  BY NumbersAssumption
<1>2. \A p \in 0 .. DATA_MAX - 1 : p + 1 \in 1 .. DATA_MAX /\ (p + 1) - 1 = p
  BY <1>1
<1>3. \A p \in 0 .. DATA_MAX - 1 : Data[p + 1] = p
  BY <1>2, DataIs
<1> DEFINE B == Body(c)
           M == Message(c)
           q == IF quit_flag[c] THEN 1 ELSE 0
<1>4. /\ Len(M) = Len(B) + q
      /\ \A n \in 1 .. Len(B) : M[n] = B[n]
      /\ quit_flag[c] => M[Len(B) + 1] = END_CODE
  BY MessageIs
<1>5. /\ local => B = Data
      /\ ~local /\ short_flag[c] => B = send_short
      /\ ~local /\ ~short_flag[c] => B = send_array
  BY DEF Body
<1> HIDE DEF B, M, q
<1>6. CASE local
  BY <1>1, <1>2, <1>3, <1>4, <1>5, <1>6, DataIs DEF M, q
<1>7. CASE ~local /\ short_flag[c]
  <2>1. Len(B) = 2 * DATA_MAX
    BY <1>5, <1>7, ShortIs
  <2>2. ASSUME NEW p \in 0 .. DATA_MAX - 1
        PROVE  M[2 * p + 1] = SHORT_CODE /\ M[2 * p + 2] = p
    <3>1. 2 * p + 1 \in 1 .. 2 * DATA_MAX /\ 2 * p + 2 \in 1 .. 2 * DATA_MAX
      BY <1>1
    <3> QED BY <1>3, <1>4, <1>5, <1>7, <2>1, <3>1, ShortIs
  <2> QED BY <1>4, <1>7, <2>1, <2>2 DEF M, q
<1>8. CASE ~local /\ ~short_flag[c]
  <2>1. Len(B) = DATA_MAX + 2
    BY <1>5, <1>8, ArrayIs
  <2>2. ASSUME NEW p \in 0 .. DATA_MAX - 1 PROVE M[p + 3] = p
    <3>1. p + 3 \in 1 .. DATA_MAX + 2
      BY <1>1
    <3> QED BY <1>3, <1>4, <1>5, <1>8, <2>1, <3>1, ArrayIs
  <2>3. 1 \in 1 .. DATA_MAX + 2 /\ 2 \in 1 .. DATA_MAX + 2 /\ (DATA_MAX + 2) + 1 = DATA_MAX + 3
    BY <1>1
  <2>4. M[1] = ARRAY_CODE /\ M[2] = DATA_MAX
    BY <1>4, <1>5, <1>8, <2>1, <2>3, ArrayIs
  <2> QED BY <1>4, <1>8, <2>1, <2>2, <2>3, <2>4 DEF M, q
<1> QED BY <1>6, <1>7, <1>8

-----------------------------------------------------------------------------
(* Where the server is in the message of the connection it reads. *)

Reading == pc \in {"code", "short", "length", "array"}

Asked(c) == client[c] = "sent" /\ quit_flag[c]

\* The connections that are over.
Over == IF Reading THEN Len(data_fp) - 1 ELSE Len(data_fp)

Wholes == [k \in 1 .. Over |-> Whole(data_fp[k])]
Before == FlattenSeq(Wholes)

\* How much of the message of c is read.
Got(c) == Len(Message(c)) - Len(socket[c])

\* The socket holds the rest of the message.
SocketIsRest(c) ==
  /\ Got(c) \in Nat
  /\ \A n \in 1 .. Len(socket[c]) : socket[c][n] = Message(c)[Got(c) + n]

\* Where in each form the server is when it has printed p numbers.
PlainPlace(got, p) == got = p /\ pc = "code" /\ unread = 0

ShortPlace(got, p) ==
  /\ unread = 0
  /\ \/ got = 2 * p /\ pc = "code"
     \/ got = 2 * p + 1 /\ p < DATA_MAX /\ pc = "short"

ArrayPlace(got, p) ==
  \/ got = 0 /\ p = 0 /\ pc = "code" /\ unread = 0
  \/ got = 1 /\ p = 0 /\ pc = "length" /\ unread = 0
  \/ got = p + 2 /\ p < DATA_MAX /\ pc = "array" /\ unread = DATA_MAX - p
  \/ got = p + 2 /\ p = DATA_MAX /\ pc = "code" /\ unread = 0

EndPlace(c, p) ==
  /\ ~local /\ quit_flag[c]
  /\ Got(c) = Len(Message(c)) /\ p = DATA_MAX
  /\ pc = "code" /\ unread = 0

Place(c, p) ==
  IF end THEN EndPlace(c, p)
  ELSE IF local THEN PlainPlace(Got(c), p)
  ELSE IF short_flag[c] THEN ShortPlace(Got(c), p)
  ELSE ArrayPlace(Got(c), p)

(***************************************************************************)
(* The invariant.                                                          *)
(***************************************************************************)

\* Nothing is in the socket of a client that has sent nothing.
SocketInv == \A c \in Clients : client[c] # "sent" => socket[c] = <<>>

\* Who waits in the backlog has connected, waits once, and nothing of its is read.
BacklogInv ==
  /\ \A j, k \in 1 .. Len(backlog) : backlog[j] = backlog[k] => j = k
  /\ \A k \in 1 .. Len(backlog) :
       /\ client[backlog[k]] \in {"connected", "sent", "killed"}
       /\ client[backlog[k]] = "sent" => socket[backlog[k]] = Message(backlog[k])
  /\ pc = "ended" => backlog = <<>>

\* A connection that is over has not asked for the end, unless it was the last.
OverInv ==
  /\ pc # "accept" => data_fp # <<>>
  /\ \A k \in 1 .. Over :
       /\ client[data_fp[k]] \in {"sent", "killed"}
       /\ Asked(data_fp[k]) <=> pc = "ended" /\ k = Len(data_fp)
  /\ pc = "accept" => ~end /\ unread = 0
  /\ ~Reading => printed = Before

\* What is left of the message being read fits where the server is and what it printed.
CurrentInv(c) ==
  /\ client[c] \in {"connected", "sent", "killed"}
  /\ \A k \in 1 .. Len(backlog) : backlog[k] # c
  /\ client[c] = "sent" =>
       /\ SocketIsRest(c)
       /\ \E p \in 0 .. DATA_MAX : Place(c, p) /\ printed = Before \o SubSeq(Data, 1, p)
  /\ client[c] # "sent" => pc = "code" /\ unread = 0 /\ ~end /\ printed = Before

NumbersInv ==
  /\ NumbersTyped /\ SocketInv /\ BacklogInv /\ OverInv
  /\ Reading => CurrentInv(Current)

(***************************************************************************)
(* What the steps share.                                                   *)
(***************************************************************************)

\* The connection being read is one of the clients.
LEMMA CurrentIs ==
  ASSUME NumbersTyped, data_fp # <<>>
  PROVE  Current \in Clients /\ Len(data_fp) \in Nat \ {0} /\ Current = data_fp[Len(data_fp)]
<1>1. data_fp \in Seq(Clients)
  BY DEF NumbersTyped
<1>2. Len(data_fp) \in Nat \ {0}
  BY <1>1, EmptySeq
<1>3. Len(data_fp) \in 1 .. Len(data_fp)
  BY <1>2
<1>4. data_fp[Len(data_fp)] \in Clients
  BY <1>1, <1>3, ElementOfSeq
<1> QED BY <1>2, <1>4 DEF Current, Last

\* What is printed of the connections that are over is a sequence of data.
LEMMA WholesTyped ==
  ASSUME NumbersTyped, OverInv
  PROVE  /\ Over \in Nat /\ Over <= Len(data_fp)
         /\ Wholes \in Seq(Seq(Nat)) /\ Len(Wholes) = Over
         /\ Before \in Seq(Nat)
<1>1. data_fp \in Seq(Clients) /\ Len(data_fp) \in Nat
  BY LenProperties DEF NumbersTyped
<1>2. Over \in Nat /\ Over <= Len(data_fp)
  <2>1. CASE Reading
    <3>1. data_fp # <<>>
      BY <2>1 DEF OverInv, Reading
    <3> QED BY <1>1, <2>1, <3>1, CurrentIs DEF Over
  <2>2. CASE ~Reading
    BY <1>1, <2>2 DEF Over
  <2> QED BY <2>1, <2>2
<1>3. \A k \in 1 .. Over : Whole(data_fp[k]) \in Seq(Nat)
  BY DataIs, EmptySeq DEF Whole
<1>4. Wholes \in [1 .. Over -> Seq(Nat)]
  BY <1>3 DEF Wholes
<1>5. Wholes \in Seq(Seq(Nat)) /\ Len(Wholes) = Over
  BY <1>2, <1>4
<1>6. Before \in Seq(Nat)
  <2>1. <<>> \in Seq(Nat)
    OBVIOUS
  <2> QED BY <1>5, <2>1, FlattenAppend DEF Before
<1> QED BY <1>2, <1>5, <1>6

\* As long as the connections that are over stay what they are, so does what is
\* printed of them.
LEMMA WholesStay ==
  ASSUME Over' = Over,
         \A k \in 1 .. Over : data_fp'[k] = data_fp[k] /\ client'[data_fp[k]] = client[data_fp[k]]
  PROVE  Before' = Before
<1>1. \A k \in 1 .. Over : Whole(data_fp[k])' = Whole(data_fp[k])
  BY DEF Whole, Data
<1>2. Wholes' = Wholes
  BY <1>1 DEF Wholes
<1> QED BY <1>2 DEF Before

\* One number of the socket is read.
LEMMA OneRead ==
  ASSUME NumbersTyped, NEW c \in Clients, socket[c] # <<>>, SocketIsRest(c),
         socket' = [socket EXCEPT ![c] = Tail(@)], UNCHANGED <<local, short_flag, quit_flag>>
  PROVE  /\ Got(c) + 1 \in 1 .. Len(Message(c))
         /\ Head(socket[c]) = Message(c)[Got(c) + 1]
         /\ Message(c)' = Message(c)
         /\ Got(c)' = Got(c) + 1
         /\ SocketIsRest(c)'
         /\ socket' \in [Clients -> Seq(Nat)]
<1>1. socket \in [Clients -> Seq(Nat)] /\ socket[c] \in Seq(Nat)
  BY DEF NumbersTyped
<1>2. Message(c)' = Message(c)
  BY DEF Message, end_code, Data, send_short, send_array
<1> DEFINE s == socket[c]
           t == Tail(socket[c])
           M == Message(c)
<1>3. /\ t \in Seq(Nat) /\ Len(t) = Len(s) - 1 /\ Len(s) \in Nat \ {0}
      /\ \A n \in 1 .. Len(t) : t[n] = s[n + 1]
      /\ Head(s) = s[1]
  BY <1>1, HeadTailProperties, EmptySeq
<1>4. socket'[c] = t /\ socket' \in [Clients -> Seq(Nat)]
  BY <1>1, <1>3
<1>5. Len(M) \in Nat
  BY MessageIs, LenProperties
<1>6. Got(c) = Len(M) - Len(s) /\ Got(c)' = Len(M) - Len(t)
  BY <1>2, <1>4 DEF Got
<1>7. Got(c) \in Nat /\ \A n \in 1 .. Len(s) : s[n] = M[Got(c) + n]
  BY DEF SocketIsRest
<1> HIDE DEF s, t, M
<1>8. Got(c)' = Got(c) + 1 /\ Got(c) + 1 \in 1 .. Len(M)
  BY <1>3, <1>5, <1>6, <1>7
<1>9. Head(s) = M[Got(c) + 1]
  <2>1. 1 \in 1 .. Len(s)
    BY <1>3
  <2> QED BY <1>3, <1>7, <2>1
<1>10. ASSUME NEW n \in 1 .. Len(t) PROVE t[n] = M[(Got(c) + 1) + n]
  <2>1. n + 1 \in 1 .. Len(s) /\ Got(c) + (n + 1) = (Got(c) + 1) + n
    BY <1>3, <1>7
  <2> QED BY <1>3, <1>7, <2>1
<1>11. SocketIsRest(c)'
  <2>1. Got(c)' \in Nat
    BY <1>7, <1>8
  <2>2. \A n \in 1 .. Len(t) : t[n] = M[Got(c)' + n]
    BY <1>8, <1>10
  <2>3. \A n \in 1 .. Len(socket'[c]) : socket'[c][n] = Message(c)'[Got(c)' + n]
    BY <1>2, <1>4, <2>2 DEF M
  <2> QED BY <2>1, <2>3 DEF SocketIsRest
<1> QED BY <1>2, <1>4, <1>8, <1>9, <1>11 DEF M, s

\* The number after the first p of the data is printed.
LEMMA OnePrinted ==
  ASSUME NEW b \in Seq(Nat), NEW p \in 0 .. DATA_MAX - 1
  PROVE  Append(b \o SubSeq(Data, 1, p), p) = b \o SubSeq(Data, 1, p + 1)
<1>1. DATA_MAX \in Nat
  BY NumbersAssumption
<1>2. /\ p \in Nat /\ p + 1 \in 1 .. DATA_MAX /\ p + 1 \in 1 .. Len(Data)
      /\ 1 \in 1 .. Len(Data) /\ (p + 1) - 1 = p
  BY <1>1, DataIs
<1>3. Data[p + 1] = p
  BY <1>2, DataIs
<1>4. SubSeq(Data, 1, p + 1) = SubSeq(Data, 1, p) \o <<p>>
  BY <1>2, <1>3, DataIs, SubSeqRecursiveSecond
<1>5. \A n \in 1 .. p : Data[n] \in Nat
  <2>1. \A n \in 1 .. p : n \in 1 .. Len(Data)
    BY <1>2
  <2> QED BY <2>1, DataIs, ElementOfSeq
<1>6. SubSeq(Data, 1, p) \in Seq(Nat)
  BY <1>2, <1>5, SubSeqProperties
<1> DEFINE u == SubSeq(Data, 1, p)
           v == <<p>>
<1>7. u \in Seq(Nat) /\ v \in Seq(Nat)
  BY <1>2, <1>6
<1>8. SubSeq(Data, 1, p + 1) = u \o v
  BY <1>4
<1>9. Append(b \o u, p) = (b \o u) \o v
  <2>1. b \o u \in Seq(Nat)
    BY <1>6, ConcatProperties
  <2> HIDE DEF u
  <2> QED BY <1>2, <2>1, AppendIsConcat
<1>10. (b \o u) \o v = b \o (u \o v)
  <2> HIDE DEF u, v
  <2> QED BY <1>7, ConcatAssociative, SMTT(60)
<1> QED BY <1>8, <1>9, <1>10

-----------------------------------------------------------------------------
(* The server reads a number. *)

\* While it reads, the current connection is that of a client, and when there is
\* something in its socket the client has sent its message.
LEMMA AtWork ==
  ASSUME NumbersInv, Reading
  PROVE  /\ data_fp # <<>> /\ Current \in Clients /\ CurrentInv(Current)
         /\ socket[Current] # <<>> => client[Current] = "sent"
<1>1. data_fp # <<>>
  BY DEF NumbersInv, OverInv, Reading
<1>2. Current \in Clients
  BY <1>1, CurrentIs DEF NumbersInv
<1> QED BY <1>1, <1>2 DEF NumbersInv, SocketInv

\* Whatever the number is, the invariant goes on to hold when the server is where it
\* should be after it.
LEMMA ReadStep ==
  ASSUME NumbersInv, Reading, NEW c \in Clients, c = Current, socket[c] # <<>>,
         socket' = [socket EXCEPT ![c] = Tail(@)],
         UNCHANGED <<local, clientVars, backlog, data_fp>>,
         Reading', unread' \in Nat, end' \in BOOLEAN, printed' \in Seq(Nat),
         NEW p \in 0 .. DATA_MAX, Place(c, p)', printed' = Before \o SubSeq(Data, 1, p)
  PROVE  NumbersInv'
<1>1. /\ data_fp # <<>> /\ client[c] = "sent" /\ CurrentInv(c)
      /\ SocketIsRest(c)
  BY AtWork DEF CurrentInv
<1>2. NumbersTyped /\ SocketInv /\ BacklogInv /\ OverInv
  BY DEF NumbersInv
<1>3. /\ UNCHANGED <<local, client, short_flag, quit_flag, backlog, data_fp>>
      /\ SocketIsRest(c)' /\ socket' \in [Clients -> Seq(Nat)]
  BY <1>1, <1>2, OneRead DEF clientVars
<1>4. \A d \in Clients : d # c => socket'[d] = socket[d]
  BY <1>2 DEF NumbersTyped
<1>5. NumbersTyped'
  BY <1>2, <1>3 DEF NumbersTyped, Reading
<1>6. SocketInv'
  BY <1>1, <1>2, <1>3, <1>4 DEF SocketInv
<1>7. pc' # "ended" /\ pc' # "accept" /\ pc # "ended" /\ pc # "accept"
  BY DEF Reading
<1>8. \A d \in Clients : Message(d)' = Message(d)
  BY <1>3 DEF Message, end_code, Data, send_short, send_array
<1>9. BacklogInv'
  <2>1. \A k \in 1 .. Len(backlog) : backlog[k] \in Clients /\ backlog[k] # c
    BY <1>1, <1>2, ElementOfSeq DEF NumbersTyped, CurrentInv
  <2>2. ASSUME NEW k \in 1 .. Len(backlog), client'[backlog[k]] = "sent"
        PROVE  socket'[backlog[k]] = Message(backlog[k])'
    <3>1. PICK d \in Clients : d = backlog[k]
      BY <2>1
    <3>2. d # c /\ client[d] = "sent" /\ backlog'[k] = d
      BY <1>3, <2>1, <2>2, <3>1
    <3>3. socket[d] = Message(d)
      BY <1>2, <3>1, <3>2 DEF BacklogInv
    <3>4. socket'[d] = Message(d)'
      BY <1>4, <1>8, <3>2, <3>3
    <3>5. Message(backlog[k])' = Message(d)'
      BY <3>1, <3>2, <1>3 DEF Message, end_code
    <3> QED BY <3>1, <3>4, <3>5
  <2> QED BY <1>2, <1>3, <1>7, <2>2 DEF BacklogInv
<1>10. Over' = Over
  BY <1>3 DEF Over
<1>11. Before' = Before
  BY <1>3, <1>10, WholesStay
<1>12. OverInv'
  BY <1>1, <1>2, <1>3, <1>7, <1>10 DEF OverInv, Asked
<1>13. Current' = c
  BY <1>3 DEF Current
<1>14. CurrentInv(c)'
  BY <1>1, <1>3, <1>11 DEF CurrentInv, Data
<1>15. CurrentInv(Current)'
  BY <1>13, <1>14
<1> QED BY <1>5, <1>6, <1>9, <1>12, <1>15 DEF NumbersInv

\* What recv_int does at one place: it takes the next number of the message.
LEMMA Taking ==
  ASSUME NumbersInv, NEW place \in {"code", "short", "length", "array"}, recv_int(place)
  PROVE  \E c \in Clients, p \in 0 .. DATA_MAX :
           /\ Reading /\ pc = place /\ c = Current /\ socket[c] # <<>>
           /\ socket' = [socket EXCEPT ![c] = Tail(@)]
           /\ UNCHANGED <<local, clientVars, backlog, data_fp>>
           /\ Place(c, p) /\ printed = Before \o SubSeq(Data, 1, p)
           /\ Got(c) \in Nat /\ Got(c) + 1 \in 1 .. Len(Message(c))
           /\ Next_number = Message(c)[Got(c) + 1] /\ Next_number \in Nat
           /\ Got(c)' = Got(c) + 1 /\ Message(c)' = Message(c)
<1>1. Reading /\ pc = place /\ socket[Current] # <<>>
  BY DEF recv_int, Reading
<1>2. PICK c \in Clients : c = Current
  BY <1>1, AtWork
<1>3. CurrentInv(c) /\ client[c] = "sent"
  BY <1>1, <1>2, AtWork
<1>4. SocketIsRest(c)
  BY <1>3 DEF CurrentInv
<1>5. PICK p \in 0 .. DATA_MAX : Place(c, p) /\ printed = Before \o SubSeq(Data, 1, p)
  BY <1>3 DEF CurrentInv
<1>6. /\ socket' = [socket EXCEPT ![c] = Tail(@)]
      /\ UNCHANGED <<local, clientVars, backlog, data_fp>>
  BY <1>2 DEF recv_int
<1>7. UNCHANGED <<local, short_flag, quit_flag>> /\ NumbersTyped
  BY <1>6 DEF clientVars, NumbersInv
<1>8. /\ Got(c) + 1 \in 1 .. Len(Message(c))
      /\ Head(socket[c]) = Message(c)[Got(c) + 1]
      /\ Message(c)' = Message(c) /\ Got(c)' = Got(c) + 1
  BY <1>1, <1>2, <1>4, <1>6, <1>7, OneRead
<1>9. Got(c) \in Nat
  BY <1>4 DEF SocketIsRest
<1>10. Next_number = Message(c)[Got(c) + 1]
  BY <1>2, <1>8 DEF Next_number
<1>11. Message(c)[Got(c) + 1] \in Nat
  BY <1>7, <1>8, MessageIs, ElementOfSeq
<1> QED BY <1>1, <1>2, <1>5, <1>6, <1>8, <1>9, <1>10, <1>11

\* A step that reads and prints nothing.
LEMMA SilentStep ==
  ASSUME NumbersInv, NEW place \in {"code", "short", "length", "array"}, recv_int(place),
         Reading', unread' \in Nat, end' \in BOOLEAN, printed' = printed,
         \A c \in Clients, p \in 0 .. DATA_MAX :
           /\ Place(c, p) /\ Got(c) \in Nat /\ Got(c) + 1 \in 1 .. Len(Message(c))
           /\ Next_number = Message(c)[Got(c) + 1]
           /\ Got(c)' = Got(c) + 1 /\ Message(c)' = Message(c)
           => Place(c, p)'
  PROVE  NumbersInv'
<1>1. PICK c \in Clients, p \in 0 .. DATA_MAX :
        /\ Reading /\ pc = place /\ c = Current /\ socket[c] # <<>>
        /\ socket' = [socket EXCEPT ![c] = Tail(@)]
        /\ UNCHANGED <<local, clientVars, backlog, data_fp>>
        /\ Place(c, p) /\ printed = Before \o SubSeq(Data, 1, p)
        /\ Got(c) \in Nat /\ Got(c) + 1 \in 1 .. Len(Message(c))
        /\ Next_number = Message(c)[Got(c) + 1]
        /\ Got(c)' = Got(c) + 1 /\ Message(c)' = Message(c)
  BY Taking
<1>2. Place(c, p)'
  BY <1>1
<1>3. printed' = Before \o SubSeq(Data, 1, p) /\ printed' \in Seq(Nat)
  BY <1>1 DEF NumbersInv, NumbersTyped
<1> QED BY <1>1, <1>2, <1>3, ReadStep

\* A step that reads a number of the data and prints it.
LEMMA PrintingStep ==
  ASSUME NumbersInv, NEW place \in {"code", "short", "length", "array"}, recv_int(place),
         Reading', unread' \in Nat, end' \in BOOLEAN, Put,
         \A c \in Clients, p \in 0 .. DATA_MAX :
           /\ Place(c, p) /\ Got(c) \in Nat /\ Got(c) + 1 \in 1 .. Len(Message(c))
           /\ Next_number = Message(c)[Got(c) + 1]
           /\ Got(c)' = Got(c) + 1 /\ Message(c)' = Message(c)
           => p < DATA_MAX /\ Next_number = p /\ Place(c, p + 1)'
  PROVE  NumbersInv'
<1>1. PICK c \in Clients, p \in 0 .. DATA_MAX :
        /\ Reading /\ pc = place /\ c = Current /\ socket[c] # <<>>
        /\ socket' = [socket EXCEPT ![c] = Tail(@)]
        /\ UNCHANGED <<local, clientVars, backlog, data_fp>>
        /\ Place(c, p) /\ printed = Before \o SubSeq(Data, 1, p)
        /\ Got(c) \in Nat /\ Got(c) + 1 \in 1 .. Len(Message(c))
        /\ Next_number = Message(c)[Got(c) + 1] /\ Next_number \in Nat
        /\ Got(c)' = Got(c) + 1 /\ Message(c)' = Message(c)
  BY Taking
<1>2. p < DATA_MAX /\ Next_number = p /\ Place(c, p + 1)'
  BY <1>1
<1>3. p \in 0 .. DATA_MAX - 1 /\ p + 1 \in 0 .. DATA_MAX
  BY <1>2, NumbersAssumption
<1>4. Before \in Seq(Nat)
  BY WholesTyped DEF NumbersInv
<1>5. printed' = Before \o SubSeq(Data, 1, p + 1)
  BY <1>1, <1>2, <1>3, <1>4, OnePrinted DEF Put
<1>6. printed' \in Seq(Nat)
  BY <1>1, AppendProperties DEF Put, NumbersInv, NumbersTyped
<1>7. PICK q \in 0 .. DATA_MAX : q = p + 1
  BY <1>3
<1>8. Place(c, q)' /\ printed' = Before \o SubSeq(Data, 1, q)
  BY <1>2, <1>5, <1>7
<1> QED BY <1>1, <1>6, <1>8, ReadStep

\* A code says what comes next, and END_CODE is the last number of the message.
LEMMA CodeStep == NumbersInv /\ recv_code => NumbersInv'
<1> SUFFICES ASSUME NumbersInv, recv_code PROVE NumbersInv'
  OBVIOUS
<1>1. /\ recv_int("code") /\ ~local /\ printed' = printed /\ unread' = unread
      /\ end' = (end \/ Next_number = END_CODE) /\ pc' = AfterCode(Next_number)
      /\ pc = "code" /\ UNCHANGED <<local, short_flag, quit_flag>>
  BY DEF recv_code, recv_int, clientVars
<1>2. NumbersTyped /\ unread \in Nat /\ end \in BOOLEAN
  BY DEF NumbersInv, NumbersTyped
<1>3. /\ DATA_MAX \in Nat /\ END_CODE # SHORT_CODE /\ END_CODE # ARRAY_CODE /\ SHORT_CODE # ARRAY_CODE
  BY NumbersAssumption
<1>4. Reading' /\ unread' \in Nat /\ end' \in BOOLEAN
  BY <1>1, <1>2 DEF Reading, AfterCode
<1>5. ASSUME NEW c \in Clients, NEW p \in 0 .. DATA_MAX,
             Place(c, p), Got(c) \in Nat, Got(c) + 1 \in 1 .. Len(Message(c)),
             Next_number = Message(c)[Got(c) + 1],
             Got(c)' = Got(c) + 1, Message(c)' = Message(c)
      PROVE  Place(c, p)'
  <2> DEFINE M == Message(c)
             g == Got(c)
  <2>1. ~end
    BY <1>5 DEF Place, EndPlace
  <2>2. Len(M) \in Nat /\ quit_flag[c] \in BOOLEAN
    BY <1>2, MessageIs, LenProperties DEF NumbersTyped
  <2>3. CASE short_flag[c]
    <3>1. /\ Len(M) = 2 * DATA_MAX + (IF quit_flag[c] THEN 1 ELSE 0)
          /\ \A k \in 0 .. DATA_MAX - 1 : M[2 * k + 1] = SHORT_CODE
          /\ quit_flag[c] => M[2 * DATA_MAX + 1] = END_CODE
      BY <1>1, <1>2, <2>3, EntryIs
    <3>2. g = 2 * p /\ unread = 0
      BY <1>1, <1>5, <2>1, <2>3 DEF Place, ShortPlace
    <3> HIDE DEF M
    <3>3. CASE p < DATA_MAX
      <4>1. Next_number = SHORT_CODE
        BY <1>3, <1>5, <3>1, <3>2, <3>3 DEF M
      <4>2. pc' = "short" /\ ~end'
        BY <1>1, <1>3, <2>1, <4>1 DEF AfterCode
      <4> QED BY <1>1, <1>5, <2>3, <3>2, <3>3, <4>2 DEF Place, ShortPlace
    <3>4. CASE p = DATA_MAX
      <4>1. quit_flag[c] /\ g + 1 = 2 * DATA_MAX + 1 /\ Len(M) = g + 1
        BY <1>3, <1>5, <2>2, <3>1, <3>2, <3>4 DEF M
      <4>2. Next_number = END_CODE
        BY <1>5, <3>1, <4>1 DEF M
      <4>3. pc' = "code" /\ end'
        BY <1>1, <1>3, <4>2 DEF AfterCode
      <4> QED BY <1>1, <1>5, <3>2, <3>4, <4>1, <4>3 DEF Place, EndPlace, M
    <3> QED BY <1>3, <3>3, <3>4
  <2>4. CASE ~short_flag[c]
    <3>1. /\ Len(M) = DATA_MAX + 2 + (IF quit_flag[c] THEN 1 ELSE 0)
          /\ M[1] = ARRAY_CODE
          /\ quit_flag[c] => M[DATA_MAX + 3] = END_CODE
      BY <1>1, <1>2, <2>4, EntryIs
    <3>2. unread = 0 /\ ((g = 0 /\ p = 0) \/ (g = p + 2 /\ p = DATA_MAX))
      BY <1>1, <1>5, <2>1, <2>4 DEF Place, ArrayPlace
    <3> HIDE DEF M
    <3>3. CASE g = 0 /\ p = 0
      <4>1. Next_number = ARRAY_CODE
        BY <1>5, <3>1, <3>3 DEF M
      <4>2. pc' = "length" /\ ~end'
        BY <1>1, <1>3, <2>1, <4>1 DEF AfterCode
      <4> QED BY <1>1, <1>5, <2>4, <3>2, <3>3, <4>2 DEF Place, ArrayPlace
    <3>4. CASE g = p + 2 /\ p = DATA_MAX
      <4>1. quit_flag[c] /\ g + 1 = DATA_MAX + 3 /\ Len(M) = g + 1
        BY <1>3, <1>5, <2>2, <3>1, <3>4 DEF M
      <4>2. Next_number = END_CODE
        BY <1>5, <3>1, <4>1 DEF M
      <4>3. pc' = "code" /\ end'
        BY <1>1, <1>3, <4>2 DEF AfterCode
      <4> QED BY <1>1, <1>5, <3>2, <3>4, <4>1, <4>3 DEF Place, EndPlace, M
    <3> QED BY <3>2, <3>3, <3>4
  <2> QED BY <2>3, <2>4
<1> QED BY <1>1, <1>4, <1>5, SilentStep

\* After SHORT_CODE comes one number of the data.
LEMMA ShortStep == NumbersInv /\ recv_short => NumbersInv'
<1> SUFFICES ASSUME NumbersInv, recv_short PROVE NumbersInv'
  OBVIOUS
<1>1. /\ recv_int("short") /\ Put /\ pc' = "code" /\ end' = end /\ unread' = unread
      /\ pc = "short" /\ UNCHANGED <<local, short_flag, quit_flag>>
  BY DEF recv_short, recv_int, clientVars
<1>2. NumbersTyped /\ unread \in Nat /\ end \in BOOLEAN /\ DATA_MAX \in Nat
  BY NumbersAssumption DEF NumbersInv, NumbersTyped
<1>3. Reading' /\ unread' \in Nat /\ end' \in BOOLEAN
  BY <1>1, <1>2 DEF Reading
<1>4. ASSUME NEW c \in Clients, NEW p \in 0 .. DATA_MAX,
             Place(c, p), Got(c) \in Nat, Got(c) + 1 \in 1 .. Len(Message(c)),
             Next_number = Message(c)[Got(c) + 1],
             Got(c)' = Got(c) + 1, Message(c)' = Message(c)
      PROVE  p < DATA_MAX /\ Next_number = p /\ Place(c, p + 1)'
  <2>1. /\ ~end /\ ~local /\ short_flag[c] /\ unread = 0
        /\ Got(c) = 2 * p + 1 /\ p < DATA_MAX
    BY <1>1, <1>4 DEF Place, EndPlace, PlainPlace, ShortPlace, ArrayPlace
  <2>2. \A k \in 0 .. DATA_MAX - 1 : Message(c)[2 * k + 2] = k
    BY <1>2, <2>1, EntryIs
  <2>3. p \in 0 .. DATA_MAX - 1 /\ Got(c) + 1 = 2 * p + 2 /\ 2 * p + 2 = 2 * (p + 1)
    BY <1>2, <2>1
  <2>4. Next_number = p
    BY <1>4, <2>2, <2>3
  <2> QED BY <1>1, <1>4, <2>1, <2>3, <2>4 DEF Place, ShortPlace
<1> QED BY <1>1, <1>3, <1>4, PrintingStep

\* After ARRAY_CODE comes the number of the data.
LEMMA LengthStep == NumbersInv /\ recv_length => NumbersInv'
<1> SUFFICES ASSUME NumbersInv, recv_length PROVE NumbersInv'
  OBVIOUS
<1>1. /\ recv_int("length") /\ printed' = printed /\ end' = end /\ unread' = Next_number
      /\ pc' = (IF unread' = 0 THEN "code" ELSE "array")
      /\ pc = "length" /\ UNCHANGED <<local, short_flag, quit_flag>>
  BY DEF recv_length, recv_int, clientVars
<1>2. NumbersTyped /\ end \in BOOLEAN /\ DATA_MAX \in Nat
  BY NumbersAssumption DEF NumbersInv, NumbersTyped
<1>3. Next_number \in Nat
  <2>1. "length" \in {"code", "short", "length", "array"}
    OBVIOUS
  <2> QED BY <1>1, <2>1, Taking
<1>4. Reading' /\ unread' \in Nat /\ end' \in BOOLEAN
  BY <1>1, <1>2, <1>3 DEF Reading
<1>5. ASSUME NEW c \in Clients, NEW p \in 0 .. DATA_MAX,
             Place(c, p), Got(c) \in Nat, Got(c) + 1 \in 1 .. Len(Message(c)),
             Next_number = Message(c)[Got(c) + 1],
             Got(c)' = Got(c) + 1, Message(c)' = Message(c)
      PROVE  Place(c, p)'
  <2>1. ~end /\ ~local /\ ~short_flag[c] /\ Got(c) = 1 /\ p = 0
    BY <1>1, <1>5 DEF Place, EndPlace, PlainPlace, ShortPlace, ArrayPlace
  <2>2. Message(c)[2] = DATA_MAX
    BY <1>2, <2>1, EntryIs
  <2>3. unread' = DATA_MAX
    BY <1>1, <1>5, <2>1, <2>2
  <2> QED BY <1>1, <1>2, <1>5, <2>1, <2>3 DEF Place, ArrayPlace
<1> QED BY <1>1, <1>4, <1>5, SilentStep

\* The data of an array are read one by one, and as many as there are.
LEMMA EntryStep == NumbersInv /\ recv_entry => NumbersInv'
<1> SUFFICES ASSUME NumbersInv, recv_entry PROVE NumbersInv'
  OBVIOUS
<1>1. /\ recv_int("array") /\ Put /\ end' = end /\ unread' = unread - 1
      /\ pc' = (IF unread > 1 THEN "array" ELSE "code")
      /\ pc = "array" /\ UNCHANGED <<local, short_flag, quit_flag>>
  BY DEF recv_entry, recv_int, clientVars, ArrayLeft
<1>2. NumbersTyped /\ unread \in Nat /\ end \in BOOLEAN /\ DATA_MAX \in Nat
  BY NumbersAssumption DEF NumbersInv, NumbersTyped
<1>3. ASSUME NEW c \in Clients, NEW p \in 0 .. DATA_MAX, Place(c, p)
      PROVE  /\ ~end /\ ~local /\ ~short_flag[c]
             /\ Got(c) = p + 2 /\ p < DATA_MAX /\ unread = DATA_MAX - p
  BY <1>1, <1>3 DEF Place, EndPlace, PlainPlace, ShortPlace, ArrayPlace
<1>4. Reading' /\ unread' \in Nat /\ end' \in BOOLEAN
  <2>1. "array" \in {"code", "short", "length", "array"}
    OBVIOUS
  <2>2. PICK c \in Clients, p \in 0 .. DATA_MAX : Place(c, p)
    BY <1>1, <2>1, Taking
  <2>3. unread >= 1
    BY <1>2, <1>3, <2>2
  <2> QED BY <1>1, <1>2, <2>3 DEF Reading
<1>5. ASSUME NEW c \in Clients, NEW p \in 0 .. DATA_MAX,
             Place(c, p), Got(c) \in Nat, Got(c) + 1 \in 1 .. Len(Message(c)),
             Next_number = Message(c)[Got(c) + 1],
             Got(c)' = Got(c) + 1, Message(c)' = Message(c)
      PROVE  p < DATA_MAX /\ Next_number = p /\ Place(c, p + 1)'
  <2>1. /\ ~end /\ ~local /\ ~short_flag[c]
        /\ Got(c) = p + 2 /\ p < DATA_MAX /\ unread = DATA_MAX - p
    BY <1>3, <1>5
  <2>2. \A k \in 0 .. DATA_MAX - 1 : Message(c)[k + 3] = k
    BY <1>2, <2>1, EntryIs
  <2>3. /\ p \in 0 .. DATA_MAX - 1 /\ Got(c) + 1 = p + 3 /\ p + 3 = (p + 1) + 2
        /\ unread' = DATA_MAX - (p + 1)
    BY <1>1, <1>2, <2>1
  <2>4. Next_number = p
    BY <1>5, <2>2, <2>3
  <2>5. /\ p + 1 < DATA_MAX => pc' = "array"
        /\ ~(p + 1 < DATA_MAX) => pc' = "code" /\ p + 1 = DATA_MAX /\ unread' = 0
    BY <1>1, <1>2, <2>1, <2>3
  <2> QED BY <1>1, <1>5, <2>1, <2>3, <2>4, <2>5 DEF Place, ArrayPlace
<1> QED BY <1>1, <1>4, <1>5, PrintingStep

\* Over a local socket every number is one of the data, until END_CODE.
LEMMA PlainStep == NumbersInv /\ recv_plain => NumbersInv'
<1> SUFFICES ASSUME NumbersInv, recv_plain PROVE NumbersInv'
  OBVIOUS
<1>1. /\ recv_int("code") /\ Put /\ local /\ Next_number # END_CODE
      /\ pc' = pc /\ end' = end /\ unread' = unread
      /\ pc = "code" /\ UNCHANGED <<local, short_flag, quit_flag>>
  BY DEF recv_plain, recv_int, clientVars
<1>2. NumbersTyped /\ unread \in Nat /\ end \in BOOLEAN /\ DATA_MAX \in Nat
  BY NumbersAssumption DEF NumbersInv, NumbersTyped
<1>3. Reading' /\ unread' \in Nat /\ end' \in BOOLEAN
  BY <1>1, <1>2 DEF Reading
<1>4. ASSUME NEW c \in Clients, NEW p \in 0 .. DATA_MAX,
             Place(c, p), Got(c) \in Nat, Got(c) + 1 \in 1 .. Len(Message(c)),
             Next_number = Message(c)[Got(c) + 1],
             Got(c)' = Got(c) + 1, Message(c)' = Message(c)
      PROVE  p < DATA_MAX /\ Next_number = p /\ Place(c, p + 1)'
  <2>1. ~end /\ Got(c) = p /\ unread = 0
    BY <1>1, <1>4 DEF Place, EndPlace, PlainPlace
  <2>2. /\ Len(Message(c)) = DATA_MAX + (IF quit_flag[c] THEN 1 ELSE 0)
        /\ \A k \in 0 .. DATA_MAX - 1 : Message(c)[k + 1] = k
        /\ quit_flag[c] => Message(c)[DATA_MAX + 1] = END_CODE
    BY <1>1, <1>2, EntryIs
  <2>3. p < DATA_MAX
    <3>1. SUFFICES ASSUME p = DATA_MAX PROVE FALSE
      BY <1>2
    <3>2. quit_flag[c]
      BY <1>2, <1>4, <2>1, <2>2, <3>1
    <3> QED BY <1>1, <1>4, <2>1, <2>2, <3>1, <3>2
  <2>4. p \in 0 .. DATA_MAX - 1
    BY <1>2, <2>3
  <2>5. Next_number = p
    BY <1>4, <2>1, <2>2, <2>4
  <2> QED BY <1>1, <1>4, <2>1, <2>3, <2>5 DEF Place, PlainPlace
<1> QED BY <1>1, <1>3, <1>4, PrintingStep

-----------------------------------------------------------------------------
(* The clients. *)

\* A step of a client that is neither in the backlog nor read, or that is connected,
\* changes nothing of what the server has read of the others.
LEMMA ClientStep ==
  ASSUME NumbersInv, NEW c \in Clients, client[c] \in {"away", "connected"},
         UNCHANGED <<local, pc, data_fp, end, unread, printed>>,
         NumbersTyped', SocketInv',
         \A d \in Clients : d # c => /\ client'[d] = client[d] /\ socket'[d] = socket[d]
                                     /\ Message(d)' = Message(d) /\ quit_flag'[d] = quit_flag[d],
         client'[c] \in {"connected", "sent", "killed", "refused"},
         client[c] = "connected" => client'[c] # "refused",
         client'[c] = "sent" => pc = "ended" \/ socket'[c] = Message(c)',
         \/ backlog' = backlog
         \/ backlog' = Append(backlog, c) /\ client[c] = "away" /\ client'[c] = "connected"
            /\ pc # "ended",
         short_flag'[c] = short_flag[c] \/ client[c] = "away",
         \A d \in Clients : d # c => short_flag'[d] = short_flag[d]
  PROVE  NumbersInv'
<1>1. NumbersTyped /\ SocketInv /\ BacklogInv /\ OverInv /\ (Reading => CurrentInv(Current))
  BY DEF NumbersInv
<1>2. backlog \in Seq(Clients) /\ Len(backlog) \in Nat /\ data_fp \in Seq(Clients)
  BY <1>1, LenProperties DEF NumbersTyped
<1>3. Reading' = Reading /\ Over' = Over /\ Current' = Current
  BY DEF Reading, Over, Current, Last
<1>4. \A k \in 1 .. Over : data_fp[k] \in Clients /\ data_fp[k] # c
  <2> SUFFICES ASSUME NEW k \in 1 .. Over PROVE data_fp[k] \in Clients /\ data_fp[k] # c
    OBVIOUS
  <2>1. k \in 1 .. Len(data_fp)
    BY <1>1, <1>2, WholesTyped, LenProperties
  <2>2. client[data_fp[k]] \in {"sent", "killed"}
    BY <1>1 DEF OverInv
  <2> QED BY <1>2, <2>1, <2>2, ElementOfSeq
<1>5. OverInv'
  <2>1. Before' = Before
    BY <1>3, <1>4, WholesStay
  <2>2. \A k \in 1 .. Over : Asked(data_fp[k])' = Asked(data_fp[k])
    BY <1>4 DEF Asked
  <2>3. \A k \in 1 .. Over : client'[data_fp'[k]] \in {"sent", "killed"}
    BY <1>1, <1>4 DEF OverInv
  <2> QED BY <1>1, <1>3, <2>1, <2>2, <2>3 DEF OverInv
<1>6. BacklogInv'
  <2>1. ASSUME NEW k \in 1 .. Len(backlog)
        PROVE  /\ backlog[k] \in Clients
               /\ backlog[k] = c => client[c] = "connected"
    <3>1. backlog[k] \in Clients /\ client[backlog[k]] # "away"
      BY <1>1, <1>2, ElementOfSeq DEF BacklogInv
    <3> QED BY <3>1
  <2>2. ASSUME NEW d \in Clients, NEW k \in 1 .. Len(backlog), d = backlog[k]
        PROVE  /\ client'[d] \in {"connected", "sent", "killed"}
               /\ client'[d] = "sent" => socket'[d] = Message(d)'
    <3>1. pc # "ended"
      <4>1. backlog # <<>>
        BY <1>2, <2>2, EmptySeq
      <4> QED BY <1>1, <4>1 DEF BacklogInv
    <3>2. CASE d = c
      BY <2>1, <2>2, <3>1, <3>2
    <3>3. CASE d # c
      BY <1>1, <2>2, <3>3 DEF BacklogInv
    <3> QED BY <3>2, <3>3
  <2>3. ASSUME NEW k \in 1 .. Len(backlog), backlog'[k] = backlog[k]
        PROVE  /\ client'[backlog'[k]] \in {"connected", "sent", "killed"}
               /\ client'[backlog'[k]] = "sent" => socket'[backlog'[k]] = Message(backlog[k])'
    <3>1. PICK d \in Clients : d = backlog[k]
      BY <2>1
    <3>2. backlog'[k] = d
      BY <2>3, <3>1
    <3>3. Message(backlog[k])' = Message(d)'
      BY <3>2 DEF Message, end_code
    <3> QED BY <2>2, <3>1, <3>2, <3>3
  <2>4. CASE backlog' = backlog
    BY <1>1, <2>3, <2>4 DEF BacklogInv
  <2>5. CASE backlog' = Append(backlog, c) /\ client[c] = "away" /\ client'[c] = "connected" /\ pc # "ended"
    <3> DEFINE n == Len(backlog)
    <3>1. /\ Len(backlog') = n + 1 /\ backlog'[n + 1] = c
          /\ \A k \in 1 .. n : backlog'[k] = backlog[k] /\ backlog[k] # c
      BY <1>2, <2>1, <2>5, AppendProperties
    <3>2. \A k \in 1 .. n + 1 : k \in 1 .. n \/ k = n + 1
      BY <1>2
    <3>3. \A j, k \in 1 .. Len(backlog') : backlog'[j] = backlog'[k] => j = k
      <4> HIDE DEF n
      <4>1. \A j, k \in 1 .. n : backlog[j] = backlog[k] => j = k
        BY <1>1 DEF BacklogInv, n
      <4> QED BY <3>1, <3>2, <4>1
    <3>4. \A k \in 1 .. Len(backlog') :
            /\ client'[backlog'[k]] \in {"connected", "sent", "killed"}
            /\ client'[backlog'[k]] = "sent" => socket'[backlog'[k]] = Message(backlog[k])'
      BY <2>3, <2>5, <3>1, <3>2
    <3> QED BY <2>5, <3>3, <3>4 DEF BacklogInv
  <2> QED BY <2>4, <2>5
<1>7. ASSUME Reading, NEW d \in Clients, d = Current PROVE CurrentInv(d)'
  <2>1. CurrentInv(d)
    BY <1>1, <1>7
  <2>2. Before' = Before
    BY <1>3, <1>4, WholesStay
  <2>3. CASE d # c
    <3>1. /\ client'[d] = client[d] /\ socket'[d] = socket[d] /\ Message(d)' = Message(d)
          /\ quit_flag'[d] = quit_flag[d] /\ short_flag'[d] = short_flag[d]
      BY <2>3
    <3>2. Got(d)' = Got(d)
      BY <3>1 DEF Got
    <3>3. SocketIsRest(d) => SocketIsRest(d)'
      BY <3>1, <3>2 DEF SocketIsRest
    <3>4. \A p \in 0 .. DATA_MAX : Place(d, p) => Place(d, p)'
      BY <3>1, <3>2 DEF Place, EndPlace, PlainPlace, ShortPlace, ArrayPlace
    <3>5. \A k \in 1 .. Len(backlog') : backlog'[k] # d
      <4>1. \A k \in 1 .. Len(backlog) : backlog[k] # d
        BY <2>1 DEF CurrentInv
      <4>2. \A k \in 1 .. Len(backlog) + 1 : k \in 1 .. Len(backlog) \/ k = Len(backlog) + 1
        BY <1>2
      <4> QED BY <1>2, <2>3, <4>1, <4>2, AppendProperties
    <3> QED BY <2>1, <2>2, <3>1, <3>3, <3>4, <3>5 DEF CurrentInv, Data
  <2>4. CASE d = c
    <3>1. /\ client[c] = "connected" /\ backlog' = backlog /\ short_flag'[c] = short_flag[c]
          /\ client'[c] \in {"connected", "sent", "killed"}
          /\ pc = "code" /\ unread = 0 /\ ~end /\ printed = Before
          /\ \A k \in 1 .. Len(backlog) : backlog[k] # c
      BY <2>1, <2>4 DEF CurrentInv
    <3>2. ASSUME client'[c] = "sent"
          PROVE  /\ SocketIsRest(c)' /\ Place(c, 0)'
                 /\ printed = Before \o SubSeq(Data, 1, 0)
      <4>1. socket'[c] = Message(c)'
        BY <3>1, <3>2
      <4>2. Len(socket'[c]) \in Nat
        BY LenProperties DEF NumbersTyped
      <4>3. Got(c)' = 0
        BY <4>1, <4>2 DEF Got
      <4>4. SocketIsRest(c)'
        BY <4>1, <4>2, <4>3 DEF SocketIsRest
      <4>5. Place(c, 0)'
        BY <3>1, <4>3 DEF Place, PlainPlace, ShortPlace, ArrayPlace
      <4>6. Before \in Seq(Nat) /\ SubSeq(Data, 1, 0) = <<>>
        BY <1>1, WholesTyped, SubSeqEmpty
      <4> QED BY <3>1, <4>4, <4>5, <4>6, ConcatEmptySeq
    <3>3. 0 \in 0 .. DATA_MAX
      BY NumbersAssumption
    <3> QED BY <2>2, <2>4, <3>1, <3>2, <3>3 DEF CurrentInv, Data
  <2> QED BY <2>3, <2>4
<1>8. Reading => CurrentInv(Current)'
  <2> SUFFICES ASSUME Reading PROVE CurrentInv(Current)'
    OBVIOUS
  <2>1. PICK d \in Clients : d = Current
    BY AtWork
  <2>2. d = Current' /\ CurrentInv(d)'
    BY <1>3, <1>7, <2>1
  <2> QED BY <2>2
<1> QED BY <1>3, <1>5, <1>6, <1>8 DEF NumbersInv

\* A client connects, or finds nobody, sends its message, or dies.
LEMMA ClientSteps ==
  ASSUME NumbersInv, NEW c \in Clients, Connect(c) \/ ConnectFails(c) \/ Send(c) \/ Die(c)
  PROVE  NumbersInv'
<1>1. NumbersTyped /\ SocketInv
  BY DEF NumbersInv
<1> DEFINE Others == \A d \in Clients :
                       d # c => /\ client'[d] = client[d] /\ socket'[d] = socket[d]
                                /\ Message(d)' = Message(d) /\ quit_flag'[d] = quit_flag[d]
                                /\ short_flag'[d] = short_flag[d]
<1>2. CASE Connect(c)
  <2>1. /\ client[c] = "away" /\ client'[c] = "connected" /\ backlog' = Append(backlog, c)
        /\ pc # "ended" /\ socket' = socket
        /\ UNCHANGED <<local, pc, data_fp, end, unread, printed>>
    BY <1>1, <1>2 DEF Connect, NumbersTyped
  <2>2. /\ client' \in [Clients -> {"away", "refused", "connected", "sent", "killed"}]
        /\ \A d \in Clients : d # c => client'[d] = client[d]
    BY <1>1, <1>2 DEF Connect, NumbersTyped
  <2>3. /\ short_flag' \in [Clients -> BOOLEAN]
        /\ \A d \in Clients : d # c => short_flag'[d] = short_flag[d]
    BY <1>1, <1>2 DEF Connect, NumbersTyped
  <2>4. /\ quit_flag' \in [Clients -> BOOLEAN]
        /\ \A d \in Clients : d # c => quit_flag'[d] = quit_flag[d]
    BY <1>1, <1>2 DEF Connect, NumbersTyped, Flags
  <2>5. backlog' \in Seq(Clients)
    BY <1>1, <2>1, AppendProperties DEF NumbersTyped
  <2>6. Others
    BY <2>1, <2>2, <2>3, <2>4 DEF Message, end_code, Data, send_short, send_array
  <2>7. NumbersTyped'
    BY <1>1, <2>1, <2>2, <2>3, <2>4, <2>5 DEF NumbersTyped
  <2>8. SocketInv'
    BY <1>1, <2>1, <2>2 DEF SocketInv
  <2> QED BY <2>1, <2>6, <2>7, <2>8, ClientStep
<1>3. CASE ConnectFails(c)
  <2>1. /\ client[c] = "away" /\ client'[c] = "refused" /\ pc = "ended"
        /\ UNCHANGED <<local, short_flag, quit_flag, socket, backlog, pc, data_fp, end, unread, printed>>
    BY <1>1, <1>3 DEF ConnectFails, NumbersTyped
  <2>2. /\ client' \in [Clients -> {"away", "refused", "connected", "sent", "killed"}]
        /\ \A d \in Clients : d # c => client'[d] = client[d]
    BY <1>1, <1>3 DEF ConnectFails, NumbersTyped
  <2>3. Others
    BY <2>1, <2>2 DEF Message, end_code, Data, send_short, send_array
  <2>4. NumbersTyped' /\ SocketInv'
    BY <1>1, <2>1, <2>2 DEF NumbersTyped, SocketInv
  <2> QED BY <2>1, <2>3, <2>4, ClientStep
<1>4. CASE Send(c)
  <2>1. /\ client[c] = "connected" /\ client'[c] \in {"sent", "killed"}
        /\ UNCHANGED <<local, short_flag, quit_flag, backlog, pc, data_fp, end, unread, printed>>
    BY <1>1, <1>4 DEF Send, NumbersTyped
  <2>2. Message(c)' = Message(c) /\ Message(c) \in Seq(Nat)
    BY <1>1, <2>1, MessageIs DEF Message, end_code, Data, send_short, send_array
  <2>3. /\ client' \in [Clients -> {"away", "refused", "connected", "sent", "killed"}]
        /\ \A d \in Clients : d # c => client'[d] = client[d]
    BY <1>1, <1>4 DEF Send, NumbersTyped
  <2>4. /\ socket' \in [Clients -> Seq(Nat)]
        /\ \A d \in Clients : d # c => socket'[d] = socket[d]
        /\ pc # "ended" => socket'[c] = Message(c)
        /\ client'[c] # "sent" => socket'[c] = <<>>
    <3>1. (IF pc = "ended" THEN <<>> ELSE Message(c)) \in Seq(Nat)
      BY <2>2
    <3> HIDE DEF Message
    <3> QED BY <1>1, <1>4, <3>1 DEF Send, NumbersTyped
  <2>5. Others
    BY <2>1, <2>3, <2>4 DEF Message, end_code, Data, send_short, send_array
  <2>6. NumbersTyped'
    BY <1>1, <2>1, <2>3, <2>4 DEF NumbersTyped
  <2>7. SocketInv'
    BY <1>1, <2>3, <2>4 DEF SocketInv
  <2> QED BY <2>1, <2>2, <2>4, <2>5, <2>6, <2>7, ClientStep
<1>5. CASE Die(c)
  <2>1. /\ client[c] = "connected" /\ client'[c] = "killed"
        /\ UNCHANGED <<local, short_flag, quit_flag, socket, backlog, pc, data_fp, end, unread, printed>>
    BY <1>1, <1>5 DEF Die, NumbersTyped
  <2>2. /\ client' \in [Clients -> {"away", "refused", "connected", "sent", "killed"}]
        /\ \A d \in Clients : d # c => client'[d] = client[d]
    BY <1>1, <1>5 DEF Die, NumbersTyped
  <2>3. Others
    BY <2>1, <2>2 DEF Message, end_code, Data, send_short, send_array
  <2>4. NumbersTyped' /\ SocketInv'
    BY <1>1, <2>1, <2>2 DEF NumbersTyped, SocketInv
  <2> QED BY <2>1, <2>3, <2>4, ClientStep
<1> QED BY <1>2, <1>3, <1>4, <1>5

-----------------------------------------------------------------------------
(* The server goes from one connection to the next. *)

\* The first of the backlog is read from its beginning.
LEMMA AcceptStep == NumbersInv /\ Accept => NumbersInv'
<1> SUFFICES ASSUME NumbersInv, Accept PROVE NumbersInv'
  OBVIOUS
<1>1. NumbersTyped /\ SocketInv /\ BacklogInv /\ OverInv
  BY DEF NumbersInv
<1>2. /\ pc = "accept" /\ backlog # <<>> /\ data_fp' = Append(data_fp, Head(backlog))
      /\ backlog' = Tail(backlog) /\ pc' = "code"
      /\ UNCHANGED <<local, client, short_flag, quit_flag, socket, end, unread, printed>>
  BY DEF Accept, clientVars
<1>3. backlog \in Seq(Clients) /\ data_fp \in Seq(Clients) /\ Len(data_fp) \in Nat
  BY <1>1, LenProperties DEF NumbersTyped
<1>4. Len(backlog) \in Nat \ {0}
  BY <1>2, <1>3, EmptySeq
<1>5. PICK h \in Clients : h = Head(backlog) /\ h = backlog[1]
  BY <1>2, <1>3, HeadTailProperties
<1>6. /\ Tail(backlog) \in Seq(Clients) /\ Len(Tail(backlog)) = Len(backlog) - 1
      /\ \A k \in 1 .. Len(Tail(backlog)) : Tail(backlog)[k] = backlog[k + 1]
  BY <1>2, <1>3, HeadTailProperties
<1> DEFINE n == Len(data_fp)
           t == Append(data_fp, h)
<1>7. /\ t \in Seq(Clients) /\ t # <<>> /\ Len(t) = n + 1 /\ t[n + 1] = h
      /\ \A k \in 1 .. n : t[k] = data_fp[k]
  BY <1>3, AppendProperties
<1>8. data_fp' = t
  BY <1>2, <1>5
<1> HIDE DEF t
<1>9. NumbersTyped'
  BY <1>1, <1>2, <1>6, <1>7, <1>8 DEF NumbersTyped
<1>10. SocketInv'
  BY <1>1, <1>2 DEF SocketInv
<1>11. \A d \in Clients : Message(d)' = Message(d)
  BY <1>2 DEF Message, end_code, Data, send_short, send_array
<1>12. BacklogInv'
  <2>1. \A k \in 1 .. Len(backlog') : k + 1 \in 1 .. Len(backlog) /\ backlog'[k] = backlog[k + 1]
    BY <1>2, <1>4, <1>6
  <2>2. \A j, k \in 1 .. Len(backlog') : backlog'[j] = backlog'[k] => j = k
    <3> SUFFICES ASSUME NEW j \in 1 .. Len(backlog'), NEW k \in 1 .. Len(backlog'),
                        backlog'[j] = backlog'[k]
                 PROVE  j = k
      OBVIOUS
    <3>1. j + 1 = k + 1
      BY <1>1, <2>1 DEF BacklogInv
    <3> QED BY <3>1
  <2>3. ASSUME NEW k \in 1 .. Len(backlog')
        PROVE  /\ client'[backlog'[k]] \in {"connected", "sent", "killed"}
               /\ client'[backlog'[k]] = "sent" => socket'[backlog'[k]] = Message(backlog[k])'
    <3>1. PICK d \in Clients : d = backlog[k + 1]
      BY <1>3, <2>1, ElementOfSeq
    <3>2. backlog'[k] = d
      BY <2>1, <3>1
    <3>3. /\ client[d] \in {"connected", "sent", "killed"}
          /\ client[d] = "sent" => socket[d] = Message(d)
      BY <1>1, <2>1, <3>1 DEF BacklogInv
    <3>4. Message(backlog[k])' = Message(d)'
      BY <3>2 DEF Message, end_code
    <3> QED BY <1>2, <1>11, <3>2, <3>3, <3>4
  <2> QED BY <1>2, <2>2, <2>3 DEF BacklogInv
<1>13. ~Reading /\ Reading' /\ Over = n /\ Over' = n
  BY <1>2, <1>3, <1>7, <1>8 DEF Reading, Over
<1>14. Before' = Before /\ printed = Before
  <2>1. Before' = Before
    BY <1>2, <1>7, <1>8, <1>13, WholesStay
  <2> QED BY <1>1, <1>13, <2>1 DEF OverInv
<1>15. OverInv'
  <2>1. ASSUME NEW k \in 1 .. n
        PROVE  /\ client'[data_fp'[k]] \in {"sent", "killed"}
               /\ ~Asked(data_fp[k])'
    <3>1. client[data_fp[k]] \in {"sent", "killed"} /\ ~Asked(data_fp[k]) /\ data_fp'[k] = data_fp[k]
      BY <1>1, <1>2, <1>7, <1>8, <1>13 DEF OverInv
    <3> QED BY <1>2, <3>1 DEF Asked
  <2> QED BY <1>2, <1>7, <1>8, <1>13, <2>1 DEF OverInv
<1>16. Current' = h
  BY <1>7, <1>8 DEF Current, Last
<1>17. CurrentInv(h)'
  <2>1. 1 \in 1 .. Len(backlog)
    BY <1>4
  <2>2. /\ client[h] \in {"connected", "sent", "killed"}
        /\ client[h] = "sent" => socket[h] = Message(h)
    BY <1>1, <1>5, <2>1 DEF BacklogInv
  <2>3. \A k \in 1 .. Len(backlog') : backlog'[k] # h
    <3> SUFFICES ASSUME NEW k \in 1 .. Len(backlog'), backlog'[k] = h PROVE FALSE
      OBVIOUS
    <3>1. k + 1 \in 1 .. Len(backlog) /\ backlog[k + 1] = backlog[1]
      BY <1>2, <1>4, <1>5, <1>6
    <3>2. k + 1 = 1
      BY <1>1, <2>1, <3>1 DEF BacklogInv
    <3> QED BY <3>2
  <2>4. unread = 0 /\ ~end
    BY <1>1, <1>2 DEF OverInv
  <2>5. ASSUME client[h] = "sent"
        PROVE  /\ SocketIsRest(h)' /\ Place(h, 0)'
               /\ printed = Before \o SubSeq(Data, 1, 0)
    <3>1. socket'[h] = Message(h)'
      BY <1>2, <1>11, <2>2, <2>5
    <3>2. Len(socket'[h]) \in Nat
      BY <1>9, LenProperties DEF NumbersTyped
    <3>3. Got(h)' = 0
      BY <3>1, <3>2 DEF Got
    <3>4. SocketIsRest(h)'
      BY <3>1, <3>2, <3>3 DEF SocketIsRest
    <3>5. Place(h, 0)'
      BY <1>2, <2>4, <3>3 DEF Place, PlainPlace, ShortPlace, ArrayPlace
    <3>6. Before \in Seq(Nat) /\ SubSeq(Data, 1, 0) = <<>>
      BY <1>1, WholesTyped, SubSeqEmpty
    <3> QED BY <1>14, <3>4, <3>5, <3>6, ConcatEmptySeq
  <2>6. 0 \in 0 .. DATA_MAX
    BY NumbersAssumption
  <2> QED BY <1>2, <1>14, <2>2, <2>3, <2>4, <2>5, <2>6 DEF CurrentInv, Data
<1>18. CurrentInv(Current)'
  BY <1>16, <1>17
<1> QED BY <1>9, <1>10, <1>12, <1>15, <1>18 DEF NumbersInv

\* A connection is over: what it sent is printed whole, and the server ends exactly
\* when it asked for the end.
LEMMA OverStep ==
  ASSUME NumbersInv, Reading, NEW c \in Clients, c = Current,
         client[c] \in {"sent", "killed"}, printed = Before \o Whole(c),
         NEW ending \in BOOLEAN, Asked(c) <=> ending, NextConnection(ending),
         unread' = 0, end' \in BOOLEAN, ~ending => ~end',
         UNCHANGED <<local, clientVars, socket, data_fp, printed>>
  PROVE  NumbersInv'
<1>1. NumbersTyped /\ SocketInv /\ BacklogInv /\ OverInv /\ data_fp # <<>>
  BY AtWork DEF NumbersInv
<1>2. /\ UNCHANGED <<local, client, short_flag, quit_flag, socket, data_fp, printed>>
      /\ pc' = (IF ending THEN "ended" ELSE "accept")
      /\ backlog' = (IF ending THEN <<>> ELSE backlog)
  BY DEF clientVars, NextConnection
<1>3. Len(data_fp) \in Nat \ {0} /\ c = data_fp[Len(data_fp)]
  BY <1>1, CurrentIs
<1> DEFINE n == Len(data_fp)
<1>4. ~Reading' /\ Over = n - 1 /\ Over' = n
  BY <1>2 DEF Reading, Over
<1>5. NumbersTyped'
  <2>1. <<>> \in Seq(Clients)
    OBVIOUS
  <2> QED BY <1>1, <1>2, <2>1 DEF NumbersTyped
<1>6. SocketInv'
  BY <1>1, <1>2 DEF SocketInv
<1>7. BacklogInv'
  <2>1. CASE ending
    <3>1. Len(<<>>) = 0
      OBVIOUS
    <3> QED BY <1>2, <2>1, <3>1 DEF BacklogInv
  <2>2. CASE ~ending
    <3>1. backlog' = backlog /\ pc' = "accept"
      BY <1>2, <2>2
    <3>2. ASSUME NEW k \in 1 .. Len(backlog) PROVE Message(backlog[k])' = Message(backlog[k])
      <4>1. PICK d \in Clients : d = backlog[k]
        BY <1>1, ElementOfSeq DEF NumbersTyped
      <4>2. Message(backlog[k])' = Message(d)'
        BY <3>1, <4>1 DEF Message, end_code
      <4>3. Message(d)' = Message(d)
        BY <1>2 DEF Message, end_code, Data, send_short, send_array
      <4> QED BY <4>1, <4>2, <4>3
    <3> QED BY <1>1, <1>2, <3>1, <3>2 DEF BacklogInv
  <2> QED BY <2>1, <2>2
<1>8. Before' = Before \o Whole(c)
  <2>1. Wholes' = [k \in 1 .. n |-> Whole(data_fp[k])]
    <3>1. \A k \in 1 .. n : Whole(data_fp[k])' = Whole(data_fp[k])
      BY <1>2 DEF Whole, Data
    <3> QED BY <1>4, <3>1 DEF Wholes
  <2>2. Wholes \in Seq(Seq(Nat)) /\ Len(Wholes) = n - 1
    BY <1>1, <1>4, WholesTyped
  <2>3. Whole(c) \in Seq(Nat)
    BY DataIs, EmptySeq DEF Whole
  <2> DEFINE u == Append(Wholes, Whole(c))
             v == [k \in 1 .. n |-> Whole(data_fp[k])]
  <2>4. /\ u \in Seq(Seq(Nat)) /\ Len(u) = n /\ u[n] = Whole(c)
        /\ \A k \in 1 .. n - 1 : u[k] = Wholes[k]
    <3>1. /\ u \in Seq(Seq(Nat)) /\ Len(u) = Len(Wholes) + 1 /\ u[Len(Wholes) + 1] = Whole(c)
          /\ \A k \in 1 .. Len(Wholes) : u[k] = Wholes[k]
      BY <2>2, <2>3, AppendProperties
    <3>2. Len(Wholes) + 1 = n
      BY <1>3, <2>2
    <3> HIDE DEF u
    <3> QED BY <2>2, <3>1, <3>2
  <2>5. \A k \in 1 .. n - 1 : Wholes[k] = Whole(data_fp[k])
    BY <1>4 DEF Wholes
  <2>6. ASSUME NEW k \in 1 .. n PROVE u[k] = v[k]
    <3>1. k \in 1 .. n - 1 \/ k = n
      BY <1>3
    <3>2. v[k] = Whole(data_fp[k])
      OBVIOUS
    <3>3. Whole(data_fp[n]) = Whole(c)
      BY <1>3
    <3> HIDE DEF u, v
    <3> QED BY <2>4, <2>5, <3>1, <3>2, <3>3
  <2>7. u = v
    <3>1. u \in [1 .. n -> Seq(Nat)]
      <4> HIDE DEF u
      <4> QED BY <2>4, LenProperties
    <3>2. u = [k \in 1 .. n |-> u[k]]
      <4> HIDE DEF u
      <4> QED BY <3>1
    <3>3. v = [k \in 1 .. n |-> v[k]]
      OBVIOUS
    <3> HIDE DEF u, v
    <3> QED BY <2>6, <3>2, <3>3
  <2>8. Wholes' = Append(Wholes, Whole(c))
    BY <2>1, <2>7
  <2>9. FlattenSeq(Append(Wholes, Whole(c))) = FlattenSeq(Wholes) \o Whole(c)
    BY <2>2, <2>3, FlattenAppend
  <2> QED BY <2>8, <2>9 DEF Before
<1>9. OverInv'
  <2>1. ASSUME NEW k \in 1 .. n
        PROVE  /\ client'[data_fp'[k]] \in {"sent", "killed"}
               /\ Asked(data_fp[k])' <=> ending /\ k = n
    <3>1. Asked(data_fp[k])' = Asked(data_fp[k])
      BY <1>2 DEF Asked
    <3>2. CASE k = n
      BY <1>2, <1>3, <3>1, <3>2
    <3>3. CASE k # n
      <4>1. k \in 1 .. Over /\ k # Len(data_fp)
        BY <1>3, <1>4, <3>3
      <4>2. client[data_fp[k]] \in {"sent", "killed"} /\ ~Asked(data_fp[k])
        BY <1>1, <4>1 DEF OverInv
      <4> QED BY <1>2, <3>1, <3>3, <4>2
    <3> QED BY <3>2, <3>3
  <2>2. pc' = "ended" <=> ending
    BY <1>2
  <2> QED BY <1>1, <1>2, <1>4, <1>8, <2>1, <2>2 DEF OverInv
<1> QED BY <1>4, <1>5, <1>6, <1>7, <1>9 DEF NumbersInv

\* END_CODE is the last number of a message over a local socket, and no other: the
\* data are below it.
LEMMA PlainEndStep == NumbersInv /\ recv_plain_end => NumbersInv'
<1> SUFFICES ASSUME NumbersInv, recv_plain_end PROVE NumbersInv'
  OBVIOUS
<1>1. /\ local /\ pc = "code" /\ socket[Current] # <<>> /\ Next_number = END_CODE
      /\ end' = TRUE /\ NextConnection(TRUE) /\ Reading
      /\ UNCHANGED <<local, clientVars, socket, data_fp, unread, printed>>
  BY DEF recv_plain_end, Reading
<1>2. NumbersTyped /\ OverInv /\ DATA_MAX \in Nat /\ END_CODE \in Nat /\ END_CODE >= DATA_MAX
  BY NumbersAssumption, EndAssumption DEF NumbersInv
<1>3. PICK c \in Clients : c = Current
  BY <1>1, AtWork
<1>4. CurrentInv(c) /\ client[c] = "sent"
  BY <1>1, <1>3, AtWork
<1>5. PICK p \in 0 .. DATA_MAX : Place(c, p) /\ printed = Before \o SubSeq(Data, 1, p)
  BY <1>4 DEF CurrentInv
<1>6. Got(c) = p /\ unread = 0
  BY <1>1, <1>5 DEF Place, EndPlace, PlainPlace
<1> DEFINE s == socket[c]
           M == Message(c)
<1>7. s \in Seq(Nat) /\ Len(s) \in Nat \ {0} /\ Head(s) = s[1]
  <2>1. s \in Seq(Nat)
    BY <1>2 DEF NumbersTyped
  <2> QED BY <1>1, <1>3, <2>1, EmptySeq
<1>8. p + 1 \in 1 .. Len(M) /\ M[p + 1] = END_CODE
  <2>1. Len(M) \in Nat /\ p = Len(M) - Len(s)
    BY <1>2, <1>6, MessageIs, LenProperties DEF Got
  <2>2. \A n \in 1 .. Len(s) : s[n] = M[p + n]
    BY <1>4, <1>6 DEF CurrentInv, SocketIsRest
  <2>3. 1 \in 1 .. Len(s)
    BY <1>7
  <2>4. Head(s) = END_CODE
    BY <1>1, <1>3 DEF Next_number
  <2> HIDE DEF s, M
  <2> QED BY <1>7, <2>1, <2>2, <2>3, <2>4
<1>9. /\ Len(M) = DATA_MAX + (IF quit_flag[c] THEN 1 ELSE 0)
      /\ \A k \in 0 .. DATA_MAX - 1 : M[k + 1] = k
  BY <1>1, <1>2, EntryIs
<1> HIDE DEF M, s
<1>10. p = DATA_MAX
  <2>1. SUFFICES ASSUME p < DATA_MAX PROVE FALSE
    BY <1>2
  <2>2. p \in 0 .. DATA_MAX - 1
    BY <1>2, <2>1
  <2>3. M[p + 1] = p
    BY <1>9, <2>2
  <2> QED BY <1>2, <1>8, <2>1, <2>3
<1>11. Asked(c)
  BY <1>2, <1>4, <1>8, <1>9, <1>10 DEF Asked
<1>12. printed = Before \o Whole(c)
  BY <1>2, <1>4, <1>5, <1>10, DataIs, SubSeqFull DEF Whole
<1>13. TRUE \in BOOLEAN /\ unread' = 0 /\ end' \in BOOLEAN
  BY <1>1, <1>6
<1>14. PICK ending \in BOOLEAN : ending
  OBVIOUS
<1>15. NextConnection(ending)
  BY <1>1, <1>14 DEF NextConnection
<1> QED BY <1>1, <1>3, <1>4, <1>11, <1>12, <1>13, <1>14, <1>15, OverStep

\* A message that is read to its end is printed whole, and END_CODE is noticed.
LEMMA MessageEnds ==
  ASSUME NumbersTyped, NEW c \in Clients, NEW p \in 0 .. DATA_MAX, Place(c, p),
         socket[c] = <<>>
  PROVE  p = DATA_MAX /\ (end <=> quit_flag[c])
<1>1. DATA_MAX \in Nat /\ quit_flag[c] \in BOOLEAN /\ end \in BOOLEAN
  BY NumbersAssumption DEF NumbersTyped
<1>2. CASE end
  BY <1>2 DEF Place, EndPlace
<1>3. CASE ~end
  <2>1. Got(c) = Len(Message(c))
    <3>1. Len(socket[c]) = 0 /\ Len(Message(c)) \in Nat
      BY MessageIs, LenProperties, EmptySeq
    <3> QED BY <3>1 DEF Got
  <2>2. CASE local
    <3>1. Got(c) = p
      BY <1>3, <2>2 DEF Place, PlainPlace
    <3>2. Len(Message(c)) = DATA_MAX + (IF quit_flag[c] THEN 1 ELSE 0)
      BY <2>2, EntryIs
    <3>3. p \in Nat /\ p <= DATA_MAX /\ p = DATA_MAX + (IF quit_flag[c] THEN 1 ELSE 0)
      <4>1. p = DATA_MAX + (IF quit_flag[c] THEN 1 ELSE 0)
        BY Zenon, <2>1, <3>1, <3>2
      <4> QED BY <1>1, <4>1
    <3>4. CASE quit_flag[c]
      BY <1>1, <3>3, <3>4
    <3>5. CASE ~quit_flag[c]
      BY <1>1, <1>3, <3>3, <3>5
    <3> QED BY <3>4, <3>5
  <2>3. CASE ~local /\ short_flag[c]
    <3>1. Got(c) = 2 * p \/ (Got(c) = 2 * p + 1 /\ p < DATA_MAX)
      BY <1>3, <2>3 DEF Place, ShortPlace
    <3>2. Len(Message(c)) = 2 * DATA_MAX + (IF quit_flag[c] THEN 1 ELSE 0)
      BY <2>3, EntryIs
    <3>3. CASE quit_flag[c]
      BY <1>1, <2>1, <3>1, <3>2, <3>3
    <3>4. CASE ~quit_flag[c]
      BY <1>1, <1>3, <2>1, <3>1, <3>2, <3>4
    <3> QED BY <3>3, <3>4
  <2>4. CASE ~local /\ ~short_flag[c]
    <3>1. Got(c) \in {0, 1} \/ Got(c) = p + 2
      BY <1>3, <2>4 DEF Place, ArrayPlace
    <3>2. Len(Message(c)) = DATA_MAX + 2 + (IF quit_flag[c] THEN 1 ELSE 0)
      BY <2>4, EntryIs
    <3> QED BY <1>1, <1>3, <2>1, <3>1, <3>2
  <2> QED BY <2>2, <2>3, <2>4
<1> QED BY <1>1, <1>2, <1>3

\* The end of the stream comes when the whole message is read, or when the client died
\* and none was sent.
LEMMA EndOfStreamStep == NumbersInv /\ EndOfStream => NumbersInv'
<1> SUFFICES ASSUME NumbersInv, EndOfStream PROVE NumbersInv'
  OBVIOUS
<1>1. /\ socket[Current] = <<>> /\ client[Current] \in {"sent", "killed"}
      /\ NextConnection(end) /\ unread' = 0
      /\ UNCHANGED <<local, clientVars, socket, data_fp, end, printed>>
  BY DEF EndOfStream
<1>2. NumbersTyped /\ OverInv /\ end \in BOOLEAN
  BY DEF NumbersInv, NumbersTyped
<1>3. Reading
  BY <1>2 DEF EndOfStream, Reading, NumbersTyped
<1>4. PICK c \in Clients : c = Current
  BY <1>3, AtWork
<1>5. CurrentInv(c)
  BY <1>3, <1>4, AtWork
<1>6. printed = Before \o Whole(c) /\ (Asked(c) <=> end)
  <2>1. CASE client[c] = "sent"
    <3>1. PICK p \in 0 .. DATA_MAX : Place(c, p) /\ printed = Before \o SubSeq(Data, 1, p)
      BY <1>5, <2>1 DEF CurrentInv
    <3>2. p = DATA_MAX /\ (end <=> quit_flag[c])
      BY <1>1, <1>2, <1>4, <3>1, MessageEnds
    <3>3. SubSeq(Data, 1, p) = Whole(c)
      BY <2>1, <3>2, DataIs, SubSeqFull DEF Whole
    <3> QED BY <2>1, <3>1, <3>2, <3>3 DEF Asked
  <2>2. CASE client[c] # "sent"
    <3>1. ~end /\ printed = Before /\ Whole(c) = <<>> /\ ~Asked(c)
      BY <1>5, <2>2 DEF CurrentInv, Whole, Asked
    <3>2. Before \in Seq(Nat)
      BY <1>2, WholesTyped
    <3>3. Before \o <<>> = Before
      BY <3>2, ConcatEmptySeq
    <3> QED BY <3>1, <3>3
  <2> QED BY <2>1, <2>2
<1>7. PICK ending \in BOOLEAN : ending = end
  BY <1>2
<1>8. NextConnection(ending)
  BY <1>1, <1>7 DEF NextConnection
<1>9. UNCHANGED <<local, clientVars, socket, data_fp, printed>> /\ end' = end
  BY <1>1
<1>10. (Asked(c) <=> ending) /\ (~ending => ~end') /\ end' \in BOOLEAN
  BY <1>2, <1>6, <1>7, <1>9
<1> QED BY <1>1, <1>3, <1>4, <1>6, <1>8, <1>9, <1>10, OverStep

-----------------------------------------------------------------------------
(* The invariant holds. *)

\* Nobody has come yet, and the server has printed nothing.
LEMMA InitNumbersInv == NumbersInit => NumbersInv
<1> SUFFICES ASSUME NumbersInit PROVE NumbersInv
  OBVIOUS
<1>1. /\ local \in BOOLEAN /\ client = [c \in Clients |-> "away"]
      /\ short_flag = [c \in Clients |-> FALSE] /\ quit_flag = [c \in Clients |-> FALSE]
      /\ socket = [c \in Clients |-> <<>>] /\ backlog = <<>> /\ pc = "accept"
      /\ data_fp = <<>> /\ end = FALSE /\ unread = 0 /\ printed = <<>>
  BY DEF NumbersInit
<1>2. <<>> \in Seq(Nat) /\ <<>> \in Seq(Clients) /\ Len(<<>>) = 0
  BY EmptySeq
<1>3. NumbersTyped
  BY <1>1, <1>2 DEF NumbersTyped
<1>4. SocketInv
  BY <1>1 DEF SocketInv
<1>5. BacklogInv
  BY <1>1, <1>2 DEF BacklogInv
<1>6. ~Reading /\ Over = 0
  BY <1>1, <1>2 DEF Reading, Over
<1>7. Before = <<>>
  <2>1. Wholes \in Seq(Nat) /\ Len(Wholes) = 0
    <3>1. Wholes \in [1 .. 0 -> Nat]
      BY <1>6 DEF Wholes
    <3> QED BY <3>1
  <2>2. Wholes = <<>>
    BY <2>1, EmptySeq
  <2> QED BY <2>1, <2>2 DEF Before, FlattenSeq
<1>8. OverInv
  BY <1>1, <1>6, <1>7 DEF OverInv
<1> QED BY <1>3, <1>4, <1>5, <1>6, <1>8 DEF NumbersInv

\* A step that changes nothing keeps the invariant.
LEMMA NumbersStutter == NumbersInv /\ UNCHANGED numbersVars => NumbersInv'
<1> SUFFICES ASSUME NumbersInv, UNCHANGED numbersVars PROVE NumbersInv'
  OBVIOUS
<1>1. UNCHANGED <<local, client, short_flag, quit_flag, socket, backlog, pc, data_fp,
                  end, unread, printed>>
  BY DEF numbersVars, clientVars
<1>2. NumbersTyped /\ SocketInv /\ BacklogInv /\ OverInv
  BY DEF NumbersInv
<1>3. NumbersTyped' /\ SocketInv'
  BY <1>1, <1>2 DEF NumbersTyped, SocketInv
<1>4. Reading' = Reading /\ Over' = Over /\ Current' = Current
  BY <1>1 DEF Reading, Over, Current, Last
<1>5. \A d \in Clients : Message(d)' = Message(d)
  BY <1>1 DEF Message, end_code, Data, send_short, send_array
<1>6. BacklogInv'
  <2>1. ASSUME NEW k \in 1 .. Len(backlog) PROVE Message(backlog[k])' = Message(backlog[k])
    <3>1. PICK d \in Clients : d = backlog[k]
      BY <1>2, ElementOfSeq DEF NumbersTyped
    <3>2. Message(backlog[k])' = Message(d)'
      BY <1>1, <3>1 DEF Message, end_code
    <3> QED BY <1>5, <3>1, <3>2
  <2> QED BY <1>1, <1>2, <2>1 DEF BacklogInv
<1>7. Before' = Before
  BY <1>1, <1>4, WholesStay
<1>8. OverInv'
  BY <1>1, <1>2, <1>4, <1>7 DEF OverInv, Asked
<1>9. ASSUME NEW d \in Clients, CurrentInv(d) PROVE CurrentInv(d)'
  <2>1. Got(d)' = Got(d)
    BY <1>1, <1>5 DEF Got
  <2>2. SocketIsRest(d) => SocketIsRest(d)'
    BY <1>1, <1>5, <2>1 DEF SocketIsRest
  <2>3. \A p \in 0 .. DATA_MAX : Place(d, p) => Place(d, p)'
    BY <1>1, <1>5, <2>1 DEF Place, EndPlace, PlainPlace, ShortPlace, ArrayPlace
  <2> QED BY <1>1, <1>7, <1>9, <2>2, <2>3 DEF CurrentInv, Data
<1>10. Reading => CurrentInv(Current)'
  <2> SUFFICES ASSUME Reading PROVE CurrentInv(Current)'
    OBVIOUS
  <2>1. PICK d \in Clients : d = Current /\ CurrentInv(d)
    BY AtWork
  <2>2. d = Current' /\ CurrentInv(d)'
    BY <1>4, <1>9, <2>1
  <2> QED BY <2>2
<1> QED BY <1>3, <1>4, <1>6, <1>8, <1>10 DEF NumbersInv

\* Every step keeps the invariant.
LEMMA NumbersInvStep == NumbersInv /\ [NumbersNext]_numbersVars => NumbersInv'
BY CodeStep, ShortStep, LengthStep, EntryStep, PlainStep, PlainEndStep, EndOfStreamStep,
   AcceptStep, ClientSteps, NumbersStutter DEF NumbersNext, Server, Quiet

\* The invariant holds always.
LEMMA NumbersInductive == NumbersSpec => []NumbersInv
BY InitNumbersInv, NumbersInvStep, PTL DEF NumbersSpec

\* A sequence is a prefix of what it is continued to.
LEMMA PrefixOfConcat ==
  ASSUME NEW S, NEW s \in Seq(S), NEW t \in Seq(S)
  PROVE  IsPrefix(s, s \o t)
<1>1. /\ s \o t \in Seq(S) /\ Len(s \o t) = Len(s) + Len(t)
      /\ Len(s) \in Nat /\ Len(t) \in Nat
  BY ConcatProperties, LenProperties
<1>2. SubSeq(s \o t, 1, Len(s)) = s /\ SubSeq(s, 1, Len(s)) = s
  <2> DEFINE u == s \o t
             v == SubSeq(u, 1, Len(s))
  <2>1. \A k \in 1 .. Len(s) : u[k] \in S /\ u[k] = s[k]
    <3>1. \A k \in 1 .. Len(s) : k \in 1 .. Len(s) + Len(t) /\ k <= Len(s)
      BY <1>1
    <3>2. \A k \in 1 .. Len(s) : s[k] \in S
      BY ElementOfSeq
    <3> QED BY <3>1, <3>2, ConcatProperties
  <2> HIDE DEF u
  <2>2. /\ v \in Seq(S) /\ Len(v) = Len(s)
        /\ \A k \in 1 .. Len(s) : v[k] = u[k]
    <3>1. /\ v \in Seq(S) /\ Len(v) = (IF 1 <= Len(s) THEN Len(s) - 1 + 1 ELSE 0)
          /\ \A k \in 1 .. Len(s) - 1 + 1 : v[k] = u[1 + k - 1]
      BY <1>1, <2>1, SubSeqProperties
    <3>2. \A k \in 1 .. Len(s) : 1 + k - 1 = k /\ k \in 1 .. Len(s) - 1 + 1
      BY <1>1
    <3>3. (IF 1 <= Len(s) THEN Len(s) - 1 + 1 ELSE 0) = Len(s)
      BY <1>1
    <3> HIDE DEF v
    <3> QED BY <3>1, <3>2, <3>3
  <2>3. v = s
    <3> HIDE DEF v
    <3> QED BY <2>1, <2>2, SeqEqual
  <2> QED BY <2>3, SubSeqFull DEF u
<1> QED BY <1>1, <1>2 DEF IsPrefix

\* With the first p of the data printed, the server is between the connection's
\* beginning and its end.
LEMMA PartPrinted ==
  ASSUME NEW b \in Seq(Nat), NEW p \in 0 .. DATA_MAX
  PROVE  /\ IsPrefix(b, b \o SubSeq(Data, 1, p))
         /\ IsPrefix(b \o SubSeq(Data, 1, p), b \o Data)
<1> DEFINE u == SubSeq(Data, 1, p)
           v == SubSeq(Data, p + 1, DATA_MAX)
<1>1. DATA_MAX \in Nat /\ Data \in Seq(Nat) /\ Len(Data) = DATA_MAX
  BY NumbersAssumption, DataIs
<1>2. u \in Seq(Nat) /\ v \in Seq(Nat)
  <2>1. \A k \in 1 .. DATA_MAX : Data[k] \in Nat
    BY <1>1, ElementOfSeq
  <2>2. /\ 1 \in Int /\ p \in Int /\ p + 1 \in Int /\ DATA_MAX \in Int
        /\ \A k \in 1 .. p : Data[k] \in Nat
        /\ \A k \in p + 1 .. DATA_MAX : Data[k] \in Nat
    <3>1. /\ \A k \in 1 .. p : k \in 1 .. DATA_MAX
          /\ \A k \in p + 1 .. DATA_MAX : k \in 1 .. DATA_MAX
      BY <1>1
    <3> QED BY <1>1, <2>1, <3>1
  <2> QED BY <2>2, SubSeqProperties
<1>3. u \o v = Data
  <2>1. u \o v = SubSeq(Data, 1, DATA_MAX)
    <3>1. /\ 1 \in 1 .. Len(Data) + 1 /\ p \in 1 - 1 .. Len(Data)
          /\ DATA_MAX \in p .. Len(Data)
      BY <1>1
    <3> QED BY <1>1, <3>1, ConcatAdjacentSubSeq
  <2> QED BY <1>1, <2>1, SubSeqFull
<1> HIDE DEF u, v
<1>4. b \o u \in Seq(Nat)
  BY <1>2, ConcatProperties
<1>5. (b \o u) \o v = b \o (u \o v)
  BY <1>2, ConcatAssociative, SMTT(60)
<1>6. IsPrefix(b, b \o u) /\ IsPrefix(b \o u, (b \o u) \o v)
  BY <1>2, <1>4, PrefixOfConcat
<1> QED BY <1>3, <1>5, <1>6 DEF u

\* Whatever a client's form, and whenever others die, the server prints the numbers of
\* each client that sent its message whole, in order and nothing else (PrintedWhole).
THEOREM PrintsWhole == NumbersSpec => []PrintedWhole
<1>1. ASSUME NumbersInv PROVE PrintedWhole
  <2>1. NumbersTyped /\ OverInv
    BY <1>1 DEF NumbersInv
  <2>2. Len(data_fp) \in Nat
    BY <2>1, LenProperties DEF NumbersTyped
  <2>3. Before \in Seq(Nat)
    BY <2>1, WholesTyped
  <2>4. CASE ~Reading
    <3>1. pc \in {"accept", "ended"}
      BY <2>1, <2>4 DEF Reading, NumbersTyped
    <3>2. printed = FlattenSeq([k \in 1 .. Len(data_fp) |-> Whole(data_fp[k])])
      BY <2>1, <2>4 DEF OverInv, Before, Wholes, Over
    <3> QED BY <3>1, <3>2 DEF PrintedWhole
  <2>5. CASE Reading
    <3>1. pc \notin {"accept", "ended"} /\ Over = Len(data_fp) - 1 /\ Over # Len(data_fp)
      BY <2>2, <2>5 DEF Reading, Over
    <3>2. PICK c \in Clients : c = Current
      BY <1>1, <2>5, AtWork
    <3>3. CurrentInv(c)
      BY <1>1, <2>5, <3>2, AtWork
    <3>4. IsPrefix(Before, printed) /\ IsPrefix(printed, Before \o Whole(c))
      <4>1. CASE client[c] = "sent"
        <5>1. PICK p \in 0 .. DATA_MAX : printed = Before \o SubSeq(Data, 1, p)
          BY <3>3, <4>1 DEF CurrentInv
        <5>2. Whole(c) = Data
          BY <4>1 DEF Whole
        <5> QED BY <2>3, <5>1, <5>2, PartPrinted
      <4>2. CASE client[c] # "sent"
        <5>1. printed = Before /\ Whole(c) = <<>>
          BY <3>3, <4>2 DEF CurrentInv, Whole
        <5>2. Before \o <<>> = Before /\ IsPrefix(Before, Before)
          BY <2>3, ConcatEmptySeq, SubSeqFull, LenProperties DEF IsPrefix
        <5> QED BY <5>1, <5>2
      <4> QED BY <4>1, <4>2
    <3>5. Before = FlattenSeq([k \in 1 .. Len(data_fp) - 1 |-> Whole(data_fp[k])])
      BY <3>1 DEF Before, Wholes
    <3> QED BY <3>1, <3>2, <3>4, <3>5 DEF PrintedWhole
  <2> QED BY <2>4, <2>5
<1>2. NumbersInv => PrintedWhole
  BY <1>1
<1> QED BY <1>2, NumbersInductive, PTL

\* The server ends with the first connection that sends END_CODE, not without, and
\* accepts no other after it (EndsWithTheEnd).
THEOREM EndsWhenTold == NumbersSpec => []EndsWithTheEnd
<1>1. ASSUME NumbersInv PROVE EndsWithTheEnd
  <2>1. NumbersTyped /\ OverInv
    BY <1>1 DEF NumbersInv
  <2>2. Len(data_fp) \in Nat
    BY <2>1, LenProperties DEF NumbersTyped
  <2>3. ASSUME NEW k \in 1 .. Len(data_fp) - 1 PROVE ~Asked(data_fp[k])
    <3>1. k \in 1 .. Over /\ k # Len(data_fp)
      BY <2>2 DEF Over
    <3> QED BY <2>1, <3>1 DEF OverInv
  <2>4. ASSUME pc = "ended" PROVE Asked(Current)
    <3>1. Over = Len(data_fp) /\ data_fp # <<>>
      BY <2>1, <2>4 DEF Over, Reading, OverInv
    <3>2. Current = data_fp[Len(data_fp)] /\ Len(data_fp) \in 1 .. Over
      BY <2>1, <3>1, CurrentIs
    <3> QED BY <2>1, <2>4, <3>2 DEF OverInv
  <2> QED BY <2>3, <2>4 DEF EndsWithTheEnd, Asked
<1>2. NumbersInv => EndsWithTheEnd
  BY <1>1
<1> QED BY <1>2, NumbersInductive, PTL
=============================================================================
