--------------------------- MODULE PsycPacketProofs ---------------------------
(*****************************************************************************)
(* Lemmas about data, and those about PsycPacket.                            *)
(*                                                                           *)
(* Induction over data: the induction theorems of the library have an        *)
(* operator as a parameter; here a property of numbers is the set of those   *)
(* that have it, so that the lemmas can be cited.  A recursive function is a *)
(* CHOOSE of a function that satisfies its equation; that there is one is    *)
(* proved by extending a function that satisfies it up to some argument.     *)
(*                                                                           *)
(* Packets: the digits of a number, how long a rendered packet is, and that  *)
(* what is rendered are bytes.  The theorems that rest on them are those of  *)
(* the modules that fill in texts, build packets and send them.              *)
(*****************************************************************************)
EXTENDS PsycPacket, SequenceTheorems, WellFoundedInduction, TLAPS

-----------------------------------------------------------------------------
(* Numbers                                                                  *)

LEMMA LeastNumber ==
  ASSUME NEW T, T \subseteq Nat, T # {}
  PROVE  \E m \in T : \A k \in T : m <= k
<1> DEFINE R == OpToRel(<, Nat)
<1>1. IsWellFoundedOn(R, Nat)
  BY NatLessThanWellFounded
<1>2. PICK m \in T : \A y \in T : ~(<<y, m>> \in R)
  <2> HIDE DEF R
  <2> QED BY <1>1, WFMin
<1>3. ASSUME NEW k \in T PROVE m <= k
  <2>1. ~(<<k, m>> \in R)
    BY <1>2
  <2>2. k \in Nat /\ m \in Nat
    OBVIOUS
  <2>3. k < m => <<k, m>> \in R
    BY <2>2 DEF OpToRel
  <2> HIDE DEF R
  <2> QED BY <2>1, <2>2, <2>3
<1> HIDE DEF R
<1> QED BY <1>3

\* A set with 0 and with the successor of each of its numbers has all numbers.
LEMMA Induction ==
  ASSUME NEW T, 0 \in T, \A n \in Nat : n \in T => n + 1 \in T
  PROVE  \A n \in Nat : n \in T
<1> SUFFICES ASSUME Nat \ T # {} PROVE FALSE
  OBVIOUS
<1>1. PICK m \in Nat \ T : \A k \in Nat \ T : m <= k
  <2>1. Nat \ T \subseteq Nat
    OBVIOUS
  <2> QED BY <2>1, LeastNumber
<1>2. m # 0 /\ m \in Nat
  OBVIOUS
<1>3. m - 1 \in Nat /\ m - 1 \notin Nat \ T
  BY <1>1, <1>2
<1>4. m - 1 + 1 \in T
  BY <1>3
<1> QED BY <1>4, <1>2

\* The same, with all smaller numbers at hand.
LEMMA StrongInduction ==
  ASSUME NEW T, \A n \in Nat : (\A m \in 0..(n - 1) : m \in T) => n \in T
  PROVE  \A n \in Nat : n \in T
<1> SUFFICES ASSUME Nat \ T # {} PROVE FALSE
  OBVIOUS
<1>1. PICK m \in Nat \ T : \A k \in Nat \ T : m <= k
  <2>1. Nat \ T \subseteq Nat
    OBVIOUS
  <2> QED BY <2>1, LeastNumber
<1>2. \A k \in 0..(m - 1) : k \in T
  BY <1>1
<1> QED BY <1>2

LEMMA LargestNumber ==
  ASSUME NEW n \in Nat, NEW s, s \subseteq 1..n, s # {}
  PROVE  Max(s) \in s /\ \A k \in s : k <= Max(s)
<1> DEFINE T == {k \in 0..n : n - k \in s}
<1>1. T \subseteq Nat /\ T # {}
  <2>1. PICK k \in s : TRUE
    OBVIOUS
  <2>2. n - k \in 0..n /\ n - (n - k) = k
    OBVIOUS
  <2> QED BY <2>2
<1>2. PICK m \in T : \A k \in T : m <= k
  <2> HIDE DEF T
  <2> QED BY <1>1, LeastNumber
<1>3. n - m \in s
  OBVIOUS
<1>4. ASSUME NEW k \in s PROVE n - m >= k
  <2>1. n - k \in T
    OBVIOUS
  <2>2. m <= n - k
    BY <1>2, <2>1
  <2> QED BY <2>2
<1>5. \E x \in s : \A k \in s : x >= k
  BY <1>3, <1>4
<1>6. Max(s) \in s /\ \A k \in s : Max(s) >= k
  BY <1>5 DEF Max
<1> QED BY <1>6

LEMMA LargestUpTo == \A k \in Nat \ {0} : Max(1..k) = k
<1> SUFFICES ASSUME NEW k \in Nat \ {0} PROVE Max(1..k) = k
  OBVIOUS
<1>1. k \in 1..k /\ 1..k # {} /\ 1..k \subseteq 1..k
  OBVIOUS
<1>2. Max(1..k) \in 1..k /\ k <= Max(1..k)
  BY <1>1, LargestNumber
<1> QED BY <1>2

\* Sets of positions: the largest of them, and the others.
LEMMA WithLast ==
  ASSUME NEW n \in Nat, NEW k \in Nat, k + 1 <= n,
         NEW s \in SUBSET (1..n), s \subseteq 1..(k + 1), ~(s \subseteq 1..k)
  PROVE  s # {} /\ Max(s) = k + 1
<1>1. k + 1 \in s
  OBVIOUS
<1>2. Max(s) \in s /\ \A x \in s : x <= Max(s)
  BY <1>1, LargestNumber
<1>3. Max(s) \in 1..(k + 1) /\ k + 1 <= Max(s)
  BY <1>1, <1>2
<1> HIDE DEF Max
<1> QED BY <1>1, <1>3

LEMMA WithoutLast ==
  ASSUME NEW n \in Nat, NEW k \in Nat, k + 1 <= n,
         NEW s \in SUBSET (1..n), s \subseteq 1..(k + 1)
  PROVE  k + 1 \in 1..n /\ s \ {k + 1} \in SUBSET (1..n) /\ s \ {k + 1} \subseteq 1..k
OBVIOUS

LEMMA WithoutLargest ==
  ASSUME NEW n \in Nat, NEW k \in Nat, NEW s \in SUBSET (1..n), s \subseteq 1..k, s # {}
  PROVE  /\ Max(s) \in s /\ s \ {Max(s)} \in SUBSET (1..n)
         /\ s \ {Max(s)} \subseteq 1..k
BY LargestNumber

LEMMA PlacesUpTo ==
  ASSUME NEW n \in Nat, NEW k \in 1..n
  PROVE  /\ 1..k \in SUBSET (1..n) /\ 1..(k - 1) \in SUBSET (1..n)
         /\ 1..k # {} /\ (1..k) \ {k} = 1..(k - 1)
<1>1. k \in 1..k
  OBVIOUS
<1>2. \A x : x \in (1..k) \ {k} <=> x \in 1..(k - 1)
  OBVIOUS
<1>3. 1..k \subseteq 1..n /\ 1..(k - 1) \subseteq 1..n
  OBVIOUS
<1> QED BY <1>1, <1>2, <1>3
-----------------------------------------------------------------------------
(* The recursive functions behind FoldLeft and FlattenSeq.                  *)

Iterates(iter, n, base, F) ==
  \A s \in SUBSET (1..n) :
    iter[s] = IF s = {} THEN base ELSE F[Max(s)][iter[s \ {Max(s)}]]

\* What MapThenFoldSet iterates is a function, for any step F on the positions of a
\* sequence and the values so far.
LEMMA IterationExists ==
  ASSUME NEW n \in Nat, NEW V, NEW base \in V, NEW F \in [1..n -> [V -> V]]
  PROVE  \E iter \in [SUBSET (1..n) -> V] : Iterates(iter, n, base, F)
<1> DEFINE Sets == SUBSET (1..n)
           Value(g, s) == IF s = {} THEN base ELSE F[Max(s)][g[s \ {Max(s)}]]
           Partial(g, k) == \A s \in Sets : s \subseteq 1..k => g[s] = Value(g, s)
           T == {k \in Nat : k <= n => \E g \in [Sets -> V] : Partial(g, k)}
<1> HIDE DEF Partial
<1>1. 0 \in T
  <2> DEFINE g == [s \in Sets |-> base]
  <2>1. g \in [Sets -> V]
    OBVIOUS
  <2>2. Partial(g, 0)
    <3>1. \A s \in Sets : s \subseteq 1..0 => s = {}
      OBVIOUS
    <3> QED BY <3>1 DEF Partial
  <2> QED BY <2>1, <2>2
<1>2. ASSUME NEW k \in Nat, k \in T PROVE k + 1 \in T
  <2>1. CASE ~(k + 1 <= n)
    BY <2>1
  <2>2. CASE k + 1 <= n
    <3>1. PICK g \in [Sets -> V] : Partial(g, k)
      <4>1. k <= n
        BY <2>2
      <4>2. k <= n => \E g \in [Sets -> V] : Partial(g, k)
        BY <1>2
      <4> QED BY <4>1, <4>2
    <3> DEFINE h == [s \in Sets |->
                       IF s \subseteq 1..k THEN g[s]
                       ELSE IF s \subseteq 1..(k + 1) THEN F[k + 1][g[s \ {k + 1}]] ELSE base]
    <3>2. ASSUME NEW s \in Sets, s \subseteq 1..(k + 1) PROVE F[k + 1][g[s \ {k + 1}]] \in V
      <4> HIDE DEF Value
      <4> QED BY <2>2, <3>1, <3>2, WithoutLast
    <3>3. h \in [Sets -> V]
      BY <3>1, <3>2
    <3>4. /\ \A s \in Sets : s \subseteq 1..k => h[s] = g[s]
          /\ \A s \in Sets : s \subseteq 1..(k + 1) /\ ~(s \subseteq 1..k)
               => h[s] = F[k + 1][g[s \ {k + 1}]]
      OBVIOUS
    <3> HIDE DEF h
    <3>5. ASSUME NEW s \in Sets, s \subseteq 1..(k + 1) PROVE h[s] = Value(h, s)
      <4>1. CASE s = {}
        <5>1. h[s] = g[s] /\ g[s] = Value(g, s)
          BY <3>1, <3>4, <4>1 DEF Partial
        <5> QED BY <4>1, <5>1
      <4>2. CASE s # {} /\ s \subseteq 1..k
        <5>1. /\ Max(s) \in s /\ s \ {Max(s)} \in Sets
              /\ s \ {Max(s)} \subseteq 1..k
          BY <4>2, WithoutLargest
        <5>2. h[s \ {Max(s)}] = g[s \ {Max(s)}]
          BY <3>4, <5>1
        <5>3. h[s] = g[s] /\ g[s] = Value(g, s)
          BY <3>1, <3>4, <4>2 DEF Partial
        <5> QED BY <4>2, <5>2, <5>3
      <4>3. CASE ~(s \subseteq 1..k)
        <5>1. s # {} /\ Max(s) = k + 1
          BY <2>2, <3>5, <4>3, WithLast
        <5>2. h[s \ {k + 1}] = g[s \ {k + 1}]
          BY <2>2, <3>4, <3>5, WithoutLast
        <5>3. h[s] = F[k + 1][g[s \ {k + 1}]]
          BY <3>4, <3>5, <4>3
        <5> QED BY <5>1, <5>2, <5>3
      <4> QED BY <4>1, <4>2, <4>3
    <3>6. Partial(h, k + 1)
      <4> HIDE DEF Value
      <4> QED BY <3>5 DEF Partial
    <3> QED BY <3>3, <3>6
  <2> QED BY <2>1, <2>2
<1>3. n \in T
  <2> HIDE DEF T
  <2> QED BY <1>1, <1>2, Induction
<1>4. PICK g \in [Sets -> V] : Partial(g, n)
  <2>1. n <= n => \E g \in [Sets -> V] : Partial(g, n)
    BY <1>3
  <2>2. n <= n
    OBVIOUS
  <2> QED BY <2>1, <2>2
<1>5. \A s \in Sets : g[s] = Value(g, s)
  <2> HIDE DEF Value
  <2> QED BY <1>4 DEF Partial
<1> QED BY <1>4, <1>5 DEF Iterates

\* A sum by its partial sums.
LEMMA PartialSums ==
  ASSUME NEW ns \in Seq(Nat)
  PROVE  \E g \in [0..Len(ns) -> Nat] :
           /\ g[0] = 0
           /\ \A i \in 1..Len(ns) : g[i] = g[i - 1] + ns[i]
           /\ FoldLeft(LAMBDA m, n : m + n, 0, ns) = g[Len(ns)]
<1> DEFINE n == Len(ns)
           Step(iter, s) == IF s = {} THEN 0 ELSE iter[s \ {Max(s)}] + ns[Max(s)]
           Iter == CHOOSE iter : iter = [s \in SUBSET (1..n) |-> Step(iter, s)]
           F == [i \in 1..n |-> [v \in Nat |-> v + ns[i]]]
<1>1. n \in Nat /\ DOMAIN ns = 1..n /\ \A i \in 1..n : ns[i] \in Nat
  OBVIOUS
<1>2. F \in [1..n -> [Nat -> Nat]]
  BY <1>1
<1>3. PICK iter \in [SUBSET (1..n) -> Nat] : Iterates(iter, n, 0, F)
  <2>1. 0 \in Nat /\ n \in Nat
    BY <1>1
  <2> HIDE DEF F, n, Step, Iter
  <2> QED BY <1>2, <2>1, IterationExists
<1>4. ASSUME NEW s \in SUBSET (1..n) PROVE iter[s] = Step(iter, s)
  <2>1. CASE s = {}
    BY <1>3, <2>1 DEF Iterates
  <2>2. CASE s # {}
    <3>1. Max(s) \in 1..n /\ s \ {Max(s)} \in SUBSET (1..n)
      <4> HIDE DEF n, F, Step
      <4> QED BY <1>1, <2>2, WithoutLargest
    <3>2. iter[s] = F[Max(s)][iter[s \ {Max(s)}]]
      <4> HIDE DEF n, F, Step
      <4> QED BY <1>3, <2>2 DEF Iterates
    <3>3. iter[s \ {Max(s)}] \in Nat
      BY <3>1
    <3> QED BY <2>2, <3>1, <3>2, <3>3
  <2> QED BY <2>1, <2>2
<1>5. Iter = [s \in SUBSET (1..n) |-> Step(Iter, s)]
  <2>1. iter = [s \in SUBSET (1..n) |-> Step(iter, s)]
    <3> HIDE DEF n, F, Step
    <3> QED BY <1>3, <1>4
  <2> HIDE DEF n, F, Step
  <2> QED BY <2>1
<1>6. FoldLeft(LAMBDA a, b : a + b, 0, ns) = Iter[1..n]
  <2> HIDE DEF n, F
  <2> QED BY <1>1 DEF FoldLeft, MapThenFoldSet
<1> HIDE DEF Iter
<1>7. ASSUME NEW k \in 1..n
      PROVE  /\ 1..k \in SUBSET (1..n) /\ 1..(k - 1) \in SUBSET (1..n)
             /\ 1..k # {} /\ Max(1..k) = k /\ (1..k) \ {k} = 1..(k - 1)
  <2> HIDE DEF F, Step, n
  <2>1. k \in Nat \ {0} /\ k <= n
    BY <1>1
  <2>2. Max(1..k) = k
    BY <2>1, LargestUpTo
  <2>3. /\ 1..k \in SUBSET (1..n) /\ 1..(k - 1) \in SUBSET (1..n)
        /\ 1..k # {} /\ (1..k) \ {k} = 1..(k - 1)
    BY <1>1, <2>1, PlacesUpTo
  <2> QED BY <2>2, <2>3
<1>8. Iter[1..0] = 0
  <2>1. 1..0 = {} /\ {} \in SUBSET (1..n)
    BY <1>1
  <2>2. Iter[{}] = Step(Iter, {})
    <3> HIDE DEF Step, n
    <3> QED BY <1>5, <2>1
  <2> QED BY <2>1, <2>2
<1>9. ASSUME NEW k \in 1..n PROVE Iter[1..k] = Iter[1..(k - 1)] + ns[k]
  <2>1. Iter[1..k] = Step(Iter, 1..k)
    <3> HIDE DEF Step, n
    <3> QED BY <1>5, <1>7
  <2>2. 1..k # {} /\ Max(1..k) = k /\ (1..k) \ {k} = 1..(k - 1)
    BY <1>7
  <2> HIDE DEF n
  <2> QED BY <2>1, <2>2
<1> DEFINE T == {k \in Nat : k <= n => Iter[1..k] \in Nat}
<1>10. \A k \in Nat : k \in T
  <2> HIDE DEF Step, F, n
  <2>1. 0 \in T
    <3>1. Iter[1..0] \in Nat
      BY <1>8
    <3> QED BY <3>1
  <2>2. ASSUME NEW k \in Nat, k \in T PROVE k + 1 \in T
    <3> SUFFICES ASSUME k + 1 <= n PROVE Iter[1..(k + 1)] \in Nat
      OBVIOUS
    <3>1. k + 1 \in 1..n /\ k <= n /\ k + 1 - 1 = k
      BY <1>1
    <3>2. Iter[1..(k + 1)] = Iter[1..k] + ns[k + 1]
      <4> HIDE DEF T
      <4> QED BY <1>9, <3>1
    <3>3. Iter[1..k] \in Nat
      BY <2>2, <3>1
    <3>4. ns[k + 1] \in Nat
      BY <1>1, <3>1
    <3> QED BY <3>2, <3>3, <3>4
  <2> HIDE DEF T
  <2> QED BY <2>1, <2>2, Induction
<1> DEFINE g == [k \in 0..n |-> Iter[1..k]]
<1>11. g \in [0..n -> Nat]
  <2>1. \A k \in 0..n : k \in Nat /\ k <= n
    BY <1>1
  <2>2. \A k \in 0..n : Iter[1..k] \in Nat
    BY <1>10, <2>1
  <2> HIDE DEF n, Iter
  <2> QED BY <2>2
<1>12. g[0] = 0 /\ g[n] = Iter[1..n] /\ \A i \in 1..n : g[i] = g[i - 1] + ns[i]
  <2>1. /\ 0 \in 0..n /\ n \in 0..n
        /\ \A i \in 1..n : i \in 0..n /\ i - 1 \in 0..n
    BY <1>1
  <2> HIDE DEF n
  <2> QED BY <1>8, <1>9, <2>1
<1> HIDE DEF g
<1> QED BY <1>6, <1>11, <1>12

\* The values along a sequence.
Along(g, n, base, F) == g[0] = base /\ \A i \in 1..n : g[i] = F[i][g[i - 1]]

LEMMA ValuesAlong ==
  ASSUME NEW n \in Nat, NEW V, NEW base \in V, NEW F \in [1..n -> [V -> V]]
  PROVE  \E g \in [0..n -> V] : Along(g, n, base, F)
<1>1. PICK iter \in [SUBSET (1..n) -> V] : Iterates(iter, n, base, F)
  BY IterationExists
<1> DEFINE g == [k \in 0..n |-> iter[1..k]]
<1>2. \A k \in 0..n : 1..k \in SUBSET (1..n)
  OBVIOUS
<1>3. g \in [0..n -> V] /\ \A k \in 0..n : g[k] = iter[1..k]
  BY <1>2
<1> HIDE DEF g
<1>4. g[0] = base
  <2>1. 1..0 = {} /\ {} \in SUBSET (1..n) /\ 0 \in 0..n
    OBVIOUS
  <2>2. iter[{}] = base
    BY <1>1, <2>1 DEF Iterates
  <2> QED BY <1>3, <2>1, <2>2
<1>5. ASSUME NEW i \in 1..n PROVE g[i] = F[i][g[i - 1]]
  <2>1. i \in 0..n /\ i - 1 \in 0..n /\ i \in Nat \ {0}
    OBVIOUS
  <2>2. /\ 1..i \in SUBSET (1..n) /\ 1..i # {} /\ Max(1..i) = i
        /\ (1..i) \ {i} = 1..(i - 1)
    BY <2>1, PlacesUpTo, LargestUpTo
  <2>3. iter[1..i] = F[i][iter[1..(i - 1)]]
    BY <1>1, <2>2 DEF Iterates
  <2> QED BY <1>3, <2>1, <2>3
<1> QED BY <1>3, <1>4, <1>5 DEF Along

\* A concatenation by what its first sequences concatenate to.
LEMMA PartialConcats ==
  ASSUME NEW S, NEW ss \in Seq(Seq(S))
  PROVE  \E h \in [0..Len(ss) -> Seq(S)] :
           /\ h[0] = <<>>
           /\ \A i \in 1..Len(ss) : h[i] = h[i - 1] \o ss[i]
           /\ FlattenSeq(ss) = h[Len(ss)]
<1> DEFINE n == Len(ss)
           F == [i \in 1..n |-> [v \in Seq(S) |-> v \o ss[i]]]
           Step(f, i) == IF i = 1 THEN ss[i] ELSE f[i - 1] \o ss[i]
           flatten == CHOOSE f : f = [i \in 1..n |-> Step(f, i)]
<1>1. n \in Nat /\ \A i \in 1..n : ss[i] \in Seq(S)
  OBVIOUS
<1>2. F \in [1..n -> [Seq(S) -> Seq(S)]]
  <2>1. \A i \in 1..n, v \in Seq(S) : v \o ss[i] \in Seq(S)
    BY <1>1, ConcatProperties
  <2> HIDE DEF n
  <2> QED BY <2>1
<1>3. PICK h \in [0..n -> Seq(S)] : Along(h, n, <<>>, F)
  <2>1. <<>> \in Seq(S)
    OBVIOUS
  <2> HIDE DEF F, n, Step, flatten
  <2> QED BY <1>1, <1>2, <2>1, ValuesAlong
<1>4. /\ h[0] = <<>>
      /\ \A i \in 1..n : i - 1 \in 0..n /\ h[i - 1] \in Seq(S) /\ h[i] = h[i - 1] \o ss[i]
  <2>1. \A i \in 1..n : i - 1 \in 0..n
    BY <1>1
  <2> HIDE DEF n
  <2> QED BY <1>1, <1>3, <2>1 DEF Along
<1>5. CASE n = 0
  <2>1. FlattenSeq(ss) = <<>>
    BY <1>5 DEF FlattenSeq
  <2> HIDE DEF F, Step, flatten
  <2> QED BY <1>3, <1>4, <1>5, <2>1
<1>6. CASE n # 0
  <2>1. FlattenSeq(ss) = flatten[n]
    BY <1>6 DEF FlattenSeq
  <2> DEFINE f == [i \in 1..n |-> h[i]]
  <2>2. f = [i \in 1..n |-> Step(f, i)]
    <3>1. ASSUME NEW i \in 1..n PROVE h[i] = Step(f, i)
      <4>1. CASE i = 1
        <5>1. h[0] = <<>> /\ h[1] = h[0] \o ss[1] /\ ss[1] \in Seq(S)
          <6>1. 1 \in 1..n /\ 1 - 1 = 0
            BY <1>1, <4>1
          <6> HIDE DEF n, F
          <6> QED BY <1>1, <1>4, <6>1
        <5> QED BY <4>1, <5>1
      <4>2. CASE i # 1
        <5>1. i - 1 \in 1..n
          BY <1>1, <4>2
        <5> HIDE DEF n
        <5> QED BY <1>4, <4>2, <5>1
      <4> QED BY <4>1, <4>2
    <3> HIDE DEF Step, n
    <3> QED BY <3>1
  <2>3. flatten = [i \in 1..n |-> Step(flatten, i)]
    <3> HIDE DEF Step, n, f
    <3> QED BY <2>2
  <2> HIDE DEF flatten, f
  <2> DEFINE T == {k \in Nat : k + 1 \in 1..n => flatten[k + 1] = h[k + 1]}
  <2>4. 0 \in T
    <3>1. 1 \in 1..n /\ 1 - 1 = 0
      BY <1>1, <1>6
    <3>2. flatten[1] = ss[1]
      <4> HIDE DEF n
      <4> QED BY <2>3, <3>1
    <3>3. h[1] = <<>> \o ss[1] /\ ss[1] \in Seq(S)
      <4> HIDE DEF n
      <4> QED BY <1>1, <1>3, <1>4, <3>1
    <3> QED BY <3>2, <3>3
  <2>5. ASSUME NEW k \in Nat, k \in T PROVE k + 1 \in T
    <3> SUFFICES ASSUME k + 1 + 1 \in 1..n PROVE flatten[k + 1 + 1] = h[k + 1 + 1]
      OBVIOUS
    <3> DEFINE j == k + 1 + 1
    <3>1. k + 1 \in 1..n /\ j \in 1..n /\ j # 1 /\ j - 1 = k + 1
      BY <1>1
    <3>2. flatten[k + 1] = h[k + 1]
      BY <2>5, <3>1
    <3> HIDE DEF n, T, j
    <3>3. flatten[j] = flatten[k + 1] \o ss[j]
      BY <2>3, <3>1
    <3>4. flatten[j] = h[j]
      BY <1>4, <3>1, <3>2, <3>3
    <3> QED BY <3>4 DEF j
  <2>6. n - 1 \in T /\ n - 1 + 1 = n /\ n \in 1..n
    <3>1. n - 1 \in Nat /\ n - 1 + 1 = n /\ n \in 1..n
      BY <1>1, <1>6
    <3> HIDE DEF T, n
    <3> QED BY <2>4, <2>5, <3>1, Induction
  <2>7. flatten[n] = h[n]
    BY <2>6
  <2> HIDE DEF F, Step, T, n
  <2> QED BY <1>3, <1>4, <2>1, <2>7 DEF n
<1> QED BY <1>5, <1>6
-----------------------------------------------------------------------------
(* Concatenations.                                                          *)

LEMMA FlattenTyped ==
  ASSUME NEW S, NEW ss \in Seq(Seq(S)) PROVE FlattenSeq(ss) \in Seq(S)
<1>1. PICK h \in [0..Len(ss) -> Seq(S)] : FlattenSeq(ss) = h[Len(ss)]
  BY PartialConcats
<1>2. Len(ss) \in 0..Len(ss)
  OBVIOUS
<1> QED BY <1>1, <1>2

\* The concatenation is as long as all sequences together.
LEMMA FlattenLength ==
  ASSUME NEW S, NEW ss \in Seq(Seq(S)), NEW ns \in Seq(Nat), Len(ns) = Len(ss),
         \A i \in 1..Len(ss) : ns[i] = Len(ss[i])
  PROVE  FoldLeft(LAMBDA m, n : m + n, 0, ns) = Len(FlattenSeq(ss))
<1> DEFINE n == Len(ss)
           sum == FoldLeft(LAMBDA a, b : a + b, 0, ns)
<1>1. n \in Nat /\ \A i \in 1..n : i \in 0..n /\ i - 1 \in 0..n /\ ss[i] \in Seq(S)
  OBVIOUS
<1>2. PICK g \in [0..n -> Nat] :
        g[0] = 0 /\ (\A i \in 1..n : g[i] = g[i - 1] + ns[i]) /\ sum = g[n]
  BY PartialSums
<1>3. PICK h \in [0..n -> Seq(S)] :
        h[0] = <<>> /\ (\A i \in 1..n : h[i] = h[i - 1] \o ss[i]) /\ FlattenSeq(ss) = h[n]
  BY PartialConcats
<1> HIDE DEF n, sum
<1> DEFINE T == {k \in Nat : k <= n => g[k] = Len(h[k])}
<1>4. 0 \in T
  BY <1>2, <1>3
<1>5. ASSUME NEW k \in Nat, k \in T PROVE k + 1 \in T
  <2> SUFFICES ASSUME k + 1 <= n PROVE g[k + 1] = Len(h[k + 1])
    OBVIOUS
  <2> DEFINE j == k + 1
  <2>1. j \in 1..n /\ j - 1 = k /\ k \in 0..n /\ k <= n
    BY <1>1
  <2>2. g[k] = Len(h[k])
    BY <1>5, <2>1
  <2> HIDE DEF j, T
  <2>3. h[k] \in Seq(S) /\ ss[j] \in Seq(S) /\ h[j] = h[k] \o ss[j]
    BY <1>1, <1>3, <2>1
  <2>4. Len(h[j]) = Len(h[k]) + Len(ss[j])
    BY <2>3, ConcatProperties
  <2>5. g[j] = g[k] + Len(ss[j])
    <3>1. ns[j] = Len(ss[j])
      BY <2>1 DEF n
    <3> QED BY <1>2, <2>1, <3>1
  <2> QED BY <2>2, <2>4, <2>5 DEF j
<1>6. n \in T
  <2> HIDE DEF T
  <2> QED BY <1>1, <1>4, <1>5, Induction
<1>7. g[n] = Len(h[n])
  <2>1. n <= n
    BY <1>1
  <2> QED BY <1>6, <2>1
<1>8. sum = Len(FlattenSeq(ss))
  BY <1>2, <1>3, <1>7
<1> QED BY <1>8 DEF sum

Associates(S) == \A u, v, w \in Seq(S) : (u \o v) \o w = u \o (v \o w)

LEMMA ConcatAssociates == ASSUME NEW S PROVE Associates(S)
BY DEF Associates

LEMMA FlattenHead ==
  ASSUME NEW S, NEW ss \in Seq(Seq(S)), ss # <<>>
  PROVE  FlattenSeq(ss) = Head(ss) \o FlattenSeq(Tail(ss))
<1> DEFINE n  == Len(ss)
           ts == Tail(ss)
<1>1. /\ n \in Nat \ {0} /\ ts \in Seq(Seq(S)) /\ Len(ts) = n - 1 /\ Head(ss) = ss[1]
      /\ ss[1] \in Seq(S)
      /\ \A i \in 1..(n - 1) : ts[i] = ss[i + 1] /\ ts[i] \in Seq(S)
  BY HeadTailProperties
<1>2. PICK h \in [0..n -> Seq(S)] :
        h[0] = <<>> /\ (\A i \in 1..n : h[i] = h[i - 1] \o ss[i]) /\ FlattenSeq(ss) = h[n]
  BY PartialConcats
<1>3. PICK t \in [0..(n - 1) -> Seq(S)] :
        t[0] = <<>> /\ (\A i \in 1..(n - 1) : t[i] = t[i - 1] \o ts[i])
        /\ FlattenSeq(ts) = t[n - 1]
  <2> HIDE DEF ts, n
  <2>1. PICK t \in [0..Len(ts) -> Seq(S)] :
          t[0] = <<>> /\ (\A i \in 1..Len(ts) : t[i] = t[i - 1] \o ts[i])
          /\ FlattenSeq(ts) = t[Len(ts)]
    BY <1>1, PartialConcats
  <2> QED BY <1>1, <2>1
<1> HIDE DEF n, ts
<1> DEFINE Shifted(k) == h[k + 1] = ss[1] \o t[k]
           T == {k \in Nat : k <= n - 1 => Shifted(k)}
<1> HIDE DEF Shifted
<1>4. 0 \in T
  <2>1. 1 \in 1..n /\ 1 - 1 = 0
    BY <1>1
  <2>2. h[1] = <<>> \o ss[1]
    BY <1>2, <2>1
  <2>3. h[1] = ss[1] \o t[0]
    BY <1>1, <1>3, <2>2
  <2>4. Shifted(0)
    <3>1. 0 + 1 = 1
      OBVIOUS
    <3> QED BY <2>3, <3>1 DEF Shifted
  <2> QED BY <2>4
<1>5. ASSUME NEW k \in Nat, k \in T PROVE k + 1 \in T
  <2> SUFFICES ASSUME k + 1 <= n - 1 PROVE Shifted(k + 1)
    OBVIOUS
  <2> DEFINE j == k + 1
             i == j + 1
  <2>1. /\ j \in 1..(n - 1) /\ j - 1 = k /\ k \in 0..(n - 1) /\ k <= n - 1
        /\ i \in 1..n /\ i - 1 = j /\ j \in 0..(n - 1)
    BY <1>1
  <2>2. h[j] = ss[1] \o t[k]
    BY <1>5, <2>1 DEF Shifted
  <2> HIDE DEF i, T
  <2>3. ts[j] = ss[i]
    BY <1>1, <2>1 DEF i
  <2> HIDE DEF j
  <2>4. h[i] = h[j] \o ss[i] /\ t[j] = t[k] \o ts[j]
    BY <1>2, <1>3, <2>1
  <2>5. t[k] \in Seq(S) /\ ts[j] \in Seq(S) /\ ss[1] \in Seq(S)
    BY <1>1, <1>3, <2>1
  <2>6. t[j] = t[k] \o ss[i] /\ ss[i] \in Seq(S)
    BY <2>3, <2>4, <2>5
  <2>7. h[i] = ss[1] \o t[j]
    <3>1. Associates(S)
      BY ConcatAssociates
    <3>2. (ss[1] \o t[k]) \o ss[i] = ss[1] \o (t[k] \o ss[i])
      BY <2>5, <2>6, <3>1, Zenon DEF Associates
    <3> QED BY <2>2, <2>4, <2>6, <3>2, Zenon
  <2> QED BY <2>7 DEF i, j, Shifted
<1>6. n - 1 \in T
  <2>1. n - 1 \in Nat
    BY <1>1
  <2> HIDE DEF T
  <2> QED BY <1>4, <1>5, <2>1, Induction
<1>7. h[n] = ss[1] \o t[n - 1]
  <2>1. n - 1 <= n - 1 /\ n - 1 + 1 = n
    BY <1>1
  <2>2. h[n - 1 + 1] = ss[1] \o t[n - 1]
    BY <1>6, <2>1 DEF Shifted
  <2> QED BY <2>1, <2>2
<1> QED BY <1>1, <1>2, <1>3, <1>7 DEF ts
-----------------------------------------------------------------------------
(* Recursive functions of a number, each value from that of a smaller one.  *)

Recurs(g, B, p, base, F) ==
  \A n \in Nat : g[n] = IF n \in B THEN base[n] ELSE F[n][g[p[n]]]

LEMMA RecursionExists ==
  ASSUME NEW V, NEW B, NEW p \in [Nat -> Nat], NEW base \in [Nat -> V],
         NEW F \in [Nat -> [V -> V]], \A n \in Nat \ B : p[n] < n
  PROVE  \E g \in [Nat -> V] : Recurs(g, B, p, base, F)
<1> DEFINE Value(g, n) == IF n \in B THEN base[n] ELSE F[n][g[p[n]]]
           Partial(g, k) == \A n \in Nat : n < k => g[n] = Value(g, n)
<1>1. \A g \in [Nat -> V], n \in Nat : Value(g, n) \in V
  OBVIOUS
<1>2. \A k \in Nat : \E g \in [Nat -> V] : Partial(g, k)
  <2> DEFINE T == {k \in Nat : \E g \in [Nat -> V] : Partial(g, k)}
  <2>1. 0 \in T
    <3>1. Partial(base, 0)
      OBVIOUS
    <3> QED BY <3>1
  <2>2. ASSUME NEW k \in Nat, k \in T PROVE k + 1 \in T
    <3>1. PICK g \in [Nat -> V] : Partial(g, k)
      BY <2>2
    <3> DEFINE h == [g EXCEPT ![k] = Value(g, k)]
    <3>2. /\ h \in [Nat -> V] /\ h[k] = Value(g, k)
          /\ \A n \in Nat : n # k => h[n] = g[n]
      BY <1>1, <2>2
    <3> HIDE DEF h
    <3>3. \A n \in Nat : n <= k => Value(h, n) = Value(g, n)
      <4> SUFFICES ASSUME NEW n \in Nat, n <= k, n \notin B PROVE h[p[n]] = g[p[n]]
        OBVIOUS
      <4>1. p[n] \in Nat /\ p[n] # k
        BY <2>2
      <4> QED BY <3>2, <4>1
    <3>4. Partial(h, k + 1)
      <4> SUFFICES ASSUME NEW n \in Nat, n < k + 1 PROVE h[n] = Value(h, n)
        OBVIOUS
      <4>1. CASE n = k
        BY <2>2, <3>2, <3>3, <4>1
      <4>2. CASE n # k
        <5>1. n < k /\ n <= k
          BY <2>2, <4>2
        <5> HIDE DEF Value
        <5> QED BY <3>1, <3>2, <3>3, <4>2, <5>1
      <4> QED BY <4>1, <4>2
    <3> HIDE DEF Partial
    <3> QED BY <2>2, <3>2, <3>4
  <2> HIDE DEF T
  <2>3. \A n \in Nat : n \in T
    BY <2>1, <2>2, Induction
  <2> QED BY <2>3 DEF T
<1>3. ASSUME NEW k \in Nat, NEW g \in [Nat -> V], NEW h \in [Nat -> V],
             Partial(g, k), Partial(h, k)
      PROVE  \A n \in Nat : n < k => g[n] = h[n]
  <2> DEFINE T == {n \in Nat : n < k => g[n] = h[n]}
  <2>1. ASSUME NEW n \in Nat, \A m \in 0..(n - 1) : m \in T PROVE n \in T
    <3> SUFFICES ASSUME n < k PROVE g[n] = h[n]
      OBVIOUS
    <3>1. n \notin B => g[p[n]] = h[p[n]]
      <4> SUFFICES ASSUME n \notin B PROVE g[p[n]] = h[p[n]]
        OBVIOUS
      <4>1. p[n] \in Nat /\ p[n] < n
        BY <2>1
      <4>2. p[n] \in 0..(n - 1) /\ p[n] < k
        BY <2>1, <1>3, <4>1
      <4> QED BY <2>1, <4>2
    <3>2. Value(g, n) = Value(h, n)
      BY <3>1
    <3> HIDE DEF Value
    <3> QED BY <1>3, <2>1, <3>2
  <2> HIDE DEF T
  <2>2. \A n \in Nat : n \in T
    BY <2>1, StrongInduction
  <2> QED BY <2>2 DEF T
<1> DEFINE best == [k \in Nat |-> CHOOSE g \in [Nat -> V] : Partial(g, k)]
           r    == [n \in Nat |-> best[n + 1][n]]
<1>4. \A k \in Nat : best[k] \in [Nat -> V] /\ Partial(best[k], k)
  <2> SUFFICES ASSUME NEW k \in Nat PROVE best[k] \in [Nat -> V] /\ Partial(best[k], k)
    OBVIOUS
  <2>1. \E g \in [Nat -> V] : Partial(g, k)
    BY <1>2
  <2> HIDE DEF Partial
  <2> QED BY <2>1
<1> HIDE DEF best
<1>5. \A m, k \in Nat : m < k => best[k][m] = best[m + 1][m]
  <2> SUFFICES ASSUME NEW m \in Nat, NEW k \in Nat, m < k
               PROVE  best[k][m] = best[m + 1][m]
    OBVIOUS
  <2>1. m + 1 \in Nat /\ m < m + 1 /\ m + 1 <= k
    OBVIOUS
  <2>2. Partial(best[k], m + 1)
    <3>1. \A n \in Nat : n < m + 1 => n < k
      BY <2>1
    <3> QED BY <1>4, <3>1
  <2>3. Partial(best[m + 1], m + 1) /\ best[k] \in [Nat -> V] /\ best[m + 1] \in [Nat -> V]
    BY <1>4, <2>1
  <2> HIDE DEF Partial
  <2>4. \A n \in Nat : n < m + 1 => best[k][n] = best[m + 1][n]
    BY <1>3, <2>1, <2>2, <2>3
  <2> QED BY <2>1, <2>4
<1>6. r \in [Nat -> V]
  BY <1>4
<1>7. \A n \in Nat : r[n] = Value(r, n)
  <2> SUFFICES ASSUME NEW n \in Nat PROVE r[n] = Value(r, n)
    OBVIOUS
  <2>1. n + 1 \in Nat /\ n < n + 1 /\ r[n] = best[n + 1][n]
    OBVIOUS
  <2>2. best[n + 1][n] = Value(best[n + 1], n)
    BY <1>4, <2>1
  <2>3. n \notin B => best[n + 1][p[n]] = r[p[n]]
    <3> SUFFICES ASSUME n \notin B PROVE best[n + 1][p[n]] = r[p[n]]
      OBVIOUS
    <3>1. p[n] \in Nat /\ p[n] < n + 1 /\ r[p[n]] = best[p[n] + 1][p[n]]
      OBVIOUS
    <3> QED BY <1>5, <2>1, <3>1
  <2> HIDE DEF r
  <2> QED BY <2>1, <2>2, <2>3
<1> HIDE DEF r
<1> QED BY <1>6, <1>7 DEF Recurs

-----------------------------------------------------------------------------
(* Numbers on the wire.                                                     *)

LEMMA Pow10Values ==
  /\ Pow10 \in [Nat -> Nat]
  /\ Pow10[0] = 1
  /\ \A k \in Nat : Pow10[k + 1] = 10 * Pow10[k]
<1> DEFINE Eq(f) == f = [k \in Nat |-> IF k = 0 THEN 1 ELSE 10 * f[k - 1]]
           p    == [k \in Nat |-> IF k = 0 THEN 0 ELSE k - 1]
           base == [k \in Nat |-> 1]
           F    == [k \in Nat |-> [v \in Nat |-> 10 * v]]
<1>1. PICK g \in [Nat -> Nat] : Recurs(g, {0}, p, base, F)
  <2>1. /\ p \in [Nat -> Nat] /\ base \in [Nat -> Nat] /\ F \in [Nat -> [Nat -> Nat]]
        /\ \A k \in Nat \ {0} : p[k] < k
    OBVIOUS
  <2> HIDE DEF p, base, F
  <2> QED BY <2>1, RecursionExists
<1>2. Eq(g)
  <2>1. \A k \in Nat : g[k] = IF k = 0 THEN 1 ELSE 10 * g[k - 1]
    <3> SUFFICES ASSUME NEW k \in Nat PROVE g[k] = IF k = 0 THEN 1 ELSE 10 * g[k - 1]
      OBVIOUS
    <3>1. g[k] = IF k \in {0} THEN base[k] ELSE F[k][g[p[k]]]
      BY <1>1 DEF Recurs
    <3>2. k # 0 => p[k] = k - 1 /\ g[k - 1] \in Nat
      OBVIOUS
    <3> QED BY <3>1, <3>2
  <2> QED BY <2>1
<1> HIDE DEF p, base, F
<1>3. Pow10 = CHOOSE f : Eq(f)
  BY DEF Pow10
<1> HIDE DEF Eq
<1>4. Eq(Pow10)
  BY <1>2, <1>3
<1>5. Pow10 = [k \in Nat |-> IF k = 0 THEN 1 ELSE 10 * Pow10[k - 1]]
  BY <1>4 DEF Eq
<1>6. Pow10[0] = 1 /\ \A k \in Nat : Pow10[k + 1] = 10 * Pow10[k]
  <2>1. \A k \in Nat : Pow10[k] = IF k = 0 THEN 1 ELSE 10 * Pow10[k - 1]
    BY <1>5
  <2>2. \A k \in Nat : k + 1 \in Nat /\ k + 1 # 0 /\ k + 1 - 1 = k
    OBVIOUS
  <2> QED BY <2>1, <2>2
<1>7. \A k \in Nat : Pow10[k] \in Nat
  <2> DEFINE T == {k \in Nat : Pow10[k] \in Nat}
  <2>1. 0 \in T /\ \A k \in Nat : k \in T => k + 1 \in T
    BY <1>6
  <2> HIDE DEF T
  <2>2. \A k \in Nat : k \in T
    BY <2>1, Induction
  <2> QED BY <2>2 DEF T
<1> QED BY <1>5, <1>6, <1>7

LEMMA Pow10Grows ==
  /\ \A k \in Nat : k < Pow10[k]
  /\ \A j, k \in Nat : j <= k => Pow10[j] <= Pow10[k]
<1>1. \A k \in Nat : Pow10[k] \in Nat /\ Pow10[k + 1] = 10 * Pow10[k]
  BY Pow10Values
<1>2. \A k \in Nat : k < Pow10[k]
  <2> DEFINE T == {k \in Nat : k < Pow10[k]}
  <2>1. 0 \in T
    BY Pow10Values
  <2>2. ASSUME NEW k \in Nat, k \in T PROVE k + 1 \in T
    BY <1>1, <2>2
  <2> HIDE DEF T
  <2>3. \A k \in Nat : k \in T
    BY <2>1, <2>2, Induction
  <2> QED BY <2>3 DEF T
<1>3. ASSUME NEW j \in Nat PROVE \A k \in Nat : j <= k => Pow10[j] <= Pow10[k]
  <2> DEFINE T == {k \in Nat : j <= k => Pow10[j] <= Pow10[k]}
  <2>1. 0 \in T
    <3>1. Pow10[j] \in Nat
      BY <1>1
    <3> QED BY <3>1
  <2>2. ASSUME NEW k \in Nat, k \in T PROVE k + 1 \in T
    <3>1. /\ Pow10[k] \in Nat /\ Pow10[k + 1] \in Nat /\ Pow10[j] \in Nat
          /\ Pow10[k + 1] = 10 * Pow10[k]
      BY <1>1
    <3>2. CASE j = k + 1
      BY <3>1, <3>2
    <3>3. CASE j # k + 1
      <4>1. j <= k + 1 => Pow10[j] <= Pow10[k]
        BY <2>2, <3>3
      <4> QED BY <3>1, <4>1
    <3> QED BY <3>2, <3>3
  <2> HIDE DEF T
  <2>3. \A k \in Nat : k \in T
    BY <2>1, <2>2, Induction
  <2> QED BY <2>3 DEF T
<1> QED BY <1>2, <1>3

LEMMA DigitBytes == \A n \in 0..9 : DigitByte[n] \in Byte
<1> SUFFICES ASSUME NEW n \in 0..9 PROVE DigitByte[n] \in Digit
  BY DEF Byte, KwChar
<1>1. \E d \in Digit : DigitValue[d] = n
  <2>1. /\ DigitValue["0"] = 0 /\ DigitValue["1"] = 1 /\ DigitValue["2"] = 2
        /\ DigitValue["3"] = 3 /\ DigitValue["4"] = 4 /\ DigitValue["5"] = 5
        /\ DigitValue["6"] = 6 /\ DigitValue["7"] = 7 /\ DigitValue["8"] = 8
        /\ DigitValue["9"] = 9
    BY DEF DigitValue, Digit
  <2>2. {"0", "1", "2", "3", "4", "5", "6", "7", "8", "9"} \subseteq Digit
    BY DEF Digit
  <2>3. n \in {0, 1, 2, 3, 4, 5, 6, 7, 8, 9}
    OBVIOUS
  <2> QED BY <2>1, <2>2, <2>3
<1>2. DigitByte[n] = CHOOSE d \in Digit : DigitValue[d] = n
  BY DEF DigitByte
<1> QED BY <1>1, <1>2

LEMMA itoaValues ==
  /\ itoa \in [Nat -> Seq(Byte)]
  /\ \A n \in Nat : itoa[n] = IF n < 10 THEN <<DigitByte[n]>>
                              ELSE itoa[n \div 10] \o <<DigitByte[n % 10]>>
<1> DEFINE Eq(f) == f = [n \in Nat |-> IF n < 10 THEN <<DigitByte[n]>>
                                       ELSE f[n \div 10] \o <<DigitByte[n % 10]>>]
           p    == [n \in Nat |-> n \div 10]
           base == [n \in Nat |-> IF n < 10 THEN <<DigitByte[n]>> ELSE <<>>]
           F    == [n \in Nat |-> [s \in Seq(Byte) |-> s \o <<DigitByte[n % 10]>>]]
<1>0. \A n \in Nat : n \div 10 \in Nat /\ n % 10 \in 0..9 /\ (n >= 10 => n \div 10 < n)
  OBVIOUS
<1>1. PICK g \in [Nat -> Seq(Byte)] : Recurs(g, 0..9, p, base, F)
  <2>1. p \in [Nat -> Nat] /\ \A n \in Nat \ (0..9) : p[n] < n
    BY <1>0
  <2>2. base \in [Nat -> Seq(Byte)]
    <3>1. \A n \in Nat : n < 10 => <<DigitByte[n]>> \in Seq(Byte)
      BY DigitBytes
    <3> QED BY <3>1
  <2>3. F \in [Nat -> [Seq(Byte) -> Seq(Byte)]]
    <3>1. \A n \in Nat : <<DigitByte[n % 10]>> \in Seq(Byte)
      <4> SUFFICES ASSUME NEW n \in Nat PROVE <<DigitByte[n % 10]>> \in Seq(Byte)
        OBVIOUS
      <4>1. DigitByte[n % 10] \in Byte
        BY <1>0, DigitBytes
      <4> QED BY <4>1
    <3>2. \A n \in Nat, s \in Seq(Byte) : s \o <<DigitByte[n % 10]>> \in Seq(Byte)
      BY <3>1, ConcatProperties
    <3> QED BY <3>2
  <2> HIDE DEF p, base, F
  <2> QED BY <2>1, <2>2, <2>3, RecursionExists
<1>2. Eq(g)
  <2>1. \A n \in Nat : g[n] = IF n < 10 THEN <<DigitByte[n]>>
                              ELSE g[n \div 10] \o <<DigitByte[n % 10]>>
    <3> SUFFICES ASSUME NEW n \in Nat
                 PROVE  g[n] = IF n < 10 THEN <<DigitByte[n]>>
                               ELSE g[n \div 10] \o <<DigitByte[n % 10]>>
      OBVIOUS
    <3>1. g[n] = IF n \in 0..9 THEN base[n] ELSE F[n][g[p[n]]]
      BY <1>1 DEF Recurs
    <3>2. n \in 0..9 <=> n < 10
      OBVIOUS
    <3>3. p[n] = n \div 10 /\ g[n \div 10] \in Seq(Byte)
      BY <1>0
    <3>4. F[n][g[n \div 10]] = g[n \div 10] \o <<DigitByte[n % 10]>>
      BY <3>3
    <3>5. n < 10 => base[n] = <<DigitByte[n]>>
      OBVIOUS
    <3> HIDE DEF p, base, F
    <3> QED BY <3>1, <3>2, <3>3, <3>4, <3>5
  <2> QED BY <2>1
<1> HIDE DEF p, base, F
<1>3. itoa = CHOOSE f : Eq(f)
  BY DEF itoa
<1> HIDE DEF Eq
<1>4. Eq(itoa)
  BY <1>2, <1>3
<1>5. itoa = [n \in Nat |-> IF n < 10 THEN <<DigitByte[n]>>
                            ELSE itoa[n \div 10] \o <<DigitByte[n % 10]>>]
  BY <1>4 DEF Eq
<1>6. \A n \in Nat : itoa[n] = IF n < 10 THEN <<DigitByte[n]>>
                               ELSE itoa[n \div 10] \o <<DigitByte[n % 10]>>
  BY <1>5
<1>7. \A n \in Nat : itoa[n] \in Seq(Byte)
  <2> DEFINE T == {n \in Nat : itoa[n] \in Seq(Byte)}
  <2>1. \A n \in Nat : n \in T <=> itoa[n] \in Seq(Byte)
    OBVIOUS
  <2> HIDE DEF T
  <2>2. ASSUME NEW n \in Nat, \A m \in 0..(n - 1) : m \in T PROVE n \in T
    <3>1. itoa[n] = IF n < 10 THEN <<DigitByte[n]>>
                    ELSE itoa[n \div 10] \o <<DigitByte[n % 10]>>
      BY <1>6
    <3>2. CASE n < 10
      <4>1. n \in 0..9
        BY <3>2
      <4>2. DigitByte[n] \in Byte
        BY <4>1, DigitBytes
      <4>3. <<DigitByte[n]>> \in Seq(Byte)
        BY <4>2
      <4>4. itoa[n] = <<DigitByte[n]>>
        BY <3>1, <3>2, Zenon
      <4> QED BY <2>1, <4>3, <4>4, Zenon
    <3>3. CASE ~(n < 10)
      <4>1. n \div 10 \in 0..(n - 1) /\ n % 10 \in 0..9
        BY <1>0, <3>3
      <4>2. DigitByte[n % 10] \in Byte
        BY <4>1, DigitBytes
      <4>3. <<DigitByte[n % 10]>> \in Seq(Byte)
        BY <4>2
      <4>4. n \div 10 \in T
        BY <2>2, <4>1
      <4>5. itoa[n \div 10] \in Seq(Byte)
        BY <1>0, <2>1, <4>4
      <4>6. itoa[n \div 10] \o <<DigitByte[n % 10]>> \in Seq(Byte)
        BY <4>3, <4>5, ConcatProperties
      <4>7. itoa[n] = itoa[n \div 10] \o <<DigitByte[n % 10]>>
        BY <3>1, <3>3, Zenon
      <4> QED BY <2>1, <4>6, <4>7, Zenon
    <3> QED BY <3>2, <3>3
  <2>3. \A n \in Nat : n \in T
    BY <2>2, StrongInduction
  <2> QED BY <2>1, <2>3
<1> QED BY <1>5, <1>6, <1>7

\* itoa writes as many digits as psyc_num_length counts.
LEMMA NumLength ==
  ASSUME NEW n \in Nat
  PROVE  psyc_num_length(n) = Len(itoa[n]) /\ psyc_num_length(n) \in Nat
<1> DEFINE T == {m \in Nat : m = 0 \/ \E k \in Nat : /\ Pow10[k] <= m /\ m < Pow10[k + 1]
                                                   /\ Len(itoa[m]) = k + 1}
<1>1. \A m \in Nat : m \in T <=> (m = 0 \/ \E k \in Nat : /\ Pow10[k] <= m /\ m < Pow10[k + 1]
                                                       /\ Len(itoa[m]) = k + 1)
  OBVIOUS
<1> HIDE DEF T
<1>p. Pow10[0] = 1 /\ \A k \in Nat : Pow10[k] \in Nat /\ Pow10[k + 1] = 10 * Pow10[k]
  BY Pow10Values
<1>2. ASSUME NEW m \in Nat, m < 10 PROVE Len(itoa[m]) = 1
  <2>1. itoa[m] = IF m < 10 THEN <<DigitByte[m]>>
                  ELSE itoa[m \div 10] \o <<DigitByte[m % 10]>>
    BY itoaValues
  <2>2. itoa[m] = <<DigitByte[m]>>
    BY <1>2, <2>1, Zenon
  <2>3. Len(<<DigitByte[m]>>) = 1
    OBVIOUS
  <2> QED BY <2>2, <2>3, Zenon
<1>3. ASSUME NEW m \in Nat, ~(m < 10) PROVE Len(itoa[m]) = Len(itoa[m \div 10]) + 1
  <2>1. itoa[m] = IF m < 10 THEN <<DigitByte[m]>>
                  ELSE itoa[m \div 10] \o <<DigitByte[m % 10]>>
    BY itoaValues
  <2>2. itoa[m] = itoa[m \div 10] \o <<DigitByte[m % 10]>>
    BY <1>3, <2>1, Zenon
  <2>3. m \div 10 \in Nat /\ m % 10 \in 0..9
    OBVIOUS
  <2>4. itoa[m \div 10] \in Seq(Byte) /\ DigitByte[m % 10] \in Byte
    BY <2>3, DigitBytes, itoaValues
  <2>5. <<DigitByte[m % 10]>> \in Seq(Byte) /\ Len(<<DigitByte[m % 10]>>) = 1
    BY <2>4
  <2> HIDE <2>1
  <2>6. Len(itoa[m \div 10] \o <<DigitByte[m % 10]>>)
        = Len(itoa[m \div 10]) + Len(<<DigitByte[m % 10]>>)
    BY <2>4, <2>5, ConcatProperties
  <2> QED BY <2>2, <2>5, <2>6
<1>4. ASSUME NEW m \in Nat, \A j \in 0..(m - 1) : j \in T PROVE m \in T
  <2>1. CASE m < 10
    <3>1. Len(itoa[m]) = 1
      BY <1>2, <2>1
    <3>2. Pow10[1] = 10
      BY <1>p, 0 \in Nat, 0 + 1 = 1
    <3>3. m # 0 => Pow10[0] <= m /\ m < Pow10[0 + 1] /\ Len(itoa[m]) = 0 + 1
      BY <1>p, <2>1, <3>1, <3>2
    <3> QED BY <1>1, <3>3, 0 \in Nat
  <2>2. CASE ~(m < 10)
    <3> DEFINE d == m \div 10
    <3>1. d \in Nat /\ d # 0 /\ d \in 0..(m - 1) /\ 10 * d <= m /\ m < 10 * d + 10
      BY <2>2
    <3>2. Len(itoa[m]) = Len(itoa[d]) + 1
      BY <1>3, <2>2
    <3> HIDE DEF d
    <3>3. d \in T
      BY <1>4, <3>1
    <3>4. PICK k \in Nat : Pow10[k] <= d /\ d < Pow10[k + 1] /\ Len(itoa[d]) = k + 1
      BY <1>1, <3>1, <3>3
    <3>5. /\ Pow10[k] \in Nat /\ Pow10[k + 1] \in Nat
          /\ Pow10[k + 1] = 10 * Pow10[k] /\ Pow10[(k + 1) + 1] = 10 * Pow10[k + 1]
      BY <1>p
    <3>6. Pow10[k + 1] <= m /\ m < Pow10[(k + 1) + 1] /\ Len(itoa[m]) = (k + 1) + 1
      BY <3>1, <3>2, <3>4, <3>5
    <3> QED BY <1>1, <3>6, k + 1 \in Nat
  <2> QED BY <2>1, <2>2
<1>5. n \in T
  BY <1>4, StrongInduction
<1>6. CASE n < 10
  BY <1>2, <1>6 DEF psyc_num_length
<1>7. CASE ~(n < 10)
  <2>1. PICK k \in Nat : Pow10[k] <= n /\ n < Pow10[k + 1] /\ Len(itoa[n]) = k + 1
    BY <1>1, <1>5, <1>7
  <2>2. k \in 1..n
    <3>1. k < Pow10[k] /\ Pow10[k] \in Nat
      BY <1>p, Pow10Grows
    <3>2. k # 0
      <4> SUFFICES ASSUME k = 0 PROVE FALSE
        OBVIOUS
      <4>1. Pow10[k + 1] = 10
        BY <1>p
      <4> QED BY <1>7, <2>1, <4>1
    <3> QED BY <2>1, <3>1, <3>2
  <2>3. ASSUME NEW j \in 1..n, Pow10[j] <= n, n < Pow10[j + 1] PROVE j = k
    <3>1. /\ Pow10[k] \in Nat /\ Pow10[k + 1] \in Nat
          /\ Pow10[j] \in Nat /\ Pow10[j + 1] \in Nat
      BY <1>p
    <3>2. j < k => Pow10[j + 1] <= Pow10[k]
      BY Pow10Grows
    <3>3. k < j => Pow10[k + 1] <= Pow10[j]
      BY Pow10Grows
    <3> QED BY <2>1, <2>3, <3>1, <3>2, <3>3
  <2>4. (CHOOSE j \in 1..n : Pow10[j] <= n /\ n < Pow10[j + 1]) = k
    BY <2>1, <2>2, <2>3
  <2>5. psyc_num_length(n) = 1 + k
    BY <1>7, <2>4 DEF psyc_num_length
  <2> QED BY <2>1, <2>5
<1> QED BY <1>6, <1>7

-----------------------------------------------------------------------------
(* Modifiers.                                                               *)

LEMMA OneByte ==
  ASSUME NEW b \in Byte PROVE <<b>> \in Seq(Byte) /\ Len(<<b>>) = 1
OBVIOUS

LEMMA NoBytes == <<>> \in Seq(Byte) /\ Len(<<>>) = 0
OBVIOUS

LEMMA Joined2 ==
  ASSUME NEW s \in Seq(Byte), NEW t \in Seq(Byte)
  PROVE  s \o t \in Seq(Byte) /\ Len(s \o t) = Len(s) + Len(t)
BY ConcatProperties

LEMMA NumberBytes ==
  ASSUME NEW n \in Nat
  PROVE  itoa[n] \in Seq(Byte) /\ Len(itoa[n]) = psyc_num_length(n)
BY itoaValues, NumLength

LEMMA SyntaxBytes ==
  /\ NL \in Byte /\ TAB \in Byte /\ SP \in Byte /\ BAR \in Byte
  /\ "{" \in Byte /\ "}" \in Byte /\ "=" \in Byte /\ ":" \in Byte
  /\ \A op \in Oper : op \in Byte
BY DEF Byte, Oper, ElemByte, NL, TAB, SP, BAR

\* A modifier renders to bytes, as many as psyc_modifier_length counts if it has a name.
LEMMA ModifierLength ==
  ASSUME NEW m \in ModifierRecord
  PROVE  /\ psyc_render_modifier(m) \in Seq(Byte)
         /\ psyc_modifier_length(m) \in Nat \ {0}
         /\ m.name # <<>> => Len(psyc_render_modifier(m)) = psyc_modifier_length(m)
<1> DEFINE lth == IF HasLength(m) THEN <<SP>> \o itoa[Len(m.value)] ELSE <<>>
           digits == IF HasLength(m) THEN psyc_num_length(Len(m.value)) + 1 ELSE 0
           nl == Len(m.name)
           vl == Len(m.value)
<1>1. m.oper \in Byte /\ m.name \in Seq(Byte) /\ m.value \in Seq(Byte)
  BY SyntaxBytes DEF ModifierRecord
<1>2. Len(m.name) \in Nat /\ Len(m.value) \in Nat
  BY <1>1
<1>3. nl \in Nat /\ vl \in Nat /\ nl = Len(m.name) /\ vl = Len(m.value)
  BY <1>2
<1>4. lth \in Seq(Byte) /\ Len(lth) = digits /\ digits \in Nat
  <2>1. /\ <<SP>> \in Seq(Byte) /\ Len(<<SP>>) = 1
        /\ itoa[Len(m.value)] \in Seq(Byte)
        /\ Len(itoa[Len(m.value)]) = psyc_num_length(Len(m.value))
        /\ psyc_num_length(Len(m.value)) \in Nat
    BY <1>2, SyntaxBytes, OneByte, NumberBytes, NumLength
  <2>2. /\ <<SP>> \o itoa[Len(m.value)] \in Seq(Byte)
        /\ Len(<<SP>> \o itoa[Len(m.value)]) = 1 + psyc_num_length(Len(m.value))
    BY <2>1, Joined2
  <2>3. CASE HasLength(m)
    BY <2>1, <2>2, <2>3
  <2>4. CASE ~HasLength(m)
    BY <2>4, NoBytes
  <2> QED BY <2>3, <2>4
<1>5. psyc_modifier_length(m) = 2 + (IF m.name # <<>> THEN nl + 1 + vl ELSE 0) + digits
  BY DEF psyc_modifier_length
<1> HIDE DEF lth, digits, nl, vl
<1>6. nl \in Nat /\ vl \in Nat /\ digits \in Nat
  BY <1>3, <1>4
<1>7. /\ <<m.oper>> \in Seq(Byte) /\ Len(<<m.oper>>) = 1
      /\ <<TAB>> \in Seq(Byte) /\ Len(<<TAB>>) = 1
      /\ <<NL>> \in Seq(Byte) /\ Len(<<NL>>) = 1
  BY <1>1, SyntaxBytes, OneByte
<1>8. CASE m.name = <<>>
  <2>1. psyc_render_modifier(m) = <<m.oper>>
    BY <1>8 DEF psyc_render_modifier
  <2> QED BY <1>4, <1>7, <1>5, <1>8, <2>1
<1>9. CASE m.name # <<>>
  <2> DEFINE a == <<m.oper>> \o m.name
             b == a \o lth
             c == b \o <<TAB>>
             d == c \o m.value
             e == d \o <<NL>>
  <2>1. psyc_render_modifier(m) = e
    BY <1>9 DEF psyc_render_modifier, lth
  <2>2. a \in Seq(Byte) /\ Len(a) = 1 + nl
    BY <1>3, <1>1, <1>7, Joined2
  <2> HIDE DEF a
  <2>3. b \in Seq(Byte) /\ Len(b) = Len(a) + digits
    BY <1>4, <2>2, Joined2
  <2> HIDE DEF b
  <2>4. c \in Seq(Byte) /\ Len(c) = Len(b) + 1
    BY <1>7, <2>3, Joined2
  <2> HIDE DEF c
  <2>5. d \in Seq(Byte) /\ Len(d) = Len(c) + vl
    BY <1>3, <1>1, <2>4, Joined2
  <2> HIDE DEF d
  <2>6. e \in Seq(Byte) /\ Len(e) = Len(d) + 1
    BY <1>7, <2>5, Joined2
  <2> HIDE DEF e
  <2>7. psyc_modifier_length(m) = 2 + (nl + 1 + vl) + digits
    BY <1>5, <1>9
  <2>8. Len(e) = 1 + nl + digits + 1 + vl + 1
    BY <1>3, <2>2, <2>3, <2>4, <2>5, <2>6
  <2>9. psyc_modifier_length(m) = Len(e) /\ psyc_modifier_length(m) \in Nat \ {0}
    BY <1>6, <2>7, <2>8
  <2> QED BY <2>1, <2>6, <2>9
<1> QED BY <1>8, <1>9

-----------------------------------------------------------------------------
(* Headers.                                                                 *)

LEMMA TotalNat == ASSUME NEW ns \in Seq(Nat) PROVE Total(ns) \in Nat
<1>1. PICK g \in [0..Len(ns) -> Nat] : FoldLeft(LAMBDA m, n : m + n, 0, ns) = g[Len(ns)]
  BY PartialSums
<1>2. Len(ns) \in 0..Len(ns)
  OBVIOUS
<1> QED BY <1>1, <1>2 DEF Total

LEMMA TotalLength ==
  ASSUME NEW ss \in Seq(Seq(Byte)), NEW ns \in Seq(Nat), Len(ns) = Len(ss),
         \A i \in 1..Len(ss) : ns[i] = Len(ss[i])
  PROVE  Len(FlattenSeq(ss)) = Total(ns)
BY FlattenLength DEF Total

LEMMA HeaderLength ==
  ASSUME NEW h \in Seq(ModifierRecord)
  PROVE  LET bytes == FlattenSeq([i \in DOMAIN h |-> psyc_render_modifier(h[i])])
         IN /\ bytes \in Seq(Byte)
            /\ SumOf(psyc_modifier_length, h) \in Nat
            /\ (\A i \in DOMAIN h : h[i].name # <<>>) =>
                 Len(bytes) = SumOf(psyc_modifier_length, h)
<1> DEFINE ss == [i \in DOMAIN h |-> psyc_render_modifier(h[i])]
           ns == [i \in DOMAIN h |-> psyc_modifier_length(h[i])]
<1>1. DOMAIN h = 1..Len(h) /\ Len(h) \in Nat /\ \A i \in 1..Len(h) : h[i] \in ModifierRecord
  OBVIOUS
<1>2. \A i \in 1..Len(h) :
        /\ psyc_render_modifier(h[i]) \in Seq(Byte)
        /\ psyc_modifier_length(h[i]) \in Nat
        /\ h[i].name # <<>> => Len(psyc_render_modifier(h[i])) = psyc_modifier_length(h[i])
  BY <1>1, ModifierLength
<1>3. ss \in Seq(Seq(Byte)) /\ Len(ss) = Len(h)
  BY <1>1, <1>2
<1>4. ns \in Seq(Nat) /\ Len(ns) = Len(h)
  BY <1>1, <1>2
<1>5. \A i \in 1..Len(h) : ss[i] = psyc_render_modifier(h[i]) /\ ns[i] = psyc_modifier_length(h[i])
  BY <1>1
<1>6. SumOf(psyc_modifier_length, h) = Total(ns)
  BY DEF SumOf
<1> HIDE DEF ss, ns
<1>7. FlattenSeq(ss) \in Seq(Byte) /\ Total(ns) \in Nat
  BY <1>3, <1>4, FlattenTyped, TotalNat
<1>8. ASSUME \A i \in DOMAIN h : h[i].name # <<>> PROVE Len(FlattenSeq(ss)) = Total(ns)
  <2>1. \A i \in 1..Len(ss) : ns[i] = Len(ss[i])
    BY <1>1, <1>2, <1>3, <1>5, <1>8
  <2> QED BY <1>3, <1>4, <2>1, TotalLength
<1> QED BY <1>6, <1>7, <1>8 DEF ss

-----------------------------------------------------------------------------
(* Packets.  The modifiers of the entity header have names: for one without *)
(* psyc_render_modifier stops short, which psyc_render does not look at.    *)

RoutingLength(p) == SumOf(psyc_modifier_length, p.routing)
EntityLength(p)  == SumOf(psyc_modifier_length, p.entity)
RoutingBytes(p) == FlattenSeq([i \in DOMAIN p.routing |-> psyc_render_modifier(p.routing[i])])
EntityBytes(p)  == FlattenSeq([i \in DOMAIN p.entity |-> psyc_render_modifier(p.entity[i])])

LEMMA PacketHeaders ==
  ASSUME NEW p \in PacketRecord
  PROVE  /\ RoutingBytes(p) \in Seq(Byte) /\ EntityBytes(p) \in Seq(Byte)
         /\ RoutingLength(p) \in Nat /\ EntityLength(p) \in Nat
         /\ Named(p.routing) => Len(RoutingBytes(p)) = RoutingLength(p)
         /\ Named(p.entity) => Len(EntityBytes(p)) = EntityLength(p)
<1>1. p.routing \in Seq(ModifierRecord) /\ p.entity \in Seq(ModifierRecord)
  BY DEF PacketRecord
<1> QED BY <1>1, HeaderLength
           DEF RoutingBytes, EntityBytes, RoutingLength, EntityLength, Named

\* A packet's content renders to as many bytes as its length counts, unless it has a
\* body without a method, which psyc_render refuses.
LEMMA PartsLength ==
  ASSUME NEW p \in PacketRecord, Named(p.entity)
  PROVE  /\ RenderedContent(p) \in Seq(Byte)
         /\ ContentLength(p) \in Nat
         /\ ~(p.content = <<>> /\ p.method = <<>> /\ p.data # <<>>)
              => Len(RenderedContent(p)) = ContentLength(p)
<1> DEFINE op   == IF p.stateop # NoStateOp THEN <<p.stateop, NL>> ELSE <<>>
           body == IF p.data = <<>> THEN <<>> ELSE p.data \o <<NL>>
           call == p.method \o <<NL>>
           rest == IF p.method = <<>> THEN <<>> ELSE call \o body
           oplen   == IF p.stateop # NoStateOp THEN 2 ELSE 0
           bodylen == IF p.data # <<>> THEN Len(p.data) + 1 ELSE 0
           calllen == IF p.method # <<>> THEN Len(p.method) + 1 ELSE 0
           entlen  == EntityLength(p)
<1>1. /\ p.stateop \in Oper \cup {NoStateOp} /\ p.method \in Seq(Byte)
      /\ p.data \in Seq(Byte) /\ p.content \in Seq(Byte)
  BY DEF PacketRecord
<1>2. EntityBytes(p) \in Seq(Byte) /\ entlen \in Nat /\ Len(EntityBytes(p)) = entlen
  BY PacketHeaders
<1>3. <<NL>> \in Seq(Byte) /\ Len(<<NL>>) = 1
  BY SyntaxBytes, OneByte
<1>4. op \in Seq(Byte) /\ Len(op) = oplen /\ oplen \in Nat
  <2>1. CASE p.stateop # NoStateOp
    <3>1. p.stateop \in Byte /\ NL \in Byte
      BY <1>1, <2>1, SyntaxBytes
    <3>2. <<p.stateop, NL>> \in Seq(Byte) /\ Len(<<p.stateop, NL>>) = 2
      BY <3>1
    <3> QED BY <2>1, <3>2
  <2>2. CASE ~(p.stateop # NoStateOp)
    BY <2>2, NoBytes
  <2> QED BY <2>1, <2>2
<1>5. body \in Seq(Byte) /\ Len(body) = bodylen /\ bodylen \in Nat
  <2>1. p.data \o <<NL>> \in Seq(Byte) /\ Len(p.data \o <<NL>>) = Len(p.data) + 1
    BY <1>1, <1>3, Joined2
  <2>2. Len(p.data) \in Nat
    BY <1>1
  <2>3. CASE p.data = <<>>
    BY <2>3, NoBytes
  <2>4. CASE p.data # <<>>
    BY <2>1, <2>2, <2>4
  <2> QED BY <2>3, <2>4
<1>6. call \in Seq(Byte) /\ Len(call) = Len(p.method) + 1 /\ Len(p.method) \in Nat
  BY <1>1, <1>3, Joined2
<1>7. /\ rest \in Seq(Byte) /\ calllen \in Nat
      /\ p.method # <<>> => Len(rest) = calllen + bodylen
      /\ p.method = <<>> => Len(rest) = 0 /\ calllen = 0
  <2> HIDE DEF body, bodylen, call
  <2>1. call \o body \in Seq(Byte) /\ Len(call \o body) = Len(call) + Len(body)
    BY <1>5, <1>6, Joined2
  <2>2. CASE p.method = <<>>
    BY <2>2, NoBytes
  <2>3. CASE p.method # <<>>
    <3>1. rest = call \o body /\ calllen = Len(p.method) + 1
      BY <2>3
    <3> HIDE DEF rest, calllen
    <3> QED BY <1>5, <1>6, <2>1, <2>3, <3>1
  <2> QED BY <2>2, <2>3
<1>8. RenderedParts(p) = (op \o EntityBytes(p)) \o rest
  BY DEF RenderedParts, EntityBytes
<1>9. p.content = <<>> => ContentLength(p) = oplen + entlen + calllen + bodylen
  BY DEF ContentLength, EntityLength
<1>10. p.data = <<>> => bodylen = 0
  OBVIOUS
<1> HIDE DEF op, body, call, rest, oplen, bodylen, calllen, entlen
<1>11. /\ RenderedParts(p) \in Seq(Byte)
       /\ Len(RenderedParts(p)) = oplen + entlen + Len(rest)
  <2>1. op \o EntityBytes(p) \in Seq(Byte) /\ Len(op \o EntityBytes(p)) = oplen + entlen
    BY <1>2, <1>4, Joined2
  <2> QED BY <1>7, <1>8, <2>1, Joined2
<1>12. CASE p.content # <<>>
  <2>1. RenderedContent(p) = p.content /\ ContentLength(p) = Len(p.content)
    BY <1>12 DEF RenderedContent, ContentLength
  <2> QED BY <1>1, <2>1
<1>13. CASE p.content = <<>>
  <2>1. RenderedContent(p) = RenderedParts(p)
    BY <1>13 DEF RenderedContent
  <2>2. oplen \in Nat /\ entlen \in Nat /\ calllen \in Nat /\ bodylen \in Nat
    BY <1>2, <1>4, <1>5, <1>7
  <2>3. ContentLength(p) \in Nat
    BY <1>9, <1>13, <2>2
  <2>4. p.method # <<>> => Len(RenderedParts(p)) = ContentLength(p)
    <3>1. p.method # <<>> => Len(rest) = calllen + bodylen
      BY <1>7
    <3> QED BY <1>9, <1>11, <1>13, <2>2, <3>1
  <2>5. p.method = <<>> /\ p.data = <<>> => Len(RenderedParts(p)) = ContentLength(p)
    <3>1. p.method = <<>> => Len(rest) = 0 /\ calllen = 0
      BY <1>7
    <3> QED BY <1>9, <1>10, <1>11, <1>13, <2>2, <3>1
  <2> QED BY <1>11, <1>13, <2>1, <2>3, <2>4, <2>5
<1> QED BY <1>12, <1>13

\* What psyc_packet_length_set computes, and that it changes nothing else.
LengthsSet(p) ==
  /\ p.contentlen = ContentLength(p)
  /\ p.length = RoutingLength(p) + p.contentlen + 2
       + (IF p.contentlen = 0 THEN 0
          ELSE 1 + (IF p.flag = NoLength THEN 0 ELSE psyc_num_length(p.contentlen)))

LEMMA SetLengths ==
  ASSUME NEW q \in PacketRecord, Named(q.entity)
  PROVE  LET p == psyc_packet_length_set(q)
         IN /\ p \in PacketRecord /\ LengthsSet(p)
            /\ p.entity = q.entity
<1> DEFINE p == psyc_packet_length_set(q)
           rl == RoutingLength(q)
           cl == ContentLength(q)
           ll == rl + cl + 2 + (IF cl = 0 THEN 0
                                ELSE 1 + (IF q.flag = NoLength THEN 0 ELSE psyc_num_length(cl)))
<1>1. rl \in Nat /\ cl \in Nat
  BY PacketHeaders, PartsLength
<1>2. ll \in Nat
  <2>1. psyc_num_length(cl) \in Nat
    BY <1>1, NumLength
  <2> HIDE DEF rl, cl
  <2> QED BY <1>1, <2>1
<1>3. p = [q EXCEPT !.routinglen = rl, !.contentlen = cl, !.length = ll]
  BY DEF psyc_packet_length_set, RoutingLength
<1> HIDE DEF p, rl, cl, ll
<1>4. /\ p \in PacketRecord
      /\ p.routing = q.routing /\ p.entity = q.entity /\ p.content = q.content
      /\ p.stateop = q.stateop /\ p.method = q.method /\ p.data = q.data /\ p.flag = q.flag
      /\ p.contentlen = cl /\ p.length = ll
  BY <1>1, <1>2, <1>3 DEF PacketRecord
<1>5. RoutingLength(p) = rl
  BY <1>4 DEF RoutingLength, rl
<1>6. ContentLength(p) = cl
  BY <1>4 DEF ContentLength, cl
<1> QED BY <1>4, <1>5, <1>6 DEF LengthsSet, ll, p

\* psyc_render writes the length that psyc_packet_length_set computed.
LEMMA PacketExact ==
  ASSUME NEW p \in PacketRecord, Named(p.entity), LengthsSet(p),
         NEW n, psyc_render_rc(p, n) = "SUCCESS"
  PROVE  RenderedBytes(p) \in Seq(Byte) /\ Len(RenderedBytes(p)) = p.length
<1> DEFINE cl == p.contentlen
           digits == IF cl > 0 /\ p.flag # NoLength THEN itoa[cl] ELSE <<>>
           newline == IF cl > 0 THEN <<NL>> ELSE <<>>
           a == RoutingBytes(p) \o digits
           b == a \o newline
           c == b \o RenderedContent(p)
           d == c \o <<BAR, NL>>
           rl == RoutingLength(p)
           digitlen == IF cl > 0 /\ p.flag # NoLength THEN psyc_num_length(cl) ELSE 0
           newlinelen == IF cl > 0 THEN 1 ELSE 0
<1>1. /\ Named(p.routing)
      /\ ~(p.content = <<>> /\ p.method = <<>> /\ p.data # <<>>)
  BY DEF psyc_render_rc, Named
<1>2. RoutingBytes(p) \in Seq(Byte) /\ Len(RoutingBytes(p)) = rl /\ rl \in Nat
  BY <1>1, PacketHeaders
<1>3. RenderedContent(p) \in Seq(Byte) /\ Len(RenderedContent(p)) = cl /\ cl \in Nat
  BY <1>1, PartsLength DEF LengthsSet
<1>4. itoa[cl] \in Seq(Byte) /\ Len(itoa[cl]) = psyc_num_length(cl) /\ psyc_num_length(cl) \in Nat
  BY <1>3, NumberBytes, NumLength
<1>5. digits \in Seq(Byte) /\ Len(digits) = digitlen /\ digitlen \in Nat
  <2> HIDE DEF cl
  <2>1. CASE cl > 0 /\ p.flag # NoLength
    BY <1>4, <2>1
  <2>2. CASE ~(cl > 0 /\ p.flag # NoLength)
    BY <2>2, NoBytes
  <2> QED BY <2>1, <2>2
<1>6. newline \in Seq(Byte) /\ Len(newline) = newlinelen /\ newlinelen \in Nat
  <2> HIDE DEF cl
  <2>1. CASE cl > 0
    BY <2>1, SyntaxBytes, OneByte
  <2>2. CASE ~(cl > 0)
    BY <2>2, NoBytes
  <2> QED BY <2>1, <2>2
<1>7. <<BAR, NL>> \in Seq(Byte) /\ Len(<<BAR, NL>>) = 2
  <2>1. BAR \in Byte /\ NL \in Byte
    BY SyntaxBytes
  <2> QED BY <2>1
<1>8. RenderedBytes(p) = d
  BY DEF RenderedBytes, RoutingBytes
<1>9. p.length = rl + cl + 2 + digitlen + newlinelen
  <2>1. p.length = rl + cl + 2 + (IF cl = 0 THEN 0
                     ELSE 1 + (IF p.flag = NoLength THEN 0 ELSE psyc_num_length(cl)))
    BY DEF LengthsSet
  <2>2. rl \in Nat /\ cl \in Nat /\ psyc_num_length(cl) \in Nat
    BY <1>2, <1>3, <1>4
  <2> HIDE DEF rl, cl
  <2> QED BY <2>1, <2>2
<1> HIDE DEF digits, newline, digitlen, newlinelen, rl, cl
<1>10. a \in Seq(Byte) /\ Len(a) = rl + digitlen
  BY <1>2, <1>5, Joined2
<1> HIDE DEF a
<1>11. b \in Seq(Byte) /\ Len(b) = Len(a) + newlinelen
  BY <1>6, <1>10, Joined2
<1> HIDE DEF b
<1>12. c \in Seq(Byte) /\ Len(c) = Len(b) + cl
  BY <1>3, <1>11, Joined2
<1> HIDE DEF c
<1>13. d \in Seq(Byte) /\ Len(d) = Len(c) + 2
  BY <1>7, <1>12, Joined2
<1> HIDE DEF d
<1>14. rl \in Nat /\ cl \in Nat /\ digitlen \in Nat /\ newlinelen \in Nat
  BY <1>2, <1>3, <1>5, <1>6
<1>15. Len(d) = rl + digitlen + newlinelen + cl + 2
  BY <1>10, <1>11, <1>12, <1>13
<1>16. Len(d) = p.length
  BY <1>9, <1>14, <1>15
<1> QED BY <1>8, <1>13, <1>16
===============================================================================
