--------------------------- MODULE DataInduction ----------------------------
(***************************************************************************)
(* Facts that need induction over data, stated without an operator as a    *)
(* parameter: a set of numbers has a least element, a recursive function   *)
(* on the subsets of a finite set exists, and what folds over sets and     *)
(* sequences compute.                                                      *)
(***************************************************************************)
EXTENDS Integers, Sequences, SequenceTheorems, FiniteSetTheorems, WellFoundedInduction, TLAPS

\* A set of numbers that is not empty has a least element.
LEMMA LeastNumber ==
  ASSUME NEW T \in SUBSET Nat, T # {}
  PROVE  \E m \in T : \A n \in T : m <= n
<1> DEFINE R == OpToRel(<, Nat)
<1>1. IsWellFoundedOn(R, Nat)
  BY NatLessThanWellFounded
<1>2. \A x, y \in Nat : <<y, x>> \in R <=> y < x
  BY DEF OpToRel
<1> HIDE DEF R
<1>3. \E x \in T : \A y \in T : ~(<<y, x>> \in R)
  BY <1>1, WFMin
<1>4. PICK x \in T : \A y \in T : ~(<<y, x>> \in R)
  BY <1>3
<1>5. \A y \in T : ~(y < x)
  BY <1>2, <1>4
<1>6. \A y \in T : x <= y
  BY <1>5
<1> QED BY <1>6

\* A set that contains zero and the successors of its members contains every
\* number.
LEMMA AllNumbers ==
  ASSUME NEW S, 0 \in S, \A n \in Nat : n \in S => n + 1 \in S
  PROVE  Nat \subseteq S
<1> DEFINE T == Nat \ S
<1> SUFFICES ASSUME T # {} PROVE FALSE
  OBVIOUS
<1>1. PICK m \in T : \A n \in T : m <= n
  BY LeastNumber
<1>2. m # 0 /\ m \in Nat
  BY <1>1
<1>3. m - 1 \in Nat /\ m - 1 \notin T
  BY <1>1, <1>2
<1> QED BY <1>1, <1>2, <1>3

\* The same up to a bound.
LEMMA NumbersUpTo ==
  ASSUME NEW b \in Nat, NEW S, 0 \in S, \A n \in 0..(b - 1) : n \in S => n + 1 \in S
  PROVE  \A n \in 0..b : n \in S
<1> DEFINE U == S \cup {n \in Nat : n > b}
<1>1. 0 \in U
  OBVIOUS
<1>2. ASSUME NEW n \in Nat, n \in U PROVE n + 1 \in U
  <2>1. CASE n < b
    <3>1. n \in 0..(b - 1) /\ n \in S
      BY <1>2, <2>1
    <3> QED BY <3>1
  <2>2. CASE ~(n < b)
    BY <2>2
  <2> QED BY <2>1, <2>2
<1> HIDE DEF U
<1>3. Nat \subseteq U
  BY <1>1, <1>2, AllNumbers
<1> QED BY <1>3 DEF U

-----------------------------------------------------------------------------
(* Folds.                                                                  *)

\* g is computed on every set of U from its value on the set without the
\* element that pick takes out: step of the set and that value.
Folds(g, U, base, step, pick) ==
  \A s \in U : g[s] = IF s = {} THEN base ELSE step[<<s, g[s \ {pick[s]}]>>]

\* The subsets of D with at most n elements.
UpTo(D, n) == {s \in SUBSET D : Cardinality(s) <= n}

\* A function that folds exists.
LEMMA FoldExists ==
  ASSUME NEW D, IsFiniteSet(D), NEW V, NEW base \in V,
         NEW step \in [(SUBSET D) \X V -> V],
         NEW pick, \A s \in SUBSET D : s # {} => pick[s] \in s
  PROVE  \E g \in [SUBSET D -> V] : Folds(g, SUBSET D, base, step, pick)
<1> DEFINE P(n) == \E g \in [UpTo(D, n) -> V] : Folds(g, UpTo(D, n), base, step, pick)
           S == {n \in Nat : P(n)}
<1>1. \A s \in SUBSET D : IsFiniteSet(s) /\ Cardinality(s) \in Nat
  BY FS_Subset, FS_CardinalityType
<1>2. P(0)
  <2> DEFINE g == [s \in UpTo(D, 0) |-> base]
  <2>1. \A s \in UpTo(D, 0) : s = {}
    BY <1>1, FS_EmptySet DEF UpTo
  <2>2. g \in [UpTo(D, 0) -> V] /\ Folds(g, UpTo(D, 0), base, step, pick)
    BY <2>1 DEF Folds
  <2> QED BY <2>2
<1>3. ASSUME NEW n \in Nat, P(n) PROVE P(n + 1)
  <2>1. PICK g \in [UpTo(D, n) -> V] : Folds(g, UpTo(D, n), base, step, pick)
    BY <1>3
  <2> DEFINE h == [s \in UpTo(D, n + 1) |->
                     IF s \in UpTo(D, n) THEN g[s] ELSE step[<<s, g[s \ {pick[s]}]>>]]
  <2>2. ASSUME NEW s \in UpTo(D, n + 1), s # {}
        PROVE  /\ s \ {pick[s]} \in UpTo(D, n) /\ s \ {pick[s]} \in UpTo(D, n + 1)
    <3>1. s \in SUBSET D /\ pick[s] \in s /\ Cardinality(s) <= n + 1
      BY <2>2 DEF UpTo
    <3>2. Cardinality(s \ {pick[s]}) = Cardinality(s) - 1
      BY <1>1, <3>1, FS_RemoveElement
    <3>3. Cardinality(s) \in Nat
      BY <1>1, <3>1
    <3> QED BY <3>1, <3>2, <3>3 DEF UpTo
  <2>3. \A s \in UpTo(D, n) : s \in UpTo(D, n + 1)
    BY <1>1 DEF UpTo
  <2>4. {} \in UpTo(D, n)
    BY FS_EmptySet DEF UpTo
  <2>5. h \in [UpTo(D, n + 1) -> V]
    <3>1. ASSUME NEW s \in UpTo(D, n + 1), s \notin UpTo(D, n)
          PROVE  step[<<s, g[s \ {pick[s]}]>>] \in V
      <4>1. g[s \ {pick[s]}] \in V
        BY <2>2, <2>4, <3>1
      <4>2. s \in SUBSET D
        BY DEF UpTo
      <4> QED BY <4>1, <4>2
    <3> QED BY <3>1
  <2>6. ASSUME NEW s \in UpTo(D, n + 1)
        PROVE  h[s] = IF s = {} THEN base ELSE step[<<s, h[s \ {pick[s]}]>>]
    <3>1. CASE s = {}
      BY <2>1, <2>4, <3>1 DEF Folds
    <3>2. CASE s # {}
      <4>1. h[s \ {pick[s]}] = g[s \ {pick[s]}]
        BY <2>2, <3>2
      <4>2. h[s] = step[<<s, g[s \ {pick[s]}]>>]
        BY <2>1, <3>2 DEF Folds
      <4> QED BY <3>2, <4>1, <4>2
    <3> QED BY <3>1, <3>2
  <2>7. Folds(h, UpTo(D, n + 1), base, step, pick)
    BY <2>6 DEF Folds
  <2> QED BY <2>5, <2>7
<1> HIDE DEF P
<1>4. Nat \subseteq S
  <2>1. 0 \in S
    BY <1>2
  <2>2. \A n \in Nat : n \in S => n + 1 \in S
    BY <1>3
  <2> HIDE DEF S
  <2> QED BY <2>1, <2>2, AllNumbers
<1>5. Cardinality(D) \in Nat
  BY FS_CardinalityType
<1>6. P(Cardinality(D))
  BY <1>4, <1>5
<1>7. UpTo(D, Cardinality(D)) = SUBSET D
  BY FS_Subset DEF UpTo
<1> QED BY <1>6, <1>7 DEF P

-----------------------------------------------------------------------------
(* Sums over finite sets.                                                  *)

\* g sums w over the subsets of D, taking out one element at a time.
IsSum(g, D, w) ==
  /\ g[{}] = 0
  /\ \A s \in SUBSET D : s # {} =>
       g[s] = w[CHOOSE x \in s : TRUE] + g[s \ {CHOOSE x \in s : TRUE}]

\* Such a function exists.
LEMMA SumExists ==
  ASSUME NEW D, IsFiniteSet(D), NEW w \in [D -> Nat]
  PROVE  \E g \in [SUBSET D -> Nat] : IsSum(g, D, w)
<1> DEFINE pick == [s \in SUBSET D |-> CHOOSE x \in s : TRUE]
           step == [z \in (SUBSET D) \X Nat |->
                      IF z[1] = {} THEN 0 ELSE w[pick[z[1]]] + z[2]]
<1>1. \A s \in SUBSET D : s # {} => pick[s] \in s
  OBVIOUS
<1>2. step \in [(SUBSET D) \X Nat -> Nat]
  <2>1. ASSUME NEW z \in (SUBSET D) \X Nat
        PROVE  (IF z[1] = {} THEN 0 ELSE w[pick[z[1]]] + z[2]) \in Nat
    <3>1. z[1] \in SUBSET D /\ z[2] \in Nat
      OBVIOUS
    <3>2. z[1] # {} => pick[z[1]] \in D
      BY <1>1, <3>1
    <3> HIDE DEF pick
    <3> QED BY <3>1, <3>2
  <2> QED BY <2>1
<1>3. \A s \in SUBSET D : \A v \in Nat : s # {} => step[<<s, v>>] = w[pick[s]] + v
  OBVIOUS
<1>4. \A s \in SUBSET D : pick[s] = CHOOSE x \in s : TRUE
  OBVIOUS
<1> HIDE DEF step, pick
<1>5. PICK g \in [SUBSET D -> Nat] : Folds(g, SUBSET D, 0, step, pick)
  BY <1>1, <1>2, FoldExists
<1>6. ASSUME NEW s \in SUBSET D, s # {}
      PROVE  g[s] = w[pick[s]] + g[s \ {pick[s]}]
  <2>1. g[s] = step[<<s, g[s \ {pick[s]}]>>]
    BY <1>5, <1>6 DEF Folds
  <2>2. g[s \ {pick[s]}] \in Nat
    BY <1>5
  <2> QED BY <1>3, <1>6, <2>1, <2>2
<1>7. g[{}] = 0
  BY <1>5 DEF Folds
<1>8. ASSUME NEW s \in SUBSET D, s # {}
      PROVE  g[s] = w[CHOOSE x \in s : TRUE] + g[s \ {CHOOSE x \in s : TRUE}]
  <2>1. pick[s] = CHOOSE x \in s : TRUE
    BY <1>4
  <2>2. g[s] = w[pick[s]] + g[s \ {pick[s]}]
    BY <1>6, <1>8
  <2> QED BY <2>1, <2>2
<1> QED BY <1>5, <1>7, <1>8 DEF IsSum

\* Any element may be taken out of a sum.
TakesAny(g, D, w) ==
  \A s \in SUBSET D : \A x \in s : g[s] = w[x] + g[s \ {x}]

\* It does not matter in which order the elements are taken out.
LEMMA SumOfAny ==
  ASSUME NEW D, IsFiniteSet(D), NEW w \in [D -> Nat],
         NEW g \in [SUBSET D -> Nat], IsSum(g, D, w)
  PROVE  TakesAny(g, D, w)
<1> DEFINE P(s) == \A x \in s : g[s] = w[x] + g[s \ {x}]
           S == {n \in Nat : \A s \in UpTo(D, n) : P(s)}
<1>0. \A s \in SUBSET D : IsFiniteSet(s) /\ Cardinality(s) \in Nat
  BY FS_Subset, FS_CardinalityType
<1>1. 0 \in S
  <2>1. \A s \in UpTo(D, 0) : s = {}
    BY <1>0, FS_EmptySet DEF UpTo
  <2> QED BY <2>1
<1>2. ASSUME NEW n \in Nat, n \in S PROVE n + 1 \in S
  <2>1. ASSUME NEW s \in UpTo(D, n + 1), NEW x \in s
        PROVE  g[s] = w[x] + g[s \ {x}]
    <3>0. s \in SUBSET D /\ Cardinality(s) <= n + 1 /\ IsFiniteSet(s) /\ Cardinality(s) \in Nat
      BY <1>0 DEF UpTo
    <3> DEFINE y == CHOOSE v \in s : TRUE
    <3>1. y \in s /\ g[s] = w[y] + g[s \ {y}]
      BY <3>0 DEF IsSum
    <3> HIDE DEF y
    <3>2. CASE x = y
      BY <3>1, <3>2
    <3>3. CASE x # y
      <4>1. s \ {y} \in UpTo(D, n) /\ s \ {x} \in UpTo(D, n)
        <5>1. Cardinality(s \ {y}) = Cardinality(s) - 1 /\ Cardinality(s \ {x}) = Cardinality(s) - 1
          BY <3>0, <3>1, FS_RemoveElement
        <5> QED BY <3>0, <5>1 DEF UpTo
      <4>2. x \in s \ {y} /\ y \in s \ {x} /\ (s \ {y}) \ {x} = (s \ {x}) \ {y}
        BY <3>1, <3>3
      <4>3. g[s \ {y}] = w[x] + g[(s \ {y}) \ {x}]
        BY <1>2, <4>1, <4>2
      <4>4. g[s \ {x}] = w[y] + g[(s \ {x}) \ {y}]
        BY <1>2, <4>1, <4>2
      <4>5. w[x] \in Nat /\ w[y] \in Nat /\ g[(s \ {x}) \ {y}] \in Nat
        <5>1. (s \ {x}) \ {y} \in SUBSET D
          BY <3>0
        <5> QED BY <3>0, <3>1, <5>1 DEF IsSum
      <4> DEFINE a == w[x]
                 b == w[y]
                 r == g[(s \ {x}) \ {y}]
      <4>6. g[s] = b + (a + r) /\ g[s \ {x}] = b + r /\ a \in Nat /\ b \in Nat /\ r \in Nat
        BY <3>1, <4>2, <4>3, <4>4, <4>5
      <4> HIDE DEF a, b, r
      <4>7. g[s] = a + g[s \ {x}]
        BY <4>6
      <4> QED BY <4>7 DEF a
    <3> QED BY <3>2, <3>3
  <2> QED BY <2>1
<1>3. Nat \subseteq S
  <2> HIDE DEF S
  <2> QED BY <1>1, <1>2, AllNumbers
<1>4. ASSUME NEW s \in SUBSET D PROVE P(s)
  <2>1. Cardinality(s) \in S /\ s \in UpTo(D, Cardinality(s))
    BY <1>0, <1>3 DEF UpTo
  <2> QED BY <2>1
<1> QED BY <1>4 DEF TakesAny

\* Sums of the same numbers over the same set are equal.
LEMMA SumOfSame ==
  ASSUME NEW D, NEW E, NEW v, NEW w, NEW g, NEW h, IsSum(g, D, v), IsSum(h, E, w),
         NEW C \in SUBSET (D \cap E), IsFiniteSet(C), \A x \in C : v[x] = w[x]
  PROVE  g[C] = h[C]
<1> DEFINE S == {n \in Nat : \A s \in UpTo(C, n) : g[s] = h[s]}
<1>0. \A s \in SUBSET C : IsFiniteSet(s) /\ Cardinality(s) \in Nat
  BY FS_Subset, FS_CardinalityType
<1>1. 0 \in S
  <2>1. \A s \in UpTo(C, 0) : s = {}
    BY <1>0, FS_EmptySet DEF UpTo
  <2> QED BY <2>1 DEF IsSum
<1>2. ASSUME NEW n \in Nat, n \in S PROVE n + 1 \in S
  <2>1. ASSUME NEW s \in UpTo(C, n + 1) PROVE g[s] = h[s]
    <3>0. s \in SUBSET C /\ Cardinality(s) <= n + 1 /\ IsFiniteSet(s) /\ Cardinality(s) \in Nat
      BY <1>0 DEF UpTo
    <3>1. CASE s = {}
      BY <3>1 DEF IsSum
    <3>2. CASE s # {}
      <4> DEFINE y == CHOOSE z \in s : TRUE
      <4>1. y \in s
        BY <3>2
      <4>2. g[s] = v[y] + g[s \ {y}] /\ h[s] = w[y] + h[s \ {y}]
        BY <3>0, <3>2 DEF IsSum
      <4> HIDE DEF y
      <4>3. Cardinality(s \ {y}) = Cardinality(s) - 1
        BY <3>0, <4>1, FS_RemoveElement
      <4>4. s \ {y} \in UpTo(C, n)
        BY <3>0, <4>3 DEF UpTo
      <4>5. g[s \ {y}] = h[s \ {y}]
        BY <1>2, <4>4
      <4> QED BY <3>0, <4>1, <4>2, <4>5
    <3> QED BY <3>1, <3>2
  <2> QED BY <2>1
<1>3. Nat \subseteq S
  <2> HIDE DEF S
  <2> QED BY <1>1, <1>2, AllNumbers
<1>4. Cardinality(C) \in S /\ C \in UpTo(C, Cardinality(C))
  BY <1>0, <1>3 DEF UpTo
<1> QED BY <1>4

-----------------------------------------------------------------------------
(* Powers of two, by counting the subsets of an interval.                  *)

\* What a power of two counts.
LEMMA PowerCounts ==
  ASSUME NEW n \in Nat
  PROVE  IsFiniteSet(SUBSET (1..n)) /\ Cardinality(SUBSET (1..n)) = 2^n
<1>1. IsFiniteSet(1..n) /\ Cardinality(1..n) = n
  BY FS_Interval
<1> QED BY <1>1, FS_SUBSET

\* It is a positive number.
LEMMA PowerPositive ==
  ASSUME NEW n \in Nat
  PROVE  2^n \in Nat /\ 2^n >= 1
<1>1. {} \in SUBSET (1..n)
  OBVIOUS
<1>2. Cardinality(SUBSET (1..n)) \in Nat /\ Cardinality(SUBSET (1..n)) # 0
  BY <1>1, PowerCounts, FS_CardinalityType, FS_EmptySet
<1>3. Cardinality(SUBSET (1..n)) >= 1
  BY <1>2
<1> QED BY <1>2, <1>3, PowerCounts

\* A higher power is not smaller.
LEMMA PowerMonotone ==
  ASSUME NEW m \in Nat, NEW n \in Nat, m <= n
  PROVE  2^m <= 2^n
<1>1. SUBSET (1..m) \in SUBSET (SUBSET (1..n))
  OBVIOUS
<1>2. Cardinality(SUBSET (1..m)) <= Cardinality(SUBSET (1..n))
  BY <1>1, PowerCounts, FS_Subset
<1> QED BY <1>2, PowerCounts

\* The next power is twice as large: the subsets without the new element are as
\* many as those with it.
LEMMA PowerDouble ==
  ASSUME NEW n \in Nat
  PROVE  2^(n + 1) = 2 * 2^n
<1> DEFINE A == SUBSET (1..n)
           B == {s \cup {n + 1} : s \in A}
           f == [s \in A |-> s \cup {n + 1}]
<1>1. SUBSET (1..(n + 1)) = A \cup B
  <2>1. ASSUME NEW s \in SUBSET (1..(n + 1)) PROVE s \in A \cup B
    <3>1. CASE n + 1 \in s
      <4>1. s \ {n + 1} \in A /\ s = (s \ {n + 1}) \cup {n + 1}
        BY <3>1
      <4> QED BY <4>1
    <3>2. CASE n + 1 \notin s
      <4>1. s \in A
        BY <3>2
      <4> QED BY <4>1
    <3> QED BY <3>1, <3>2
  <2>2. ASSUME NEW s \in A
        PROVE  s \in SUBSET (1..(n + 1)) /\ s \cup {n + 1} \in SUBSET (1..(n + 1))
    OBVIOUS
  <2>3. A \cup B \subseteq SUBSET (1..(n + 1))
    <3>1. A \subseteq SUBSET (1..(n + 1))
      BY <2>2
    <3>2. \A b \in B : b \in SUBSET (1..(n + 1))
      <4>1. \A b \in B : \E s \in A : b = s \cup {n + 1}
        OBVIOUS
      <4> HIDE DEF A, B
      <4> QED BY <2>2, <4>1
    <3> HIDE DEF A, B
    <3> QED BY <3>1, <3>2
  <2>4. SUBSET (1..(n + 1)) \subseteq A \cup B
    BY <2>1
  <2> HIDE DEF A, B
  <2> QED BY <2>3, <2>4
<1>2. A \cap B = {}
  OBVIOUS
<1>3. f \in Bijection(A, B)
  <2>1. \A s \in A : n + 1 \notin s
    OBVIOUS
  <2>2. \A s, t \in A : s \cup {n + 1} = t \cup {n + 1} => s = t
    BY <2>1
  <2>3. f \in [A -> B] /\ (\A b \in B : \E s \in A : f[s] = b) /\ (\A s \in A : f[s] = s \cup {n + 1})
    OBVIOUS
  <2> HIDE DEF f, A, B
  <2> QED BY <2>2, <2>3 DEF Bijection, Injection, IsInjective, Surjection
<1>4. IsFiniteSet(A) /\ Cardinality(A) = 2^n
  BY PowerCounts
<1> HIDE DEF A, B, f
<1>5. IsFiniteSet(B) /\ Cardinality(B) = 2^n
  BY <1>3, <1>4, FS_Bijection DEF ExistsBijection
<1>6. Cardinality(A \cup B) = 2^n + 2^n - 0
  BY <1>2, <1>4, <1>5, FS_Union, FS_EmptySet
<1>7. Cardinality(SUBSET (1..(n + 1))) = 2^(n + 1)
  BY PowerCounts
<1>8. 2^(n + 1) = 2^n + 2^n - 0
  BY <1>1, <1>6, <1>7
<1>9. PICK p \in Nat : p = 2^n
  BY PowerPositive
<1> QED BY <1>8, <1>9

-----------------------------------------------------------------------------
(* Folds from left to right, as FoldLeft makes them: on a set of positions *)
(* the last one is taken first.                                            *)

Greatest(s) == CHOOSE x \in s : \A y \in s : x >= y

\* The greatest position of a set, and of a prefix.
LEMMA GreatestPosition ==
  ASSUME NEW n \in Nat
  PROVE  /\ \A s \in SUBSET (1..n) : s # {} => Greatest(s) \in s
         /\ n # 0 => Greatest(1..n) = n /\ (1..n) \ {n} = 1..(n - 1)
<1>1. ASSUME NEW s \in SUBSET (1..n), s # {} PROVE Greatest(s) \in s
  <2> DEFINE T == {n - x : x \in s}
  <2>1. T \in SUBSET Nat /\ T # {}
    <3>1. \A x \in s : x \in 1..n
      BY <1>1
    <3>2. \A x \in s : n - x \in Nat
      BY <3>1
    <3>3. PICK x \in s : TRUE
      BY <1>1
    <3>4. n - x \in T
      BY <3>3
    <3>5. \A z \in T : z \in Nat
      BY <3>2
    <3> QED BY <3>4, <3>5
  <2>2. PICK m \in T : \A l \in T : m <= l
    <3> HIDE DEF T
    <3> QED BY <2>1, LeastNumber
  <2>3. PICK x \in s : m = n - x
    BY <2>2
  <2>4. \A y \in s : x >= y
    <3>1. ASSUME NEW y \in s PROVE x >= y
      <4>1. m <= n - y
        BY <2>2
      <4>2. x \in 1..n /\ y \in 1..n
        OBVIOUS
      <4> QED BY <2>3, <4>1, <4>2
    <3> QED BY <3>1
  <2> QED BY <2>4 DEF Greatest
<1>2. ASSUME n # 0 PROVE Greatest(1..n) = n /\ (1..n) \ {n} = 1..(n - 1)
  <2>1. n \in 1..n /\ \A y \in 1..n : n >= y
    BY <1>2
  <2>2. \A x \in 1..n : (\A y \in 1..n : x >= y) <=> x = n
    BY <2>1
  <2>3. Greatest(1..n) = n
    BY <2>1, <2>2 DEF Greatest
  <2> QED BY <2>3
<1> QED BY <1>1, <1>2

\* g folds step over the entries of the sequence at a set of positions.
FoldsLeft(g, n, entry, base, step) ==
  \A s \in SUBSET (1..n) :
    g[s] = IF s = {} THEN base ELSE step[<<g[s \ {Greatest(s)}], entry[Greatest(s)]>>]

\* A fold over a sequence exists.
LEMMA FoldLeftExists ==
  ASSUME NEW n \in Nat, NEW A, NEW entry \in [1..n -> A],
         NEW V, NEW base \in V, NEW step \in [V \X A -> V]
  PROVE  \E g \in [SUBSET (1..n) -> V] : FoldsLeft(g, n, entry, base, step)
<1> DEFINE D == 1..n
           pick == [s \in SUBSET D |-> Greatest(s)]
           both == [z \in (SUBSET D) \X V |->
                      IF z[1] = {} THEN base ELSE step[<<z[2], entry[pick[z[1]]]>>]]
<1>1. \A s \in SUBSET D : s # {} => pick[s] \in s
  BY GreatestPosition
<1>2. IsFiniteSet(D)
  BY FS_Interval
<1>3. both \in [(SUBSET D) \X V -> V]
  <2>1. ASSUME NEW z \in (SUBSET D) \X V
        PROVE  (IF z[1] = {} THEN base ELSE step[<<z[2], entry[pick[z[1]]]>>]) \in V
    <3>1. z[1] \in SUBSET D /\ z[2] \in V
      OBVIOUS
    <3>2. z[1] # {} => entry[pick[z[1]]] \in A
      BY <1>1, <3>1
    <3> HIDE DEF pick
    <3> QED BY <3>1, <3>2
  <2> QED BY <2>1
<1>4. \A s \in SUBSET D : \A v \in V : s # {} => both[<<s, v>>] = step[<<v, entry[pick[s]]>>]
  OBVIOUS
<1>5. \A s \in SUBSET D : pick[s] = Greatest(s)
  OBVIOUS
<1> HIDE DEF D, both, pick
<1>6. PICK g \in [SUBSET D -> V] : Folds(g, SUBSET D, base, both, pick)
  BY <1>1, <1>2, <1>3, FoldExists
<1>7. ASSUME NEW s \in SUBSET D
      PROVE  g[s] = IF s = {} THEN base ELSE step[<<g[s \ {Greatest(s)}], entry[Greatest(s)]>>]
  <2>1. g[s \ {pick[s]}] \in V
    BY <1>6
  <2>2. CASE s = {}
    BY <1>6, <2>2 DEF Folds
  <2>3. CASE s # {}
    <3>1. g[s] = both[<<s, g[s \ {pick[s]}]>>]
      BY <1>6, <2>3 DEF Folds
    <3>2. g[s] = step[<<g[s \ {pick[s]}], entry[pick[s]]>>]
      BY <1>4, <2>1, <2>3, <3>1
    <3> QED BY <1>5, <2>3, <3>2
  <2> QED BY <2>2, <2>3
<1>8. FoldsLeft(g, n, entry, base, step)
  BY <1>7 DEF FoldsLeft, D
<1> QED BY <1>6, <1>8 DEF D

\* The equations of a fold, as far as its values are in V.
FoldEquations(iter, n, entry, V, base, step) ==
  /\ iter[{}] = base
  /\ \A s \in SUBSET (1..n) :
       s # {} /\ iter[s \ {Greatest(s)}] \in V
         => iter[s] = step[<<iter[s \ {Greatest(s)}], entry[Greatest(s)]>>]

\* Its values on the prefixes of the sequence.
FoldPrefixes(iter, n, entry, V, base, step) ==
  /\ iter[1..0] = base
  /\ \A i \in 0..n : iter[1..i] \in V
  /\ \A i \in 1..n : iter[1..i] = step[<<iter[1..(i - 1)], entry[i]>>]

\* Whatever satisfies the equations has all its values on prefixes in V, each from
\* the one on the prefix before.
LEMMA FoldLeftSteps ==
  ASSUME NEW n \in Nat, NEW A, NEW entry \in [1..n -> A],
         NEW V, NEW base \in V, NEW step \in [V \X A -> V],
         NEW iter, FoldEquations(iter, n, entry, V, base, step)
  PROVE  FoldPrefixes(iter, n, entry, V, base, step)
<1>1. iter[1..0] = base
  <2>1. 1..0 = {}
    OBVIOUS
  <2> QED BY <2>1 DEF FoldEquations
<1>2. ASSUME NEW i \in 1..n, iter[1..(i - 1)] \in V
      PROVE  iter[1..i] = step[<<iter[1..(i - 1)], entry[i]>>]
  <2>1. 1..i \in SUBSET (1..n) /\ 1..i # {} /\ i \in Nat /\ i # 0
    <3>1. i \in Nat /\ i # 0 /\ i <= n /\ i \in 1..i
      OBVIOUS
    <3>2. \A j \in 1..i : j \in 1..n
      BY <3>1
    <3> QED BY <3>1, <3>2
  <2>2. Greatest(1..i) = i /\ (1..i) \ {i} = 1..(i - 1)
    BY <2>1, GreatestPosition
  <2> QED BY <1>2, <2>1, <2>2 DEF FoldEquations
<1>3. \A i \in 0..n : iter[1..i] \in V
  <2> DEFINE S == {j \in 0..n : iter[1..j] \in V}
  <2>1. 0 \in S
    BY <1>1
  <2>2. ASSUME NEW i \in 0..(n - 1), i \in S PROVE i + 1 \in S
    <3>1. i + 1 \in 1..n /\ (i + 1) - 1 = i
      OBVIOUS
    <3>2. iter[1..(i + 1)] = step[<<iter[1..i], entry[i + 1]>>]
      BY <1>2, <2>2, <3>1
    <3>3. entry[i + 1] \in A /\ iter[1..i] \in V
      BY <2>2, <3>1
    <3> QED BY <3>1, <3>2, <3>3
  <2> HIDE DEF S
  <2>3. \A i \in 0..n : i \in S
    BY <2>1, <2>2, NumbersUpTo
  <2> QED BY <2>3 DEF S
<1>4. ASSUME NEW i \in 1..n PROVE iter[1..i] = step[<<iter[1..(i - 1)], entry[i]>>]
  <2>1. i - 1 \in 0..n
    OBVIOUS
  <2> QED BY <1>2, <1>3, <2>1
<1> QED BY <1>1, <1>3, <1>4 DEF FoldPrefixes

-----------------------------------------------------------------------------
(* Sequences.                                                              *)

\* A set that contains the empty sequence and whatever extends one of its
\* members contains every sequence.
LEMMA AllSequences ==
  ASSUME NEW A, NEW S, <<>> \in S,
         \A s \in Seq(A) : \A a \in A : s \in S => Append(s, a) \in S
  PROVE  Seq(A) \subseteq S
<1> DEFINE N == {n \in Nat : \A s \in Seq(A) : Len(s) = n => s \in S}
<1>1. 0 \in N
  OBVIOUS
<1>2. ASSUME NEW n \in Nat, n \in N PROVE n + 1 \in N
  <2>1. ASSUME NEW s \in Seq(A), Len(s) = n + 1 PROVE s \in S
    <3> DEFINE r == SubSeq(s, 1, n)
    <3>1. r \in Seq(A) /\ Len(r) = n /\ \A i \in 1..n : r[i] = s[i]
      BY <2>1
    <3>2. s[n + 1] \in A
      BY <2>1
    <3> HIDE DEF r
    <3>3. r \in S
      BY <1>2, <3>1
    <3>4. Append(r, s[n + 1]) = s
      BY <2>1, <3>1, <3>2
    <3> QED BY <3>1, <3>2, <3>3, <3>4
  <2> QED BY <2>1
<1> HIDE DEF N
<1>3. Nat \subseteq N
  BY <1>1, <1>2, AllNumbers
<1>4. \A s \in Seq(A) : Len(s) \in N
  BY <1>3
<1> QED BY <1>4 DEF N
=============================================================================
