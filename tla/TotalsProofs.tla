---------------------------- MODULE TotalsProofs ----------------------------
(***************************************************************************)
(* What sums depend on: lemmas about Totals!Total, the sum over the        *)
(* accounts, for any number of accounts, and about SumFunctionOnSet of the *)
(* community modules, for any finite set.  Each is an induction written    *)
(* with a set: the numbers, or the subsets, of which the claim holds.      *)
(***************************************************************************)
EXTENDS Totals, FiniteSetTheorems, WellFoundedInduction, TLAPS

LessThan == OpToRel(<, Nat)

\* Membership in the order the library proves well-founded.
LEMMA InLessThan ==
    ASSUME NEW k \in Nat, NEW m \in Nat, k < m
    PROVE  <<k, m>> \in LessThan
BY Zenon DEF LessThan, OpToRel

\* Every non-empty set of natural numbers has a least element.
LEMMA LeastNat ==
    ASSUME NEW T, T \subseteq Nat, T # {}
    PROVE  \E m \in T : \A k \in T : m <= k
<1>1. IsWellFoundedOn(LessThan, Nat)
  BY NatLessThanWellFounded, Zenon DEF LessThan
<1>2. PICK m \in T : \A k \in T : ~(<<k, m>> \in LessThan)
  BY <1>1, WFMin
<1>3. ASSUME NEW k \in T
      PROVE  m <= k
  <2>1. ~(k < m)
    BY <1>2, InLessThan
  <2>2. QED
    BY <2>1
<1>4. QED
  BY <1>3

\* Induction on 0..n, with a set in the place of a predicate.
LEMMA IntervalInduction ==
    ASSUME NEW n \in Nat, NEW S, 0 \in S,
           \A k \in 1..n : k - 1 \in S => k \in S
    PROVE  \A k \in 0..n : k \in S
<1> DEFINE T == {k \in 0..n : k \notin S}
<1>1. SUFFICES ASSUME T # {}
               PROVE  FALSE
  OBVIOUS
<1>2. T \subseteq Nat
  OBVIOUS
<1>3. PICK m \in T : \A k \in T : m <= k
  <2> HIDE DEF T
  <2>1. QED
    BY <1>1, <1>2, LeastNat
<1>4. m \in 1..n
  OBVIOUS
<1>5. m - 1 \notin T
  <2>1. ASSUME m - 1 \in T
        PROVE  FALSE
    <3>1. m <= m - 1
      BY <2>1, <1>3
    <3>2. QED
      BY <3>1, <1>4
  <2>2. QED
    BY <2>1
<1>6. m - 1 \in S
  BY <1>4, <1>5
<1>7. QED
  BY <1>4, <1>6

IsPartialSum(sum, f, n) ==
    sum = [k \in 0..n |-> IF k = 0 THEN 0 ELSE sum[k - 1] + f[k]]

\* The recursive definition of PartialSum has a solution.
LEMMA PartialSumExists ==
    ASSUME NEW n \in Nat, NEW f
    PROVE  \E sum : IsPartialSum(sum, f, n)
<1> DEFINE S == {k \in 0..n : \E sum : IsPartialSum(sum, f, k)}
<1>1. 0 \in S
  <2>1. IsPartialSum([k \in 0..0 |-> 0], f, 0)
    BY DEF IsPartialSum
  <2>2. QED
    BY <2>1
<1>2. ASSUME NEW k \in 1..n, k - 1 \in S
      PROVE  k \in S
  <2>1. PICK sum : IsPartialSum(sum, f, k - 1)
    BY <1>2
  <2> DEFINE next == [i \in 0..k |-> IF i = k THEN sum[k - 1] + f[k] ELSE sum[i]]
  <2>2. \A i \in 0..(k - 1) : sum[i] = IF i = 0 THEN 0 ELSE sum[i - 1] + f[i]
    BY <2>1 DEF IsPartialSum
  <2>3. \A i \in 0..k : next[i] = IF i = 0 THEN 0 ELSE next[i - 1] + f[i]
    BY <2>2
  <2>4. IsPartialSum(next, f, k)
    BY <2>3 DEF IsPartialSum
  <2>5. QED
    BY <2>4
<1>3. \A k \in 0..n : k \in S
  <2> HIDE DEF S
  <2>1. QED
    BY <1>1, <1>2, IntervalInduction
<1>4. QED
  BY <1>3

\* So it may be unfolded, at its first place and at a later one.
LEMMA PartialSumFirst ==
    ASSUME NEW n \in Nat, NEW f
    PROVE  PartialSum(f, n)[0] = 0
<1> DEFINE sum == PartialSum(f, n)
<1>1. IsPartialSum(sum, f, n)
  BY PartialSumExists DEF PartialSum, IsPartialSum
<1>2. QED
  BY <1>1 DEF IsPartialSum

LEMMA PartialSumNext ==
    ASSUME NEW n \in Nat, NEW f, NEW k \in 1..n
    PROVE  PartialSum(f, n)[k] = PartialSum(f, n)[k - 1] + f[k]
<1> DEFINE sum == PartialSum(f, n)
<1>1. IsPartialSum(sum, f, n)
  BY PartialSumExists DEF PartialSum, IsPartialSum
<1> HIDE DEF sum
<1>2. sum[k] = sum[k - 1] + f[k]
  BY <1>1 DEF IsPartialSum
<1>3. QED
  BY <1>2 DEF sum

\* Running sums of integers are integers.
LEMMA PartialSumType ==
    ASSUME NEW n \in Nat, NEW f \in [1..n -> Int], NEW i \in 0..n
    PROVE  PartialSum(f, n)[i] \in Int
<1> DEFINE S == {k \in 0..n : PartialSum(f, n)[k] \in Int}
<1>1. 0 \in S
  BY PartialSumFirst
<1>2. ASSUME NEW k \in 1..n, k - 1 \in S
      PROVE  k \in S
  <2>1. PartialSum(f, n)[k] = PartialSum(f, n)[k - 1] + f[k]
    BY PartialSumNext
  <2>2. QED
    BY <1>2, <2>1
<1>3. \A k \in 0..n : k \in S
  <2> HIDE DEF S
  <2>1. QED
    BY <1>1, <1>2, IntervalInduction
<1>4. QED
  BY <1>3

\* A sum of integers is an integer.
LEMMA TotalType ==
    ASSUME NEW n \in Nat, NEW f \in [1..n -> Int]
    PROVE  Total(f, n) \in Int
BY PartialSumType DEF Total

\* Summing is monotone.
LEMMA TotalMonotone ==
    ASSUME NEW n \in Nat, NEW f \in [1..n -> Int], NEW g \in [1..n -> Int],
           \A a \in 1..n : f[a] <= g[a]
    PROVE  Total(f, n) <= Total(g, n)
<1> DEFINE F == PartialSum(f, n)
           G == PartialSum(g, n)
           S == {k \in 0..n : F[k] <= G[k]}
<1>1. 0 \in S
  BY PartialSumFirst
<1>2. ASSUME NEW k \in 1..n, k - 1 \in S
      PROVE  k \in S
  <2>1. F[k] = F[k - 1] + f[k] /\ G[k] = G[k - 1] + g[k]
    BY PartialSumNext
  <2>2. F[k - 1] \in Int /\ G[k - 1] \in Int
    BY PartialSumType
  <2>3. F[k - 1] <= G[k - 1] /\ f[k] <= g[k] /\ f[k] \in Int /\ g[k] \in Int
    BY <1>2
  <2> HIDE DEF F, G
  <2>4. QED
    BY <2>1, <2>2, <2>3
<1>3. \A k \in 0..n : k \in S
  <2> HIDE DEF S
  <2>1. QED
    BY <1>1, <1>2, IntervalInduction
<1>4. QED
  BY <1>3 DEF Total

\* Summing is linear.
LEMMA TotalLinear ==
    ASSUME NEW n \in Nat, NEW f \in [1..n -> Int], NEW g \in [1..n -> Int],
           NEW h \in [1..n -> Int], NEW c \in Int,
           \A a \in 1..n : h[a] = f[a] + c * g[a]
    PROVE  Total(h, n) = Total(f, n) + c * Total(g, n)
<1> DEFINE F == PartialSum(f, n)
           G == PartialSum(g, n)
           H == PartialSum(h, n)
           S == {k \in 0..n : H[k] = F[k] + c * G[k]}
<1>1. 0 \in S
  <2>1. F[0] = 0 /\ G[0] = 0 /\ H[0] = 0
    BY PartialSumFirst
  <2> HIDE DEF F, G, H
  <2>2. QED
    BY <2>1
<1>2. ASSUME NEW k \in 1..n, k - 1 \in S
      PROVE  k \in S
  <2> DEFINE p == c * G[k - 1]
             q == c * g[k]
  <2>1. F[k] = F[k - 1] + f[k] /\ G[k] = G[k - 1] + g[k] /\ H[k] = H[k - 1] + h[k]
    BY PartialSumNext
  <2>2. H[k - 1] = F[k - 1] + p /\ h[k] = f[k] + q
    BY <1>2
  <2>3. F[k - 1] \in Int /\ G[k - 1] \in Int
    <3>1. k - 1 \in 0..n
      OBVIOUS
    <3> HIDE DEF S
    <3>2. QED
      BY <3>1, PartialSumType
  <2>4. f[k] \in Int /\ g[k] \in Int /\ k \in 0..n
    OBVIOUS
  <2> HIDE DEF F, G, H
  <2>5. p \in Int /\ q \in Int
    BY <2>3, <2>4
  <2>6. \A x, y \in Int : c * (x + y) = c * x + c * y
    BY Z3
  <2>7. c * G[k] = p + q
    BY <2>1, <2>3, <2>4, <2>6
  <2> HIDE DEF p, q
  <2>8. H[k] = F[k] + (p + q)
    BY <2>1, <2>2, <2>3, <2>4, <2>5
  <2>9. QED
    BY <2>4, <2>7, <2>8
<1>3. \A k \in 0..n : k \in S
  <2> HIDE DEF S
  <2>1. QED
    BY <1>1, <1>2, IntervalInduction
<1>4. n \in S
  <2> HIDE DEF S
  <2>1. QED
    BY <1>3
<1>5. QED
  BY <1>4 DEF Total

\* h is, place by place, f and c times g: with its types, so that a proof with many
\* functions at hand cites one fact.
Combines(h, f, c, g, n) ==
    /\ n \in Nat /\ c \in Int
    /\ h \in [1..n -> Int] /\ f \in [1..n -> Int] /\ g \in [1..n -> Int]
    /\ \A a \in 1..n : h[a] = f[a] + c * g[a]

LEMMA TotalCombined ==
    ASSUME NEW n, NEW f, NEW g, NEW h, NEW c, Combines(h, f, c, g, n)
    PROVE  Total(h, n) = Total(f, n) + c * Total(g, n)
<1>1. /\ n \in Nat /\ c \in Int
      /\ h \in [1..n -> Int] /\ f \in [1..n -> Int] /\ g \in [1..n -> Int]
      /\ \A a \in 1..n : h[a] = f[a] + c * g[a]
  BY DEF Combines
<1>2. QED
  BY ONLY <1>1, TotalLinear

LEMMA TotalZero ==
    ASSUME NEW n \in Nat, NEW f \in [1..n -> Int], \A a \in 1..n : f[a] = 0
    PROVE  Total(f, n) = 0
<1>1. PICK c \in Int : c = 1
  OBVIOUS
<1>2. \A a \in 1..n : f[a] = f[a] + c * f[a]
  BY <1>1
<1>3. Total(f, n) = Total(f, n) + c * Total(f, n)
  BY <1>2, TotalLinear
<1>4. QED
  BY <1>1, <1>3, TotalType

\* The sum of the function that is 1 at one place and 0 elsewhere.
LEMMA TotalIndicator ==
    ASSUME NEW n \in Nat, NEW a \in 1..n
    PROVE  Total([b \in 1..n |-> IF b = a THEN 1 ELSE 0], n) = 1
<1> DEFINE f == [b \in 1..n |-> IF b = a THEN 1 ELSE 0]
           F == PartialSum(f, n)
           S == {k \in 0..n : F[k] = IF k < a THEN 0 ELSE 1}
<1>1. 0 \in S
  BY PartialSumFirst
<1>2. ASSUME NEW k \in 1..n, k - 1 \in S
      PROVE  k \in S
  <2>1. F[k] = F[k - 1] + f[k]
    BY PartialSumNext
  <2>2. F[k - 1] = IF k - 1 < a THEN 0 ELSE 1
    BY <1>2
  <2>3. f[k] = IF k = a THEN 1 ELSE 0
    OBVIOUS
  <2> HIDE DEF F, f
  <2>4. QED
    BY <2>1, <2>2, <2>3
<1>3. \A k \in 0..n : k \in S
  <2> HIDE DEF S
  <2>1. QED
    BY <1>1, <1>2, IntervalInduction
<1>4. n \in S
  <2> HIDE DEF S
  <2>1. QED
    BY <1>3
<1>5. QED
  BY <1>4 DEF Total

\* Changing one summand changes the sum by as much.
LEMMA TotalUpdate ==
    ASSUME NEW n \in Nat, NEW f \in [1..n -> Int], NEW a \in 1..n, NEW v \in Int
    PROVE  Total([f EXCEPT ![a] = v], n) = Total(f, n) + (v - f[a])
<1> DEFINE one == [b \in 1..n |-> IF b = a THEN 1 ELSE 0]
           h == [f EXCEPT ![a] = v]
           c == v - f[a]
<1>1. one \in [1..n -> Int] /\ h \in [1..n -> Int] /\ c \in Int
  OBVIOUS
<1>2. \A b \in 1..n : h[b] = f[b] + c * one[b]
  <2>1. \A x \in Int : x * 1 = x /\ x * 0 = 0
    OBVIOUS
  <2>2. QED
    BY <2>1
<1>3. Total(one, n) = 1
  BY TotalIndicator
<1> HIDE DEF one, h, c
<1>4. Total(h, n) = Total(f, n) + c * Total(one, n)
  <2>1. Combines(h, f, c, one, n)
    BY <1>1, <1>2 DEF Combines
  <2>2. QED
    BY ONLY <2>1, TotalCombined
<1>5. Total(f, n) \in Int
  BY TotalType
<1>6. QED
  BY <1>1, <1>3, <1>4, <1>5 DEF h, c
\* h is f with an amount moved between the summands a and b.
IsTransfer(f, h, a, b, n) ==
    /\ a # b
    /\ h[a] + h[b] = f[a] + f[b]
    /\ \A c \in 1..n : c # a /\ c # b => h[c] = f[c]

\* A transfer leaves the sum as it is.
LEMMA TotalTransfer ==
    ASSUME NEW n \in Nat, NEW f \in [1..n -> Int], NEW h \in [1..n -> Int],
           NEW a \in 1..n, NEW b \in 1..n, IsTransfer(f, h, a, b, n)
    PROVE  Total(h, n) = Total(f, n)
<1>1. PICK v \in Int : v = h[a]
  OBVIOUS
<1>2. PICK w \in Int : w = h[b]
  OBVIOUS
<1>3. PICK p \in Int : p = f[a]
  OBVIOUS
<1>4. PICK q \in Int : q = f[b]
  OBVIOUS
<1>5. PICK half \in [1..n -> Int] : half = [f EXCEPT ![a] = v]
  OBVIOUS
<1>6. n \in Nat
  OBVIOUS
<1>7. Total([f EXCEPT ![a] = v], n) = Total(f, n) + (v - f[a])
  BY ONLY <1>6, TotalUpdate
<1>8. Total([half EXCEPT ![b] = w], n) = Total(half, n) + (w - half[b])
  BY ONLY <1>6, TotalUpdate
<1>9. half[b] = q /\ h = [half EXCEPT ![b] = w]
  BY <1>1, <1>2, <1>4, <1>5 DEF IsTransfer
<1>10. v + w = p + q
  BY <1>1, <1>2, <1>3, <1>4 DEF IsTransfer
<1>11. PICK old \in Int : old = Total(f, n)
  BY TotalType
<1>12. Total(h, n) = (old + (v - p)) + (w - q)
  BY <1>3, <1>5, <1>7, <1>8, <1>9, <1>11
<1>13. (old + (v - p)) + (w - q) = old
  BY ONLY <1>10
<1>14. QED
  BY <1>11, <1>12, <1>13

\* Multiplying every term multiplies the sum.
LEMMA TotalScaled ==
    ASSUME NEW n \in Nat, NEW f \in [1..n -> Int], NEW g \in [1..n -> Int],
           NEW c \in Int, \A a \in 1..n : g[a] = c * f[a]
    PROVE  Total(g, n) = c * Total(f, n)
<1>1. PICK zero \in [1..n -> Int] : (\A a \in 1..n : zero[a] = 0) /\ Total(zero, n) = 0
  <2>1. [a \in 1..n |-> 0] \in [1..n -> Int]
    OBVIOUS
  <2>2. QED
    BY <2>1, TotalZero
<1>2. \A a \in 1..n : g[a] = zero[a] + c * f[a]
  BY <1>1
<1>3. Total(g, n) = Total(zero, n) + c * Total(f, n)
  BY ONLY <1>2, TotalLinear
<1>4. \A t \in Int : c * t \in Int
  OBVIOUS
<1>5. c * Total(f, n) \in Int
  BY <1>4, TotalType
<1>6. QED
  BY <1>1, <1>3, <1>5

-----------------------------------------------------------------------------
(* Sums over finite sets: SumFunctionOnSet of the community module.        *)

\* To show of every subset of a finite set that it is in P, show it of those that
\* are in P whenever one element less is.
LEMMA SubsetInduction ==
    ASSUME NEW S, IsFiniteSet(S), NEW P, {} \in P,
           \A T \in SUBSET S : T # {} /\ (\A x \in T : T \ {x} \in P) => T \in P
    PROVE  \A T \in SUBSET S : T \in P
<1> DEFINE n == Cardinality(S)
           K == {k \in 0..n : \A T \in SUBSET S : Cardinality(T) = k => T \in P}
<1>1. n \in Nat
  BY FS_CardinalityType
<1>2. \A T \in SUBSET S : IsFiniteSet(T) /\ Cardinality(T) \in 0..n
  <2>1. ASSUME NEW T \in SUBSET S
        PROVE  IsFiniteSet(T) /\ Cardinality(T) \in 0..n
    <3>1. IsFiniteSet(T) /\ Cardinality(T) <= n
      BY FS_Subset
    <3>2. QED
      BY <1>1, <3>1, FS_CardinalityType
  <2>2. QED
    BY <2>1
<1>3. 0 \in K
  <2>1. \A T \in SUBSET S : Cardinality(T) = 0 => T = {}
    BY <1>2, FS_EmptySet
  <2>2. \A T \in SUBSET S : Cardinality(T) = 0 => T \in P
    BY <2>1
  <2>3. 0 \in 0..n
    BY <1>1
  <2>4. QED
    BY <2>2, <2>3
<1>4. ASSUME NEW k \in 1..n, k - 1 \in K
      PROVE  k \in K
  <2>1. SUFFICES ASSUME NEW T \in SUBSET S, Cardinality(T) = k
                 PROVE  T \in P
    OBVIOUS
  <2>2. T # {}
    <3>1. Cardinality({}) = 0 /\ k # 0
      BY <1>1, FS_EmptySet
    <3>2. QED
      BY <2>1, <3>1
  <2>3. ASSUME NEW x \in T
        PROVE  T \ {x} \in P
    <3>1. Cardinality(T \ {x}) = k - 1
      BY <1>2, <2>1, FS_RemoveElement
    <3>2. QED
      BY <1>4, <3>1
  <2>4. QED
    BY <2>2, <2>3
<1>5. \A k \in 0..n : k \in K
  <2> HIDE DEF K
  <2>1. QED
    BY <1>1, <1>3, <1>4, IntervalInduction
<1>6. QED
  BY <1>2, <1>5

AnElement(s) == CHOOSE x \in s : TRUE

\* sum is the recursive function that adds up f over the sets of D.
IsSetSum(sum, f, D) ==
    sum = [s \in D |-> IF s = {} THEN 0 ELSE f[AnElement(s)] + sum[s \ {AnElement(s)}]]

\* Two such functions agree where both are defined, on subsets of a finite set.
LEMMA SetSumUnique ==
    ASSUME NEW S, IsFiniteSet(S), NEW f, NEW D, NEW E, NEW sum, NEW other,
           SUBSET S \subseteq D, SUBSET S \subseteq E,
           IsSetSum(sum, f, D), IsSetSum(other, f, E)
    PROVE  \A T \in SUBSET S : sum[T] = other[T]
<1> DEFINE P == {T \in SUBSET S : sum[T] = other[T]}
<1>1. \A T \in SUBSET S :
        /\ sum[T] = IF T = {} THEN 0 ELSE f[AnElement(T)] + sum[T \ {AnElement(T)}]
        /\ other[T] = IF T = {} THEN 0 ELSE f[AnElement(T)] + other[T \ {AnElement(T)}]
  BY DEF IsSetSum
<1>2. {} \in P
  BY <1>1
<1>3. ASSUME NEW T \in SUBSET S, T # {}, \A x \in T : T \ {x} \in P
      PROVE  T \in P
  <2>1. AnElement(T) \in T
    BY <1>3 DEF AnElement
  <2>2. QED
    BY <1>1, <1>3, <2>1
<1>4. \A T \in SUBSET S : T \in P
  <2> HIDE DEF P
  <2>1. QED
    BY <1>2, <1>3, SubsetInduction
<1>5. QED
  BY <1>4

\* The recursive definition defines a function.
LEMMA SetSumExists ==
    ASSUME NEW S, IsFiniteSet(S), NEW f
    PROVE  \E sum : IsSetSum(sum, f, SUBSET S)
<1> DEFINE n == Cardinality(S)
           D(k) == {T \in SUBSET S : Cardinality(T) <= k}
           K == {k \in 0..n : \E sum : IsSetSum(sum, f, D(k))}
<1>1. n \in Nat
  BY FS_CardinalityType
<1>2. \A T \in SUBSET S : IsFiniteSet(T) /\ Cardinality(T) \in 0..n
  <2>1. ASSUME NEW T \in SUBSET S
        PROVE  IsFiniteSet(T) /\ Cardinality(T) \in 0..n
    <3>1. IsFiniteSet(T) /\ Cardinality(T) <= n
      BY FS_Subset
    <3>2. QED
      BY <1>1, <3>1, FS_CardinalityType
  <2>2. QED
    BY <2>1
<1>3. 0 \in K
  <2>1. \A T \in D(0) : T = {}
    BY <1>2, FS_EmptySet
  <2>2. IsSetSum([s \in D(0) |-> 0], f, D(0))
    BY <2>1 DEF IsSetSum
  <2>3. \E sum : IsSetSum(sum, f, D(0))
    BY <2>2
  <2>4. QED
    BY <1>1, <2>3
<1>4. ASSUME NEW k \in 1..n, k - 1 \in K
      PROVE  k \in K
  <2>1. PICK sum : IsSetSum(sum, f, D(k - 1))
    BY <1>4
  <2> DEFINE next == [s \in D(k) |->
                        IF s = {} THEN 0 ELSE f[AnElement(s)] + sum[s \ {AnElement(s)}]]
  <2>2. \A T \in D(k - 1) : T \in D(k) /\ next[T] = sum[T]
    <3>1. \A T \in D(k - 1) : T \in D(k)
      BY <1>2
    <3>2. QED
      BY <2>1, <3>1 DEF IsSetSum
  <2>3. \A T \in D(k) : T # {} => T \ {AnElement(T)} \in D(k - 1)
    <3>1. ASSUME NEW T \in D(k), T # {}
          PROVE  T \ {AnElement(T)} \in D(k - 1)
      <4>1. AnElement(T) \in T
        BY <3>1 DEF AnElement
      <4>2. Cardinality(T \ {AnElement(T)}) = Cardinality(T) - 1
        BY <1>2, <4>1, FS_RemoveElement
      <4>3. QED
        BY <1>2, <4>2
    <3>2. QED
      BY <3>1
  <2>4. next = [s \in D(k) |->
                  IF s = {} THEN 0 ELSE f[AnElement(s)] + next[s \ {AnElement(s)}]]
    BY <2>2, <2>3
  <2> HIDE DEF next
  <2>5. IsSetSum(next, f, D(k))
    BY <2>4 DEF IsSetSum
  <2> HIDE DEF D
  <2>6. \E other : IsSetSum(other, f, D(k))
    BY <2>5
  <2>7. QED
    BY <2>6
<1>5. n \in K
  <2> HIDE DEF K
  <2>1. QED
    BY <1>1, <1>3, <1>4, IntervalInduction
<1>6. D(n) = SUBSET S
  BY <1>2
<1>7. QED
  BY <1>5, <1>6

LEMMA SumIsSetSum ==
    ASSUME NEW S, IsFiniteSet(S), NEW f
    PROVE  \E sum : IsSetSum(sum, f, SUBSET S) /\ SumFunctionOnSet(f, S) = sum[S]
<1> DEFINE sum == CHOOSE sum : IsSetSum(sum, f, SUBSET S)
<1>1. IsSetSum(sum, f, SUBSET S)
  BY SetSumExists
<1>2. SumFunctionOnSet(f, S) = sum[S]
  BY DEF SumFunctionOnSet, FoldFunctionOnSet, MapThenFoldSet, IsSetSum, AnElement
<1>3. QED
  BY <1>1, <1>2

LEMMA SumOfNothing ==
    ASSUME NEW f
    PROVE  SumFunctionOnSet(f, {}) = 0
<1>1. IsFiniteSet({})
  BY FS_EmptySet
<1>2. PICK sum : IsSetSum(sum, f, SUBSET {}) /\ SumFunctionOnSet(f, {}) = sum[{}]
  BY <1>1, SumIsSetSum
<1>3. QED
  BY <1>2 DEF IsSetSum

LEMMA SumFirst ==
    ASSUME NEW S, IsFiniteSet(S), NEW f, S # {}
    PROVE  /\ AnElement(S) \in S
           /\ SumFunctionOnSet(f, S)
                = f[AnElement(S)] + SumFunctionOnSet(f, S \ {AnElement(S)})
<1> DEFINE T == S \ {AnElement(S)}
<1>1. PICK sum : IsSetSum(sum, f, SUBSET S) /\ SumFunctionOnSet(f, S) = sum[S]
  BY SumIsSetSum
<1>2. IsFiniteSet(T)
  BY FS_RemoveElement
<1>3. PICK part : IsSetSum(part, f, SUBSET T) /\ SumFunctionOnSet(f, T) = part[T]
  BY <1>2, SumIsSetSum
<1>4. sum[T] = part[T]
  <2>1. SUBSET T \subseteq SUBSET S /\ SUBSET T \subseteq SUBSET T /\ T \in SUBSET T
    OBVIOUS
  <2> HIDE DEF T
  <2>2. QED
    BY <1>1, <1>2, <1>3, <2>1, SetSumUnique
<1>5. sum[S] = f[AnElement(S)] + sum[T]
  BY <1>1 DEF IsSetSum
<1>6. AnElement(S) \in S
  BY DEF AnElement
<1>7. QED
  BY <1>1, <1>3, <1>4, <1>5, <1>6

\* A sum of integers is an integer.
LEMMA SumType ==
    ASSUME NEW S, IsFiniteSet(S), NEW f, \A x \in S : f[x] \in Int
    PROVE  \A T \in SUBSET S : SumFunctionOnSet(f, T) \in Int
<1> DEFINE P == {T \in SUBSET S : SumFunctionOnSet(f, T) \in Int}
<1>1. {} \in P
  BY SumOfNothing
<1>2. ASSUME NEW T \in SUBSET S, T # {}, \A x \in T : T \ {x} \in P
      PROVE  T \in P
  <2>1. IsFiniteSet(T)
    BY FS_Subset
  <2>2. /\ AnElement(T) \in T
        /\ SumFunctionOnSet(f, T)
             = f[AnElement(T)] + SumFunctionOnSet(f, T \ {AnElement(T)})
    BY <1>2, <2>1, SumFirst
  <2>3. QED
    BY <1>2, <2>2
<1>3. \A T \in SUBSET S : T \in P
  <2> HIDE DEF P
  <2>1. QED
    BY <1>1, <1>2, SubsetInduction
<1>4. QED
  BY <1>3

\* Any element can be taken out of the sum.
LEMMA SumRemove ==
    ASSUME NEW S, IsFiniteSet(S), NEW f, \A x \in S : f[x] \in Int
    PROVE  \A T \in SUBSET S : \A y \in T :
             SumFunctionOnSet(f, T) = f[y] + SumFunctionOnSet(f, T \ {y})
<1> DEFINE Sum(T) == SumFunctionOnSet(f, T)
           P == {T \in SUBSET S : \A y \in T : Sum(T) = f[y] + Sum(T \ {y})}
<1> HIDE DEF Sum
<1>1. {} \in P
  OBVIOUS
<1>2. \A T \in SUBSET S : Sum(T) \in Int
  BY SumType DEF Sum
<1>3. ASSUME NEW T \in SUBSET S, T # {}, \A x \in T : T \ {x} \in P
      PROVE  T \in P
  <2>1. IsFiniteSet(T)
    BY FS_Subset
  <2>2. PICK x \in T : Sum(T) = f[x] + Sum(T \ {x})
    <3>1. /\ AnElement(T) \in T
          /\ Sum(T) = f[AnElement(T)] + Sum(T \ {AnElement(T)})
      BY <1>3, <2>1, SumFirst DEF Sum
    <3>2. QED
      BY <3>1
  <2>3. ASSUME NEW y \in T, y # x
        PROVE  Sum(T) = f[y] + Sum(T \ {y})
    <3>1. Sum(T \ {x}) = f[y] + Sum((T \ {x}) \ {y})
      BY <1>3, <2>3
    <3>2. Sum(T \ {y}) = f[x] + Sum((T \ {y}) \ {x})
      BY <1>3, <2>3
    <3>3. (T \ {x}) \ {y} = (T \ {y}) \ {x}
      OBVIOUS
    <3>4. f[x] \in Int /\ f[y] \in Int /\ Sum((T \ {y}) \ {x}) \in Int
      <4>1. (T \ {y}) \ {x} \in SUBSET S
        OBVIOUS
      <4>2. QED
        BY <1>2, <4>1
    <3>5. PICK a \in Int, b \in Int, c \in Int :
            a = f[x] /\ b = f[y] /\ c = Sum((T \ {y}) \ {x})
      BY <3>4
    <3>6. Sum(T) = a + (b + c) /\ Sum(T \ {y}) = a + c
      BY <2>2, <3>1, <3>2, <3>3, <3>5
    <3>7. a + (b + c) = b + (a + c)
      BY <3>5
    <3>8. QED
      BY ONLY <3>5, <3>6, <3>7
  <2>4. QED
    BY <2>2, <2>3
<1>4. \A T \in SUBSET S : T \in P
  <2> HIDE DEF P
  <2>1. QED
    BY <1>1, <1>3, SubsetInduction
<1>5. QED
  BY <1>4 DEF Sum

\* What a sum is depends on the values of the function on the set alone.
LEMMA SumMonotone ==
    ASSUME NEW S, IsFiniteSet(S), NEW f, NEW g,
           \A x \in S : f[x] \in Int /\ g[x] \in Int /\ f[x] <= g[x]
    PROVE  SumFunctionOnSet(f, S) <= SumFunctionOnSet(g, S)
<1> DEFINE F(T) == SumFunctionOnSet(f, T)
           G(T) == SumFunctionOnSet(g, T)
           P == {T \in SUBSET S : F(T) <= G(T)}
<1> HIDE DEF F, G
<1>1. {} \in P
  BY SumOfNothing DEF F, G
<1>2. \A T \in SUBSET S : F(T) \in Int /\ G(T) \in Int
  BY SumType DEF F, G
<1>3. ASSUME NEW T \in SUBSET S, T # {}, \A x \in T : T \ {x} \in P
      PROVE  T \in P
  <2>1. PICK x \in T : TRUE
    BY <1>3
  <2>2. F(T) = f[x] + F(T \ {x}) /\ G(T) = g[x] + G(T \ {x})
    BY SumRemove DEF F, G
  <2>3. F(T \ {x}) <= G(T \ {x}) /\ T \ {x} \in SUBSET S
    BY <1>3
  <2>4. QED
    BY <1>2, <2>2, <2>3
<1>4. \A T \in SUBSET S : T \in P
  <2> HIDE DEF P
  <2>1. QED
    BY <1>1, <1>3, SubsetInduction
<1>5. QED
  BY <1>4 DEF F, G

LEMMA SumSame ==
    ASSUME NEW S, IsFiniteSet(S), NEW f, NEW g,
           \A x \in S : f[x] \in Int /\ g[x] = f[x]
    PROVE  SumFunctionOnSet(g, S) = SumFunctionOnSet(f, S)
<1>1. /\ SumFunctionOnSet(f, S) <= SumFunctionOnSet(g, S)
      /\ SumFunctionOnSet(g, S) <= SumFunctionOnSet(f, S)
  BY SumMonotone
<1>2. SumFunctionOnSet(f, S) \in Int /\ SumFunctionOnSet(g, S) \in Int
  BY SumType
<1>3. QED
  BY <1>1, <1>2

\* Changing one of the terms changes the sum by as much.
LEMMA SumUpdate ==
    ASSUME NEW S, IsFiniteSet(S), NEW f, NEW g, NEW a \in S,
           \A x \in S : f[x] \in Int /\ g[x] \in Int,
           \A x \in S \ {a} : g[x] = f[x]
    PROVE  /\ SumFunctionOnSet(g, S) = SumFunctionOnSet(f, S) + (g[a] - f[a])
           /\ SumFunctionOnSet(f, S) \in Int
<1>1. /\ SumFunctionOnSet(f, S) = f[a] + SumFunctionOnSet(f, S \ {a})
      /\ SumFunctionOnSet(g, S) = g[a] + SumFunctionOnSet(g, S \ {a})
  BY SumRemove
<1>2. IsFiniteSet(S \ {a})
  BY FS_RemoveElement
<1>3. SumFunctionOnSet(g, S \ {a}) = SumFunctionOnSet(f, S \ {a})
  BY <1>2, SumSame
<1>4. SumFunctionOnSet(f, S \ {a}) \in Int
  BY SumType
<1>5. QED
  BY <1>1, <1>3, <1>4

\* A sum of natural numbers is one, and no less than any of them.
LEMMA SumOfNats ==
    ASSUME NEW S, IsFiniteSet(S), NEW f, \A x \in S : f[x] \in Nat
    PROVE  /\ SumFunctionOnSet(f, S) \in Nat
           /\ \A x \in S : f[x] <= SumFunctionOnSet(f, S)
<1> DEFINE F(T) == SumFunctionOnSet(f, T)
           P == {T \in SUBSET S : F(T) \in Nat}
<1> HIDE DEF F
<1>1. {} \in P
  BY SumOfNothing DEF F
<1>2. ASSUME NEW T \in SUBSET S, NEW x \in T
      PROVE  F(T) = f[x] + F(T \ {x})
  <2>1. \A y \in S : f[y] \in Int
    OBVIOUS
  <2>2. QED
    BY <2>1, SumRemove DEF F
<1>3. ASSUME NEW T \in SUBSET S, T # {}, \A x \in T : T \ {x} \in P
      PROVE  T \in P
  <2>1. PICK x \in T : TRUE
    BY <1>3
  <2>2. F(T) = f[x] + F(T \ {x}) /\ F(T \ {x}) \in Nat
    BY <1>2, <1>3
  <2>3. QED
    BY <2>2
<1>4. \A T \in SUBSET S : T \in P
  <2> HIDE DEF P
  <2>1. QED
    BY <1>1, <1>3, SubsetInduction
<1>5. ASSUME NEW x \in S
      PROVE  f[x] <= F(S)
  <2>1. F(S) = f[x] + F(S \ {x}) /\ F(S \ {x}) \in Nat
    BY <1>2, <1>4
  <2>2. QED
    BY <2>1
<1>6. QED
  BY <1>4, <1>5 DEF F

\* Adding d to the terms of a part of the set adds the sum of d over the part.
LEMMA SumGrows ==
    ASSUME NEW S, IsFiniteSet(S), NEW Part \in SUBSET S, NEW f, NEW g, NEW d,
           \A x \in S : f[x] \in Int /\ g[x] \in Int,
           \A x \in Part : d[x] \in Int /\ g[x] = f[x] + d[x],
           \A x \in S \ Part : g[x] = f[x]
    PROVE  SumFunctionOnSet(g, S) = SumFunctionOnSet(f, S) + SumFunctionOnSet(d, Part)
<1> DEFINE F(T) == SumFunctionOnSet(f, T)
           G(T) == SumFunctionOnSet(g, T)
           D(T) == SumFunctionOnSet(d, T)
           P == {T \in SUBSET S : G(T) = F(T) + D(T \cap Part)}
<1>1. IsFiniteSet(Part)
  BY FS_Subset
<1> HIDE DEF F, G, D
<1>2. {} \in P
  BY SumOfNothing DEF F, G, D
<1>3. \A T \in SUBSET S : F(T) \in Int /\ G(T) \in Int
  BY SumType DEF F, G
<1>4. \A T \in SUBSET Part : D(T) \in Int
  BY <1>1, SumType DEF D
<1>5. \A T \in SUBSET S : \A x \in T : F(T) = f[x] + F(T \ {x}) /\ G(T) = g[x] + G(T \ {x})
  <2>1. (\A x \in S : f[x] \in Int) /\ (\A x \in S : g[x] \in Int) /\ IsFiniteSet(S)
    OBVIOUS
  <2>2. ASSUME NEW T \in SUBSET S, NEW x \in T
        PROVE  F(T) = f[x] + F(T \ {x})
    BY <2>1, SumRemove DEF F
  <2>3. ASSUME NEW T \in SUBSET S, NEW x \in T
        PROVE  G(T) = g[x] + G(T \ {x})
    BY <2>1, SumRemove DEF G
  <2>4. QED
    BY <2>2, <2>3
<1>6. \A T \in SUBSET Part : \A x \in T : D(T) = d[x] + D(T \ {x})
  <2>1. \A x \in Part : d[x] \in Int
    OBVIOUS
  <2>2. ASSUME NEW T \in SUBSET Part, NEW x \in T
        PROVE  D(T) = d[x] + D(T \ {x})
    BY <1>1, <2>1, SumRemove DEF D
  <2>3. QED
    BY <2>2
<1>7. ASSUME NEW T \in SUBSET S, T # {}, \A x \in T : T \ {x} \in P
      PROVE  T \in P
  <2>1. PICK x \in T : TRUE
    BY <1>7
  <2>2. F(T) = f[x] + F(T \ {x}) /\ G(T) = g[x] + G(T \ {x})
    BY <1>5
  <2>3. G(T \ {x}) = F(T \ {x}) + D((T \ {x}) \cap Part)
    BY <1>7
  <2>4. /\ F(T) \in Int /\ F(T \ {x}) \in Int /\ G(T) \in Int /\ G(T \ {x}) \in Int
        /\ f[x] \in Int /\ g[x] \in Int
        /\ D(T \cap Part) \in Int /\ D((T \ {x}) \cap Part) \in Int
    <3>1. /\ T \ {x} \in SUBSET S /\ x \in S
          /\ T \cap Part \in SUBSET Part /\ (T \ {x}) \cap Part \in SUBSET Part
      OBVIOUS
    <3>2. QED
      BY <1>3, <1>4, <3>1
  <2>5. CASE x \in Part
    <3>1. T \cap Part \in SUBSET Part /\ x \in T \cap Part
      BY <2>5
    <3>2. (T \cap Part) \ {x} = (T \ {x}) \cap Part
      OBVIOUS
    <3>3. D(T \cap Part) = d[x] + D((T \ {x}) \cap Part)
      BY <1>6, <3>1, <3>2
    <3>4. d[x] \in Int /\ g[x] = f[x] + d[x]
      BY <2>5
    <3>5. QED
      BY <2>2, <2>3, <2>4, <3>3, <3>4
  <2>6. CASE x \notin Part
    <3>1. T \cap Part = (T \ {x}) \cap Part
      BY <2>6
    <3>2. g[x] = f[x] /\ D(T \cap Part) = D((T \ {x}) \cap Part)
      BY <2>6, <3>1
    <3>3. G(T) = F(T) + D(T \cap Part)
      BY ONLY <2>2, <2>3, <2>4, <3>2
    <3>4. QED
      BY <3>3
  <2>7. QED
    BY <2>5, <2>6
<1>8. \A T \in SUBSET S : T \in P
  <2> HIDE DEF P
  <2>1. QED
    BY <1>2, <1>7, SubsetInduction
<1>9. S \cap Part = Part
  OBVIOUS
<1>10. QED
  BY <1>8, <1>9 DEF F, G, D

LEMMA SumOfZeros ==
    ASSUME NEW S, IsFiniteSet(S), NEW f, \A x \in S : f[x] = 0
    PROVE  SumFunctionOnSet(f, S) = 0
<1> DEFINE F(T) == SumFunctionOnSet(f, T)
           P == {T \in SUBSET S : F(T) = 0}
<1> HIDE DEF F
<1>2. {} \in P
  BY SumOfNothing DEF F
<1>3. ASSUME NEW T \in SUBSET S, T # {}, \A x \in T : T \ {x} \in P
      PROVE  T \in P
  <2>1. PICK x \in T : TRUE
    BY <1>3
  <2>2. F(T) = f[x] + F(T \ {x})
    BY SumRemove DEF F
  <2>3. F(T \ {x}) = 0 /\ f[x] = 0
    BY <1>3
  <2>4. QED
    BY <2>2, <2>3
<1>4. \A T \in SUBSET S : T \in P
  <2> HIDE DEF P
  <2>1. QED
    BY <1>2, <1>3, SubsetInduction
<1>5. QED
  BY <1>4 DEF F

LEMMA SumLinear ==
    ASSUME NEW S, IsFiniteSet(S), NEW f, NEW g, NEW h, NEW c \in Int,
           \A x \in S : f[x] \in Int /\ g[x] \in Int /\ h[x] = f[x] + c * g[x]
    PROVE  SumFunctionOnSet(h, S) = SumFunctionOnSet(f, S) + c * SumFunctionOnSet(g, S)
<1> DEFINE F(T) == SumFunctionOnSet(f, T)
           G(T) == SumFunctionOnSet(g, T)
           H(T) == SumFunctionOnSet(h, T)
           P == {T \in SUBSET S : H(T) = F(T) + c * G(T)}
<1> HIDE DEF F, G, H
<1>1. {} \in P
  <2>1. F({}) = 0 /\ G({}) = 0 /\ H({}) = 0
    BY SumOfNothing DEF F, G, H
  <2>2. QED
    BY <2>1
<1>2. /\ \A x \in S : f[x] \in Int
      /\ \A x \in S : g[x] \in Int
      /\ \A x \in S : h[x] \in Int
  OBVIOUS
<1>3. ASSUME NEW T \in SUBSET S, T # {}, \A x \in T : T \ {x} \in P
      PROVE  T \in P
  <2>1. PICK x \in T : TRUE
    BY <1>3
  <2>2. F(T) = f[x] + F(T \ {x})
    BY <1>2, SumRemove DEF F
  <2>3. G(T) = g[x] + G(T \ {x})
    BY <1>2, SumRemove DEF G
  <2>4. H(T) = h[x] + H(T \ {x})
    BY <1>2, SumRemove DEF H
  <2>5. H(T \ {x}) = F(T \ {x}) + c * G(T \ {x})
    BY <1>3
  <2>6. T \ {x} \in SUBSET S
    OBVIOUS
  <2>7. F(T \ {x}) \in Int
    BY <1>2, <2>6, SumType DEF F
  <2>8. G(T \ {x}) \in Int
    BY <1>2, <2>6, SumType DEF G
  <2>9. h[x] = f[x] + c * g[x] /\ f[x] \in Int /\ g[x] \in Int
    OBVIOUS
  <2>10. c * (g[x] + G(T \ {x})) = c * g[x] + c * G(T \ {x})
    BY <2>8, <2>9
  <2>11. c * g[x] \in Int /\ c * G(T \ {x}) \in Int
    BY <2>8, <2>9
  <2>12. H(T) = F(T) + c * G(T)
    BY ONLY <2>2, <2>3, <2>4, <2>5, <2>7, <2>8, <2>9, <2>10, <2>11
  <2>13. QED
    BY <2>12
<1>4. \A T \in SUBSET S : T \in P
  <2> HIDE DEF P
  <2>1. QED
    BY <1>1, <1>3, SubsetInduction
<1>5. QED
  BY <1>4 DEF F, G, H

\* A part of the set sums to no more than all of it.
LEMMA SumOfPart ==
    ASSUME NEW S, IsFiniteSet(S), NEW f, \A x \in S : f[x] \in Nat
    PROVE  \A T \in SUBSET S : SumFunctionOnSet(f, T) <= SumFunctionOnSet(f, S)
<1> SUFFICES ASSUME NEW T \in SUBSET S
             PROVE  SumFunctionOnSet(f, T) <= SumFunctionOnSet(f, S)
  OBVIOUS
<1> DEFINE none == [x \in S |-> 0]
           part == [x \in S |-> IF x \in T THEN f[x] ELSE 0]
<1>1. /\ \A x \in S : none[x] = 0 /\ none[x] \in Int /\ part[x] \in Int /\ f[x] \in Int
                      /\ part[x] <= f[x]
      /\ \A x \in T : f[x] \in Int /\ part[x] = none[x] + f[x]
      /\ \A x \in S \ T : part[x] = none[x]
  OBVIOUS
<1> HIDE DEF none, part
<1>2. SumFunctionOnSet(none, S) = 0
  BY <1>1, SumOfZeros
<1>3. SumFunctionOnSet(part, S) = SumFunctionOnSet(none, S) + SumFunctionOnSet(f, T)
  BY ONLY <1>1, IsFiniteSet(S), T \in SUBSET S, SumGrows
<1>4. SumFunctionOnSet(part, S) <= SumFunctionOnSet(f, S)
  BY ONLY <1>1, IsFiniteSet(S), SumMonotone
<1>5. SumFunctionOnSet(f, T) \in Int
  BY <1>1, SumType
<1>6. QED
  BY <1>2, <1>3, <1>4, <1>5
=============================================================================
