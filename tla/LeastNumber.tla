---------------------------- MODULE LeastNumber ----------------------------
(***************************************************************************)
(* Facts about integers that the proofs share: a set of numbers with a     *)
(* bound has a least or greatest element, induction, definition by         *)
(* recursion, and division by a positive number.  The library's induction  *)
(* theorems are about a predicate; these are about a set of numbers, which *)
(* is what the provers can instantiate.                                    *)
(***************************************************************************)
EXTENDS Integers, NaturalsInduction, WellFoundedInduction, TLAPS

\* A nonempty set of naturals has an element that is minimal for R.
LEMMA MinimalNatural ==
    ASSUME NEW R, IsWellFoundedOn(R, Nat), NEW T \in SUBSET Nat, T # {}
    PROVE  \E m \in T : \A y \in T : ~(<<y, m>> \in R)
<1>1. T \subseteq Nat
    OBVIOUS
<1> QED  BY <1>1, WFMin

\* ... and for a relation that holds less-than, this is a least element.
LEMMA MinimalIsLeast ==
    ASSUME NEW R, IsWellFoundedOn(R, Nat),
           \A x, y \in Nat : x < y => <<x, y>> \in R,
           NEW S \in SUBSET Nat, S # {}
    PROVE  \E m \in S : \A k \in S : m <= k
<1>1. PICK m \in S : \A y \in S : ~(<<y, m>> \in R)
    BY MinimalNatural
<1>2. \A y \in S : y \in Nat /\ m \in Nat
    OBVIOUS
<1>3. \A y \in S : ~(y < m)
    BY <1>1, <1>2
<1> QED  BY <1>2, <1>3

\* The relation of less-than.
LEMMA LessThanRelation == \A x, y \in Nat : x < y => <<x, y>> \in OpToRel(<, Nat)
BY DEF OpToRel

\* A nonempty set of naturals has a least element.
LEMMA LeastNatural ==
    ASSUME NEW S \in SUBSET Nat, S # {}
    PROVE  \E m \in S : \A k \in S : m <= k
BY MinimalIsLeast, LessThanRelation, NatLessThanWellFounded, Zenon

\* A nonempty set of integers from a on has a least element.
LEMMA LeastInteger ==
    ASSUME NEW a \in Int, NEW S \in SUBSET Int, \A x \in S : a <= x, S # {}
    PROVE  \E m \in S : \A k \in S : m <= k
<1> DEFINE T == {k \in Nat : a + k \in S}
<1>1. T \in SUBSET Nat /\ T # {}
    <2>1. PICK x \in S : TRUE
        OBVIOUS
    <2>2. x - a \in Nat /\ a + (x - a) = x
        OBVIOUS
    <2> QED  BY <2>1, <2>2
<1> HIDE DEF T
<1>2. PICK m \in T : \A k \in T : m <= k
    BY <1>1, LeastNatural
<1>3. m \in Nat /\ a + m \in S
    BY <1>2 DEF T
<1>4. ASSUME NEW x \in S PROVE a + m <= x
    <2>1. x \in Int /\ x - a \in Nat /\ a + (x - a) = x
        OBVIOUS
    <2>2. x - a \in T
        BY <2>1 DEF T
    <2>3. m <= x - a
        BY <1>2, <2>2
    <2> QED  BY <1>3, <2>1, <2>3
<1> QED  BY <1>3, <1>4

\* Induction over the natural numbers, with a set for the predicate.
LEMMA Induction ==
    ASSUME NEW S, 0 \in S, \A n \in Nat : n \in S => n + 1 \in S
    PROVE  \A n \in Nat : n \in S
<1> DEFINE T == Nat \ S
<1> SUFFICES ASSUME T # {} PROVE FALSE
    OBVIOUS
<1>1. PICK m \in T : \A k \in T : m <= k
    <2>1. T \in SUBSET Nat
        OBVIOUS
    <2> QED  BY <2>1, LeastNatural
<1>2. m \in Nat /\ m # 0 /\ m - 1 \in Nat /\ m - 1 \notin T
    BY <1>1
<1>3. m - 1 \in S /\ (m - 1) + 1 = m
    BY <1>2
<1> QED  BY <1>1, <1>2, <1>3

\* g is the beginning, up to n, of the iteration of step from v.
Iterates(V, v, step, n, g) ==
    /\ g \in [0..n -> V]
    /\ g[0] = v
    /\ \A i \in 1..n : g[i] = step[i - 1][g[i - 1]]

\* Such a beginning can be extended by one step.
LEMMA IteratesExtend ==
    ASSUME NEW V, NEW v \in V, NEW step \in [Nat -> [V -> V]], NEW n \in Nat,
           NEW g, Iterates(V, v, step, n, g)
    PROVE  \E h : Iterates(V, v, step, n + 1, h)
<1> DEFINE x == step[n][g[n]]
           h == [i \in 0..n + 1 |-> IF i = n + 1 THEN x ELSE g[i]]
<1>1. x \in V
    BY DEF Iterates
<1>2. /\ h[n + 1] = x
      /\ \A i \in 0..n : h[i] = g[i]
      /\ \A i \in 0..n + 1 : h[i] \in V
    BY <1>1 DEF Iterates
<1>3. h \in [0..n + 1 -> V]
    BY <1>2
<1> HIDE DEF h
<1>4. ASSUME NEW i \in 1..n + 1 PROVE h[i] = step[i - 1][h[i - 1]]
    <2>1. CASE i = n + 1
        <3>1. i - 1 = n /\ n \in 0..n
            BY <2>1
        <3> QED  BY <2>1, <3>1, <1>2
    <2>2. CASE i # n + 1
        <3>1. i \in 1..n /\ i \in 0..n /\ i - 1 \in 0..n
            BY <2>2
        <3> QED  BY <3>1, <1>2 DEF Iterates
    <2> QED  BY <2>1, <2>2
<1>5. h[0] = v
    BY <1>2 DEF Iterates
<1> QED  BY <1>3, <1>4, <1>5 DEF Iterates

\* Two of them agree as far as both go.
LEMMA IteratesUnique ==
    ASSUME NEW V, NEW v, NEW step, NEW n \in Nat, NEW m \in Nat,
           NEW g, Iterates(V, v, step, n, g), NEW h, Iterates(V, v, step, m, h)
    PROVE  \A i \in Nat : i <= n /\ i <= m => g[i] = h[i]
<1> DEFINE S == {i \in Nat : i <= n /\ i <= m => g[i] = h[i]}
<1>1. 0 \in S
    BY DEF Iterates
<1>2. ASSUME NEW i \in Nat, i \in S PROVE i + 1 \in S
    <2> SUFFICES ASSUME i + 1 <= n, i + 1 <= m PROVE g[i + 1] = h[i + 1]
        OBVIOUS
    <2>1. i + 1 \in 1..n /\ i + 1 \in 1..m /\ (i + 1) - 1 = i
        OBVIOUS
    <2>2. g[i + 1] = step[i][g[i]] /\ h[i + 1] = step[i][h[i]]
        BY <2>1 DEF Iterates
    <2> QED  BY <2>2, <1>2
<1> HIDE DEF S
<1>3. \A i \in Nat : i \in S
    BY <1>1, <1>2, Induction
<1> QED  BY <1>3 DEF S

\* There is one of every length.
LEMMA IteratesExist ==
    ASSUME NEW V, NEW v \in V, NEW step \in [Nat -> [V -> V]]
    PROVE  \A n \in Nat : \E g : Iterates(V, v, step, n, g)
<1> DEFINE S == {n \in Nat : \E g : Iterates(V, v, step, n, g)}
<1>1. 0 \in S
    <2>1. Iterates(V, v, step, 0, [i \in 0..0 |-> v])
        BY DEF Iterates
    <2> QED  BY <2>1
<1>2. ASSUME NEW n \in Nat, n \in S PROVE n + 1 \in S
    BY <1>2, IteratesExtend
<1> HIDE DEF S
<1>3. \A n \in Nat : n \in S
    BY <1>1, <1>2, Induction
<1> QED  BY <1>3 DEF S

\* A function on the naturals may be defined by its value at 0 and a step: what
\* a recursive definition of this form chooses exists.
IsIteration(V, v, step, f) ==
    /\ f \in [Nat -> V]
    /\ f = [n \in Nat |-> IF n = 0 THEN v ELSE step[n - 1][f[n - 1]]]

LEMMA IterationExists ==
    ASSUME NEW V, NEW v \in V, NEW step \in [Nat -> [V -> V]]
    PROVE  \E f : IsIteration(V, v, step, f)
<1> DEFINE G(n) == CHOOSE g : Iterates(V, v, step, n, g)
           f == [n \in Nat |-> G(n)[n]]
<1>1. \A n \in Nat : Iterates(V, v, step, n, G(n))
    BY IteratesExist
<1> HIDE DEF G
<1>2. \A n \in Nat : f[n] = G(n)[n] /\ f[n] \in V
    BY <1>1 DEF Iterates
<1>3. f = [n \in Nat |-> f[n]]
    OBVIOUS
<1> HIDE DEF f
<1>4. f[0] = v
    BY <1>1, <1>2 DEF Iterates
<1>5. ASSUME NEW n \in Nat, n # 0 PROVE f[n] = step[n - 1][f[n - 1]]
    <2>1. n - 1 \in Nat /\ n - 1 <= n /\ n - 1 <= n - 1 /\ n \in 1..n
        BY <1>5
    <2>2. Iterates(V, v, step, n, G(n)) /\ Iterates(V, v, step, n - 1, G(n - 1))
        BY <1>1, <2>1
    <2>3. G(n - 1)[n - 1] = G(n)[n - 1]
        BY <2>1, <2>2, IteratesUnique
    <2>4. G(n)[n] = step[n - 1][G(n)[n - 1]]
        BY <2>1, <2>2 DEF Iterates
    <2> QED  BY <2>1, <2>3, <2>4, <1>2
<1>6. f \in [Nat -> V]
    BY <1>2, <1>3
<1>7. \A n \in Nat : f[n] = IF n = 0 THEN v ELSE step[n - 1][f[n - 1]]
    BY <1>4, <1>5
<1> QED  BY <1>3, <1>6, <1>7 DEF IsIteration

\* A nonempty set of integers up to b has a greatest element.
LEMMA GreatestInteger ==
    ASSUME NEW b \in Int, NEW S \in SUBSET Int, \A x \in S : x <= b, S # {}
    PROVE  \E m \in S : \A k \in S : k <= m
<1> DEFINE T == {k \in Nat : b - k \in S}
<1>1. T \in SUBSET Nat /\ T # {}
    <2>1. PICK x \in S : TRUE
        OBVIOUS
    <2>2. b - x \in Nat /\ b - (b - x) = x
        BY <2>1
    <2> QED  BY <2>1, <2>2
<1> HIDE DEF T
<1>2. PICK m \in T : \A k \in T : m <= k
    BY <1>1, LeastNatural
<1>3. m \in Nat /\ b - m \in S
    BY <1>2 DEF T
<1>4. ASSUME NEW x \in S PROVE x <= b - m
    <2>1. x \in Int /\ b - x \in Nat /\ b - (b - x) = x
        OBVIOUS
    <2>2. b - x \in T
        BY <2>1 DEF T
    <2>3. m <= b - x
        BY <1>2, <2>2
    <2> QED  BY <1>3, <2>1, <2>3
<1> QED  BY <1>3, <1>4

\* The quotient by n is the number of whole n's.
LEMMA DivBounds ==
    ASSUME NEW n \in Nat \ {0}, NEW x \in Int
    PROVE  /\ x \div n \in Int
           /\ n * (x \div n) <= x
           /\ x < n * (x \div n + 1)
BY Z3

\* ... and is determined by that.
LEMMA DivUnique ==
    ASSUME NEW n \in Nat \ {0}, NEW x \in Int, NEW q \in Int,
           n * q <= x, x < n * (q + 1)
    PROVE  x \div n = q
BY Z3

\* A larger multiple has a larger factor.
LEMMA FactorLess ==
    ASSUME NEW n \in Nat \ {0}, NEW p \in Int, NEW q \in Int, n * p < n * q
    PROVE  p < q
BY Z3

\* ... and the other way round.
LEMMA MultipleLeq ==
    ASSUME NEW n \in Nat \ {0}, NEW p \in Int, NEW q \in Int, p <= q
    PROVE  n * p <= n * q
BY Z3

\* Every remainder occurs among n numbers in a row.
LEMMA RemainderOccurs ==
    ASSUME NEW n \in Nat \ {0}, NEW x \in Int, NEW r \in 0..n - 1
    PROVE  \E y \in x + 1..x + n : y % n = r
<1> DEFINE q == (x - r) \div n
<1>1. q \in Int /\ n * q <= x - r /\ x - r < n * (q + 1)
    BY DivBounds
<1> HIDE DEF q
<1> DEFINE y == n * (q + 1) + r
<1>2. n * (q + 1) = n * q + n /\ n * q \in Int
    BY <1>1, Z3
<1>3. y \in x + 1..x + n
    BY <1>1, <1>2
<1>4. y % n = r
    BY <1>1, Z3
<1> QED  BY <1>3, <1>4

=============================================================================
