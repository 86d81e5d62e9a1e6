-------------------------- MODULE IntervalList_proofs --------------------------
(***************************************************************************)
(* What holds of the lists of intervals for every number of positions.     *)
(* Each fold over a list is a chain of values, one for each prefix, on     *)
(* which what it computes follows by induction.  From that, add, remove,   *)
(* myUnion, difference, intersection and total are shown to do to          *)
(* normalised lists what they promise to do to the positions covered, and  *)
(* the two lists of the specification to implement two sets.               *)
(***************************************************************************)
EXTENDS IntervalList, FiniteSetTheorems, WellFoundedInduction, SequenceTheorems, TLAPS

-----------------------------------------------------------------------------
(* Numbers, and folds.                                                     *)

\* A set of natural numbers has a least element.
LEMMA Least ==
    ASSUME NEW T \in SUBSET Nat, T # {}
    PROVE  \E n \in T : \A m \in T : n <= m
<1> DEFINE R == OpToRel(<, Nat)
<1>1. IsWellFoundedOn(R, Nat)
    BY NatLessThanWellFounded
<1>2. \A x, y \in Nat : <<x, y>> \in R <=> x < y
    BY DEF OpToRel
<1> HIDE DEF R
<1>3. PICK x \in T : \A y \in T : ~ (<<y, x>> \in R)
    BY <1>1, WFMin
<1>4. ASSUME NEW y \in T PROVE x <= y
    <2>1. x \in Nat /\ y \in Nat
        OBVIOUS
    <2>2. ~ (y < x)
        BY <1>2, <1>3, <2>1
    <2>3. QED BY <2>1, <2>2
<1>5. QED BY <1>3, <1>4

\* Induction, over a set rather than over a predicate.
LEMMA Induction ==
    ASSUME NEW P \in SUBSET Nat, 0 \in P, \A n \in P : n + 1 \in P
    PROVE  P = Nat
<1> SUFFICES ASSUME Nat \ P # {} PROVE FALSE
    OBVIOUS
<1>1. PICK n \in Nat \ P : \A m \in Nat \ P : n <= m
    BY Least
<1>2. n # 0 /\ n - 1 \in Nat /\ n - 1 \notin P
    BY <1>1
<1>3. QED BY <1>1, <1>2

\* The sets one element smaller.
LEMMA OneLess ==
    ASSUME NEW S, IsFiniteSet(S), NEW s \in SUBSET S
    PROVE  /\ IsFiniteSet(s) /\ Cardinality(s) \in Nat
           /\ Cardinality(s) = 0 <=> s = {}
           /\ \A x \in s : Cardinality(s \ {x}) = Cardinality(s) - 1
BY FS_Subset, FS_CardinalityType, FS_EmptySet, FS_RemoveElement

\* A function that combines the elements of a set one by one, as pk picks them.
Picks(pk, S) == \A s \in (SUBSET S) \ {{}} : pk[s] \in s

Folds(it, S, base, G, pk) ==
    it = [s \in SUBSET S |-> IF s = {} THEN base ELSE G[<<pk[s], it[s \ {pk[s]}]>>]]

\* There is one, whatever has to be combined.
LEMMA FoldExists ==
    ASSUME NEW S, IsFiniteSet(S), NEW V, NEW base \in V, NEW G \in [S \X V -> V],
           NEW pk, Picks(pk, S)
    PROVE  \E it \in [SUBSET S -> V] : Folds(it, S, base, G, pk)
<1> DEFINE pick(s) == pk[s]
           Step(it, s) == IF s = {} THEN base ELSE G[<<pick(s), it[s \ {pick(s)}]>>]
           Good(it, n) == \A s \in SUBSET S : Cardinality(s) <= n => it[s] = Step(it, s)
           P == {n \in Nat : \E it \in [SUBSET S -> V] : Good(it, n)}
<1>1. \A s \in (SUBSET S) \ {{}} : pick(s) \in s /\ s \ {pick(s)} \in SUBSET S
    BY DEF Picks
<1>2. \A s \in SUBSET S : IsFiniteSet(s) /\ Cardinality(s) \in Nat
    BY OneLess
<1>3. \A s \in (SUBSET S) \ {{}} : Cardinality(s \ {pick(s)}) = Cardinality(s) - 1
    BY <1>1, OneLess
<1>4. \A it \in [SUBSET S -> V], s \in SUBSET S : Step(it, s) \in V
    BY <1>1
<1>5. 0 \in P
    <2> DEFINE it0 == [s \in SUBSET S |-> base]
    <2>1. \A s \in SUBSET S : Cardinality(s) <= 0 => s = {}
        BY OneLess
    <2>2. it0 \in [SUBSET S -> V] /\ Good(it0, 0)
        BY <2>1
    <2>3. QED BY <2>2
<1>6. ASSUME NEW n \in P PROVE n + 1 \in P
    <2>1. PICK it \in [SUBSET S -> V] : Good(it, n)
        BY <1>6
    <2> DEFINE next == [s \in SUBSET S |-> IF Cardinality(s) <= n THEN it[s] ELSE Step(it, s)]
    <2>2. next \in [SUBSET S -> V]
        BY <1>4
    <2>3. ASSUME NEW s \in SUBSET S, Cardinality(s) <= n + 1 PROVE next[s] = Step(next, s)
        <3>1. next[s] = Step(it, s)
            BY <2>1
        <3>2. s # {} => next[s \ {pick(s)}] = it[s \ {pick(s)}]
            BY <1>1, <1>2, <1>3, <2>3
        <3> HIDE DEF next
        <3>3. QED BY <3>1, <3>2
    <2>4. n + 1 \in Nat
        OBVIOUS
    <2> HIDE DEF next, Step
    <2>5. Good(next, n + 1)
        BY <2>3
    <2> HIDE DEF Good
    <2>6. QED BY <2>2, <2>4, <2>5
<1>7. P = Nat
    <2> HIDE DEF P
    <2>1. P \in SUBSET Nat
        BY DEF P
    <2>2. QED BY <1>5, <1>6, <2>1, Induction
<1>8. Cardinality(S) \in P
    BY <1>2, <1>7
<1>9. PICK it \in [SUBSET S -> V] : Good(it, Cardinality(S))
    <2> HIDE DEF Good
    <2>1. QED BY <1>8
<1>10. \A s \in SUBSET S : it[s] = Step(it, s)
    BY <1>2, <1>9, FS_Subset
<1>11. it = [s \in SUBSET S |-> Step(it, s)]
    <2> HIDE DEF Step
    <2>1. QED BY <1>10
<1>12. QED BY <1>11 DEF Folds

\* In a fold over a sequence the largest place is taken first, so that what is
\* combined is the prefixes.
Chain(f, n, V, base, G) ==
    /\ f \in [0 .. n -> V] /\ f[0] = base
    /\ \A i \in 1 .. n : f[i] = G[<<i, f[i - 1]>>]

TakesMax(it, n, V, G) ==
    \A s \in (SUBSET (1 .. n)) \ {{}} :
       it[s \ {Max(s)}] \in V => it[s] = G[<<Max(s), it[s \ {Max(s)}]>>]

LEMMA MaxIs ==
    ASSUME NEW n \in Nat, NEW s \in (SUBSET (1 .. n)) \ {{}}
    PROVE  Max(s) \in s /\ \A x \in s : Max(s) >= x
<1> DEFINE T == {n - x : x \in s}
<1>1. T \in SUBSET Nat /\ T # {}
    OBVIOUS
<1>2. PICK t \in T : \A m \in T : t <= m
    <2> HIDE DEF T
    <2>1. QED BY <1>1, Least
<1>3. PICK x \in s : t = n - x
    BY <1>2
<1>4. \A y \in s : x >= y
    BY <1>2, <1>3
<1>5. QED BY <1>4 DEF Max

LEMMA ChainOfFold ==
    ASSUME NEW n \in Nat, NEW V, NEW G \in [(1 .. n) \X V -> V], NEW it, NEW base \in V,
           it[{}] = base, TakesMax(it, n, V, G)
    PROVE  Chain([i \in 0 .. n |-> it[1 .. i]], n, V, base, G)
<1> DEFINE f == [i \in 0 .. n |-> it[1 .. i]]
           P == {i \in Nat : i <= n => f[i] \in V}
<1>1. f[0] = base
    <2>1. 1 .. 0 = {}
        OBVIOUS
    <2>2. QED BY <2>1
<1>2. ASSUME NEW i \in 1 .. n, f[i - 1] \in V PROVE f[i] = G[<<i, f[i - 1]>>]
    <2> DEFINE s == 1 .. i
    <2>1. s \in (SUBSET (1 .. n)) \ {{}}
        OBVIOUS
    <2>2. Max(s) = i
        <3>1. Max(s) \in s /\ \A x \in s : Max(s) >= x
            BY <2>1, MaxIs
        <3>2. i \in s /\ \A x \in s : x \in Int /\ i >= x
            OBVIOUS
        <3> DEFINE m == Max(s)
        <3> HIDE DEF s, m
        <3>3. m \in s /\ m >= i /\ i \in Int
            BY <3>1, <3>2 DEF m
        <3>4. m \in Int /\ i >= m
            BY <3>2, <3>3
        <3>5. m = i
            BY <3>3, <3>4
        <3>6. QED BY <3>5 DEF m
    <2>3. s \ {i} = 1 .. i - 1
        OBVIOUS
    <2>4. f[i] = it[s] /\ f[i - 1] = it[s \ {i}]
        <3>1. i \in 0 .. n /\ i - 1 \in 0 .. n
            OBVIOUS
        <3>2. f[i] = it[1 .. i] /\ f[i - 1] = it[1 .. i - 1]
            BY <3>1
        <3> HIDE DEF f
        <3>3. QED BY <2>3, <3>2
    <2> HIDE DEF s, f
    <2>5. QED BY <1>2, <2>1, <2>2, <2>4 DEF TakesMax
<1>3. 0 \in P
    BY <1>1
<1>4. ASSUME NEW i \in P PROVE i + 1 \in P
    <2> SUFFICES ASSUME i + 1 <= n PROVE f[i + 1] \in V
        OBVIOUS
    <2>1. f[i] \in V /\ i + 1 \in 1 .. n /\ (i + 1) - 1 = i /\ i \in Nat
        OBVIOUS
    <2> HIDE DEF f
    <2>2. f[i + 1] = G[<<i + 1, f[i]>>]
        BY <2>1, <1>2
    <2>3. QED BY <2>1, <2>2
<1>5. P = Nat
    <2> HIDE DEF P
    <2>1. P \in SUBSET Nat
        BY DEF P
    <2>2. QED BY <1>3, <1>4, <2>1, Induction
<1>6. \A i \in 0 .. n : f[i] \in V
    <2> SUFFICES ASSUME NEW i \in 0 .. n PROVE f[i] \in V
        OBVIOUS
    <2>1. i \in Nat /\ i <= n
        OBVIOUS
    <2>2. i \in P
        <3> HIDE DEF P
        <3>1. QED BY <2>1, <1>5
    <2> HIDE DEF f
    <2>3. QED BY <2>1, <2>2
<1>7. f \in [0 .. n -> V]
    BY <1>6
<1>8. \A i \in 1 .. n : f[i] = G[<<i, f[i - 1]>>]
    <2>1. \A i \in 1 .. n : i - 1 \in 0 .. n
        OBVIOUS
    <2>2. QED BY <2>1, <1>2, <1>6
<1> HIDE DEF f
<1>9. Chain(f, n, V, base, G)
    BY <1>1, <1>7, <1>8 DEF Chain
<1>10. QED BY <1>9 DEF f

\* What every element keeps holds in the end.
LEMMA ChainInduction ==
    ASSUME NEW n \in Nat, NEW V, NEW base, NEW G, NEW f, Chain(f, n, V, base, G),
           NEW Q \in SUBSET ((0 .. n) \X V), <<0, base>> \in Q,
           \A i \in 1 .. n : \A v \in V : <<i - 1, v>> \in Q => <<i, G[<<i, v>>]>> \in Q
    PROVE  <<n, f[n]>> \in Q
<1> DEFINE P == {i \in Nat : i <= n => <<i, f[i]>> \in Q}
<1>1. 0 \in P
    BY DEF Chain
<1>2. ASSUME NEW i \in P PROVE i + 1 \in P
    <2> SUFFICES ASSUME i + 1 <= n PROVE <<i + 1, f[i + 1]>> \in Q
        OBVIOUS
    <2>1. <<i, f[i]>> \in Q /\ i + 1 \in 1 .. n /\ (i + 1) - 1 = i /\ i \in 0 .. n
        OBVIOUS
    <2>2. f[i] \in V /\ f[i + 1] = G[<<i + 1, f[i]>>]
        BY <2>1 DEF Chain
    <2>3. QED BY <2>1, <2>2
<1>3. P = Nat
    <2> HIDE DEF P
    <2>1. P \in SUBSET Nat
        BY DEF P
    <2>2. QED BY <1>1, <1>2, <2>1, Induction
<1>4. n \in P
    BY <1>3
<1>5. QED BY <1>4
-----------------------------------------------------------------------------
(* Intervals and normalised lists.                                         *)

Lists == {l \in Seq(Interval) : Normalised(l)}

Of(x) == x.lb .. x.hb

LEMMA IntervalIs ==
    ASSUME NEW x \in Interval
    PROVE  x.lb \in Position /\ x.hb \in Position /\ x.lb <= x.hb /\ x.lb \in Int /\ x.hb \in Int
BY MaxPosAssumption DEF Interval, Position

LEMMA ItemIs ==
    ASSUME NEW l \in Seq(Interval), NEW i \in 1 .. Len(l)
    PROVE  /\ l[i] \in Interval /\ l[i].lb <= l[i].hb /\ l[i].lb \in Int /\ l[i].hb \in Int
           /\ l[i].lb >= 0 /\ l[i].hb <= MaxPos
<1>1. l[i] \in Interval
    OBVIOUS
<1>2. QED BY <1>1, IntervalIs, MaxPosAssumption DEF Position

\* The positions of a list lie in one of its items.
LEMMA CoveredIs ==
    ASSUME NEW l \in Seq(Interval)
    PROVE  /\ DOMAIN l = 1 .. Len(l) /\ Len(l) \in Nat
           /\ Covered(l) \in SUBSET Int
           /\ \A p : p \in Covered(l) <=> \E i \in 1 .. Len(l) : p \in Of(l[i])
<1>1. DOMAIN l = 1 .. Len(l) /\ Len(l) \in Nat
    OBVIOUS
<1>2. \A p : p \in Covered(l) <=> \E i \in 1 .. Len(l) : p \in Of(l[i])
    BY <1>1 DEF Covered, Of
<1>3. Covered(l) \in SUBSET Int
    <2>1. \A x : Of(x) \subseteq Int
        BY DEF Of
    <2>2. QED BY <1>2, <2>1
<1>4. QED BY <1>1, <1>2, <1>3

\* Items are apart, not only neighbours.
LEMMA Spread ==
    ASSUME NEW l \in Lists, NEW i \in 1 .. Len(l), NEW j \in 1 .. Len(l), i < j
    PROVE  l[i].hb + 1 < l[j].lb
<1> DEFINE n == Len(l)
           P == {k \in Nat : \A a, b \in 1 .. n : b = a + k + 1 => l[a].hb + 1 < l[b].lb}
<1>1. l \in Seq(Interval) /\ n \in Nat /\ \A a \in 1 .. n - 1 : l[a].hb + 1 < l[a + 1].lb
    BY SMTT(30) DEF Lists, Normalised
<1>2. \A a \in 1 .. n : l[a].lb <= l[a].hb /\ l[a].lb \in Int /\ l[a].hb \in Int
    BY <1>1, ItemIs
<1> HIDE DEF n
<1>3. 0 \in P
    <2>1. ASSUME NEW a \in 1 .. n, NEW b \in 1 .. n, b = a + 0 + 1 PROVE l[a].hb + 1 < l[b].lb
        <3>1. a \in 1 .. n - 1 /\ b = a + 1
            BY <1>1, <2>1
        <3>2. QED BY <1>1, <3>1
    <2>2. QED BY <2>1
<1>4. ASSUME NEW k \in P PROVE k + 1 \in P
    <2>1. ASSUME NEW a \in 1 .. n, NEW b \in 1 .. n, b = a + (k + 1) + 1 PROVE l[a].hb + 1 < l[b].lb
        <3>1. b - 1 \in 1 .. n /\ b - 1 = a + k + 1 /\ b - 1 \in 1 .. n - 1 /\ (b - 1) + 1 = b
            BY <1>1, <2>1
        <3>2. l[a].hb + 1 < l[b - 1].lb
            BY <3>1
        <3>3. l[b - 1].hb + 1 < l[b].lb
            BY <1>1, <3>1
        <3>4. l[b - 1].lb <= l[b - 1].hb /\ l[b - 1].lb \in Int /\ l[b - 1].hb \in Int
              /\ l[a].hb \in Int /\ l[b].lb \in Int
            BY <1>2, <3>1
        <3>5. \A u, v, w, x \in Int : u + 1 < v /\ v <= w /\ w + 1 < x => u + 1 < x
            OBVIOUS
        <3>6. QED BY <3>2, <3>3, <3>4, <3>5
    <2>2. QED BY <2>1
<1>5. P = Nat
    <2>1. P \in SUBSET Nat
        OBVIOUS
    <2> HIDE DEF P
    <2>2. QED BY <1>3, <1>4, <2>1, Induction
<1>6. j - i - 1 \in P
    <2>1. i \in Int /\ j \in Int
        BY <1>1 DEF n
    <2>2. j - i - 1 \in Nat
        BY <2>1
    <2> HIDE DEF P
    <2>3. QED BY <1>5, <2>2
<1>7. j = i + (j - i - 1) + 1 /\ i \in 1 .. n /\ j \in 1 .. n
    BY DEF n
<1>8. QED BY <1>6, <1>7

\* A list whose items are apart is normalised.
LEMMA ApartIsNormalised ==
    ASSUME NEW l \in Seq(Interval),
           \A i \in 1 .. Len(l) : \A j \in 1 .. Len(l) : i < j => l[i].hb + 1 < l[j].lb
    PROVE  l \in Lists
<1>1. \A i \in 1 .. Len(l) - 1 : i \in 1 .. Len(l) /\ i + 1 \in 1 .. Len(l) /\ i < i + 1
    OBVIOUS
<1>2. QED BY <1>1 DEF Lists, Normalised

LEMMA EmptyList == <<>> \in Lists /\ Covered(<<>>) = {}
BY DEF Lists, Normalised, Covered

LEMMA OneItem ==
    ASSUME NEW x \in Interval
    PROVE  /\ <<x>> \in Lists /\ Covered(<<x>>) = Of(x)
           /\ Len(<<x>>) = 1 /\ <<x>>[1] = x
<1>1. <<x>> \in Seq(Interval) /\ Len(<<x>>) = 1 /\ <<x>>[1] = x
    OBVIOUS
<1>2. <<x>> \in Lists
    BY <1>1 DEF Lists, Normalised
<1> DEFINE l == <<x>>
<1> HIDE DEF l
<1>3. Covered(l) = Of(x)
    <2>1. \A p : p \in Covered(l) <=> \E i \in 1 .. 1 : p \in Of(l[i])
        BY <1>1, CoveredIs DEF l
    <2>2. l[1] = x
        BY <1>1 DEF l
    <2>3. \A p : p \in Covered(l) <=> p \in Of(x)
        BY <2>1, <2>2
    <2>4. QED BY <2>3
<1>4. QED BY <1>1, <1>2, <1>3 DEF l

\* Two lists, one after the other.
LEMMA Joined ==
    ASSUME NEW s \in Lists, NEW t \in Lists,
           s = <<>> \/ t = <<>> \/ s[Len(s)].hb + 1 < t[1].lb
    PROVE  /\ s \o t \in Lists /\ Covered(s \o t) = Covered(s) \cup Covered(t)
           /\ Len(s \o t) = Len(s) + Len(t)
           /\ \A i \in 1 .. Len(s) : (s \o t)[i] = s[i]
           /\ \A i \in 1 .. Len(t) : (s \o t)[Len(s) + i] = t[i]
<1> DEFINE r == s \o t
           m == Len(s)
           n == Len(t)
<1>1. s \in Seq(Interval) /\ t \in Seq(Interval) /\ m \in Nat /\ n \in Nat
    BY DEF Lists
<1>2. /\ r \in Seq(Interval) /\ Len(r) = m + n
      /\ \A i \in 1 .. m + n : r[i] = IF i <= m THEN s[i] ELSE t[i - m]
    BY <1>1, ConcatProperties
<1> HIDE DEF r
<1>3. \A i \in 1 .. m : r[i] = s[i]
    BY <1>1, <1>2
<1>4. \A i \in 1 .. n : r[m + i] = t[i]
    <2>1. ASSUME NEW i \in 1 .. n PROVE r[m + i] = t[i]
        <3>1. m + i \in 1 .. m + n /\ ~ (m + i <= m) /\ (m + i) - m = i
            BY <1>1
        <3>2. QED BY <1>2, <3>1
    <2>2. QED BY <2>1
<1>5. ASSUME NEW i \in 1 .. Len(r), NEW j \in 1 .. Len(r), i < j PROVE r[i].hb + 1 < r[j].lb
    <2>1. i \in 1 .. m + n /\ j \in 1 .. m + n /\ i \in Int /\ j \in Int
        BY <1>2
    <2>2. CASE j <= m
        <3>1. i \in 1 .. m /\ j \in 1 .. m
            BY <1>1, <1>5, <2>1, <2>2
        <3>2. s[i].hb + 1 < s[j].lb
            BY <1>5, <3>1, Spread
        <3>3. QED BY <1>3, <3>1, <3>2
    <2>3. CASE i > m
        <3>1. i - m \in 1 .. n /\ j - m \in 1 .. n /\ i - m < j - m /\ m + (i - m) = i /\ m + (j - m) = j
            BY <1>1, <1>5, <2>1, <2>3
        <3>2. t[i - m].hb + 1 < t[j - m].lb
            BY <3>1, Spread
        <3>3. r[i] = t[i - m] /\ r[j] = t[j - m]
            BY <1>4, <3>1
        <3>4. QED BY <3>2, <3>3
    <2>4. CASE i <= m /\ ~ (j <= m)
        <3> DEFINE b == j - m
        <3>1. i \in 1 .. m /\ b \in 1 .. n /\ r[i] = s[i] /\ r[j] = t[b] /\ m \in 1 .. m /\ 1 \in 1 .. n
            <4>1. i \in 1 .. m /\ b \in 1 .. n /\ m + b = j /\ m \in 1 .. m /\ 1 \in 1 .. n
                BY <1>1, <2>1, <2>4
            <4> HIDE DEF b
            <4>2. QED BY <1>3, <1>4, <4>1
        <3>2. s # <<>> /\ t # <<>>
            BY <3>1
        <3>3. s[m].hb + 1 < t[1].lb
            BY <3>2
        <3> HIDE DEF b
        <3>4. s[i].hb <= s[m].hb /\ s[i].hb \in Int /\ s[m].hb \in Int
            <4>1. i = m \/ i < m
                BY <1>1, <3>1
            <4>2. i < m => s[i].hb + 1 < s[m].lb
                BY <3>1, Spread
            <4>3. s[m].lb <= s[m].hb /\ s[m].lb \in Int /\ s[m].hb \in Int /\ s[i].hb \in Int
                BY <1>1, <3>1, ItemIs
            <4>4. QED BY <4>1, <4>2, <4>3
        <3>5. t[1].lb <= t[b].lb /\ t[1].lb \in Int /\ t[b].lb \in Int
            <4>1. 1 = b \/ 1 < b
                BY <1>1, <3>1
            <4>2. 1 < b => t[1].hb + 1 < t[b].lb
                BY <3>1, Spread
            <4>3. t[1].lb <= t[1].hb /\ t[1].lb \in Int /\ t[1].hb \in Int /\ t[b].lb \in Int
                BY <1>1, <3>1, ItemIs
            <4>4. QED BY <4>1, <4>2, <4>3
        <3>6. \A u, v, w, z \in Int : u <= v /\ v + 1 < w /\ w <= z => u + 1 < z
            OBVIOUS
        <3>7. s[i].hb + 1 < t[b].lb
            BY <3>3, <3>4, <3>5, <3>6
        <3>8. QED BY <3>1, <3>7
    <2>5. i <= m \/ i > m
        BY <1>1, <2>1
    <2>6. QED BY <2>2, <2>3, <2>4, <2>5
<1>6. r \in Lists
    BY <1>2, <1>5, ApartIsNormalised
<1>7. Covered(r) = Covered(s) \cup Covered(t)
    <2>1. \A p : p \in Covered(r) <=> \E i \in 1 .. m + n : p \in Of(r[i])
        BY <1>2, CoveredIs
    <2>2. \A p : p \in Covered(s) <=> \E i \in 1 .. m : p \in Of(s[i])
        BY <1>1, CoveredIs
    <2>3. \A p : p \in Covered(t) <=> \E i \in 1 .. n : p \in Of(t[i])
        BY <1>1, CoveredIs
    <2>4. ASSUME NEW p \in Covered(r) PROVE p \in Covered(s) \cup Covered(t)
        <3>1. PICK i \in 1 .. m + n : p \in Of(r[i])
            BY <2>1
        <3>2. CASE i <= m
            <4>1. i \in 1 .. m
                BY <1>1, <3>2
            <4>2. QED BY <1>3, <2>2, <3>1, <4>1
        <3>3. CASE ~ (i <= m)
            <4>1. i - m \in 1 .. n /\ m + (i - m) = i
                BY <1>1, <3>3
            <4>2. QED BY <1>4, <2>3, <3>1, <4>1
        <3>4. QED BY <3>2, <3>3
    <2>5. ASSUME NEW p \in Covered(s) PROVE p \in Covered(r)
        <3>1. PICK i \in 1 .. m : p \in Of(s[i])
            BY <2>2
        <3>2. i \in 1 .. m + n
            BY <1>1
        <3>3. QED BY <1>3, <2>1, <3>1, <3>2
    <2>6. ASSUME NEW p \in Covered(t) PROVE p \in Covered(r)
        <3>1. PICK i \in 1 .. n : p \in Of(t[i])
            BY <2>3
        <3>2. m + i \in 1 .. m + n
            BY <1>1
        <3>3. QED BY <1>4, <2>1, <3>1, <3>2
    <2>7. QED BY <2>4, <2>5, <2>6
<1>8. QED BY <1>2, <1>3, <1>4, <1>6, <1>7 DEF r

\* Successive items of a list.
Upto(l, a, b) == UNION {Of(l[i]) : i \in a .. b}

LEMMA Piece ==
    ASSUME NEW l \in Lists, NEW a \in Nat \ {0}, NEW b \in Nat, b <= Len(l)
    PROVE  /\ SubSeq(l, a, b) \in Lists /\ Covered(SubSeq(l, a, b)) = Upto(l, a, b)
           /\ Len(SubSeq(l, a, b)) = (IF a <= b THEN b - a + 1 ELSE 0)
           /\ \A i \in 1 .. b - a + 1 : SubSeq(l, a, b)[i] = l[a + i - 1]
<1> DEFINE r == SubSeq(l, a, b)
<1>1. l \in Seq(Interval) /\ a \in Int /\ b \in Int /\ \A i \in a .. b : i \in 1 .. Len(l)
    BY DEF Lists
<1>2. \A i \in a .. b : l[i] \in Interval
    BY <1>1
<1>3. /\ r \in Seq(Interval) /\ Len(r) = (IF a <= b THEN b - a + 1 ELSE 0)
      /\ \A i \in 1 .. b - a + 1 : r[i] = l[a + i - 1]
    BY <1>1, <1>2, SubSeqProperties
<1> HIDE DEF r
<1>4. \A i \in 1 .. Len(r) : i \in 1 .. b - a + 1 /\ a + i - 1 \in a .. b /\ i \in Int
    BY <1>1, <1>3
<1>5. ASSUME NEW i \in 1 .. Len(r), NEW j \in 1 .. Len(r), i < j PROVE r[i].hb + 1 < r[j].lb
    <2> DEFINE c == a + i - 1
               d == a + j - 1
    <2>1. c \in 1 .. Len(l) /\ d \in 1 .. Len(l) /\ c < d
        BY <1>1, <1>4, <1>5
    <2>2. r[i] = l[c] /\ r[j] = l[d]
        BY <1>3, <1>4
    <2> HIDE DEF c, d
    <2>3. QED BY <2>1, <2>2, Spread
<1>6. r \in Lists
    BY <1>3, <1>5, ApartIsNormalised
<1>7. Covered(r) = Upto(l, a, b)
    <2>1. \A p : p \in Covered(r) <=> \E i \in 1 .. Len(r) : p \in Of(r[i])
        BY <1>3, CoveredIs
    <2>2. \A i \in 1 .. Len(r) : a + i - 1 \in a .. b /\ r[i] = l[a + i - 1]
        BY <1>3, <1>4
    <2>3. \A j \in a .. b : \E i \in 1 .. Len(r) : r[i] = l[j]
        <3>1. ASSUME NEW j \in a .. b PROVE \E i \in 1 .. Len(r) : r[i] = l[j]
            <4>1. j - a + 1 \in 1 .. Len(r) /\ a + (j - a + 1) - 1 = j
                BY <1>1, <1>3
            <4>2. QED BY <2>2, <4>1
        <3>2. QED BY <3>1
    <2>4. QED BY <2>1, <2>2, <2>3 DEF Upto
<1>8. QED BY <1>3, <1>6, <1>7 DEF r

LEMMA UptoIs ==
    ASSUME NEW l
    PROVE  /\ Upto(l, 1, 0) = {}
           /\ \A n \in Nat \ {0} : Upto(l, 1, n) = Upto(l, 1, n - 1) \cup Of(l[n])
           /\ l \in Seq(Interval) => Covered(l) = Upto(l, 1, Len(l))
<1>1. Upto(l, 1, 0) = {}
    BY DEF Upto
<1>2. ASSUME NEW n \in Nat \ {0} PROVE Upto(l, 1, n) = Upto(l, 1, n - 1) \cup Of(l[n])
    <2>1. 1 .. n = (1 .. n - 1) \cup {n}
        OBVIOUS
    <2>2. QED BY <2>1 DEF Upto
<1>3. l \in Seq(Interval) => Covered(l) = Upto(l, 1, Len(l))
    BY DEF Covered, Upto, Of
<1>4. QED BY <1>1, <1>2, <1>3
-----------------------------------------------------------------------------
(* add: inserting, and merging from the left.                              *)

LEMMA MergeIs ==
    ASSUME NEW v \in Lists, v # <<>>, NEW x \in Interval, v[Len(v)].lb <= x.lb,
           NEW r, r = Merge(v, x)
    PROVE  /\ r \in Lists /\ r # <<>> /\ Covered(r) = Covered(v) \cup Of(x)
           /\ r[Len(r)].lb <= x.lb
<1> DEFINE n == Len(v)
           last == v[n]
<1>1. v \in Seq(Interval) /\ n \in Nat /\ n >= 1 /\ n \in 1 .. n /\ 1 \in 1 .. n
    BY DEF Lists
<1>2. /\ last \in Interval /\ last.lb \in Int /\ last.hb \in Int /\ last.lb <= last.hb
      /\ x.lb \in Int /\ x.hb \in Int /\ x.lb <= x.hb /\ last.lb <= x.lb
    BY <1>1, IntervalIs, ItemIs
<1>3. Covered(v) = Upto(v, 1, n - 1) \cup Of(last)
    BY <1>1, UptoIs
<1>4. Last(v) = last
    BY DEF Last
<1>5. CASE last.hb + 1 < x.lb
    <2>1. r = v \o <<x>>
        <3>1. r = Append(v, x)
            BY <1>4, <1>5 DEF Merge
        <3>2. QED BY <1>1, <3>1, AppendIsConcat
    <2>2. <<x>> \in Lists /\ Covered(<<x>>) = Of(x) /\ Len(<<x>>) = 1 /\ <<x>>[1] = x
        BY OneItem
    <2> DEFINE t == <<x>>
    <2> HIDE DEF t
    <2>3. t \in Lists /\ Covered(t) = Of(x) /\ Len(t) = 1 /\ t[1] = x /\ r = v \o t
        BY <2>1, <2>2 DEF t
    <2>4. v[Len(v)].hb + 1 < t[1].lb
        BY <1>5, <2>3
    <2>5. /\ v \o t \in Lists /\ Covered(v \o t) = Covered(v) \cup Covered(t)
          /\ Len(v \o t) = Len(v) + Len(t)
          /\ \A i \in 1 .. Len(t) : (v \o t)[Len(v) + i] = t[i]
        BY <2>3, <2>4, Joined
    <2>6. r \in Lists /\ Covered(r) = Covered(v) \cup Of(x) /\ Len(r) = n + 1 /\ r[n + 1] = x
        BY <2>3, <2>5
    <2>7. r # <<>>
        BY <1>1, <2>6
    <2>8. QED BY <1>2, <2>6, <2>7
<1>6. CASE ~ (last.hb + 1 < x.lb) /\ last.hb < x.hb
    <2> DEFINE e == [last EXCEPT !.hb = x.hb]
               s == SubSeq(v, 1, n - 1)
               t == <<e>>
    <2>1. r = s \o t
        BY <1>4, <1>6 DEF Merge, Front
    <2>2. e \in Interval /\ e.lb = last.lb /\ e.hb = x.hb
        BY <1>2 DEF Interval
    <2>3. Of(last) \cup Of(x) = Of(e)
        BY <1>2, <1>6, <2>2 DEF Of
    <2> HIDE DEF e
    <2>4. t \in Lists /\ Covered(t) = Of(e) /\ Len(t) = 1 /\ t[1] = e
        BY <2>2, OneItem
    <2>5. /\ s \in Lists /\ Covered(s) = Upto(v, 1, n - 1) /\ Len(s) = n - 1
          /\ \A i \in 1 .. n - 1 : s[i] = v[i]
        <3>1. n - 1 \in Nat /\ n - 1 <= Len(v) /\ 1 \in Nat \ {0}
            BY <1>1
        <3>2. /\ s \in Lists /\ Covered(s) = Upto(v, 1, n - 1)
              /\ Len(s) = (IF 1 <= n - 1 THEN (n - 1) - 1 + 1 ELSE 0)
              /\ \A i \in 1 .. (n - 1) - 1 + 1 : s[i] = v[1 + i - 1]
            BY <3>1, Piece
        <3> HIDE DEF s, n
        <3>3. Len(s) = n - 1
            <4>1. (IF 1 <= n - 1 THEN (n - 1) - 1 + 1 ELSE 0) = n - 1
                BY <1>1
            <4>2. QED BY <3>2, <4>1
        <3>4. \A i \in 1 .. n - 1 : i \in 1 .. (n - 1) - 1 + 1 /\ 1 + i - 1 = i
            BY <1>1
        <3>5. QED BY <3>2, <3>3, <3>4
    <2> HIDE DEF s, t
    <2>6. s = <<>> \/ t = <<>> \/ s[Len(s)].hb + 1 < t[1].lb
        <3>1. CASE n = 1
            BY <2>5, <3>1 DEF Lists
        <3>2. CASE n > 1
            <4>1. n - 1 \in 1 .. n /\ n - 1 \in 1 .. n - 1 /\ n - 1 < n
                BY <1>1, <3>2
            <4>2. v[n - 1].hb + 1 < v[n].lb
                BY <1>1, <4>1, Spread
            <4>3. s[Len(s)] = v[n - 1]
                BY <2>5, <4>1
            <4>4. t[1].lb = v[n].lb
                BY <2>2, <2>4
            <4>5. QED BY <4>2, <4>3, <4>4
        <3>3. n = 1 \/ n > 1
            <4> HIDE DEF n
            <4>1. QED BY <1>1
        <3>4. QED BY <3>1, <3>2, <3>3
    <2>7. /\ s \o t \in Lists /\ Covered(s \o t) = Covered(s) \cup Covered(t)
          /\ Len(s \o t) = Len(s) + Len(t)
          /\ \A i \in 1 .. Len(t) : (s \o t)[Len(s) + i] = t[i]
        BY <2>4, <2>5, <2>6, Joined
    <2>8. r \in Lists /\ Covered(r) = Covered(v) \cup Of(x)
        BY <1>3, <2>1, <2>3, <2>4, <2>5, <2>7
    <2>9. Len(r) = n /\ r[n] = e
        <3>1. Len(r) = (n - 1) + 1 /\ r[(n - 1) + 1] = e
            BY <2>1, <2>4, <2>5, <2>7
        <3>2. (n - 1) + 1 = n
            BY <1>1
        <3>3. QED BY <3>1, <3>2
    <2>10. r # <<>>
        BY <1>1, <2>9
    <2>11. QED BY <1>2, <2>2, <2>8, <2>9, <2>10
<1>7. CASE ~ (last.hb + 1 < x.lb) /\ ~ (last.hb < x.hb)
    <2>1. r = v
        BY <1>4, <1>7 DEF Merge
    <2>2. Of(x) \subseteq Of(last)
        BY <1>2, <1>7 DEF Of
    <2>3. QED BY <1>2, <1>3, <2>1, <2>2
<1>8. QED BY <1>5, <1>6, <1>7

\* The position of an insertion is the first that is not before it.
InsertAtIs(l, x, c) ==
    /\ c \in 1 .. Len(l) + 1
    /\ c > Len(l) \/ l[c].lb >= x.lb
    /\ \A j \in 1 .. c - 1 : l[j].lb < x.lb

LEMMA InsertIs ==
    ASSUME NEW l \in Lists, NEW x \in Interval, NEW m, m = Insert(l, x)
    PROVE  /\ m \in Seq(Interval) /\ Len(m) = Len(l) + 1
           /\ \A i \in 1 .. Len(l) : m[i].lb <= m[i + 1].lb
           /\ Upto(m, 1, Len(m)) = Covered(l) \cup Of(x)
<1> DEFINE n == Len(l)
           c == CHOOSE i \in 1 .. Len(l) + 1 : InsertAtIs(l, x, i)
<1>1. l \in Seq(Interval) /\ n \in Nat /\ DOMAIN l = 1 .. n
    BY DEF Lists
<1>2. /\ x.lb \in Int /\ x.hb \in Int
      /\ \A i \in 1 .. n : l[i] \in Interval /\ l[i].lb \in Int /\ l[i].hb \in Int
    BY <1>1, IntervalIs, ItemIs
<1>3. m = InsertAt(l, c, x)
    <2>1. \A i \in 1 .. Len(l) + 1 :
             InsertAtIs(l, x, i) <=> (/\ i > Len(l) \/ l[i].lb >= x.lb
                                      /\ \A j \in 1 .. i - 1 : l[j].lb < x.lb)
        BY DEF InsertAtIs
    <2> DEFINE d == CHOOSE i \in 1 .. Len(l) + 1 : /\ i > Len(l) \/ l[i].lb >= x.lb
                                                   /\ \A j \in 1 .. i - 1 : l[j].lb < x.lb
    <2>2. c = d
        BY <2>1
    <2>3. m = InsertAt(l, d, x)
        BY DEF Insert
    <2>4. QED BY <2>2, <2>3
<1>4. \E i \in 1 .. Len(l) + 1 : InsertAtIs(l, x, i)
    <2> DEFINE T == {i \in 1 .. n + 1 : i > n \/ l[i].lb >= x.lb}
    <2>1. T \in SUBSET Nat /\ n + 1 \in T
        BY <1>1
    <2>2. PICK i \in T : \A k \in T : i <= k
        <3> HIDE DEF T
        <3>1. T # {}
            BY <2>1
        <3>2. QED BY <2>1, <3>1, Least
    <2>3. ASSUME NEW j \in 1 .. i - 1 PROVE l[j].lb < x.lb
        <3>1. j \in 1 .. n + 1 /\ ~ (i <= j) /\ j <= n /\ j \in 1 .. n
            BY <1>1, <2>2
        <3>2. j \notin T
            BY <2>2, <3>1
        <3>3. ~ (l[j].lb >= x.lb)
            BY <3>1, <3>2
        <3>4. QED BY <1>2, <3>1, <3>3
    <2>4. QED BY <2>2, <2>3 DEF InsertAtIs
<1>5. InsertAtIs(l, x, c)
    BY <1>4
<1> HIDE DEF c
<1>6. c \in 1 .. n + 1 /\ c \in Int /\ c \in Nat
    BY <1>1, <1>5 DEF InsertAtIs
<1> DEFINE s == SubSeq(l, 1, c - 1)
           t == SubSeq(l, c, n)
<1>7. s \in Seq(Interval) /\ Len(s) = c - 1 /\ \A i \in 1 .. c - 1 : s[i] = l[i]
    <2>1. c - 1 \in Int /\ \A i \in 1 .. c - 1 : i \in 1 .. n /\ 1 + i - 1 = i /\ i \in 1 .. (c - 1) - 1 + 1
        BY <1>1, <1>6
    <2>2. \A i \in 1 .. c - 1 : l[i] \in Interval
        BY <1>2, <2>1
    <2>3. /\ s \in Seq(Interval) /\ Len(s) = (IF 1 <= c - 1 THEN (c - 1) - 1 + 1 ELSE 0)
          /\ \A i \in 1 .. (c - 1) - 1 + 1 : s[i] = l[1 + i - 1]
        BY <2>1, <2>2, SubSeqProperties
    <2> HIDE DEF s
    <2>4. Len(s) = c - 1
        BY <1>6, <2>3
    <2>5. QED BY <2>1, <2>3, <2>4
<1>8. t \in Seq(Interval) /\ Len(t) = n - c + 1 /\ \A i \in 1 .. n - c + 1 : t[i] = l[c + i - 1]
    <2>1. n \in Int /\ \A i \in c .. n : i \in 1 .. n
        BY <1>1, <1>6
    <2>2. \A i \in c .. n : l[i] \in Interval
        BY <1>2, <2>1
    <2>3. /\ t \in Seq(Interval) /\ Len(t) = (IF c <= n THEN n - c + 1 ELSE 0)
          /\ \A i \in 1 .. n - c + 1 : t[i] = l[c + i - 1]
        BY <1>6, <2>1, <2>2, SubSeqProperties
    <2> HIDE DEF t
    <2>4. Len(t) = n - c + 1
        BY <1>1, <1>6, <2>3
    <2>5. QED BY <2>3, <2>4
<1>9. m = (s \o <<x>>) \o t
    BY <1>3 DEF InsertAt
<1> HIDE DEF s, t
<1> DEFINE u == s \o <<x>>
           one == <<x>>
<1>10. u \in Seq(Interval) /\ Len(u) = c /\ \A i \in 1 .. c : u[i] = IF i < c THEN l[i] ELSE x
    <2>1. one \in Seq(Interval) /\ Len(one) = 1 /\ one[1] = x
        BY OneItem DEF Lists
    <2>2. u = s \o one
        OBVIOUS
    <2> HIDE DEF u, one
    <2>3. /\ u \in Seq(Interval) /\ Len(u) = Len(s) + Len(one)
          /\ \A i \in 1 .. Len(s) + Len(one) : u[i] = IF i <= Len(s) THEN s[i] ELSE one[i - Len(s)]
        BY <1>7, <2>1, <2>2, ConcatProperties
    <2>4. Len(s) + Len(one) = c
        BY <1>6, <1>7, <2>1
    <2>5. ASSUME NEW i \in 1 .. c PROVE u[i] = IF i < c THEN l[i] ELSE x
        <3>1. CASE i < c
            <4>1. i <= Len(s) /\ i \in 1 .. c - 1
                BY <1>6, <1>7, <3>1
            <4>2. QED BY <1>7, <2>3, <2>4, <3>1, <4>1
        <3>2. CASE ~ (i < c)
            <4>1. i = c /\ ~ (i <= Len(s)) /\ i - Len(s) = 1
                BY <1>6, <1>7, <3>2
            <4>2. QED BY <2>1, <2>3, <2>4, <3>2, <4>1
        <3>3. QED BY <3>1, <3>2
    <2>6. QED BY <2>3, <2>4, <2>5
<1>11. m = u \o t
    BY <1>9
<1> HIDE DEF u, one
<1>12. /\ m \in Seq(Interval) /\ Len(m) = n + 1
       /\ \A i \in 1 .. n + 1 : m[i] = IF i < c THEN l[i] ELSE IF i = c THEN x ELSE l[i - 1]
    <2>1. /\ m \in Seq(Interval) /\ Len(m) = Len(u) + Len(t)
          /\ \A i \in 1 .. Len(u) + Len(t) : m[i] = IF i <= Len(u) THEN u[i] ELSE t[i - Len(u)]
        BY SMTT(30), <1>8, <1>10, <1>11, ConcatProperties
    <2>2. Len(u) + Len(t) = n + 1
        BY <1>1, <1>6, <1>8, <1>10
    <2>3. ASSUME NEW i \in 1 .. n + 1
          PROVE  m[i] = IF i < c THEN l[i] ELSE IF i = c THEN x ELSE l[i - 1]
        <3>1. CASE i <= c
            <4>1. i \in 1 .. c /\ i <= Len(u) /\ (i < c \/ i = c)
                BY <1>1, <1>6, <1>10, <3>1
            <4>2. m[i] = u[i]
                BY <2>1, <2>2, <4>1
            <4>3. u[i] = IF i < c THEN l[i] ELSE x
                BY <1>10, <4>1
            <4>4. QED BY <4>1, <4>2, <4>3
        <3>2. CASE ~ (i <= c)
            <4>1. i - c \in 1 .. n - c + 1 /\ ~ (i <= Len(u)) /\ i - Len(u) = i - c
                  /\ c + (i - c) - 1 = i - 1 /\ ~ (i < c) /\ i # c
                BY <1>1, <1>6, <1>10, <3>2
            <4>2. m[i] = t[i - c]
                BY <2>1, <2>2, <4>1
            <4>3. t[i - c] = l[i - 1]
                BY <1>8, <4>1
            <4>4. QED BY <4>1, <4>2, <4>3
        <3>3. QED BY <3>1, <3>2
    <2>4. QED BY <2>1, <2>2, <2>3
<1>13. ASSUME NEW i \in 1 .. n PROVE m[i].lb <= m[i + 1].lb
    <2>1. /\ i \in 1 .. n + 1 /\ i + 1 \in 1 .. n + 1 /\ i \in Int /\ (i + 1) - 1 = i
          /\ i + 1 < c \/ i + 1 = c \/ i = c \/ i > c
        BY <1>1, <1>6
    <2>2. CASE i + 1 < c
        <3>1. i < c /\ i + 1 \in 1 .. n /\ i < i + 1
            BY <1>1, <1>6, <2>1, <2>2
        <3>2. l[i].hb + 1 < l[i + 1].lb /\ l[i].lb <= l[i].hb
            BY <1>1, <3>1, Spread, ItemIs
        <3>3. m[i] = l[i] /\ m[i + 1] = l[i + 1]
            BY <1>12, <2>1, <2>2, <3>1
        <3>4. l[i].hb \in Int /\ l[i].lb \in Int /\ l[i + 1].lb \in Int
            BY <1>2, <3>1
        <3>5. \A a, b, d \in Int : a <= b /\ b + 1 < d => a <= d
            OBVIOUS
        <3>6. QED BY <3>2, <3>3, <3>4, <3>5
    <2>3. CASE i + 1 = c
        <3>1. i < c /\ i \in 1 .. c - 1
            BY <1>6, <2>1, <2>3
        <3>2. m[i] = l[i] /\ m[i + 1] = x
            BY <1>6, <1>12, <2>1, <2>3, <3>1
        <3>3. l[i].lb < x.lb
            BY <1>5, <3>1 DEF InsertAtIs
        <3>4. QED BY <1>2, <3>2, <3>3
    <2>4. CASE i = c
        <3>1. ~ (i + 1 < c) /\ ~ (i + 1 = c) /\ ~ (i < c) /\ ~ (c > n)
            BY <1>1, <1>6, <2>1, <2>4
        <3>2. m[i] = x /\ m[i + 1] = l[i]
            BY <1>12, <2>1, <2>4, <3>1
        <3>3. l[i].lb >= x.lb
            BY <1>5, <2>4, <3>1 DEF InsertAtIs
        <3>4. QED BY <1>2, <3>2, <3>3
    <2>5. CASE i > c
        <3>1. ~ (i + 1 < c) /\ ~ (i + 1 = c) /\ ~ (i < c) /\ ~ (i = c) /\ i - 1 \in 1 .. n /\ i - 1 < i
            BY <1>1, <1>6, <2>1, <2>5
        <3>2. m[i] = l[i - 1] /\ m[i + 1] = l[i]
            BY <1>12, <2>1, <3>1
        <3>3. l[i - 1].hb + 1 < l[i].lb /\ l[i - 1].lb <= l[i - 1].hb
            BY <1>1, <3>1, Spread, ItemIs
        <3>4. l[i - 1].hb \in Int /\ l[i - 1].lb \in Int /\ l[i].lb \in Int
            BY <1>2, <3>1
        <3>5. \A a, b, d \in Int : a <= b /\ b + 1 < d => a <= d
            OBVIOUS
        <3>6. QED BY <3>2, <3>3, <3>4, <3>5
    <2>6. QED BY <2>1, <2>2, <2>3, <2>4, <2>5
<1>14. Upto(m, 1, n + 1) = Covered(l) \cup Of(x)
    <2>1. \A p : p \in Covered(l) <=> \E i \in 1 .. n : p \in Of(l[i])
        BY <1>1, CoveredIs
    <2>2. \A p : p \in Upto(m, 1, n + 1) <=> \E i \in 1 .. n + 1 : p \in Of(m[i])
        BY DEF Upto
    <2>3. ASSUME NEW i \in 1 .. n + 1 PROVE m[i] = x \/ \E j \in 1 .. n : m[i] = l[j]
        <3>1. CASE i < c
            <4>1. i \in 1 .. n
                BY <1>1, <1>6, <3>1
            <4>2. QED BY <1>12, <3>1, <4>1
        <3>2. CASE i = c
            BY <1>6, <1>12, <3>2
        <3>3. CASE i > c
            <4>1. i - 1 \in 1 .. n /\ ~ (i < c) /\ ~ (i = c)
                BY <1>1, <1>6, <3>3
            <4>2. QED BY <1>12, <4>1
        <3>4. QED BY <1>6, <3>1, <3>2, <3>3
    <2>4. \E i \in 1 .. n + 1 : m[i] = x
        BY <1>6, <1>12
    <2>5. ASSUME NEW j \in 1 .. n PROVE \E i \in 1 .. n + 1 : m[i] = l[j]
        <3>1. CASE j < c
            <4>1. j \in 1 .. n + 1
                BY <1>1
            <4>2. QED BY <1>12, <3>1, <4>1
        <3>2. CASE ~ (j < c)
            <4>1. j + 1 \in 1 .. n + 1 /\ ~ (j + 1 < c) /\ ~ (j + 1 = c) /\ (j + 1) - 1 = j
                BY <1>1, <1>6, <3>2
            <4>2. m[j + 1] = l[j]
                BY <1>12, <4>1
            <4>3. QED BY <4>1, <4>2
        <3>3. QED BY <3>1, <3>2
    <2>6. QED BY <2>1, <2>2, <2>3, <2>4, <2>5
<1>15. QED BY <1>12, <1>13, <1>14
-----------------------------------------------------------------------------
(* Folds over lists.                                                       *)

ByMax(it, n, base, G) ==
    \A s \in SUBSET (1 .. n) :
       it[s] = IF s = {} THEN base ELSE G[<<Max(s), it[s \ {Max(s)}]>>]

LEMMA FoldByMax ==
    ASSUME NEW n \in Nat, NEW V, NEW base \in V, NEW G \in [(1 .. n) \X V -> V]
    PROVE  \E it \in [SUBSET (1 .. n) -> V] : ByMax(it, n, base, G)
<1> DEFINE S == 1 .. n
           pick(s) == Max(s)
           pk == [s \in SUBSET S |-> pick(s)]
<1>1. IsFiniteSet(S)
    BY FS_Interval
<1>2. \A s \in (SUBSET S) \ {{}} : pick(s) \in s
    BY MaxIs
<1> HIDE DEF pick
<1>3. Picks(pk, S)
    <2>1. \A s \in (SUBSET S) \ {{}} : pk[s] = pick(s)
        OBVIOUS
    <2>2. QED BY <1>2, <2>1 DEF Picks
<1>4. PICK it \in [SUBSET S -> V] : Folds(it, S, base, G, pk)
    <2> HIDE DEF pk, S
    <2>1. G \in [S \X V -> V]
        BY DEF S
    <2>2. QED BY <1>1, <1>3, <2>1, FoldExists
<1>5. \A s \in SUBSET S : it[s] = IF s = {} THEN base ELSE G[<<pick(s), it[s \ {pick(s)}]>>]
    <2>1. \A s \in SUBSET S : it[s] = IF s = {} THEN base ELSE G[<<pk[s], it[s \ {pk[s]}]>>]
        <3> HIDE DEF S, pk
        <3>1. QED BY <1>4 DEF Folds
    <2>2. \A s \in SUBSET S : pk[s] = pick(s)
        OBVIOUS
    <2> HIDE DEF S, pk
    <2>3. QED BY <2>1, <2>2
<1>6. QED BY <1>5 DEF pick, ByMax

\* The lists that a merge goes on with: not empty.
Started == Seq(Interval) \ {<<>>}

Merging(m, n) == [q \in (1 .. n) \X Started |-> Merge(q[2], m[q[1]])]

LEMMA MergeIsChain ==
    ASSUME NEW m \in Seq(Interval), NEW n, n = Len(m), NEW base \in Started,
           Merging(m, n) \in [(1 .. n) \X Started -> Started]
    PROVE  \E f : /\ Chain(f, n, Started, base, Merging(m, n))
                 /\ FoldLeft(Merge, base, m) = f[n]
<1> DEFINE S == DOMAIN m
           V == Started
           G == Merging(m, n)
           Op(v, x) == Merge(v, x)
           Raw(it) == it = [s \in SUBSET S |-> IF s = {} THEN base
                                     ELSE Op(it[s \ {Max(s)}], m[Max(s)])]
           chosen == CHOOSE it : Raw(it)
<1>1. n \in Nat /\ S = 1 .. n
    OBVIOUS
<1>2. FoldLeft(Merge, base, m) = chosen[S]
    BY DEF FoldLeft, MapThenFoldSet
<1>3. G \in [(1 .. n) \X V -> V] /\ \A i \in 1 .. n, v \in V : G[<<i, v>>] = Op(v, m[i])
    BY DEF Merging
<1>4. \A s \in (SUBSET S) \ {{}} : Max(s) \in S /\ s \ {Max(s)} \in SUBSET S
    BY <1>1, MaxIs
<1> HIDE DEF Op, V, G, S
<1>5. PICK it \in [SUBSET (1 .. n) -> V] : ByMax(it, n, base, G)
    <2>1. base \in V
        BY DEF V
    <2>2. n \in Nat /\ G \in [(1 .. n) \X V -> V]
        BY <1>1, <1>3
    <2>3. QED BY <2>1, <2>2, FoldByMax
<1>6. Raw(it)
    <2>1. \A s \in SUBSET S : it[s] = IF s = {} THEN base
                                      ELSE Op(it[s \ {Max(s)}], m[Max(s)])
        BY <1>1, <1>3, <1>4, <1>5 DEF ByMax
    <2>2. QED BY <1>1, <1>5, <2>1
<1>7. Raw(chosen)
    <2> HIDE DEF Raw
    <2>1. QED BY <1>6
<1> HIDE DEF chosen
<1>8. chosen[{}] = base
    BY <1>7
<1>9. TakesMax(chosen, n, V, G)
    <2>1. \A s \in (SUBSET S) \ {{}} : chosen[s] = Op(chosen[s \ {Max(s)}], m[Max(s)])
        BY <1>7
    <2>2. ASSUME NEW s \in (SUBSET (1 .. n)) \ {{}}, chosen[s \ {Max(s)}] \in V
          PROVE  chosen[s] = G[<<Max(s), chosen[s \ {Max(s)}]>>]
        <3>1. s \in (SUBSET S) \ {{}} /\ Max(s) \in 1 .. n
            BY <1>1, <1>4
        <3>2. G[<<Max(s), chosen[s \ {Max(s)}]>>] = Op(chosen[s \ {Max(s)}], m[Max(s)])
            BY <1>3, <2>2, <3>1
        <3>3. QED BY <2>1, <3>1, <3>2
    <2>3. QED BY <2>2 DEF TakesMax
<1> DEFINE f == [i \in 0 .. n |-> chosen[1 .. i]]
<1>10. Chain(f, n, V, base, G)
    <2>1. base \in V
        BY DEF V
    <2>2. n \in Nat /\ G \in [(1 .. n) \X V -> V]
        BY <1>1, <1>3
    <2>3. QED BY <1>8, <1>9, <2>1, <2>2, ChainOfFold
<1>11. f[n] = chosen[S]
    BY <1>1
<1> HIDE DEF f
<1>12. QED BY <1>2, <1>10, <1>11 DEF V, G

Adding(m, n) == [q \in (1 .. n) \X Lists |-> AddInterval(q[2], m[q[1]])]

LEMMA UnionIsChain ==
    ASSUME NEW m \in Seq(Interval), NEW n, n = Len(m), NEW base \in Lists,
           Adding(m, n) \in [(1 .. n) \X Lists -> Lists]
    PROVE  \E f : /\ Chain(f, n, Lists, base, Adding(m, n))
                 /\ MyUnion(base, m) = f[n]
<1> DEFINE S == DOMAIN m
           V == Lists
           G == Adding(m, n)
           Op(v, x) == AddInterval(v, x)
           Raw(it) == it = [s \in SUBSET S |-> IF s = {} THEN base
                                     ELSE Op(it[s \ {Max(s)}], m[Max(s)])]
           chosen == CHOOSE it : Raw(it)
<1>1. n \in Nat /\ S = 1 .. n
    OBVIOUS
<1>2. MyUnion(base, m) = chosen[S]
    BY DEF FoldLeft, MapThenFoldSet, MyUnion
<1>3. G \in [(1 .. n) \X V -> V] /\ \A i \in 1 .. n, v \in V : G[<<i, v>>] = Op(v, m[i])
    BY DEF Adding
<1>4. \A s \in (SUBSET S) \ {{}} : Max(s) \in S /\ s \ {Max(s)} \in SUBSET S
    BY <1>1, MaxIs
<1> HIDE DEF Op, V, G, S
<1>5. PICK it \in [SUBSET (1 .. n) -> V] : ByMax(it, n, base, G)
    <2>1. base \in V
        BY DEF V
    <2>2. n \in Nat /\ G \in [(1 .. n) \X V -> V]
        BY <1>1, <1>3
    <2>3. QED BY <2>1, <2>2, FoldByMax
<1>6. Raw(it)
    <2>1. \A s \in SUBSET S : it[s] = IF s = {} THEN base
                                      ELSE Op(it[s \ {Max(s)}], m[Max(s)])
        BY <1>1, <1>3, <1>4, <1>5 DEF ByMax
    <2>2. QED BY <1>1, <1>5, <2>1
<1>7. Raw(chosen)
    <2> HIDE DEF Raw
    <2>1. QED BY <1>6
<1> HIDE DEF chosen
<1>8. chosen[{}] = base
    BY <1>7
<1>9. TakesMax(chosen, n, V, G)
    <2>1. \A s \in (SUBSET S) \ {{}} : chosen[s] = Op(chosen[s \ {Max(s)}], m[Max(s)])
        BY <1>7
    <2>2. ASSUME NEW s \in (SUBSET (1 .. n)) \ {{}}, chosen[s \ {Max(s)}] \in V
          PROVE  chosen[s] = G[<<Max(s), chosen[s \ {Max(s)}]>>]
        <3>1. s \in (SUBSET S) \ {{}} /\ Max(s) \in 1 .. n
            BY <1>1, <1>4
        <3>2. G[<<Max(s), chosen[s \ {Max(s)}]>>] = Op(chosen[s \ {Max(s)}], m[Max(s)])
            BY <1>3, <2>2, <3>1
        <3>3. QED BY <2>1, <3>1, <3>2
    <2>3. QED BY <2>2 DEF TakesMax
<1> DEFINE f == [i \in 0 .. n |-> chosen[1 .. i]]
<1>10. Chain(f, n, V, base, G)
    <2>1. base \in V
        BY DEF V
    <2>2. n \in Nat /\ G \in [(1 .. n) \X V -> V]
        BY <1>1, <1>3
    <2>3. QED BY <1>8, <1>9, <2>1, <2>2, ChainOfFold
<1>11. f[n] = chosen[S]
    BY <1>1
<1> HIDE DEF f
<1>12. QED BY <1>2, <1>10, <1>11 DEF V, G

Removing(m, n) == [q \in (1 .. n) \X Lists |-> RemoveInterval(q[2], m[q[1]])]

LEMMA DifferenceIsChain ==
    ASSUME NEW m \in Seq(Interval), NEW n, n = Len(m), NEW base \in Lists,
           Removing(m, n) \in [(1 .. n) \X Lists -> Lists]
    PROVE  \E f : /\ Chain(f, n, Lists, base, Removing(m, n))
                 /\ Difference(base, m) = f[n]
<1> DEFINE S == DOMAIN m
           V == Lists
           G == Removing(m, n)
           Op(v, x) == RemoveInterval(v, x)
           Raw(it) == it = [s \in SUBSET S |-> IF s = {} THEN base
                                     ELSE Op(it[s \ {Max(s)}], m[Max(s)])]
           chosen == CHOOSE it : Raw(it)
<1>1. n \in Nat /\ S = 1 .. n
    OBVIOUS
<1>2. Difference(base, m) = chosen[S]
    BY DEF FoldLeft, MapThenFoldSet, Difference
<1>3. G \in [(1 .. n) \X V -> V] /\ \A i \in 1 .. n, v \in V : G[<<i, v>>] = Op(v, m[i])
    BY DEF Removing
<1>4. \A s \in (SUBSET S) \ {{}} : Max(s) \in S /\ s \ {Max(s)} \in SUBSET S
    BY <1>1, MaxIs
<1> HIDE DEF Op, V, G, S
<1>5. PICK it \in [SUBSET (1 .. n) -> V] : ByMax(it, n, base, G)
    <2>1. base \in V
        BY DEF V
    <2>2. n \in Nat /\ G \in [(1 .. n) \X V -> V]
        BY <1>1, <1>3
    <2>3. QED BY <2>1, <2>2, FoldByMax
<1>6. Raw(it)
    <2>1. \A s \in SUBSET S : it[s] = IF s = {} THEN base
                                      ELSE Op(it[s \ {Max(s)}], m[Max(s)])
        BY <1>1, <1>3, <1>4, <1>5 DEF ByMax
    <2>2. QED BY <1>1, <1>5, <2>1
<1>7. Raw(chosen)
    <2> HIDE DEF Raw
    <2>1. QED BY <1>6
<1> HIDE DEF chosen
<1>8. chosen[{}] = base
    BY <1>7
<1>9. TakesMax(chosen, n, V, G)
    <2>1. \A s \in (SUBSET S) \ {{}} : chosen[s] = Op(chosen[s \ {Max(s)}], m[Max(s)])
        BY <1>7
    <2>2. ASSUME NEW s \in (SUBSET (1 .. n)) \ {{}}, chosen[s \ {Max(s)}] \in V
          PROVE  chosen[s] = G[<<Max(s), chosen[s \ {Max(s)}]>>]
        <3>1. s \in (SUBSET S) \ {{}} /\ Max(s) \in 1 .. n
            BY <1>1, <1>4
        <3>2. G[<<Max(s), chosen[s \ {Max(s)}]>>] = Op(chosen[s \ {Max(s)}], m[Max(s)])
            BY <1>3, <2>2, <3>1
        <3>3. QED BY <2>1, <3>1, <3>2
    <2>3. QED BY <2>2 DEF TakesMax
<1> DEFINE f == [i \in 0 .. n |-> chosen[1 .. i]]
<1>10. Chain(f, n, V, base, G)
    <2>1. base \in V
        BY DEF V
    <2>2. n \in Nat /\ G \in [(1 .. n) \X V -> V]
        BY <1>1, <1>3
    <2>3. QED BY <1>8, <1>9, <2>1, <2>2, ChainOfFold
<1>11. f[n] = chosen[S]
    BY <1>1
<1> HIDE DEF f
<1>12. QED BY <1>2, <1>10, <1>11 DEF V, G

\* The common parts of one interval and a list, and of two lists.
Cutting(y, m, n) == [q \in (1 .. n) \X Lists |-> MyUnion(q[2], Common(y, m[q[1]]))]

Cut(s, y, m) == FoldLeft(LAMBDA t, x : FoldLeft(AddInterval, t, Common(y, x)), s, m)

LEMMA CutIsChain ==
    ASSUME NEW y, NEW m \in Seq(Interval), NEW n, n = Len(m), NEW base \in Lists,
           Cutting(y, m, n) \in [(1 .. n) \X Lists -> Lists]
    PROVE  \E f : /\ Chain(f, n, Lists, base, Cutting(y, m, n))
                 /\ Cut(base, y, m) = f[n]
<1> DEFINE S == DOMAIN m
           V == Lists
           G == Cutting(y, m, n)
           Op(v, x) == MyUnion(v, Common(y, x))
           Raw(it) == it = [s \in SUBSET S |-> IF s = {} THEN base
                                     ELSE Op(it[s \ {Max(s)}], m[Max(s)])]
           chosen == CHOOSE it : Raw(it)
<1>1. n \in Nat /\ S = 1 .. n
    OBVIOUS
<1>2. Cut(base, y, m) = chosen[S]
    BY DEF FoldLeft, MapThenFoldSet, Cut, MyUnion
<1>3. G \in [(1 .. n) \X V -> V] /\ \A i \in 1 .. n, v \in V : G[<<i, v>>] = Op(v, m[i])
    BY DEF Cutting
<1>4. \A s \in (SUBSET S) \ {{}} : Max(s) \in S /\ s \ {Max(s)} \in SUBSET S
    BY <1>1, MaxIs
<1> HIDE DEF Op, V, G, S
<1>5. PICK it \in [SUBSET (1 .. n) -> V] : ByMax(it, n, base, G)
    <2>1. base \in V
        BY DEF V
    <2>2. n \in Nat /\ G \in [(1 .. n) \X V -> V]
        BY <1>1, <1>3
    <2>3. QED BY <2>1, <2>2, FoldByMax
<1>6. Raw(it)
    <2>1. \A s \in SUBSET S : it[s] = IF s = {} THEN base
                                      ELSE Op(it[s \ {Max(s)}], m[Max(s)])
        BY <1>1, <1>3, <1>4, <1>5 DEF ByMax
    <2>2. QED BY <1>1, <1>5, <2>1
<1>7. Raw(chosen)
    <2> HIDE DEF Raw
    <2>1. QED BY <1>6
<1> HIDE DEF chosen
<1>8. chosen[{}] = base
    BY <1>7
<1>9. TakesMax(chosen, n, V, G)
    <2>1. \A s \in (SUBSET S) \ {{}} : chosen[s] = Op(chosen[s \ {Max(s)}], m[Max(s)])
        BY <1>7
    <2>2. ASSUME NEW s \in (SUBSET (1 .. n)) \ {{}}, chosen[s \ {Max(s)}] \in V
          PROVE  chosen[s] = G[<<Max(s), chosen[s \ {Max(s)}]>>]
        <3>1. s \in (SUBSET S) \ {{}} /\ Max(s) \in 1 .. n
            BY <1>1, <1>4
        <3>2. G[<<Max(s), chosen[s \ {Max(s)}]>>] = Op(chosen[s \ {Max(s)}], m[Max(s)])
            BY <1>3, <2>2, <3>1
        <3>3. QED BY <2>1, <3>1, <3>2
    <2>3. QED BY <2>2 DEF TakesMax
<1> DEFINE f == [i \in 0 .. n |-> chosen[1 .. i]]
<1>10. Chain(f, n, V, base, G)
    <2>1. base \in V
        BY DEF V
    <2>2. n \in Nat /\ G \in [(1 .. n) \X V -> V]
        BY <1>1, <1>3
    <2>3. QED BY <1>8, <1>9, <2>1, <2>2, ChainOfFold
<1>11. f[n] = chosen[S]
    BY <1>1
<1> HIDE DEF f
<1>12. QED BY <1>2, <1>10, <1>11 DEF V, G

Crossing(o, m, n) == [q \in (1 .. n) \X Lists |-> Cut(q[2], m[q[1]], o)]

LEMMA IntersectionIsChain ==
    ASSUME NEW o, NEW m \in Seq(Interval), NEW n, n = Len(m), NEW base \in Lists, base = <<>>,
           Crossing(o, m, n) \in [(1 .. n) \X Lists -> Lists]
    PROVE  \E f : /\ Chain(f, n, Lists, base, Crossing(o, m, n))
                 /\ Intersection(m, o) = f[n]
<1> DEFINE S == DOMAIN m
           V == Lists
           G == Crossing(o, m, n)
           Op(v, x) == Cut(v, x, o)
           Raw(it) == it = [s \in SUBSET S |-> IF s = {} THEN base
                                     ELSE Op(it[s \ {Max(s)}], m[Max(s)])]
           chosen == CHOOSE it : Raw(it)
<1>1. n \in Nat /\ S = 1 .. n
    OBVIOUS
<1>2. Intersection(m, o) = chosen[S]
    BY DEF FoldLeft, MapThenFoldSet, Intersection, Cut
<1>3. G \in [(1 .. n) \X V -> V] /\ \A i \in 1 .. n, v \in V : G[<<i, v>>] = Op(v, m[i])
    BY DEF Crossing
<1>4. \A s \in (SUBSET S) \ {{}} : Max(s) \in S /\ s \ {Max(s)} \in SUBSET S
    BY <1>1, MaxIs
<1> HIDE DEF Op, V, G, S
<1>5. PICK it \in [SUBSET (1 .. n) -> V] : ByMax(it, n, base, G)
    <2>1. base \in V
        BY DEF V
    <2>2. n \in Nat /\ G \in [(1 .. n) \X V -> V]
        BY <1>1, <1>3
    <2>3. QED BY <2>1, <2>2, FoldByMax
<1>6. Raw(it)
    <2>1. \A s \in SUBSET S : it[s] = IF s = {} THEN base
                                      ELSE Op(it[s \ {Max(s)}], m[Max(s)])
        BY <1>1, <1>3, <1>4, <1>5 DEF ByMax
    <2>2. QED BY <1>1, <1>5, <2>1
<1>7. Raw(chosen)
    <2> HIDE DEF Raw
    <2>1. QED BY <1>6
<1> HIDE DEF chosen
<1>8. chosen[{}] = base
    BY <1>7
<1>9. TakesMax(chosen, n, V, G)
    <2>1. \A s \in (SUBSET S) \ {{}} : chosen[s] = Op(chosen[s \ {Max(s)}], m[Max(s)])
        BY <1>7
    <2>2. ASSUME NEW s \in (SUBSET (1 .. n)) \ {{}}, chosen[s \ {Max(s)}] \in V
          PROVE  chosen[s] = G[<<Max(s), chosen[s \ {Max(s)}]>>]
        <3>1. s \in (SUBSET S) \ {{}} /\ Max(s) \in 1 .. n
            BY <1>1, <1>4
        <3>2. G[<<Max(s), chosen[s \ {Max(s)}]>>] = Op(chosen[s \ {Max(s)}], m[Max(s)])
            BY <1>3, <2>2, <3>1
        <3>3. QED BY <2>1, <3>1, <3>2
    <2>3. QED BY <2>2 DEF TakesMax
<1> DEFINE f == [i \in 0 .. n |-> chosen[1 .. i]]
<1>10. Chain(f, n, V, base, G)
    <2>1. base \in V
        BY DEF V
    <2>2. n \in Nat /\ G \in [(1 .. n) \X V -> V]
        BY <1>1, <1>3
    <2>3. QED BY <1>8, <1>9, <2>1, <2>2, ChainOfFold
<1>11. f[n] = chosen[S]
    BY <1>1
<1> HIDE DEF f
<1>12. QED BY <1>2, <1>10, <1>11 DEF V, G

Counting(m, n) == [q \in (1 .. n) \X Int |-> q[2] + m[q[1]].hb - m[q[1]].lb + 1]

LEMMA TotalIsChain ==
    ASSUME NEW m \in Seq(Interval), NEW n, n = Len(m), NEW base \in Int, base = 0,
           Counting(m, n) \in [(1 .. n) \X Int -> Int]
    PROVE  \E f : /\ Chain(f, n, Int, base, Counting(m, n))
                 /\ Total(m) = f[n]
<1> DEFINE S == DOMAIN m
           V == Int
           G == Counting(m, n)
           Op(v, x) == v + x.hb - x.lb + 1
           Raw(it) == it = [s \in SUBSET S |-> IF s = {} THEN base
                                     ELSE Op(it[s \ {Max(s)}], m[Max(s)])]
           chosen == CHOOSE it : Raw(it)
<1>1. n \in Nat /\ S = 1 .. n
    OBVIOUS
<1>2. Total(m) = chosen[S]
    BY DEF FoldLeft, MapThenFoldSet, Total
<1>3. G \in [(1 .. n) \X V -> V] /\ \A i \in 1 .. n, v \in V : G[<<i, v>>] = Op(v, m[i])
    BY DEF Counting
<1>4. \A s \in (SUBSET S) \ {{}} : Max(s) \in S /\ s \ {Max(s)} \in SUBSET S
    BY <1>1, MaxIs
<1> HIDE DEF Op, V, G, S
<1>5. PICK it \in [SUBSET (1 .. n) -> V] : ByMax(it, n, base, G)
    <2>1. base \in V
        BY DEF V
    <2>2. n \in Nat /\ G \in [(1 .. n) \X V -> V]
        BY <1>1, <1>3
    <2>3. QED BY <2>1, <2>2, FoldByMax
<1>6. Raw(it)
    <2>1. \A s \in SUBSET S : it[s] = IF s = {} THEN base
                                      ELSE Op(it[s \ {Max(s)}], m[Max(s)])
        BY <1>1, <1>3, <1>4, <1>5 DEF ByMax
    <2>2. QED BY <1>1, <1>5, <2>1
<1>7. Raw(chosen)
    <2> HIDE DEF Raw
    <2>1. QED BY <1>6
<1> HIDE DEF chosen
<1>8. chosen[{}] = base
    BY <1>7
<1>9. TakesMax(chosen, n, V, G)
    <2>1. \A s \in (SUBSET S) \ {{}} : chosen[s] = Op(chosen[s \ {Max(s)}], m[Max(s)])
        BY <1>7
    <2>2. ASSUME NEW s \in (SUBSET (1 .. n)) \ {{}}, chosen[s \ {Max(s)}] \in V
          PROVE  chosen[s] = G[<<Max(s), chosen[s \ {Max(s)}]>>]
        <3>1. s \in (SUBSET S) \ {{}} /\ Max(s) \in 1 .. n
            BY <1>1, <1>4
        <3>2. G[<<Max(s), chosen[s \ {Max(s)}]>>] = Op(chosen[s \ {Max(s)}], m[Max(s)])
            BY <1>3, <2>2, <3>1
        <3>3. QED BY <2>1, <3>1, <3>2
    <2>3. QED BY <2>2 DEF TakesMax
<1> DEFINE f == [i \in 0 .. n |-> chosen[1 .. i]]
<1>10. Chain(f, n, V, base, G)
    <2>1. base \in V
        BY DEF V
    <2>2. n \in Nat /\ G \in [(1 .. n) \X V -> V]
        BY <1>1, <1>3
    <2>3. QED BY <1>8, <1>9, <2>1, <2>2, ChainOfFold
<1>11. f[n] = chosen[S]
    BY <1>1
<1> HIDE DEF f
<1>12. QED BY <1>2, <1>10, <1>11 DEF V, G
-----------------------------------------------------------------------------
(* What add does, and the operations made of it.                           *)

LEMMA MergeType ==
    ASSUME NEW v \in Started, NEW x \in Interval
    PROVE  Merge(v, x) \in Started
<1> DEFINE n == Len(v)
           last == v[n]
           e == [last EXCEPT !.hb = x.hb]
<1>1. v \in Seq(Interval) /\ v # <<>> /\ n \in Nat /\ n >= 1 /\ n \in 1 .. n
    BY DEF Started
<1>2. /\ last \in Interval /\ last.lb \in Int /\ last.hb \in Int /\ last.lb <= last.hb
      /\ x.lb \in Int /\ x.hb \in Int /\ x.lb <= x.hb
    BY <1>1, IntervalIs, ItemIs
<1>3. Append(v, x) \in Seq(Interval) /\ Append(v, x) # <<>>
    BY <1>1, AppendProperties
<1>4. last.hb < x.hb => Front(v) \o <<e>> \in Seq(Interval) /\ Front(v) \o <<e>> # <<>>
    <2> SUFFICES ASSUME last.hb < x.hb PROVE Front(v) \o <<e>> \in Seq(Interval) /\ Front(v) \o <<e>> # <<>>
        OBVIOUS
    <2>1. e \in Interval
        BY <1>2 DEF Interval
    <2> HIDE DEF e
    <2>2. <<e>> \in Seq(Interval) /\ Len(<<e>>) = 1
        BY <2>1
    <2>3. Front(v) \in Seq(Interval)
        <3>1. \A i \in 1 .. n - 1 : v[i] \in Interval
            BY <1>1
        <3>2. n - 1 \in Int
            BY <1>1
        <3>3. QED BY <3>1, <3>2, SubSeqProperties DEF Front
    <2> DEFINE one == <<e>>
               front == Front(v)
    <2> HIDE DEF one, front
    <2>4. one \in Seq(Interval) /\ front \in Seq(Interval) /\ Len(one) = 1 /\ Len(front) \in Nat
        BY <2>2, <2>3 DEF one, front
    <2>5. front \o one \in Seq(Interval) /\ Len(front \o one) = Len(front) + 1
        BY <2>4, ConcatProperties
    <2>6. front \o one # <<>>
        BY <2>4, <2>5
    <2>7. QED BY <2>5, <2>6 DEF one, front
<1>5. Merge(v, x) \in {Append(v, x), v} \/ (last.hb < x.hb /\ Merge(v, x) = Front(v) \o <<e>>)
    BY DEF Merge, Last
<1> HIDE DEF e, last, n
<1>6. QED BY <1>1, <1>3, <1>4, <1>5 DEF Started

LEMMA AddIs ==
    ASSUME NEW l \in Lists, NEW x \in Interval
    PROVE  /\ AddInterval(l, x) \in Lists /\ AddInterval(l, x) # <<>>
           /\ Covered(AddInterval(l, x)) = Covered(l) \cup Of(x)
<1>1. CASE l = <<>>
    <2>1. AddInterval(l, x) = <<x>>
        BY <1>1 DEF AddInterval
    <2>2. Covered(l) = {}
        BY <1>1, EmptyList
    <2>3. <<x>> # <<>>
        OBVIOUS
    <2>4. QED BY <2>1, <2>2, <2>3, OneItem
<1>2. CASE l # <<>>
    <2> DEFINE m == Insert(l, x)
               n == Len(l)
               t == Tail(m)
               base == <<Head(m)>>
    <2>1. l \in Seq(Interval) /\ n \in Nat
        BY DEF Lists
    <2>2. /\ m \in Seq(Interval) /\ Len(m) = n + 1
          /\ \A i \in 1 .. n : m[i].lb <= m[i + 1].lb
          /\ Upto(m, 1, Len(m)) = Covered(l) \cup Of(x)
        BY InsertIs
    <2>3. AddInterval(l, x) = FoldLeft(Merge, base, t)
        BY <1>2 DEF AddInterval
    <2> HIDE DEF m
    <2>4. m # <<>> /\ Head(m) = m[1] /\ 1 \in 1 .. Len(m) /\ m[1] \in Interval
        BY <2>1, <2>2
    <2>5. t \in Seq(Interval) /\ Len(t) = n /\ \A i \in 1 .. n : t[i] = m[i + 1]
        <3>1. t \in Seq(Interval) /\ Len(t) = Len(m) - 1 /\ \A i \in 1 .. Len(t) : t[i] = m[i + 1]
            BY <2>2, <2>4, HeadTailProperties
        <3>2. Len(m) - 1 = n
            BY <2>1, <2>2
        <3>3. QED BY <3>1, <3>2
    <2>6. base \in Lists /\ Covered(base) = Of(m[1]) /\ Len(base) = 1 /\ base[1] = m[1] /\ base # <<>>
        <3>1. base = <<m[1]>> /\ <<m[1]>> # <<>>
            BY <2>4
        <3>2. QED BY <2>4, <3>1, OneItem
    <2> HIDE DEF t, base, n
    <2>7. base \in Started
        BY <2>6 DEF Started, Lists
    <2> DEFINE G == Merging(t, n)
    <2>8. G \in [(1 .. n) \X Started -> Started]
        <3>1. \A q \in (1 .. n) \X Started : Merge(q[2], t[q[1]]) \in Started
            BY <2>5, MergeType
        <3>2. QED BY <3>1 DEF Merging
    <2>9. PICK f : Chain(f, n, Started, base, G) /\ FoldLeft(Merge, base, t) = f[n]
        <3>1. n = Len(t)
            BY <2>5
        <3>2. QED BY <2>5, <2>7, <2>8, <3>1, MergeIsChain
    <2> DEFINE Good(i, v) == /\ v \in Lists /\ v # <<>> /\ Covered(v) = Upto(m, 1, i + 1)
                             /\ v[Len(v)].lb <= m[i + 1].lb
               Q == {q \in (0 .. n) \X Started : Good(q[1], q[2])}
    <2>10. <<0, base>> \in Q
        <3>1. Good(0, base)
            <4>1. Upto(m, 1, 0 + 1) = Of(m[1])
                <5>1. 1 .. 0 + 1 = {1}
                    OBVIOUS
                <5>2. QED BY <5>1 DEF Upto
            <4>2. m[1].lb <= m[0 + 1].lb
                BY <2>4, IntervalIs
            <4>3. QED BY <2>6, <4>1, <4>2
        <3> HIDE DEF Good
        <3>2. 0 \in 0 .. n
            BY <2>1 DEF n
        <3>3. QED BY <2>7, <3>1, <3>2
    <2>11. ASSUME NEW i \in 1 .. n, NEW v \in Started, <<i - 1, v>> \in Q
           PROVE  <<i, G[<<i, v>>]>> \in Q
        <3>1. n \in Nat /\ i \in 0 .. n /\ i \in Nat \ {0} /\ (i - 1) + 1 = i /\ i - 1 \in 0 .. n
            BY <2>1 DEF n
        <3>2. Good(i - 1, v)
            <4> HIDE DEF Good
            <4>1. QED BY <2>11
        <3>3. v \in Lists /\ v # <<>> /\ Covered(v) = Upto(m, 1, i) /\ v[Len(v)].lb <= m[i].lb
            BY <3>1, <3>2
        <3> DEFINE y == m[i + 1]
        <3>4. y \in Interval /\ m[i].lb <= y.lb /\ m[i].lb \in Int /\ y.lb \in Int /\ t[i] = y
            <4>1. i \in 1 .. Len(m) /\ i + 1 \in 1 .. Len(m)
                BY <2>2, <3>1
            <4>2. QED BY <2>2, <2>5, <4>1, ItemIs
        <3> HIDE DEF y
        <3>5. v[Len(v)].lb <= y.lb
            <4>1. v[Len(v)].lb \in Int
                <5>1. v \in Seq(Interval) /\ Len(v) \in 1 .. Len(v)
                    BY <3>3 DEF Lists
                <5>2. QED BY <5>1, ItemIs
            <4>2. \A a, b, c \in Int : a <= b /\ b <= c => a <= c
                OBVIOUS
            <4>3. QED BY <3>3, <3>4, <4>1, <4>2
        <3> DEFINE r == Merge(v, y)
        <3>6. /\ r \in Lists /\ r # <<>> /\ Covered(r) = Covered(v) \cup Of(y)
              /\ r[Len(r)].lb <= y.lb
            BY <3>3, <3>4, <3>5, MergeIs
        <3>7. G[<<i, v>>] = r
            BY <2>11, <3>4 DEF Merging
        <3> HIDE DEF r
        <3>8. Upto(m, 1, i + 1) = Upto(m, 1, i) \cup Of(y)
            <4>1. i + 1 \in Nat \ {0} /\ (i + 1) - 1 = i
                BY <3>1
            <4>2. QED BY <4>1, UptoIs DEF y
        <3>9. Good(i, r)
            BY <3>3, <3>6, <3>8 DEF y
        <3>10. r \in Started
            BY <3>6 DEF Started, Lists
        <3> HIDE DEF Good, G
        <3>11. QED BY <3>1, <3>7, <3>9, <3>10
    <2>12. <<n, f[n]>> \in Q
        <3>1. n \in Nat
            BY <2>1 DEF n
        <3> HIDE DEF Q, G
        <3>2. Q \in SUBSET ((0 .. n) \X Started)
            BY DEF Q
        <3>3. QED BY <2>9, <2>10, <2>11, <3>1, <3>2, ChainInduction
    <2>13. Good(n, f[n])
        <3> HIDE DEF Good
        <3>1. QED BY <2>12
    <2>14. QED BY <2>2, <2>3, <2>9, <2>13
<1>3. QED BY <1>1, <1>2

LEMMA UnionIs ==
    ASSUME NEW l \in Lists, NEW m \in Seq(Interval)
    PROVE  MyUnion(l, m) \in Lists /\ Covered(MyUnion(l, m)) = Covered(l) \cup Covered(m)
<1> DEFINE n == Len(m)
           G == Adding(m, n)
           Good(i, v) == Covered(v) = Covered(l) \cup Upto(m, 1, i)
           Q == {q \in (0 .. n) \X Lists : Good(q[1], q[2])}
<1>1. n \in Nat /\ \A i \in 1 .. n : m[i] \in Interval
    OBVIOUS
<1>2. G \in [(1 .. n) \X Lists -> Lists]
    <2>1. \A q \in (1 .. n) \X Lists : AddInterval(q[2], m[q[1]]) \in Lists
        BY <1>1, AddIs
    <2>2. QED BY <2>1 DEF Adding
<1>3. PICK f : Chain(f, n, Lists, l, G) /\ MyUnion(l, m) = f[n]
    BY <1>2, UnionIsChain
<1>4. <<0, l>> \in Q
    BY <1>1, UptoIs
<1>5. ASSUME NEW i \in 1 .. n, NEW v \in Lists, <<i - 1, v>> \in Q PROVE <<i, G[<<i, v>>]>> \in Q
    <2>1. i \in 0 .. n /\ i \in Nat \ {0}
        BY <1>1
    <2>2. Covered(v) = Covered(l) \cup Upto(m, 1, i - 1)
        BY <1>5
    <2> DEFINE r == AddInterval(v, m[i])
    <2>3. r \in Lists /\ Covered(r) = Covered(v) \cup Of(m[i])
        BY <1>1, AddIs
    <2>4. G[<<i, v>>] = r
        BY DEF Adding
    <2> HIDE DEF r
    <2>5. Good(i, r)
        BY <2>1, <2>2, <2>3, UptoIs
    <2> HIDE DEF Good, G
    <2>6. QED BY <2>1, <2>3, <2>4, <2>5
<1>6. <<n, f[n]>> \in Q
    <2> HIDE DEF Q, G
    <2>1. Q \in SUBSET ((0 .. n) \X Lists)
        BY DEF Q
    <2>2. QED BY <1>1, <1>3, <1>4, <1>5, <2>1, ChainInduction
<1>7. QED BY <1>3, <1>6, UptoIs

LEMMA CommonIs ==
    ASSUME NEW x \in Interval, NEW y \in Interval
    PROVE  Common(x, y) \in Seq(Interval) /\ Covered(Common(x, y)) = Of(x) \cap Of(y)
<1> DEFINE lb == IF x.lb > y.lb THEN x.lb ELSE y.lb
           hb == IF x.hb < y.hb THEN x.hb ELSE y.hb
           z == [lb |-> lb, hb |-> hb]
<1>1. /\ x.lb \in Int /\ x.hb \in Int /\ y.lb \in Int /\ y.hb \in Int
      /\ x.lb \in Position /\ x.hb \in Position /\ y.lb \in Position /\ y.hb \in Position
    BY IntervalIs
<1>2. CASE lb > hb
    <2>1. Common(x, y) = <<>>
        BY <1>2 DEF Common
    <2>2. Of(x) \cap Of(y) = {}
        BY <1>1, <1>2 DEF Of
    <2>3. QED BY <2>1, <2>2, EmptyList DEF Lists
<1>3. CASE ~ (lb > hb)
    <2>1. Common(x, y) = <<z>>
        BY <1>3 DEF Common
    <2>2. z \in Interval
        <3>1. lb \in Position /\ hb \in Position /\ lb <= hb
            BY <1>1, <1>3
        <3>2. QED BY <3>1 DEF Interval
    <2>3. Of(x) \cap Of(y) = Of(z)
        BY <1>1 DEF Of
    <2> HIDE DEF z
    <2>4. QED BY <2>1, <2>2, <2>3, OneItem DEF Lists
<1>4. QED BY <1>2, <1>3

LEMMA CutIs ==
    ASSUME NEW s \in Lists, NEW y \in Interval, NEW m \in Seq(Interval)
    PROVE  Cut(s, y, m) \in Lists /\ Covered(Cut(s, y, m)) = Covered(s) \cup (Of(y) \cap Covered(m))
<1> DEFINE n == Len(m)
           G == Cutting(y, m, n)
           Good(i, v) == Covered(v) = Covered(s) \cup (Of(y) \cap Upto(m, 1, i))
           Q == {q \in (0 .. n) \X Lists : Good(q[1], q[2])}
<1>1. n \in Nat /\ \A i \in 1 .. n : m[i] \in Interval
    OBVIOUS
<1>2. \A i \in 1 .. n, v \in Lists :
         /\ MyUnion(v, Common(y, m[i])) \in Lists
         /\ Covered(MyUnion(v, Common(y, m[i]))) = Covered(v) \cup (Of(y) \cap Of(m[i]))
    BY ZenonT(40), <1>1, UnionIs, CommonIs
<1>3. G \in [(1 .. n) \X Lists -> Lists]
    BY <1>2 DEF Cutting
<1>4. PICK f : Chain(f, n, Lists, s, G) /\ Cut(s, y, m) = f[n]
    BY <1>3, CutIsChain
<1>5. <<0, s>> \in Q
    BY <1>1, UptoIs
<1>6. ASSUME NEW i \in 1 .. n, NEW v \in Lists, <<i - 1, v>> \in Q PROVE <<i, G[<<i, v>>]>> \in Q
    <2>1. i \in 0 .. n /\ i \in Nat \ {0}
        BY <1>1
    <2>2. Covered(v) = Covered(s) \cup (Of(y) \cap Upto(m, 1, i - 1))
        BY <1>6
    <2> DEFINE r == MyUnion(v, Common(y, m[i]))
    <2>3. r \in Lists /\ Covered(r) = Covered(v) \cup (Of(y) \cap Of(m[i]))
        BY <1>2
    <2>4. G[<<i, v>>] = r
        BY DEF Cutting
    <2> HIDE DEF r
    <2>5. Good(i, r)
        BY <2>1, <2>2, <2>3, UptoIs
    <2> HIDE DEF Good, G
    <2>6. QED BY <2>1, <2>3, <2>4, <2>5
<1>7. <<n, f[n]>> \in Q
    <2> HIDE DEF Q, G
    <2>1. Q \in SUBSET ((0 .. n) \X Lists)
        BY DEF Q
    <2>2. QED BY <1>1, <1>4, <1>5, <1>6, <2>1, ChainInduction
<1>8. QED BY <1>4, <1>7, UptoIs

LEMMA IntersectionIs ==
    ASSUME NEW m \in Seq(Interval), NEW o \in Seq(Interval)
    PROVE  Intersection(m, o) \in Lists /\ Covered(Intersection(m, o)) = Covered(m) \cap Covered(o)
<1> DEFINE n == Len(m)
           G == Crossing(o, m, n)
           Good(i, v) == Covered(v) = Upto(m, 1, i) \cap Covered(o)
           Q == {q \in (0 .. n) \X Lists : Good(q[1], q[2])}
           base == <<>>
<1>1. n \in Nat /\ \A i \in 1 .. n : m[i] \in Interval
    OBVIOUS
<1>2. \A i \in 1 .. n, v \in Lists :
         /\ Cut(v, m[i], o) \in Lists
         /\ Covered(Cut(v, m[i], o)) = Covered(v) \cup (Of(m[i]) \cap Covered(o))
    BY <1>1, CutIs
<1>3. G \in [(1 .. n) \X Lists -> Lists]
    BY <1>2 DEF Crossing
<1>4. base \in Lists /\ Covered(base) = {}
    BY EmptyList
<1>5. PICK f : Chain(f, n, Lists, base, G) /\ Intersection(m, o) = f[n]
    <2> HIDE DEF G
    <2>1. Crossing(o, m, n) \in [(1 .. n) \X Lists -> Lists]
        BY <1>3 DEF G
    <2>2. QED BY <1>4, <2>1, IntersectionIsChain DEF G
<1> HIDE DEF base
<1>6. <<0, base>> \in Q
    BY <1>1, <1>4, UptoIs
<1>7. ASSUME NEW i \in 1 .. n, NEW v \in Lists, <<i - 1, v>> \in Q PROVE <<i, G[<<i, v>>]>> \in Q
    <2>1. i \in 0 .. n /\ i \in Nat \ {0}
        BY <1>1
    <2>2. Covered(v) = Upto(m, 1, i - 1) \cap Covered(o)
        BY <1>7
    <2> DEFINE r == Cut(v, m[i], o)
    <2>3. r \in Lists /\ Covered(r) = Covered(v) \cup (Of(m[i]) \cap Covered(o))
        BY <1>2
    <2>4. G[<<i, v>>] = r
        BY DEF Crossing
    <2> HIDE DEF r
    <2>5. Good(i, r)
        BY <2>1, <2>2, <2>3, UptoIs
    <2> HIDE DEF Good, G
    <2>6. QED BY <2>1, <2>3, <2>4, <2>5
<1>8. <<n, f[n]>> \in Q
    <2> HIDE DEF Q, G
    <2>1. Q \in SUBSET ((0 .. n) \X Lists)
        BY DEF Q
    <2>2. QED BY <1>1, <1>5, <1>6, <1>7, <2>1, ChainInduction
<1>9. QED BY <1>5, <1>8, UptoIs

LEMMA TotalIs ==
    ASSUME NEW l \in Lists
    PROVE  Total(l) = Cardinality(Covered(l))
<1> DEFINE n == Len(l)
           G == Counting(l, n)
           Good(i, v) == IsFiniteSet(Upto(l, 1, i)) /\ v = Cardinality(Upto(l, 1, i))
           Q == {q \in (0 .. n) \X Int : Good(q[1], q[2])}
           base == 0
<1>1. l \in Seq(Interval) /\ n \in Nat
    BY DEF Lists
<1>2. \A i \in 1 .. n : l[i].lb \in Int /\ l[i].hb \in Int /\ l[i].lb <= l[i].hb
    BY <1>1, ItemIs
<1>3. G \in [(1 .. n) \X Int -> Int]
    <2>1. \A q \in (1 .. n) \X Int : q[2] + l[q[1]].hb - l[q[1]].lb + 1 \in Int
        BY <1>2
    <2>2. QED BY <2>1 DEF Counting
<1>4. PICK f : Chain(f, n, Int, base, G) /\ Total(l) = f[n]
    <2> HIDE DEF G
    <2>1. Counting(l, n) \in [(1 .. n) \X Int -> Int] /\ 0 \in Int
        BY <1>3 DEF G
    <2>2. QED BY <1>1, <2>1, TotalIsChain DEF G
<1>5. <<0, base>> \in Q
    <2>1. Upto(l, 1, 0) = {}
        BY UptoIs
    <2>2. Good(0, 0)
        BY <2>1, FS_EmptySet
    <2>3. 0 \in 0 .. n /\ 0 \in Int
        BY <1>1
    <2> HIDE DEF Good
    <2>4. QED BY <2>2, <2>3
<1>6. ASSUME NEW i \in 1 .. n, NEW v \in Int, <<i - 1, v>> \in Q PROVE <<i, G[<<i, v>>]>> \in Q
    <2>1. i \in 0 .. n /\ i \in Nat \ {0} /\ i \in Int
        BY <1>1
    <2> DEFINE A == Upto(l, 1, i - 1)
               B == Of(l[i])
               w == v + l[i].hb - l[i].lb + 1
    <2>2. IsFiniteSet(A) /\ v = Cardinality(A)
        BY <1>6
    <2>3. IsFiniteSet(B) /\ Cardinality(B) = l[i].hb - l[i].lb + 1
        <3> DEFINE c == l[i].lb
                   d == l[i].hb
        <3>1. c \in Int /\ d \in Int /\ ~ (c > d) /\ B = c .. d
            BY <1>2 DEF Of
        <3> HIDE DEF B, c, d
        <3>2. IsFiniteSet(c .. d) /\ Cardinality(c .. d) = IF c > d THEN 0 ELSE d - c + 1
            BY <3>1, FS_Interval
        <3>3. QED BY <3>1, <3>2 DEF c, d
    <2>4. A \cap B = {}
        <3>1. ASSUME NEW j \in 1 .. i - 1 PROVE Of(l[j]) \cap B = {}
            <4>1. j \in 1 .. n /\ j < i
                BY <1>1, <2>1
            <4>2. l[j].hb + 1 < l[i].lb /\ l[j].hb \in Int /\ l[j].lb \in Int
                  /\ l[i].lb \in Int /\ l[i].hb \in Int
                BY <1>2, <4>1, Spread
            <4>3. QED BY <4>2 DEF Of
        <3> HIDE DEF B
        <3>2. QED BY <3>1 DEF Upto
    <2>5. Upto(l, 1, i) = A \cup B
        BY <2>1, UptoIs
    <2> HIDE DEF A, B
    <2>6. IsFiniteSet(A \cup B) /\ Cardinality(A \cup B) = Cardinality(A) + Cardinality(B)
        <3>1. /\ IsFiniteSet(A \cup B)
              /\ Cardinality(A \cup B) = Cardinality(A) + Cardinality(B) - Cardinality(A \cap B)
            BY <2>2, <2>3, FS_Union
        <3>2. Cardinality(A \cap B) = 0
            BY <2>4, FS_EmptySet
        <3>3. Cardinality(A) \in Int /\ Cardinality(B) \in Int
            BY <2>2, <2>3, FS_CardinalityType
        <3>4. QED BY <3>1, <3>2, <3>3
    <2>7. w = Cardinality(A \cup B) /\ w \in Int
        BY <1>2, <2>2, <2>3, <2>6
    <2>8. G[<<i, v>>] = w
        BY DEF Counting
    <2> HIDE DEF w
    <2>9. Good(i, w)
        BY <2>5, <2>6, <2>7
    <2> HIDE DEF Good, G
    <2>10. QED BY <2>1, <2>7, <2>8, <2>9
<1>7. <<n, f[n]>> \in Q
    <2> HIDE DEF Q, G
    <2>1. Q \in SUBSET ((0 .. n) \X Int)
        BY DEF Q
    <2>2. QED BY <1>1, <1>4, <1>5, <1>6, <2>1, ChainInduction
<1>8. Covered(l) = Upto(l, 1, n)
    BY <1>1, UptoIs
<1>9. QED BY <1>4, <1>7, <1>8
-----------------------------------------------------------------------------
(* remove: where the bounds fall.                                          *)

LEMMA Halves ==
    ASSUME NEW i \in Nat
    PROVE  /\ i \div 2 \in Nat /\ i % 2 \in {0, 1}
           /\ i = 2 * (i \div 2) + (i % 2)
<1>1. i % 2 \in {0, 1}
    OBVIOUS
<1>2. i = 2 * (i \div 2) + (i % 2)
    OBVIOUS
<1>3. i \div 2 \in Nat
    OBVIOUS
<1>4. QED BY <1>1, <1>2, <1>3

LEMMA HalvesOf ==
    ASSUME NEW b \in Nat
    PROVE  /\ (2 * b) \div 2 = b /\ (2 * b) % 2 = 0
           /\ (2 * b + 1) \div 2 = b /\ (2 * b + 1) % 2 = 1
OBVIOUS

\* The lower bound: the first b items are below it, and it is inside the next
\* item or before it.
LowAt(l, lb, b, inside) ==
    /\ b \in 0 .. Len(l) - 1
    /\ \A i \in 1 .. b : l[i].hb < lb
    /\ \A i \in b + 2 .. Len(l) : lb < l[i].lb
    /\ IF inside THEN l[b + 1].lb <= lb /\ lb <= l[b + 1].hb ELSE lb < l[b + 1].lb

HighAt(l, hb, c, inside) ==
    /\ c \in 0 .. Len(l)
    /\ \A i \in 1 .. c : l[i].hb < hb
    /\ \A i \in c + 2 .. Len(l) : hb < l[i].lb
    /\ IF inside THEN c < Len(l) /\ l[c + 1].lb <= hb /\ hb <= l[c + 1].hb
                 ELSE c < Len(l) => hb < l[c + 1].lb

LEMMA Order ==
    ASSUME NEW l \in Lists, NEW i \in 1 .. Len(l), NEW j \in 1 .. Len(l), i <= j
    PROVE  l[i].lb <= l[j].lb /\ l[i].hb <= l[j].hb
<1>1. l \in Seq(Interval) /\ i \in Int /\ j \in Int
    BY DEF Lists
<1>2. /\ l[i].lb \in Int /\ l[i].hb \in Int /\ l[j].lb \in Int /\ l[j].hb \in Int
      /\ l[i].lb <= l[i].hb /\ l[j].lb <= l[j].hb
    BY <1>1, ItemIs
<1>3. i = j \/ i < j
    BY <1>1
<1>4. CASE i = j
    BY <1>2, <1>4
<1>5. CASE i < j
    <2>1. l[i].hb + 1 < l[j].lb
        BY <1>5, Spread
    <2> DEFINE u == l[i].lb
               v == l[i].hb
               w == l[j].lb
               x == l[j].hb
    <2>2. u \in Int /\ v \in Int /\ w \in Int /\ x \in Int /\ u <= v /\ w <= x /\ v + 1 < w
        BY <1>2, <2>1
    <2> HIDE DEF u, v, w, x
    <2>3. u <= w /\ v <= x
        BY <2>2
    <2>4. QED BY <2>3 DEF u, v, w, x
<1>6. QED BY <1>3, <1>4, <1>5

\* What the bounds of the items next to a position say of the others.
LEMMA LowIs ==
    ASSUME NEW l \in Lists, NEW lb \in Int, NEW b \in 0 .. Len(l) - 1, NEW inside \in BOOLEAN,
           b > 0 => l[b].hb < lb,
           IF inside THEN l[b + 1].lb <= lb /\ lb <= l[b + 1].hb ELSE lb < l[b + 1].lb
    PROVE  LowAt(l, lb, b, inside)
<1> DEFINE n == Len(l)
<1>1. l \in Seq(Interval) /\ n \in Nat /\ b \in Int
    BY DEF Lists
<1>2. \A i \in 1 .. n : l[i].lb \in Int /\ l[i].hb \in Int /\ l[i].lb <= l[i].hb
    BY <1>1, ItemIs
<1>3. ASSUME NEW i \in 1 .. b PROVE l[i].hb < lb
    <2>1. b > 0 /\ b \in 1 .. n /\ i \in 1 .. n /\ i <= b
        BY <1>1
    <2>2. l[i].hb <= l[b].hb /\ l[b].hb < lb
        BY <2>1, Order
    <2>3. l[i].hb \in Int /\ l[b].hb \in Int
        BY <1>2, <2>1
    <2>4. QED BY <2>2, <2>3
<1>4. ASSUME NEW i \in b + 2 .. n PROVE lb < l[i].lb
    <2>1. b + 1 \in 1 .. n /\ i \in 1 .. n /\ b + 1 < i
        BY <1>1
    <2>2. l[b + 1].hb + 1 < l[i].lb
        BY <2>1, Spread
    <2>3. l[b + 1].lb \in Int /\ l[b + 1].hb \in Int /\ l[b + 1].lb <= l[b + 1].hb /\ l[i].lb \in Int
        BY <1>2, <2>1
    <2>4. lb <= l[b + 1].hb
        BY <2>3
    <2>5. QED BY <2>2, <2>3, <2>4
<1>5. QED BY <1>3, <1>4 DEF LowAt

LEMMA HighIs ==
    ASSUME NEW l \in Lists, NEW hb \in Int, NEW c \in 0 .. Len(l), NEW inside \in BOOLEAN,
           ~ inside /\ c > 0 => l[c].hb < hb,
           IF inside THEN c < Len(l) /\ l[c + 1].lb <= hb /\ hb <= l[c + 1].hb
                     ELSE c < Len(l) => hb < l[c + 1].lb
    PROVE  HighAt(l, hb, c, inside)
<1> DEFINE n == Len(l)
<1>1. l \in Seq(Interval) /\ n \in Nat /\ c \in Int
    BY DEF Lists
<1>2. \A i \in 1 .. n : l[i].lb \in Int /\ l[i].hb \in Int /\ l[i].lb <= l[i].hb
    BY <1>1, ItemIs
<1>3. ASSUME NEW i \in 1 .. c PROVE l[i].hb < hb
    <2>1. c > 0 /\ c \in 1 .. n /\ i \in 1 .. n /\ i <= c
        BY <1>1
    <2>2. l[i].hb <= l[c].hb
        BY <2>1, Order
    <2>3. l[i].hb \in Int /\ l[c].hb \in Int
        BY <1>2, <2>1
    <2>4. CASE ~ inside
        BY <2>1, <2>2, <2>3, <2>4
    <2>5. CASE inside
        <3>1. c + 1 \in 1 .. n /\ c < c + 1
            BY <1>1, <2>5
        <3>2. l[c].hb + 1 < l[c + 1].lb /\ l[c + 1].lb \in Int
            BY <1>2, <2>1, <3>1, Spread
        <3>3. QED BY <2>2, <2>3, <2>5, <3>2
    <2>6. QED BY <2>4, <2>5
<1>4. ASSUME NEW i \in c + 2 .. n PROVE hb < l[i].lb
    <2>1. c + 1 \in 1 .. n /\ i \in 1 .. n /\ c + 1 < i /\ c < n
        BY <1>1
    <2>2. l[c + 1].hb + 1 < l[i].lb
        BY <2>1, Spread
    <2>3. l[c + 1].lb \in Int /\ l[c + 1].hb \in Int /\ l[c + 1].lb <= l[c + 1].hb /\ l[i].lb \in Int
        BY <1>2, <2>1
    <2>4. hb <= l[c + 1].hb
        BY <2>1, <2>3
    <2>5. QED BY <2>2, <2>3, <2>4
<1>5. QED BY <1>3, <1>4 DEF HighAt

\* The climb from below stops, and where it stops.
LEMMA LowerIndexIs ==
    ASSUME NEW l \in Lists, NEW lb \in Int, l # <<>>, lb <= l[Len(l)].hb,
           NEW low, low = LowerIndex(l, lb)
    PROVE  /\ low \in Nat /\ LowAt(l, lb, low \div 2, low % 2 = 1)
<1> DEFINE n == Len(l)
           Stops(i) == ~ LowerPasses(l, i, lb) /\ \A j \in 0 .. i - 1 : LowerPasses(l, j, lb)
<1>1. l \in Seq(Interval) /\ n \in Nat /\ n >= 1 /\ n \in 1 .. n
    BY DEF Lists
<1>2. \A i \in 1 .. n : l[i].lb \in Int /\ l[i].hb \in Int /\ l[i].lb <= l[i].hb
    BY <1>1, ItemIs
<1>3. \E i \in 0 .. 2 * n - 1 : Stops(i)
    <2> DEFINE T == {i \in 0 .. 2 * n - 1 : ~ LowerPasses(l, i, lb)}
    <2>1. 2 * n - 1 \in T
        <3> DEFINE k == 2 * n - 1
        <3>1. k \in 0 .. 2 * n - 1 /\ k % 2 = 1 /\ k \div 2 + 1 = n
            <4>1. n - 1 \in Nat /\ k = 2 * (n - 1) + 1 /\ k \in 0 .. 2 * n - 1
                BY <1>1
            <4> HIDE DEF k, n
            <4>2. k % 2 = 1 /\ k \div 2 = n - 1
                BY <4>1, HalvesOf
            <4>3. QED BY <1>1, <4>1, <4>2
        <3> HIDE DEF k, n
        <3>2. ~ (lb > l[n].hb)
            BY <1>1, <1>2 DEF n
        <3>3. ~ LowerPasses(l, k, lb)
            BY <3>1, <3>2 DEF LowerPasses, Block
        <3>4. QED BY <3>1, <3>3 DEF k
    <2>2. T \in SUBSET Nat
        OBVIOUS
    <2>3. PICK i \in T : \A j \in T : i <= j
        <3> HIDE DEF T
        <3>1. QED BY <2>1, <2>2, Least
    <2>4. ASSUME NEW j \in 0 .. i - 1 PROVE LowerPasses(l, j, lb)
        <3>1. j \in 0 .. 2 * n - 1 /\ ~ (i <= j)
            BY <1>1, <2>2, <2>3
        <3>2. QED BY <2>3, <3>1
    <2>5. QED BY <2>3, <2>4
<1>4. low = CHOOSE i \in 0 .. 2 * n : Stops(i)
    BY DEF LowerIndex
<1>5. low \in 0 .. 2 * n /\ Stops(low)
    <2>1. \A i \in 0 .. 2 * n - 1 : i \in 0 .. 2 * n
        BY <1>1
    <2>2. \E i \in 0 .. 2 * n : Stops(i)
        <3> HIDE DEF Stops
        <3>1. QED BY <1>3, <2>1
    <2> HIDE DEF Stops
    <2>3. QED BY <1>4, <2>2
<1>6. low \in 0 .. 2 * n - 1
    <2>1. PICK i \in 0 .. 2 * n - 1 : Stops(i)
        BY <1>3
    <2>2. ~ (i < low)
        <3>1. i < low => i \in 0 .. low - 1
            BY <1>1, <1>5
        <3>2. QED BY <1>5, <2>1, <3>1
    <2>3. QED BY <1>1, <1>5, <2>1, <2>2
<1> DEFINE b == low \div 2
           r == low % 2
           inside == r = 1
<1>7. low \in Nat /\ b \in Nat /\ low = 2 * b + r /\ r \in {0, 1}
    <2>1. low \in Nat
        BY <1>1, <1>6
    <2>2. QED BY <2>1, Halves
<1> HIDE DEF b, r, n
<1>8. b \in 0 .. n - 1 /\ b + 1 \in 1 .. n
    BY <1>1, <1>6, <1>7
<1>9. b > 0 => l[b].hb < lb
    <2> SUFFICES ASSUME b > 0 PROVE l[b].hb < lb
        OBVIOUS
    <2> DEFINE k == 2 * (b - 1) + 1
    <2>1. k \in 0 .. low - 1 /\ b - 1 \in Nat /\ b \in 1 .. n
        <3>1. b \in 1 .. n /\ b - 1 \in Nat
            BY <1>1, <1>7, <1>8
        <3>2. low \in Int /\ 2 * b <= low
            BY <1>7
        <3>3. QED BY <3>1, <3>2
    <2>2. k % 2 = 1 /\ k \div 2 = b - 1
        BY <2>1, HalvesOf
    <2> HIDE DEF k
    <2>3. LowerPasses(l, k, lb)
        BY <1>5, <2>1
    <2>4. k \div 2 + 1 = b
        BY <2>1, <2>2
    <2>5. lb > l[b].hb
        BY <2>2, <2>3, <2>4 DEF LowerPasses, Block
    <2>6. QED BY <1>2, <2>1, <2>5
<1>10. CASE inside
    <2> DEFINE k == 2 * b
    <2>1. k \in 0 .. low - 1 /\ r # 0
        BY <1>7, <1>10
    <2>2. k % 2 = 0 /\ k \div 2 = b
        BY <1>7, HalvesOf
    <2> HIDE DEF k
    <2>3. LowerPasses(l, k, lb) /\ ~ LowerPasses(l, low, lb)
        BY <1>5, <2>1
    <2>4. lb >= l[b + 1].lb
        BY <2>2, <2>3 DEF LowerPasses, Block
    <2>5. ~ (lb > l[b + 1].hb)
        BY <2>1, <2>3 DEF LowerPasses, Block, b, r
    <2>6. l[b + 1].lb <= lb /\ lb <= l[b + 1].hb
        BY <1>2, <1>8, <2>4, <2>5
    <2>7. LowAt(l, lb, b, TRUE)
        BY <1>8, <1>9, <2>6, LowIs DEF n
    <2>8. QED BY <1>7, <1>10, <2>7 DEF b, r
<1>11. CASE ~ inside
    <2>1. low % 2 = 0
        BY <1>7, <1>11 DEF r
    <2>2. ~ LowerPasses(l, low, lb)
        BY <1>5
    <2>3. ~ (lb >= l[b + 1].lb)
        BY <2>1, <2>2 DEF LowerPasses, Block, b
    <2>4. lb < l[b + 1].lb
        BY <1>2, <1>8, <2>3
    <2>5. LowAt(l, lb, b, FALSE)
        BY <1>8, <1>9, <2>4, LowIs DEF n
    <2>6. QED BY <1>7, <1>11, <2>5 DEF b, r
<1>12. QED BY <1>10, <1>11

\* The descent from above, likewise.
LEMMA HigherIndexIs ==
    ASSUME NEW l \in Lists, NEW hb \in Int, l # <<>>, l[1].lb <= hb,
           NEW high, high = HigherIndex(l, hb)
    PROVE  high \in Nat /\ HighAt(l, hb, high \div 2, high % 2 = 1)
<1> DEFINE n == Len(l)
           Stops(i) == ~ HigherPasses(l, i, hb) /\ \A j \in i + 1 .. 2 * n : HigherPasses(l, j, hb)
<1>1. l \in Seq(Interval) /\ n \in Nat /\ n >= 1 /\ 1 \in 1 .. n
    BY DEF Lists
<1>2. \A i \in 1 .. n : l[i].lb \in Int /\ l[i].hb \in Int /\ l[i].lb <= l[i].hb
    BY <1>1, ItemIs
<1>3. \E i \in 1 .. 2 * n : Stops(i)
    <2> DEFINE T == {k \in 0 .. 2 * n - 1 : ~ HigherPasses(l, 2 * n - k, hb)}
    <2>1. 2 * n - 1 \in T
        <3>1. 2 * n - 1 \in 0 .. 2 * n - 1 /\ 2 * n - (2 * n - 1) = 1
            BY <1>1
        <3>2. 1 % 2 = 1 /\ 1 \div 2 + 1 = 1
            OBVIOUS
        <3>3. ~ (hb < l[1].lb)
            BY <1>1, <1>2
        <3>4. ~ HigherPasses(l, 1, hb)
            BY <3>2, <3>3 DEF HigherPasses, Block
        <3> HIDE DEF n
        <3>5. QED BY <3>1, <3>4
    <2>2. T \in SUBSET Nat
        OBVIOUS
    <2>3. PICK k \in T : \A j \in T : k <= j
        <3> HIDE DEF T
        <3>1. QED BY <2>1, <2>2, Least
    <2> DEFINE i == 2 * n - k
    <2>4. i \in 1 .. 2 * n /\ ~ HigherPasses(l, i, hb)
        BY <1>1, <2>3
    <2>5. ASSUME NEW j \in i + 1 .. 2 * n PROVE HigherPasses(l, j, hb)
        <3>1. 2 * n - j \in 0 .. 2 * n - 1 /\ ~ (k <= 2 * n - j) /\ 2 * n - (2 * n - j) = j
            BY <1>1, <2>2, <2>3
        <3>2. ~ (2 * n - j \in T)
            <4> HIDE DEF T
            <4>1. QED BY <2>3, <3>1
        <3> HIDE DEF n
        <3>3. QED BY <3>1, <3>2
    <2> HIDE DEF i
    <2>6. QED BY <2>4, <2>5
<1>4. high = CHOOSE i \in 1 .. 2 * n : Stops(i)
    BY DEF HigherIndex
<1>5. high \in 1 .. 2 * n /\ Stops(high)
    <2> HIDE DEF Stops
    <2>1. QED BY <1>3, <1>4
<1> DEFINE c == high \div 2
           r == high % 2
           inside == r = 1
<1>6. high \in Nat /\ c \in Nat /\ high = 2 * c + r /\ r \in {0, 1}
    <2>1. high \in Nat
        BY <1>1, <1>5
    <2>2. QED BY <2>1, Halves
<1> HIDE DEF c, r, n
<1>7. CASE inside
    <2> DEFINE k == 2 * (c + 1)
    <2>1. c + 1 \in 1 .. n /\ c \in 0 .. n /\ c < n /\ c + 1 \in Nat /\ k \in high + 1 .. 2 * n /\ r # 0
        BY <1>1, <1>5, <1>6, <1>7
    <2>2. k % 2 = 0 /\ k \div 2 = c + 1
        BY <2>1, HalvesOf
    <2>3. (k - 2) \div 2 + 1 = c + 1
        <3>1. k - 2 = 2 * c
            BY <1>6
        <3>2. (2 * c) \div 2 = c
            BY <1>6, HalvesOf
        <3> HIDE DEF k
        <3>3. QED BY <3>1, <3>2
    <2> HIDE DEF k
    <2>4. HigherPasses(l, k, hb) /\ ~ HigherPasses(l, high, hb)
        BY <1>5, <2>1
    <2>5. hb <= l[c + 1].hb
        BY <2>2, <2>3, <2>4 DEF HigherPasses, Block
    <2>6. ~ (hb < l[c + 1].lb)
        BY <2>1, <2>4 DEF HigherPasses, Block, c, r
    <2>7. l[c + 1].lb <= hb /\ hb <= l[c + 1].hb
        BY <1>2, <2>1, <2>5, <2>6
    <2>8. HighAt(l, hb, c, TRUE)
        BY <2>1, <2>7, HighIs DEF n
    <2>9. QED BY <1>6, <1>7, <2>8 DEF c, r
<1>8. CASE ~ inside
    <2>1. high % 2 = 0 /\ r = 0 /\ c \in 1 .. n /\ c \in 0 .. n
        <3>1. r = 0
            BY <1>6, <1>8
        <3>2. QED BY <1>1, <1>5, <1>6, <3>1 DEF r
    <2>2. ~ HigherPasses(l, high, hb)
        BY <1>5
    <2>3. (high - 2) \div 2 + 1 = c
        <3>1. high - 2 = 2 * (c - 1) /\ c - 1 \in Nat
            BY <1>6, <2>1
        <3>2. (2 * (c - 1)) \div 2 = c - 1
            BY <3>1, HalvesOf
        <3>3. QED BY <1>6, <3>1, <3>2
    <2>4. ~ (hb <= l[c].hb)
        BY <2>1, <2>2, <2>3 DEF HigherPasses, Block
    <2>5. l[c].hb < hb
        BY <1>2, <2>1, <2>4
    <2>6. c < n => hb < l[c + 1].lb
        <3> SUFFICES ASSUME c < n PROVE hb < l[c + 1].lb
            OBVIOUS
        <3> DEFINE k == 2 * c + 1
        <3>1. k \in high + 1 .. 2 * n /\ k % 2 = 1 /\ k \div 2 = c
            <4>1. k \in high + 1 .. 2 * n
                BY <1>1, <1>5, <1>6, <2>1
            <4>2. k % 2 = 1 /\ k \div 2 = c
                BY <1>6, HalvesOf
            <4>3. QED BY <4>1, <4>2
        <3> HIDE DEF k
        <3>2. HigherPasses(l, k, hb)
            BY <1>5, <3>1
        <3>3. QED BY <3>1, <3>2 DEF HigherPasses, Block
    <2>7. HighAt(l, hb, c, FALSE)
        BY <2>1, <2>5, <2>6, HighIs DEF n
    <2>8. QED BY <1>6, <1>8, <2>7 DEF c, r
<1>9. QED BY <1>7, <1>8
-----------------------------------------------------------------------------
(* What remove does.                                                       *)

\* Lists on both sides of a position that neither covers.
LEMMA JoinedAt ==
    ASSUME NEW s \in Lists, NEW t \in Lists, NEW k \in Int,
           \A p \in Covered(s) : p < k, \A p \in Covered(t) : k < p
    PROVE  s \o t \in Lists /\ Covered(s \o t) = Covered(s) \cup Covered(t)
<1>1. s \in Seq(Interval) /\ t \in Seq(Interval)
    BY DEF Lists
<1>2. s = <<>> \/ t = <<>> \/ s[Len(s)].hb + 1 < t[1].lb
    <2> SUFFICES ASSUME s # <<>>, t # <<>> PROVE s[Len(s)].hb + 1 < t[1].lb
        OBVIOUS
    <2> DEFINE m == Len(s)
    <2>1. m \in 1 .. Len(s) /\ 1 \in 1 .. Len(t)
        BY <1>1
    <2> HIDE DEF m
    <2>2. /\ s[m].lb \in Int /\ s[m].hb \in Int /\ s[m].lb <= s[m].hb
          /\ t[1].lb \in Int /\ t[1].hb \in Int /\ t[1].lb <= t[1].hb
        BY <1>1, <2>1, ItemIs
    <2>3. s[m].hb \in Of(s[m]) /\ t[1].lb \in Of(t[1])
        BY <2>2 DEF Of
    <2>4. s[m].hb \in Covered(s) /\ t[1].lb \in Covered(t)
        BY <1>1, <2>1, <2>3, CoveredIs
    <2>5. s[m].hb < k /\ k < t[1].lb
        BY <2>4
    <2>6. QED BY <2>2, <2>5 DEF m
<1>3. QED BY <1>2, Joined

\* What stays of a block on one side of what is removed.
LEMMA Remnant ==
    ASSUME NEW y \in Interval, NEW x \in Interval, NEW t
    PROVE  /\ t = (IF y.lb < x.lb THEN <<[y EXCEPT !.hb = x.lb - 1]>> ELSE <<>>)
                /\ x.lb <= y.hb => t \in Lists /\ Covered(t) = y.lb .. x.lb - 1
           /\ t = (IF y.hb > x.hb THEN <<[y EXCEPT !.lb = x.hb + 1]>> ELSE <<>>)
                /\ y.lb <= x.hb => t \in Lists /\ Covered(t) = x.hb + 1 .. y.hb
<1>1. /\ y.lb \in Int /\ y.hb \in Int /\ x.lb \in Int /\ x.hb \in Int
      /\ y.lb <= y.hb /\ x.lb <= x.hb
      /\ y.lb >= 0 /\ x.lb >= 0 /\ y.hb <= MaxPos /\ x.hb <= MaxPos /\ MaxPos \in Int
    BY IntervalIs, MaxPosAssumption DEF Position
<1>2. ASSUME t = (IF y.lb < x.lb THEN <<[y EXCEPT !.hb = x.lb - 1]>> ELSE <<>>), x.lb <= y.hb
      PROVE  t \in Lists /\ Covered(t) = y.lb .. x.lb - 1
    <2> DEFINE e == [y EXCEPT !.hb = x.lb - 1]
    <2>1. CASE y.lb < x.lb
        <3>1. e \in Interval /\ e.lb = y.lb /\ e.hb = x.lb - 1
            BY <1>1, <1>2, <2>1 DEF Interval, Position
        <3>2. t = <<e>>
            BY <1>2, <2>1
        <3> HIDE DEF e
        <3>3. Of(e) = y.lb .. x.lb - 1
            BY <3>1 DEF Of
        <3>4. QED BY <3>1, <3>2, <3>3, OneItem
    <2>2. CASE ~ (y.lb < x.lb)
        <3>1. t = <<>>
            BY <1>2, <2>2
        <3>2. y.lb .. x.lb - 1 = {}
            BY <1>1, <2>2
        <3>3. QED BY <3>1, <3>2, EmptyList
    <2>3. QED BY <2>1, <2>2
<1>3. ASSUME t = (IF y.hb > x.hb THEN <<[y EXCEPT !.lb = x.hb + 1]>> ELSE <<>>), y.lb <= x.hb
      PROVE  t \in Lists /\ Covered(t) = x.hb + 1 .. y.hb
    <2> DEFINE e == [y EXCEPT !.lb = x.hb + 1]
    <2>1. CASE y.hb > x.hb
        <3>1. e \in Interval /\ e.lb = x.hb + 1 /\ e.hb = y.hb
            BY <1>1, <1>3, <2>1 DEF Interval, Position
        <3>2. t = <<e>>
            BY <1>3, <2>1
        <3> HIDE DEF e
        <3>3. Of(e) = x.hb + 1 .. y.hb
            BY <3>1 DEF Of
        <3>4. QED BY <3>1, <3>2, <3>3, OneItem
    <2>2. CASE ~ (y.hb > x.hb)
        <3>1. t = <<>>
            BY <1>3, <2>2
        <3>2. x.hb + 1 .. y.hb = {}
            BY <1>1, <2>2
        <3>3. QED BY <3>1, <3>2, EmptyList
    <2>3. QED BY <2>1, <2>2
<1>4. QED BY <1>2, <1>3

\* Both bounds in one block, or between two.
LEMMA RemoveInsideIs ==
    ASSUME NEW l \in Lists, NEW x \in Interval, NEW index \in Nat, NEW b, b = index \div 2,
           LowAt(l, x.lb, b, index % 2 = 1), HighAt(l, x.hb, b, index % 2 = 1),
           NEW r, r = RemoveInside(l, index, x)
    PROVE  r \in Lists /\ Covered(r) = Covered(l) \ Of(x)
<1> DEFINE n == Len(l)
<1>1. l \in Seq(Interval) /\ n \in Nat /\ b \in Nat /\ b <= n - 1 /\ index % 2 \in {0, 1}
      /\ b + 1 \in 1 .. n
    BY Halves DEF Lists, LowAt
<1>2. \A i \in 1 .. n : /\ l[i].lb \in Int /\ l[i].hb \in Int /\ l[i].lb <= l[i].hb
                        /\ l[i] \in Interval
    BY <1>1, ItemIs
<1>3. x.lb \in Int /\ x.hb \in Int /\ x.lb <= x.hb
    BY IntervalIs
<1>4. \A i \in 1 .. b : l[i].hb < x.lb
    BY DEF LowAt
<1>5. \A i \in b + 2 .. n : x.hb < l[i].lb
    BY DEF HighAt
<1>6. CASE index % 2 = 0
    <2>1. r = l
        BY <1>6 DEF RemoveInside
    <2>2. x.hb < l[b + 1].lb
        BY <1>1, <1>6 DEF HighAt
    <2>3. ASSUME NEW i \in 1 .. n PROVE Of(l[i]) \cap Of(x) = {}
        <3>1. CASE i \in 1 .. b
            BY <1>2, <1>3, <1>4, <3>1 DEF Of
        <3>2. CASE i = b + 1
            BY <1>2, <1>3, <2>2, <3>2 DEF Of
        <3>3. CASE i \in b + 2 .. n
            BY <1>2, <1>3, <1>5, <3>3 DEF Of
        <3>4. i \in 1 .. b \/ i = b + 1 \/ i \in b + 2 .. n
            BY <1>1
        <3>5. QED BY <3>1, <3>2, <3>3, <3>4
    <2>4. \A p : p \in Covered(l) <=> \E i \in 1 .. n : p \in Of(l[i])
        BY <1>1, CoveredIs
    <2>5. Covered(l) \cap Of(x) = {}
        BY <2>3, <2>4
    <2>6. QED BY <2>1, <2>5
<1>7. CASE index % 2 = 1
    <2> DEFINE y == l[b + 1]
               before == IF y.lb < x.lb THEN <<[y EXCEPT !.hb = x.lb - 1]>> ELSE <<>>
               after  == IF y.hb > x.hb THEN <<[y EXCEPT !.lb = x.hb + 1]>> ELSE <<>>
               first  == SubSeq(l, 1, b)
               rest   == SubSeq(l, b + 2, n)
    <2>1. r = ((first \o before) \o after) \o rest
        <3>1. index \div 2 + 1 = b + 1 /\ (b + 1) - 1 = b /\ (b + 1) + 1 = b + 2
            BY <1>1
        <3> DEFINE idx == index \div 2 + 1
        <3>2. ~ (index % 2 = 0)
            BY <1>7
        <3>3. r = SubSeq(l, 1, idx - 1) \o (IF l[idx].lb < x.lb THEN <<[l[idx] EXCEPT !.hb = x.lb - 1]>> ELSE <<>>)
                  \o (IF l[idx].hb > x.hb THEN <<[l[idx] EXCEPT !.lb = x.hb + 1]>> ELSE <<>>)
                  \o SubSeq(l, idx + 1, Len(l))
            BY <3>2 DEF RemoveInside
        <3> HIDE DEF idx
        <3>4. idx = b + 1 /\ idx - 1 = b /\ idx + 1 = b + 2
            BY <3>1 DEF idx
        <3>5. QED BY <3>3, <3>4
    <2>2. y \in Interval /\ y.lb <= x.lb /\ x.lb <= y.hb /\ y.lb <= x.hb /\ x.hb <= y.hb
        BY <1>1, <1>2, <1>7 DEF LowAt, HighAt
    <2>3. y.lb \in Int /\ y.hb \in Int
        BY <1>1, <1>2
    <2>4. before \in Lists /\ Covered(before) = y.lb .. x.lb - 1
        <3> HIDE DEF y
        <3>1. QED BY <2>2, Remnant
    <2>5. after \in Lists /\ Covered(after) = x.hb + 1 .. y.hb
        <3> HIDE DEF y
        <3>1. QED BY <2>2, Remnant
    <2>6. first \in Lists /\ Covered(first) = Upto(l, 1, b)
        <3>1. 1 \in Nat \ {0} /\ b \in Nat /\ b <= Len(l)
            BY <1>1
        <3>2. QED BY <3>1, Piece
    <2>7. rest \in Lists /\ Covered(rest) = Upto(l, b + 2, n)
        BY <1>1, Piece
    <2>8. \A p \in Covered(first) : p \in Int /\ p < y.lb - 1
        <3>1. ASSUME NEW i \in 1 .. b, NEW p \in Of(l[i]) PROVE p \in Int /\ p < y.lb - 1
            <4>1. i \in 1 .. n /\ i < b + 1
                BY <1>1
            <4>2. l[i].hb + 1 < y.lb /\ l[i].lb \in Int /\ l[i].hb \in Int
                BY <1>1, <1>2, <4>1, Spread
            <4> HIDE DEF y
            <4>3. QED BY <2>3, <4>2 DEF Of
        <3> HIDE DEF y, first
        <3>2. QED BY <2>6, <3>1 DEF Upto
    <2>9. \A p \in Covered(rest) : p \in Int /\ p > y.hb + 1
        <3>1. ASSUME NEW i \in b + 2 .. n, NEW p \in Of(l[i]) PROVE p \in Int /\ p > y.hb + 1
            <4>1. i \in 1 .. n /\ b + 1 < i
                BY <1>1
            <4>2. y.hb + 1 < l[i].lb /\ l[i].lb \in Int /\ l[i].hb \in Int
                BY <1>1, <1>2, <4>1, Spread
            <4> HIDE DEF y
            <4>3. QED BY <2>3, <4>2 DEF Of
        <3> HIDE DEF y, rest
        <3>2. QED BY <2>7, <3>1 DEF Upto
    <2> DEFINE one == first \o before
               two == one \o after
               three == two \o rest
    <2>10. Covered(l) = Covered(first) \cup Of(y) \cup Covered(rest)
        <3>1. \A p : p \in Covered(l) <=> \E i \in 1 .. n : p \in Of(l[i])
            BY <1>1, CoveredIs
        <3>2. 1 .. n = (1 .. b) \cup {b + 1} \cup (b + 2 .. n)
            BY <1>1
        <3> HIDE DEF first, rest
        <3>3. QED BY <2>6, <2>7, <3>1, <3>2 DEF Upto
    <2>11. r = three
        BY <2>1
    <2> HIDE DEF y, before, after, first, rest
    <2>12. one \in Lists /\ Covered(one) = Covered(first) \cup (y.lb .. x.lb - 1)
        <3>1. y.lb - 1 \in Int /\ \A p \in Covered(first) : p < y.lb - 1
            BY <2>3, <2>8
        <3>2. \A p \in Covered(before) : y.lb - 1 < p
            BY <1>3, <2>3, <2>4
        <3>3. QED BY <2>4, <2>6, <3>1, <3>2, JoinedAt
    <2> HIDE DEF one
    <2>13. two \in Lists /\ Covered(two) = Covered(first) \cup (y.lb .. x.lb - 1) \cup (x.hb + 1 .. y.hb)
        <3>1. \A p \in Covered(one) : p < x.lb
            <4>1. \A p \in Covered(first) : p < x.lb
                BY <1>3, <2>2, <2>3, <2>8
            <4>2. \A p \in y.lb .. x.lb - 1 : p < x.lb
                BY <1>3, <2>3
            <4>3. QED BY <2>12, <4>1, <4>2
        <3>2. \A p \in Covered(after) : x.lb < p
            BY <1>3, <2>3, <2>5
        <3>3. QED BY <1>3, <2>5, <2>12, <3>1, <3>2, JoinedAt
    <2> HIDE DEF two
    <2>14. three \in Lists /\ Covered(three) = Covered(two) \cup Covered(rest)
        <3>1. y.hb + 1 \in Int /\ \A p \in Covered(rest) : y.hb + 1 < p
            BY <2>3, <2>9
        <3>2. \A p \in Covered(two) : p < y.hb + 1
            <4>1. \A p \in Covered(first) : p < y.hb + 1
                BY <1>3, <2>2, <2>3, <2>8
            <4>2. \A p \in y.lb .. x.lb - 1 : p < y.hb + 1
                BY <1>3, <2>2, <2>3
            <4>3. \A p \in x.hb + 1 .. y.hb : p < y.hb + 1
                BY <1>3, <2>3
            <4>4. QED BY <2>13, <4>1, <4>2, <4>3
        <3>3. QED BY <2>7, <2>13, <3>1, <3>2, JoinedAt
    <2> HIDE DEF three
    <2>15. Of(y) \ Of(x) = (y.lb .. x.lb - 1) \cup (x.hb + 1 .. y.hb)
        BY <1>3, <2>2, <2>3 DEF Of
    <2>16. Covered(first) \cap Of(x) = {} /\ Covered(rest) \cap Of(x) = {}
        <3>1. ASSUME NEW p \in Covered(first) PROVE p \notin Of(x)
            BY <1>3, <2>2, <2>3, <2>8 DEF Of
        <3>2. ASSUME NEW p \in Covered(rest) PROVE p \notin Of(x)
            BY <1>3, <2>2, <2>3, <2>9 DEF Of
        <3>3. QED BY <3>1, <3>2
    <2>17. QED BY <2>10, <2>11, <2>13, <2>14, <2>15, <2>16
<1>8. QED BY <1>1, <1>6, <1>7

\* A list without some successive items.
LEMMA Dropped ==
    ASSUME NEW l \in Lists, NEW a \in 1 .. Len(l) + 1, NEW b \in 0 .. Len(l), a <= b + 1,
           NEW r, r = SubSeq(l, 1, a - 1) \o SubSeq(l, b + 1, Len(l))
    PROVE  r \in Lists /\ Covered(r) = Upto(l, 1, a - 1) \cup Upto(l, b + 1, Len(l))
<1> DEFINE n == Len(l)
           s == SubSeq(l, 1, a - 1)
           t == SubSeq(l, b + 1, n)
<1>1. l \in Seq(Interval) /\ n \in Nat /\ a \in Int /\ b \in Int
    BY DEF Lists
<1>2. s \in Lists /\ Covered(s) = Upto(l, 1, a - 1) /\ t \in Lists /\ Covered(t) = Upto(l, b + 1, n)
    <2>1. a - 1 \in Nat /\ a - 1 <= n /\ b + 1 \in Nat \ {0} /\ 1 \in Nat \ {0}
        BY <1>1
    <2>2. s \in Lists /\ Covered(s) = Upto(l, 1, a - 1)
        BY <2>1, Piece
    <2>3. t \in Lists /\ Covered(t) = Upto(l, b + 1, n)
        BY <1>1, <2>1, Piece
    <2>4. QED BY <2>2, <2>3
<1> HIDE DEF s, t
<1>3. r = s \o t
    BY DEF s, t
<1>4. CASE a - 1 = 0
    <2>1. Covered(s) = {}
        BY <1>2, <1>4, UptoIs
    <2>2. \A p \in Covered(t) : p \in Int /\ p >= 0
        <3>1. ASSUME NEW i \in b + 1 .. n, NEW p \in Of(l[i]) PROVE p \in Int /\ p >= 0
            <4>1. i \in 1 .. n
                BY <1>1
            <4>2. QED BY <1>1, <4>1, ItemIs DEF Of
        <3>2. QED BY <1>2, <3>1 DEF Upto
    <2> DEFINE k == 0 - 1
    <2>3. k \in Int /\ \A p \in Covered(t) : k < p
        BY <2>2
    <2> HIDE DEF k
    <2>4. \A p \in Covered(s) : p < k
        BY <2>1
    <2>5. s \o t \in Lists /\ Covered(s \o t) = Covered(s) \cup Covered(t)
        BY <1>2, <2>3, <2>4, JoinedAt
    <2>6. QED BY <1>2, <1>3, <2>5
<1>5. CASE a - 1 > 0
    <2> DEFINE k == l[a - 1].hb + 1
    <2>1. a - 1 \in 1 .. n
        BY <1>1, <1>5
    <2>2. k \in Int /\ l[a - 1].hb \in Int
        BY <1>1, <2>1, ItemIs
    <2>3. \A p \in Covered(s) : p < k
        <3>1. ASSUME NEW i \in 1 .. a - 1, NEW p \in Of(l[i]) PROVE p < k
            <4>1. i \in 1 .. n /\ i <= a - 1
                BY <1>1
            <4>2. l[i].hb <= l[a - 1].hb
                BY <2>1, <4>1, Order
            <4>3. l[i].lb \in Int /\ l[i].hb \in Int
                BY <1>1, <4>1, ItemIs
            <4>4. QED BY <2>2, <4>2, <4>3 DEF Of
        <3> HIDE DEF k
        <3>2. QED BY <1>2, <3>1 DEF Upto
    <2>4. \A p \in Covered(t) : k < p
        <3>1. ASSUME NEW i \in b + 1 .. n, NEW p \in Of(l[i]) PROVE k < p
            <4>1. i \in 1 .. n /\ a - 1 < i
                BY <1>1
            <4>2. k < l[i].lb
                BY <2>1, <4>1, Spread
            <4>3. l[i].lb \in Int /\ l[i].hb \in Int
                BY <1>1, <4>1, ItemIs
            <4> HIDE DEF k
            <4>4. QED BY <2>2, <4>2, <4>3 DEF Of
        <3> HIDE DEF k
        <3>2. QED BY <1>2, <3>1 DEF Upto
    <2> HIDE DEF k
    <2>5. QED BY ZenonT(40), <1>2, <1>3, <2>2, <2>3, <2>4, JoinedAt
<1>6. QED BY <1>1, <1>4, <1>5
\* Lists of the same blocks or smaller ones.
LEMMA Shrunk ==
    ASSUME NEW l \in Lists, NEW cut, DOMAIN cut = DOMAIN l,
           cut \in [1 .. Len(l) -> Interval],
           \A i \in 1 .. Len(l) : l[i].lb <= cut[i].lb /\ cut[i].hb <= l[i].hb
    PROVE  cut \in Lists /\ Len(cut) = Len(l)
<1> DEFINE n == Len(l)
<1>1. l \in Seq(Interval) /\ n \in Nat
    BY DEF Lists
<1>2. cut \in Seq(Interval) /\ Len(cut) = n
    BY <1>1
<1>3. ASSUME NEW i \in 1 .. Len(cut), NEW j \in 1 .. Len(cut), i < j PROVE cut[i].hb + 1 < cut[j].lb
    <2>1. i \in 1 .. n /\ j \in 1 .. n
        BY <1>2
    <2>2. l[i].hb + 1 < l[j].lb /\ cut[i].hb <= l[i].hb /\ l[j].lb <= cut[j].lb
        BY <1>3, <2>1, Spread
    <2>3. l[i].hb \in Int /\ l[j].lb \in Int /\ cut[i].hb \in Int /\ cut[j].lb \in Int
        BY <1>1, <1>2, <2>1, ItemIs
    <2>4. \A u, v, w, z \in Int : u + 1 < v /\ w <= u /\ v <= z => w + 1 < z
        OBVIOUS
    <2>5. QED BY <2>2, <2>3, <2>4
<1>4. QED BY <1>2, <1>3, ApartIsNormalised

\* The blocks at both ends, once cut.
CutEnds(l, low, high, x) ==
    [i \in DOMAIN l |->
        IF (low % 2 = 1 /\ Block(l, low).lb # x.lb) /\ i = low \div 2 + 1
        THEN [l[i] EXCEPT !.hb = x.lb - 1]
        ELSE IF (high % 2 = 1 /\ Block(l, high).hb # x.hb) /\ i = high \div 2 + 1
        THEN [l[i] EXCEPT !.lb = x.hb + 1]
        ELSE l[i]]

FirstDeleted(l, low, x) ==
    (low \div 2) + (IF low % 2 = 1 /\ Block(l, low).lb # x.lb THEN 2 ELSE 1)

LastDeleted(l, high, x) ==
    (high \div 2) + (IF high % 2 = 1 /\ ~ (high % 2 = 1 /\ Block(l, high).hb # x.hb) THEN 1 ELSE 0)

LEMMA RemoveAcrossIs ==
    ASSUME NEW l \in Lists, NEW x \in Interval, NEW low \in Nat, NEW high \in Nat, low # high,
           LowAt(l, x.lb, low \div 2, low % 2 = 1), HighAt(l, x.hb, high \div 2, high % 2 = 1),
           NEW r, r = RemoveAcross(l, low, high, x)
    PROVE  r \in Lists /\ Covered(r) = Covered(l) \ Of(x)
<1> DEFINE n == Len(l)
           b == low \div 2
           c == high \div 2
           inLow == low % 2 = 1
           inHigh == high % 2 = 1
           cutLow == inLow /\ l[b + 1].lb # x.lb
           cutHigh == inHigh /\ l[c + 1].hb # x.hb
           cut == CutEnds(l, low, high, x)
           first == FirstDeleted(l, low, x)
           last == LastDeleted(l, high, x)
<1>1. r = IF last >= first THEN SubSeq(cut, 1, first - 1) \o SubSeq(cut, last + 1, Len(l)) ELSE cut
    BY DEF RemoveAcross, CutEnds, FirstDeleted, LastDeleted
<1>2. cut = [i \in DOMAIN l |-> IF cutLow /\ i = b + 1 THEN [l[i] EXCEPT !.hb = x.lb - 1]
                                ELSE IF cutHigh /\ i = c + 1 THEN [l[i] EXCEPT !.lb = x.hb + 1]
                                ELSE l[i]]
    BY DEF CutEnds, Block
<1>3. first = b + (IF cutLow THEN 2 ELSE 1) /\ last = c + (IF inHigh /\ ~ cutHigh THEN 1 ELSE 0)
    BY DEF FirstDeleted, LastDeleted, Block
<1>4. /\ low % 2 \in {0, 1} /\ high % 2 \in {0, 1} /\ b \in Nat /\ c \in Nat
      /\ low = 2 * b + (low % 2) /\ high = 2 * c + (high % 2)
    BY Halves
<1>5. ~ (b = c /\ inLow /\ inHigh) /\ ~ (b = c /\ ~ inLow /\ ~ inHigh)
    BY <1>4
<1>6. l \in Seq(Interval) /\ n \in Nat /\ DOMAIN l = 1 .. n /\ b <= n - 1 /\ c <= n /\ b + 1 \in 1 .. n
    <2>1. l \in Seq(Interval) /\ n \in Nat /\ DOMAIN l = 1 .. n
        BY DEF Lists
    <2>2. b \in 0 .. n - 1 /\ c \in 0 .. n
        BY DEF LowAt, HighAt
    <2> HIDE DEF n, b, c
    <2>3. b <= n - 1 /\ c <= n /\ b + 1 \in 1 .. n
        BY <2>1, <2>2
    <2>4. QED BY <2>1, <2>3
<1>7. \A i \in 1 .. n : /\ l[i].lb \in Int /\ l[i].hb \in Int /\ l[i].lb <= l[i].hb
                        /\ l[i] \in Interval
    BY <1>6, ItemIs
<1>8. x.lb \in Int /\ x.hb \in Int /\ x.lb <= x.hb
    BY IntervalIs
<1>9. \A i \in 1 .. b : l[i].hb < x.lb
    BY DEF LowAt
<1>10. \A i \in b + 2 .. n : x.lb < l[i].lb
    BY DEF LowAt
<1>11. IF inLow THEN l[b + 1].lb <= x.lb /\ x.lb <= l[b + 1].hb ELSE x.lb < l[b + 1].lb
    BY DEF LowAt
<1>12. \A i \in 1 .. c : l[i].hb < x.hb
    BY DEF HighAt
<1>13. \A i \in c + 2 .. n : x.hb < l[i].lb
    BY DEF HighAt
<1>14. IF inHigh THEN c < n /\ l[c + 1].lb <= x.hb /\ x.hb <= l[c + 1].hb
                 ELSE c < n => x.hb < l[c + 1].lb
    BY DEF HighAt
<1> HIDE DEF n, b, c, inLow, inHigh, cut, first, last
<1>15. b <= c
    <2> SUFFICES ASSUME c < b PROVE FALSE
        BY <1>4
    <2>1. c + 1 \in 1 .. b /\ c + 1 \in 1 .. n /\ c < n
        BY <1>4, <1>6
    <2>2. l[c + 1].hb < x.lb
        BY <1>9, <2>1
    <2>3. l[c + 1].lb \in Int /\ l[c + 1].hb \in Int /\ l[c + 1].lb <= l[c + 1].hb
        BY <1>7, <2>1
    <2>4. CASE inHigh
        BY <1>8, <1>14, <2>2, <2>3, <2>4
    <2>5. CASE ~ inHigh
        <3>1. x.hb < l[c + 1].lb
            BY <1>14, <2>1, <2>5
        <3>2. QED BY <1>8, <2>2, <2>3, <3>1
    <2>6. QED BY <2>4, <2>5
<1>16. cutLow => b < c
    <2> SUFFICES ASSUME cutLow, b = c PROVE FALSE
        BY <1>4, <1>15
    <2>1. ~ inHigh /\ b < n
        BY <1>5, <1>4, <1>6
    <2>2. x.hb < l[b + 1].lb /\ l[b + 1].lb <= x.lb
        BY <1>11, <1>14, <2>1
    <2>3. l[b + 1].lb \in Int
        BY <1>6, <1>7
    <2>4. QED BY <1>8, <2>2, <2>3
<1>17. cutHigh => c + 1 \in 1 .. n /\ x.lb < l[c + 1].lb
    <2> SUFFICES ASSUME cutHigh PROVE c + 1 \in 1 .. n /\ x.lb < l[c + 1].lb
        OBVIOUS
    <2>1. c + 1 \in 1 .. n
        BY <1>4, <1>6, <1>14
    <2>2. CASE b = c
        BY <1>5, <1>11, <2>1, <2>2
    <2>3. CASE b < c
        <3>1. c + 1 \in b + 2 .. n
            BY <1>4, <1>6, <2>1, <2>3
        <3>2. QED BY <1>10, <2>1, <3>1
    <2>4. b = c \/ b < c
        BY <1>4, <1>15
    <2>5. QED BY <2>2, <2>3, <2>4
<1>18. inHigh => c + 1 <= n
    BY <1>4, <1>6, <1>14
<1>19. first \in 1 .. n + 1 /\ last \in 0 .. n /\ first <= last + 1
    <2>1. first \in {b + 1, b + 2} /\ (first = b + 2 => cutLow) /\ (cutLow => first = b + 2)
        <3> HIDE DEF cutLow
        <3>1. cutLow \/ ~ cutLow
            OBVIOUS
        <3>2. cutLow => first = b + 2
            BY <1>3
        <3>3. ~ cutLow => first = b + 1
            BY <1>3
        <3>4. b + 1 # b + 2
            BY <1>4
        <3>5. QED BY <3>1, <3>2, <3>3, <3>4
    <2>2. last \in {c, c + 1} /\ (last = c + 1 => inHigh /\ ~ cutHigh)
        BY <1>3, <1>4
    <2> HIDE DEF cutLow, cutHigh
    <2>3. QED BY <1>4, <1>6, <1>15, <1>16, <1>18, <2>1, <2>2
\* One block after the other.
<1> DEFINE Is(i) == /\ cut[i] \in Interval /\ l[i].lb <= cut[i].lb /\ cut[i].hb <= l[i].hb
                    /\ IF i \in first .. last THEN Of(l[i]) \subseteq Of(x)
                                              ELSE Of(cut[i]) = Of(l[i]) \ Of(x)
<1>20. ASSUME NEW i \in 1 .. b PROVE Is(i)
    <2>1. i \in 1 .. n /\ i # b + 1 /\ i # c + 1 /\ i < b + 1
        BY <1>4, <1>6, <1>15
    <2>2. i \notin first .. last
        BY <1>3, <1>4, <2>1
    <2>3. cut[i] = l[i]
        BY <1>2, <1>6, <2>1
    <2>4. l[i].hb < x.lb
        BY <1>9
    <2>5. Of(l[i]) = Of(l[i]) \ Of(x)
        BY <1>7, <1>8, <2>1, <2>4 DEF Of
    <2>6. QED BY <1>7, <2>1, <2>2, <2>3, <2>5
<1>21. Is(b + 1)
    <2> DEFINE i == b + 1
               y == l[b + 1]
    <2>1. i \in 1 .. n /\ y \in Interval /\ y.lb \in Int /\ y.hb \in Int /\ y.lb <= y.hb
        BY <1>6, <1>7
    <2>2. CASE cutLow
        <3>1. first = b + 2 /\ i \notin first .. last
            BY <1>3, <1>4, <2>2
        <3> DEFINE e == [y EXCEPT !.hb = x.lb - 1]
        <3>2. cut[i] = e
            BY <1>2, <1>6, <2>1, <2>2
        <3>3. y.lb < x.lb /\ x.lb <= y.hb
            BY <1>8, <1>11, <2>1, <2>2
        <3>4. y.hb < x.hb
            <4>1. i \in 1 .. c
                BY <1>4, <1>16, <2>2
            <4>2. QED BY <1>12, <4>1
        <3>5. e \in Interval /\ e.lb = y.lb /\ e.hb = x.lb - 1
            <4>1. x.lb - 1 \in Position
                BY <1>8, <2>1, <3>3, IntervalIs, MaxPosAssumption DEF Position
            <4> HIDE DEF y
            <4>2. QED BY <1>8, <2>1, <3>3, <4>1 DEF Interval
        <3> HIDE DEF e, y
        <3>6. Of(e) = Of(y) \ Of(x)
            BY <1>8, <2>1, <3>3, <3>4, <3>5 DEF Of
        <3>7. e.lb >= y.lb /\ e.hb <= y.hb
            BY <1>8, <2>1, <3>3, <3>5
        <3> HIDE DEF i
        <3>8. QED BY <3>1, <3>2, <3>5, <3>6, <3>7, <2>1 DEF i, y
    <2>3. CASE ~ cutLow /\ b < c
        <3>1. cut[i] = y
            <4>1. i # c + 1
                BY <1>4, <2>3
            <4>2. QED BY <1>2, <1>6, <2>1, <2>3, <4>1
        <3>2. i \in first .. last
            BY <1>3, <1>4, <2>3
        <3>3. x.lb <= y.lb
            BY <1>8, <1>11, <2>1, <2>3
        <3>4. y.hb < x.hb
            <4>1. i \in 1 .. c
                BY <1>4, <2>3
            <4>2. QED BY <1>12, <4>1
        <3>5. Of(y) \subseteq Of(x)
            <4> HIDE DEF y
            <4>1. QED BY <1>8, <2>1, <3>3, <3>4 DEF Of
        <3>6. QED BY <2>1, <3>1, <3>2, <3>5
    <2>4. CASE b = c /\ inLow
        <3>1. ~ inHigh /\ c < n
            BY <1>4, <1>5, <1>6, <2>4
        <3>2. x.hb < y.lb /\ y.lb <= x.lb
            BY <1>11, <1>14, <2>4, <3>1
        <3>3. QED BY <1>8, <2>1, <3>2
    <2>5. CASE b = c /\ ~ inLow /\ cutHigh
        <3>1. first = b + 1 /\ last = c /\ i \notin first .. last
            BY <1>3, <1>4, <2>5
        <3> DEFINE e == [y EXCEPT !.lb = x.hb + 1]
        <3>2. cut[i] = e
            BY <1>2, <1>6, <2>1, <2>5
        <3>3. y.lb <= x.hb /\ x.hb < y.hb /\ x.lb < y.lb
            BY <1>8, <1>11, <1>14, <2>1, <2>5
        <3>4. e \in Interval /\ e.lb = x.hb + 1 /\ e.hb = y.hb
            <4>1. x.hb + 1 \in Position
                BY <1>8, <2>1, <3>3, IntervalIs, MaxPosAssumption DEF Position
            <4> HIDE DEF y
            <4>2. QED BY <1>8, <2>1, <3>3, <4>1 DEF Interval
        <3> HIDE DEF e, y
        <3>5. Of(e) = Of(y) \ Of(x)
            BY <1>8, <2>1, <3>3, <3>4 DEF Of
        <3>6. e.lb >= y.lb /\ e.hb <= y.hb
            BY <1>8, <2>1, <3>3, <3>4
        <3> HIDE DEF i
        <3>7. QED BY <3>1, <3>2, <3>4, <3>5, <3>6, <2>1 DEF i, y
    <2>6. CASE b = c /\ ~ inLow /\ ~ cutHigh
        <3>1. inHigh
            BY <1>5, <2>6
        <3>2. first = b + 1 /\ last = c + 1 /\ i \in first .. last
            BY <1>3, <1>4, <2>6, <3>1
        <3>3. cut[i] = y
            BY <1>2, <1>6, <2>1, <2>6
        <3>4. x.lb < y.lb /\ y.hb = x.hb
            BY <1>11, <2>6, <3>1
        <3>5. Of(y) \subseteq Of(x)
            <4> HIDE DEF y
            <4>1. QED BY <1>8, <2>1, <3>4 DEF Of
        <3>6. QED BY <2>1, <3>2, <3>3, <3>5
    <2>7. b = c \/ b < c
        BY <1>4, <1>15
    <2> HIDE DEF Is, i, y, cutLow, cutHigh
    <2>8. QED BY <1>16, <2>2, <2>3, <2>4, <2>5, <2>6, <2>7
<1>22. ASSUME NEW i \in b + 2 .. c PROVE Is(i)
    <2>1. i \in 1 .. n /\ i # b + 1 /\ i # c + 1 /\ i \in b + 2 .. n /\ i \in 1 .. c
        BY <1>4, <1>6
    <2>2. i \in first .. last
        BY <1>3, <1>4, <2>1
    <2>3. cut[i] = l[i]
        BY <1>2, <1>6, <2>1
    <2>4. x.lb < l[i].lb /\ l[i].hb < x.hb
        BY <1>10, <1>12, <2>1
    <2>5. Of(l[i]) \subseteq Of(x)
        BY <1>7, <1>8, <2>1, <2>4 DEF Of
    <2>6. QED BY <1>7, <2>1, <2>2, <2>3, <2>5
<1>23. ASSUME b < c, c < n PROVE Is(c + 1)
    <2> DEFINE i == c + 1
               y == l[c + 1]
    <2>1. i \in 1 .. n /\ i # b + 1 /\ i \in b + 2 .. n
        BY <1>4, <1>6, <1>23
    <2>2. y \in Interval /\ y.lb \in Int /\ y.hb \in Int /\ y.lb <= y.hb /\ x.lb < y.lb
        BY <1>7, <1>10, <2>1
    <2>3. CASE cutHigh
        <3>1. last = c /\ i \notin first .. last
            BY <1>3, <1>4, <2>3
        <3> DEFINE e == [y EXCEPT !.lb = x.hb + 1]
        <3>2. cut[i] = e
            BY <1>2, <1>6, <2>1, <2>3
        <3>3. y.lb <= x.hb /\ x.hb < y.hb
            BY <1>8, <1>14, <2>2, <2>3
        <3>4. e \in Interval /\ e.lb = x.hb + 1 /\ e.hb = y.hb
            <4>1. x.hb + 1 \in Position
                BY <1>8, <2>2, <3>3, IntervalIs, MaxPosAssumption DEF Position
            <4> HIDE DEF y
            <4>2. QED BY <1>8, <2>2, <3>3, <4>1 DEF Interval
        <3> HIDE DEF e, y
        <3>5. Of(e) = Of(y) \ Of(x)
            BY <1>8, <2>2, <3>3, <3>4 DEF Of
        <3>6. e.lb >= y.lb /\ e.hb <= y.hb
            BY <1>8, <2>2, <3>3, <3>4
        <3> HIDE DEF i
        <3>7. QED BY <3>1, <3>2, <3>4, <3>5, <3>6, <2>2 DEF i, y
    <2>4. CASE inHigh /\ ~ cutHigh
        <3>1. last = c + 1 /\ i \in first .. last
            BY <1>3, <1>4, <1>23, <2>4
        <3>2. cut[i] = y
            BY <1>2, <1>6, <2>1, <2>4
        <3>3. y.hb = x.hb
            BY <2>4
        <3>4. Of(y) \subseteq Of(x)
            <4> HIDE DEF y
            <4>1. QED BY <1>8, <2>2, <3>3 DEF Of
        <3>5. QED BY <2>2, <3>1, <3>2, <3>4
    <2>5. CASE ~ inHigh
        <3>1. last = c /\ i \notin first .. last
            BY <1>3, <1>4, <2>5
        <3>2. cut[i] = y
            BY <1>2, <1>6, <2>1, <2>5
        <3>3. x.hb < y.lb
            BY <1>14, <1>23, <2>5
        <3>4. Of(y) = Of(y) \ Of(x)
            <4> HIDE DEF y
            <4>1. QED BY <1>8, <2>2, <3>3 DEF Of
        <3>5. QED BY <2>2, <3>1, <3>2, <3>4
    <2>6. QED BY <2>3, <2>4, <2>5
<1>24. ASSUME NEW i \in c + 2 .. n PROVE Is(i)
    <2>1. i \in 1 .. n /\ i # b + 1 /\ i # c + 1
        BY <1>4, <1>6, <1>15
    <2>2. i \notin first .. last
        BY <1>3, <1>4, <2>1
    <2>3. cut[i] = l[i]
        BY <1>2, <1>6, <2>1
    <2>4. x.hb < l[i].lb
        BY <1>13
    <2>5. Of(l[i]) = Of(l[i]) \ Of(x)
        BY <1>7, <1>8, <2>1, <2>4 DEF Of
    <2>6. QED BY <1>7, <2>1, <2>2, <2>3, <2>5
<1>25. ASSUME NEW i \in 1 .. n PROVE Is(i)
    <2>1. i \in 1 .. b \/ i = b + 1 \/ i \in b + 2 .. c \/ (i = c + 1 /\ b < c /\ c < n) \/ i \in c + 2 .. n
        BY <1>4, <1>6, <1>15
    <2> HIDE DEF Is
    <2>2. QED BY <1>20, <1>21, <1>22, <1>23, <1>24, <2>1
<1>26. cut \in Lists /\ Len(cut) = n
    <2>1. DOMAIN cut = DOMAIN l /\ cut \in [1 .. n -> Interval]
        BY <1>2, <1>6, <1>25
    <2>2. \A i \in 1 .. n : l[i].lb <= cut[i].lb /\ cut[i].hb <= l[i].hb
        BY <1>25
    <2>3. QED BY <2>1, <2>2, Shrunk DEF n
<1>27. r \in Lists /\ Covered(r) = Upto(cut, 1, first - 1) \cup Upto(cut, last + 1, n)
    <2>1. CASE last >= first
        <3>1. r = SubSeq(cut, 1, first - 1) \o SubSeq(cut, last + 1, Len(cut))
            BY <1>1, <1>26, <2>1 DEF n
        <3>2. first \in 1 .. Len(cut) + 1 /\ last \in 0 .. Len(cut) /\ first <= last + 1
            BY <1>19, <1>26
        <3>3. QED BY <1>26, <3>1, <3>2, Dropped
    <2>2. CASE ~ (last >= first)
        <3>1. r = cut /\ last + 1 = first
            BY <1>1, <1>6, <1>19, <2>2
        <3>2. 1 .. n = (1 .. first - 1) \cup (last + 1 .. n)
            BY <1>6, <1>19, <3>1
        <3>3. Covered(cut) = Upto(cut, 1, n)
            BY <1>26, UptoIs DEF Lists
        <3>4. Upto(cut, 1, n) = Upto(cut, 1, first - 1) \cup Upto(cut, last + 1, n)
            BY <3>2 DEF Upto
        <3>5. QED BY <1>26, <3>1, <3>3, <3>4
    <2>3. QED BY <2>1, <2>2
<1>28. \A p : p \in Covered(l) <=> \E i \in 1 .. n : p \in Of(l[i])
    BY <1>6, CoveredIs DEF n
<1>29. \A p : p \in Covered(r) <=> \E i \in 1 .. n : i \notin first .. last /\ p \in Of(cut[i])
    <2>1. \A i : i \in 1 .. n /\ i \notin first .. last <=> i \in 1 .. first - 1 \/ i \in last + 1 .. n
        BY <1>6, <1>19
    <2>2. QED BY <1>27, <2>1 DEF Upto
<1>30. \A i \in 1 .. n : IF i \in first .. last THEN Of(l[i]) \subseteq Of(x)
                                               ELSE Of(cut[i]) = Of(l[i]) \ Of(x)
    BY <1>25
<1>31. Covered(r) = Covered(l) \ Of(x)
    <2> HIDE DEF Is
    <2>1. ASSUME NEW p \in Covered(r) PROVE p \in Covered(l) \ Of(x)
        <3>1. PICK i \in 1 .. n : i \notin first .. last /\ p \in Of(cut[i])
            BY <1>29
        <3>2. Of(cut[i]) = Of(l[i]) \ Of(x)
            BY <1>30, <3>1
        <3>3. QED BY <1>28, <3>1, <3>2
    <2>2. ASSUME NEW p \in Covered(l) \ Of(x) PROVE p \in Covered(r)
        <3>1. PICK i \in 1 .. n : p \in Of(l[i])
            BY <1>28
        <3>2. i \notin first .. last
            BY <1>30, <2>2, <3>1
        <3>3. p \in Of(cut[i])
            BY <1>30, <2>2, <3>1, <3>2
        <3>4. QED BY <1>29, <3>2, <3>3
    <2>3. QED BY <2>1, <2>2
<1>32. QED BY <1>27, <1>31

LEMMA RemoveIs ==
    ASSUME NEW l \in Lists, NEW x \in Interval
    PROVE  /\ RemoveInterval(l, x) \in Lists
           /\ Covered(RemoveInterval(l, x)) = Covered(l) \ Of(x)
<1> DEFINE n == Len(l)
           low == LowerIndex(l, x.lb)
           high == HigherIndex(l, x.hb)
           apart == l = <<>> \/ Head(l).lb > x.hb \/ Last(l).hb < x.lb
<1>1. l \in Seq(Interval) /\ n \in Nat
    BY DEF Lists
<1>2. x.lb \in Int /\ x.hb \in Int /\ x.lb <= x.hb
    BY IntervalIs
<1>3. RemoveInterval(l, x) = IF apart THEN l
                             ELSE IF low = high THEN RemoveInside(l, low, x)
                             ELSE RemoveAcross(l, low, high, x)
    BY DEF RemoveInterval
<1>4. CASE apart
    <2>1. ASSUME NEW i \in 1 .. n PROVE Of(l[i]) \cap Of(x) = {}
        <3>1. l # <<>> /\ 1 \in 1 .. n /\ n \in 1 .. n /\ 1 <= i /\ i <= n
            BY <1>1
        <3>2. Head(l) = l[1] /\ Last(l) = l[n]
            BY <1>1, <3>1 DEF Last
        <3>3. l[1].lb <= l[i].lb /\ l[i].hb <= l[n].hb
            BY <3>1, Order
        <3>4. /\ l[1].lb \in Int /\ l[n].hb \in Int /\ l[i].lb \in Int /\ l[i].hb \in Int
            BY <1>1, <3>1, ItemIs
        <3>5. l[1].lb > x.hb \/ l[n].hb < x.lb
            BY <1>4, <3>1, <3>2
        <3>6. x.hb < l[i].lb \/ l[i].hb < x.lb
            BY <1>2, <3>3, <3>4, <3>5
        <3>7. QED BY <1>2, <3>4, <3>6 DEF Of
    <2>2. \A p : p \in Covered(l) <=> \E i \in 1 .. n : p \in Of(l[i])
        BY <1>1, CoveredIs
    <2>3. Covered(l) \ Of(x) = Covered(l)
        BY <2>1, <2>2
    <2>4. QED BY <1>3, <1>4, <2>3
<1>5. CASE ~ apart
    <2>1. l # <<>> /\ 1 \in 1 .. n /\ n \in 1 .. n
        BY <1>1, <1>5
    <2>2. Head(l) = l[1] /\ Last(l) = l[n]
        BY <1>1, <2>1 DEF Last
    <2>3. l[1].lb \in Int /\ l[n].hb \in Int
        BY <1>1, <2>1, ItemIs
    <2>4. l[1].lb <= x.hb /\ x.lb <= l[n].hb
        BY <1>2, <1>5, <2>2, <2>3
    <2>5. low \in Nat /\ LowAt(l, x.lb, low \div 2, low % 2 = 1)
        BY <1>2, <2>1, <2>4, LowerIndexIs
    <2>6. high \in Nat /\ HighAt(l, x.hb, high \div 2, high % 2 = 1)
        BY <1>2, <2>1, <2>4, HigherIndexIs
    <2> HIDE DEF low, high, apart
    <2>7. CASE low = high
        <3>1. RemoveInterval(l, x) = RemoveInside(l, low, x)
            BY <1>3, <1>5, <2>7
        <3>2. HighAt(l, x.hb, low \div 2, low % 2 = 1)
            BY <2>6, <2>7
        <3> DEFINE b == low \div 2
        <3>3. b = low \div 2 /\ LowAt(l, x.lb, b, low % 2 = 1) /\ HighAt(l, x.hb, b, low % 2 = 1)
            BY <2>5, <3>2
        <3> HIDE DEF b
        <3>4. QED BY <2>5, <3>1, <3>3, RemoveInsideIs
    <2>8. CASE low # high
        <3>1. RemoveInterval(l, x) = RemoveAcross(l, low, high, x)
            BY <1>3, <1>5, <2>8
        <3>2. QED BY <2>5, <2>6, <2>8, <3>1, RemoveAcrossIs
    <2>9. QED BY <2>7, <2>8
<1>6. QED BY <1>4, <1>5

LEMMA DifferenceIs ==
    ASSUME NEW l \in Lists, NEW m \in Seq(Interval)
    PROVE  Difference(l, m) \in Lists /\ Covered(Difference(l, m)) = Covered(l) \ Covered(m)
<1> DEFINE n == Len(m)
           G == Removing(m, n)
           Good(i, v) == Covered(v) = Covered(l) \ Upto(m, 1, i)
           Q == {q \in (0 .. n) \X Lists : Good(q[1], q[2])}
<1>1. n \in Nat /\ \A i \in 1 .. n : m[i] \in Interval
    OBVIOUS
<1>2. G \in [(1 .. n) \X Lists -> Lists]
    <2>1. \A q \in (1 .. n) \X Lists : RemoveInterval(q[2], m[q[1]]) \in Lists
        BY <1>1, RemoveIs
    <2>2. QED BY <2>1 DEF Removing
<1>3. PICK f : Chain(f, n, Lists, l, G) /\ Difference(l, m) = f[n]
    BY <1>2, DifferenceIsChain
<1>4. <<0, l>> \in Q
    BY <1>1, UptoIs
<1>5. ASSUME NEW i \in 1 .. n, NEW v \in Lists, <<i - 1, v>> \in Q PROVE <<i, G[<<i, v>>]>> \in Q
    <2>1. i \in 0 .. n /\ i \in Nat \ {0}
        BY <1>1
    <2>2. Covered(v) = Covered(l) \ Upto(m, 1, i - 1)
        BY <1>5
    <2> DEFINE r == RemoveInterval(v, m[i])
    <2>3. r \in Lists /\ Covered(r) = Covered(v) \ Of(m[i])
        BY <1>1, RemoveIs
    <2>4. G[<<i, v>>] = r
        BY DEF Removing
    <2> HIDE DEF r
    <2>5. Good(i, r)
        BY <2>1, <2>2, <2>3, UptoIs
    <2> HIDE DEF Good, G
    <2>6. QED BY <2>1, <2>3, <2>4, <2>5
<1>6. <<n, f[n]>> \in Q
    <2> HIDE DEF Q, G
    <2>1. Q \in SUBSET ((0 .. n) \X Lists)
        BY DEF Q
    <2>2. QED BY <1>1, <1>3, <1>4, <1>5, <2>1, ChainInduction
<1>7. QED BY <1>3, <1>6, UptoIs
-----------------------------------------------------------------------------
(* What holds of the lists.                                                *)

LEMMA ListsAreNormalised == \A l : l \in Lists <=> Normalised(l)
BY DEF Lists, Normalised

\* What a step does to the two lists, and to what they cover.
LEMMA StepIs ==
    ASSUME BothNormalised, Next
    PROVE  BothNormalised' /\ Abstract!Next
<1>1. list \in Lists /\ other \in Lists /\ list \in Seq(Interval) /\ other \in Seq(Interval)
    BY ListsAreNormalised DEF BothNormalised, Lists
<1>2. ASSUME NEW x \in Interval, AddOne(x) \/ RemoveOne(x)
      PROVE  BothNormalised' /\ Abstract!Next
    <2>1. x.lb \in 0 .. MaxPos /\ x.hb \in x.lb .. MaxPos /\ Of(x) = x.lb .. x.hb
        BY IntervalIs, MaxPosAssumption DEF Position, Of
    <2>2. \A S, T : T \in {S \cup Of(x), S \ Of(x)} => Abstract!Change(S, T)
        BY <2>1 DEF Abstract!Change, Abstract!Position
    <2>3. CASE list' \in {AddInterval(list, x), RemoveInterval(list, x)} /\ UNCHANGED other
        <3>1. list' \in Lists /\ other' = other
              /\ Covered(list') \in {Covered(list) \cup Of(x), Covered(list) \ Of(x)}
            BY <1>1, <2>3, AddIs, RemoveIs
        <3>2. BothNormalised'
            BY <1>1, <3>1, ListsAreNormalised DEF BothNormalised
        <3>3. Abstract!Change(Covered(list), Covered(list')) /\ Covered(other') = Covered(other)
            BY <2>2, <3>1
        <3>4. QED BY <3>2, <3>3 DEF Abstract!Next
    <2>4. CASE other' \in {AddInterval(other, x), RemoveInterval(other, x)} /\ UNCHANGED list
        <3>1. other' \in Lists /\ list' = list
              /\ Covered(other') \in {Covered(other) \cup Of(x), Covered(other) \ Of(x)}
            BY <1>1, <2>4, AddIs, RemoveIs
        <3>2. BothNormalised'
            BY <1>1, <3>1, ListsAreNormalised DEF BothNormalised
        <3>3. Abstract!Change(Covered(other), Covered(other')) /\ Covered(list') = Covered(list)
            BY <2>2, <3>1
        <3>4. QED BY <3>2, <3>3 DEF Abstract!Next
    <2>5. QED BY <1>2, <2>3, <2>4 DEF AddOne, RemoveOne
<1>3. CASE AddAll \/ RemoveAll
    <2>1. list' \in Lists /\ other' = other
          /\ Covered(list') \in {Covered(list) \cup Covered(other), Covered(list) \ Covered(other)}
        BY <1>1, <1>3, UnionIs, DifferenceIs DEF AddAll, RemoveAll
    <2>2. BothNormalised'
        BY <1>1, <2>1, ListsAreNormalised DEF BothNormalised
    <2>3. Covered(other') = Covered(other)
        BY <2>1
    <2>4. QED BY <2>1, <2>2, <2>3 DEF Abstract!Next
<1>4. QED BY <1>2, <1>3 DEF Next

LEMMA StutterIs ==
    ASSUME BothNormalised, UNCHANGED vars
    PROVE  BothNormalised' /\ UNCHANGED <<Covered(list), Covered(other)>>
BY DEF BothNormalised, vars

LEMMA StartIs ==
    ASSUME Init
    PROVE  BothNormalised /\ Abstract!Init
BY EmptyList, ListsAreNormalised DEF Init, BothNormalised, Abstract!Init

\* For every number of positions: whatever add, remove, myUnion and difference
\* are called with, in whatever order, the items of the lists stay in order, and
\* none overlaps or touches the next.
THEOREM ListsStayNormalised == Spec => []BothNormalised
<1>1. Init => BothNormalised
    BY StartIs
<1>2. BothNormalised /\ [Next]_vars => BothNormalised'
    BY StepIs, StutterIs
<1>3. QED BY <1>1, <1>2, PTL DEF Spec

\* ListInterval::intersection of two such lists is one, and covers the positions
\* that both cover.
THEOREM IntersectionAlwaysExact == Spec => []IntersectionIsExact
<1>1. BothNormalised => IntersectionIsExact
    <2> SUFFICES ASSUME BothNormalised PROVE IntersectionIsExact
        OBVIOUS
    <2>1. list \in Seq(Interval) /\ other \in Seq(Interval)
        BY DEF BothNormalised, Normalised
    <2> DEFINE common == Intersection(list, other)
    <2>2. common \in Lists /\ Covered(common) = Covered(list) \cap Covered(other)
        BY <2>1, IntersectionIs
    <2> HIDE DEF common
    <2>3. Normalised(common) /\ Covered(common) = Covered(list) \cap Covered(other)
        BY <2>2, ListsAreNormalised
    <2>4. QED BY <2>3 DEF IntersectionIsExact, common
<1>2. QED BY <1>1, ListsStayNormalised, PTL

\* ListInterval::total counts each covered position once.
THEOREM TotalAlwaysExact == Spec => []TotalIsExact
<1>1. BothNormalised => TotalIsExact
    BY ListsAreNormalised, TotalIs DEF BothNormalised, TotalIsExact
<1>2. QED BY <1>1, ListsStayNormalised, PTL

\* The lists implement sets of positions: each call of add, remove, myUnion or
\* difference adds or takes away exactly the positions it names.
THEOREM ListsImplementSets == Spec => ImplementsSets
<1>1. Init => Abstract!Init
    BY StartIs
<1>2. BothNormalised /\ [Next]_vars => [Abstract!Next]_<<Covered(list), Covered(other)>>
    BY StepIs, StutterIs
<1>3. QED BY <1>1, <1>2, ListsStayNormalised, PTL DEF Spec, ImplementsSets, Abstract!Spec

=============================================================================
