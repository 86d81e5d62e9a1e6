------------------------ MODULE Granularity_proofs ------------------------
(***************************************************************************)
(* What adaptGranudscr makes of a request, and what splitDim cuts a launch *)
(* into: for any number of devices and of work groups, the parts are whole *)
(* numbers of work groups, none is empty, and each work group is in one.   *)
(***************************************************************************)
EXTENDS Granularity, FiniteSetTheorems, WellFoundedInduction, TLAPS

-----------------------------------------------------------------------------
(* Folds, which are recursive functions over sets.                         *)

\* A set of numbers has a least one.
LEMMA Least ==
    ASSUME NEW T \in SUBSET Nat, T # {}
    PROVE  \E n \in T : \A m \in T : n <= m
<1> DEFINE R == OpToRel(<, Nat)
<1>1. IsWellFoundedOn(R, Nat)
    BY NatLessThanWellFounded
<1>2. \A x, y \in Nat : <<x, y>> \in R <=> x < y
    BY DEF OpToRel
<1> HIDE DEF R
<1>3. PICK x \in T : \A y \in T : ~ (<<y, x>> \in R)
    BY <1>1, WFMin
<1>4. ASSUME NEW y \in T PROVE x <= y
    <2>1. x \in Nat /\ y \in Nat
        OBVIOUS
    <2>2. ~ (y < x)
        BY <1>2, <1>3, <2>1
    <2>3. QED BY <2>1, <2>2
<1>5. QED BY <1>3, <1>4

\* Induction, over a set rather than over a predicate.
LEMMA Induction ==
    ASSUME NEW P \in SUBSET Nat, 0 \in P, \A n \in P : n + 1 \in P
    PROVE  P = Nat
<1> SUFFICES ASSUME Nat \ P # {} PROVE FALSE
    OBVIOUS
<1>1. PICK n \in Nat \ P : \A m \in Nat \ P : n <= m
    BY Least
<1>2. n # 0 /\ n - 1 \in Nat /\ n - 1 \notin P
    BY <1>1
<1>3. QED BY <1>1, <1>2

\* The sets one element smaller.
LEMMA OneLess ==
    ASSUME NEW S, IsFiniteSet(S), NEW s \in SUBSET S
    PROVE  /\ IsFiniteSet(s) /\ Cardinality(s) \in Nat
           /\ Cardinality(s) = 0 <=> s = {}
           /\ \A x \in s : Cardinality(s \ {x}) = Cardinality(s) - 1
BY FS_Subset, FS_CardinalityType, FS_EmptySet, FS_RemoveElement

\* A function that combines the elements of a set one by one, as pk picks them.
Picks(pk, S) == \A s \in (SUBSET S) \ {{}} : pk[s] \in s

Folds(it, S, base, G, pk) ==
    it = [s \in SUBSET S |-> IF s = {} THEN base ELSE G[<<pk[s], it[s \ {pk[s]}]>>]]

\* There is one, whatever has to be combined.
LEMMA FoldExists ==
    ASSUME NEW S, IsFiniteSet(S), NEW V, NEW base \in V, NEW G \in [S \X V -> V],
           NEW pk, Picks(pk, S)
    PROVE  \E it \in [SUBSET S -> V] : Folds(it, S, base, G, pk)
<1> DEFINE pick(s) == pk[s]
           Step(it, s) == IF s = {} THEN base ELSE G[<<pick(s), it[s \ {pick(s)}]>>]
           Good(it, n) == \A s \in SUBSET S : Cardinality(s) <= n => it[s] = Step(it, s)
           P == {n \in Nat : \E it \in [SUBSET S -> V] : Good(it, n)}
<1>1. \A s \in (SUBSET S) \ {{}} : pick(s) \in s /\ s \ {pick(s)} \in SUBSET S
    BY DEF Picks
<1>2. \A s \in SUBSET S : IsFiniteSet(s) /\ Cardinality(s) \in Nat
    BY OneLess
<1>3. \A s \in (SUBSET S) \ {{}} : Cardinality(s \ {pick(s)}) = Cardinality(s) - 1
    BY <1>1, OneLess
<1>4. \A it \in [SUBSET S -> V], s \in SUBSET S : Step(it, s) \in V
    BY <1>1
<1>5. 0 \in P
    <2> DEFINE it0 == [s \in SUBSET S |-> base]
    <2>1. \A s \in SUBSET S : Cardinality(s) <= 0 => s = {}
        BY OneLess
    <2>2. it0 \in [SUBSET S -> V] /\ Good(it0, 0)
        BY <2>1
    <2>3. QED BY <2>2
<1>6. ASSUME NEW n \in P PROVE n + 1 \in P
    <2>1. PICK it \in [SUBSET S -> V] : Good(it, n)
        BY <1>6
    <2> DEFINE next == [s \in SUBSET S |-> IF Cardinality(s) <= n THEN it[s] ELSE Step(it, s)]
    <2>2. next \in [SUBSET S -> V]
        BY <1>4
    <2>3. ASSUME NEW s \in SUBSET S, Cardinality(s) <= n + 1 PROVE next[s] = Step(next, s)
        <3>1. next[s] = Step(it, s)
            BY <2>1
        <3>2. s # {} => next[s \ {pick(s)}] = it[s \ {pick(s)}]
            BY <1>1, <1>2, <1>3, <2>3
        <3> HIDE DEF next
        <3>3. QED BY <3>1, <3>2
    <2>4. n + 1 \in Nat
        OBVIOUS
    <2> HIDE DEF next, Step
    <2>5. Good(next, n + 1)
        BY <2>3
    <2> HIDE DEF Good
    <2>6. QED BY <2>2, <2>4, <2>5
<1>7. P = Nat
    <2> HIDE DEF P
    <2>1. P \in SUBSET Nat
        BY DEF P
    <2>2. QED BY <1>5, <1>6, <2>1, Induction
<1>8. Cardinality(S) \in P
    BY <1>2, <1>7
<1>9. PICK it \in [SUBSET S -> V] : Good(it, Cardinality(S))
    <2> HIDE DEF Good
    <2>1. QED BY <1>8
<1>10. \A s \in SUBSET S : it[s] = Step(it, s)
    BY <1>2, <1>9, FS_Subset
<1>11. it = [s \in SUBSET S |-> Step(it, s)]
    <2> HIDE DEF Step
    <2>1. QED BY <1>10
<1>12. QED BY <1>11 DEF Folds

\* In a fold over a sequence the largest place is taken first, so that what is
\* combined is the prefixes.
Chain(f, n, V, base, G) ==
    /\ f \in [0 .. n -> V] /\ f[0] = base
    /\ \A i \in 1 .. n : f[i] = G[<<i, f[i - 1]>>]

TakesMax(it, n, V, G) ==
    \A s \in (SUBSET (1 .. n)) \ {{}} :
       it[s \ {Max(s)}] \in V => it[s] = G[<<Max(s), it[s \ {Max(s)}]>>]

LEMMA MaxIs ==
    ASSUME NEW n \in Nat, NEW s \in (SUBSET (1 .. n)) \ {{}}
    PROVE  Max(s) \in s /\ \A x \in s : Max(s) >= x
<1> DEFINE T == {n - x : x \in s}
<1>1. T \in SUBSET Nat /\ T # {}
    OBVIOUS
<1>2. PICK t \in T : \A m \in T : t <= m
    <2> HIDE DEF T
    <2>1. QED BY <1>1, Least
<1>3. PICK x \in s : t = n - x
    BY <1>2
<1>4. \A y \in s : x >= y
    BY <1>2, <1>3
<1>5. QED BY <1>4 DEF Max

LEMMA ChainOfFold ==
    ASSUME NEW n \in Nat, NEW V, NEW G \in [(1 .. n) \X V -> V], NEW it, NEW base \in V,
           it[{}] = base, TakesMax(it, n, V, G)
    PROVE  Chain([i \in 0 .. n |-> it[1 .. i]], n, V, base, G)
<1> DEFINE f == [i \in 0 .. n |-> it[1 .. i]]
           P == {i \in Nat : i <= n => f[i] \in V}
<1>1. f[0] = base
    <2>1. 1 .. 0 = {}
        OBVIOUS
    <2>2. QED BY <2>1
<1>2. ASSUME NEW i \in 1 .. n, f[i - 1] \in V PROVE f[i] = G[<<i, f[i - 1]>>]
    <2> DEFINE s == 1 .. i
    <2>1. s \in (SUBSET (1 .. n)) \ {{}}
        OBVIOUS
    <2>2. Max(s) = i
        <3>1. Max(s) \in s /\ \A x \in s : Max(s) >= x
            BY <2>1, MaxIs
        <3>2. i \in s /\ \A x \in s : x \in Int /\ i >= x
            OBVIOUS
        <3> DEFINE m == Max(s)
        <3> HIDE DEF s, m
        <3>3. m \in s /\ m >= i /\ i \in Int
            BY <3>1, <3>2 DEF m
        <3>4. m \in Int /\ i >= m
            BY <3>2, <3>3
        <3>5. m = i
            BY <3>3, <3>4
        <3>6. QED BY <3>5 DEF m
    <2>3. s \ {i} = 1 .. i - 1
        OBVIOUS
    <2>4. f[i] = it[s] /\ f[i - 1] = it[s \ {i}]
        <3>1. i \in 0 .. n /\ i - 1 \in 0 .. n
            OBVIOUS
        <3>2. f[i] = it[1 .. i] /\ f[i - 1] = it[1 .. i - 1]
            BY <3>1
        <3> HIDE DEF f
        <3>3. QED BY <2>3, <3>2
    <2> HIDE DEF s, f
    <2>5. QED BY <1>2, <2>1, <2>2, <2>4 DEF TakesMax
<1>3. 0 \in P
    BY <1>1
<1>4. ASSUME NEW i \in P PROVE i + 1 \in P
    <2> SUFFICES ASSUME i + 1 <= n PROVE f[i + 1] \in V
        OBVIOUS
    <2>1. f[i] \in V /\ i + 1 \in 1 .. n /\ (i + 1) - 1 = i /\ i \in Nat
        OBVIOUS
    <2> HIDE DEF f
    <2>2. f[i + 1] = G[<<i + 1, f[i]>>]
        BY <2>1, <1>2
    <2>3. QED BY <2>1, <2>2
<1>5. P = Nat
    <2> HIDE DEF P
    <2>1. P \in SUBSET Nat
        BY DEF P
    <2>2. QED BY <1>3, <1>4, <2>1, Induction
<1>6. \A i \in 0 .. n : f[i] \in V
    <2> SUFFICES ASSUME NEW i \in 0 .. n PROVE f[i] \in V
        OBVIOUS
    <2>1. i \in Nat /\ i <= n
        OBVIOUS
    <2>2. i \in P
        <3> HIDE DEF P
        <3>1. QED BY <2>1, <1>5
    <2> HIDE DEF f
    <2>3. QED BY <2>1, <2>2
<1>7. f \in [0 .. n -> V]
    BY <1>6
<1>8. \A i \in 1 .. n : f[i] = G[<<i, f[i - 1]>>]
    <2>1. \A i \in 1 .. n : i - 1 \in 0 .. n
        OBVIOUS
    <2>2. QED BY <2>1, <1>2, <1>6
<1> HIDE DEF f
<1>9. Chain(f, n, V, base, G)
    BY <1>1, <1>7, <1>8 DEF Chain
<1>10. QED BY <1>9 DEF f

\* What every element keeps holds in the end.
LEMMA ChainInduction ==
    ASSUME NEW n \in Nat, NEW V, NEW base, NEW G, NEW f, Chain(f, n, V, base, G),
           NEW Q \in SUBSET ((0 .. n) \X V), <<0, base>> \in Q,
           \A i \in 1 .. n : \A v \in V : <<i - 1, v>> \in Q => <<i, G[<<i, v>>]>> \in Q
    PROVE  <<n, f[n]>> \in Q
<1> DEFINE P == {i \in Nat : i <= n => <<i, f[i]>> \in Q}
<1>1. 0 \in P
    BY DEF Chain
<1>2. ASSUME NEW i \in P PROVE i + 1 \in P
    <2> SUFFICES ASSUME i + 1 <= n PROVE <<i + 1, f[i + 1]>> \in Q
        OBVIOUS
    <2>1. <<i, f[i]>> \in Q /\ i + 1 \in 1 .. n /\ (i + 1) - 1 = i /\ i \in 0 .. n
        OBVIOUS
    <2>2. f[i] \in V /\ f[i + 1] = G[<<i + 1, f[i]>>]
        BY <2>1 DEF Chain
    <2>3. QED BY <2>1, <2>2
<1>3. P = Nat
    <2> HIDE DEF P
    <2>1. P \in SUBSET Nat
        BY DEF P
    <2>2. QED BY <1>1, <1>2, <2>1, Induction
<1>4. n \in P
    BY <1>3
<1>5. QED BY <1>4
-----------------------------------------------------------------------------
(* Sums of shares.                                                         *)

\* The result for a set is made of an element and of the result for the others.
Combines(it, S, V, G) ==
    \A s \in (SUBSET S) \ {{}} :
       \E x \in s : it[s \ {x}] \in V => it[s] = G[<<x, it[s \ {x}]>>]

\* Whatever element comes next, the result stays in Q: then it is there in the end.
LEMMA FoldInduction ==
    ASSUME NEW S, IsFiniteSet(S), NEW V, NEW G, NEW it,
           NEW Q \in SUBSET ((SUBSET S) \X V), <<{}, it[{}]>> \in Q,
           Combines(it, S, V, G),
           \A s \in (SUBSET S) \ {{}} : \A x \in s : \A v \in V :
              <<s \ {x}, v>> \in Q => <<s, G[<<x, v>>]>> \in Q
    PROVE  <<S, it[S]>> \in Q
<1> DEFINE P == {n \in Nat : \A s \in SUBSET S : Cardinality(s) = n => <<s, it[s]>> \in Q}
<1>1. 0 \in P
    BY OneLess
<1>2. ASSUME NEW n \in P PROVE n + 1 \in P
    <2> SUFFICES ASSUME NEW s \in SUBSET S, Cardinality(s) = n + 1 PROVE <<s, it[s]>> \in Q
        OBVIOUS
    <2>1. s # {}
        BY OneLess
    <2>2. PICK x \in s : it[s \ {x}] \in V => it[s] = G[<<x, it[s \ {x}]>>]
        BY <2>1 DEF Combines
    <2>3. Cardinality(s \ {x}) = n
        BY OneLess
    <2>4. <<s \ {x}, it[s \ {x}]>> \in Q
        BY <2>3, <1>2
    <2>5. it[s \ {x}] \in V
        BY <2>4
    <2>6. QED BY <2>1, <2>2, <2>4, <2>5
<1>3. P = Nat
    <2> HIDE DEF P
    <2>1. P \in SUBSET Nat
        BY DEF P
    <2>2. QED BY <1>1, <1>2, <2>1, Induction
<1>4. QED BY <1>3, OneLess

Adding(S, w) == [q \in S \X Int |-> w[q[1]] + q[2]]

LEMMA Distributes ==
    /\ \A m, n, q \in Int : m * (n + q) = m * n + m * q
    /\ \A m \in Int : m * 0 = 0 /\ 0 * m = 0
OBVIOUS

\* One of the numbers that make up a sum is not below the mean.
LEMMA NotBelowMean ==
    ASSUME NEW S, IsFiniteSet(S), NEW w, \A x \in S : w[x] \in Int, NEW it, it[{}] = 0,
           Combines(it, S, Int, Adding(S, w)), NEW U \in Nat \ {0}, it[S] = U
    PROVE  \E x \in S : Cardinality(S) * w[x] >= U
<1> DEFINE n == Cardinality(S)
           G == Adding(S, w)
           Q == {q \in (SUBSET S) \X Int : n * q[2] <= Cardinality(q[1]) * (U - 1)}
<1> SUFFICES ASSUME \A x \in S : ~ (n * w[x] >= U) PROVE FALSE
    OBVIOUS
<1>1. n \in Nat /\ (n = 0 <=> S = {}) /\ Cardinality({}) = 0
    BY FS_CardinalityType, FS_EmptySet
<1>2. S # {}
    OBVIOUS
<1>3. <<{}, it[{}]>> \in Q
    <2>1. n * 0 <= 0 * (U - 1)
        <3>1. n \in Nat
            BY <1>1
        <3>2. n * 0 = 0 /\ 0 * (U - 1) = 0
            BY <3>1, Distributes
        <3>3. QED BY <3>2
    <2>2. n * it[{}] <= Cardinality({}) * (U - 1)
        BY <1>1, <2>1
    <2>3. {} \in SUBSET S /\ it[{}] \in Int
        OBVIOUS
    <2> HIDE DEF n
    <2>4. QED BY <2>2, <2>3
<1>4. ASSUME NEW s \in (SUBSET S) \ {{}}, NEW x \in s, NEW v \in Int, <<s \ {x}, v>> \in Q
      PROVE  <<s, G[<<x, v>>]>> \in Q
    <2> DEFINE c == Cardinality(s \ {x})
               y == n * w[x]
               z == n * v
    <2>1. c \in Nat /\ Cardinality(s) = c + 1
        BY OneLess
    <2>2. G[<<x, v>>] = w[x] + v /\ w[x] + v \in Int /\ w[x] \in Int
        BY DEF Adding
    <2>3. n * (w[x] + v) = y + z /\ y \in Int /\ z \in Int
        BY <1>1, <2>2, Distributes
    <2>4. (c + 1) * (U - 1) = c * (U - 1) + (U - 1) /\ c * (U - 1) \in Int
        <3>1. (U - 1) * (c + 1) = (U - 1) * c + (U - 1) * 1
            BY <2>1, Distributes
        <3>2. QED BY <2>1, <3>1
    <2>5. z <= c * (U - 1)
        BY <1>4
    <2>6. y <= U - 1
        BY <2>3
    <2> HIDE DEF y, z, c, G, n
    <2>7. n * (w[x] + v) <= (c + 1) * (U - 1)
        BY <2>3, <2>4, <2>5, <2>6
    <2>8. QED BY <2>1, <2>2, <2>7
<1>5. <<S, it[S]>> \in Q
    <2> HIDE DEF Q
    <2>1. Q \in SUBSET ((SUBSET S) \X Int)
        BY DEF Q
    <2> HIDE DEF G
    <2>2. Combines(it, S, Int, G)
        BY DEF G
    <2>3. QED BY <1>3, <1>4, <2>1, <2>2, FoldInduction
<1>6. n * U <= n * (U - 1)
    BY <1>5
<1>7. n * U = n * (U - 1) + n
    <2>1. n * ((U - 1) + 1) = n * (U - 1) + n * 1
        BY <1>1, Distributes
    <2>2. (U - 1) + 1 = U /\ n * 1 = n
        BY <1>1
    <2> HIDE DEF n
    <2>3. QED BY <2>1, <2>2
<1>8. QED BY <1>1, <1>2, <1>6, <1>7

-----------------------------------------------------------------------------
(* What adaptGranudscr makes of a request.                                 *)

Groups(share, w) == (2 * share * w + Unit) \div (2 * Unit)
Of(q, w) == q * (Unit \div w)  \* the share of q work groups
Rounded(r, w) == [i \in DOMAIN r |-> [r[i] EXCEPT !.share = Of(Groups(@, w), w)]]

\* Its loop: the descriptor so far, the pieces kept and what was given out.
Kept(n) == [granu : [1 .. n -> Piece], idx : Nat, total : Int]

Keep(acc, i) ==
    LET g     == acc.granu[i]
        moved == [acc.granu EXCEPT ![acc.idx + 1] = g]
        total == acc.total + g.share
        idx   == acc.idx + (IF g.share > 0 THEN 1 ELSE 0)
    IN  IF acc.total = Unit THEN acc
        ELSE IF total >= Unit
        THEN [granu |-> [moved EXCEPT ![i].share = Unit - (total - g.share)],
              idx |-> idx, total |-> Unit]
        ELSE [granu |-> moved, idx |-> idx, total |-> total]

Keeping(n) == [q \in (1 .. n) \X Kept(n) |-> Keep(q[2], q[1])]
NothingKept(r, w) == [granu |-> Rounded(r, w), idx |-> 0, total |-> 0]
MadeUp(acc) == SubSeq([acc.granu EXCEPT ![acc.idx].share = @ + (Unit - acc.total)], 1, acc.idx)

LEMMA WithShare ==
    ASSUME NEW x \in Piece, NEW e \in Int
    PROVE  /\ [x EXCEPT !.share = e] = [dev |-> x.dev, share |-> e]
           /\ [x EXCEPT !.share = e] \in Piece
BY DEF Piece

LEMMA KeepType ==
    ASSUME NEW n \in Nat, NEW i \in 1 .. n, NEW acc \in Kept(n)
    PROVE  Keep(acc, i) \in Kept(n)
<1> DEFINE g     == acc.granu[i]
           moved == [acc.granu EXCEPT ![acc.idx + 1] = g]
           total == acc.total + g.share
           idx   == acc.idx + (IF g.share > 0 THEN 1 ELSE 0)
           cut   == [moved EXCEPT ![i].share = Unit - (total - g.share)]
<1>1. /\ acc.granu \in [1 .. n -> Piece] /\ acc.idx \in Nat /\ acc.total \in Int
      /\ g \in Piece /\ g.share \in Int /\ total \in Int /\ idx \in Nat
    BY DEF Kept, Piece
<1>2. moved \in [1 .. n -> Piece]
    BY <1>1
<1>3. cut \in [1 .. n -> Piece]
    <2> HIDE DEF moved
    <2>1. Unit - (total - g.share) \in Int /\ moved[i] \in Piece
        BY <1>1, <1>2, UnitAssumption
    <2> HIDE DEF total, g
    <2>2. [moved[i] EXCEPT !.share = Unit - (total - g.share)] \in Piece
        BY <2>1, WithShare
    <2>3. QED BY <1>2, <2>2
<1>4. Keep(acc, i) = IF acc.total = Unit THEN acc
                     ELSE IF total >= Unit THEN [granu |-> cut, idx |-> idx, total |-> Unit]
                     ELSE [granu |-> moved, idx |-> idx, total |-> total]
    BY DEF Keep
<1> HIDE DEF g, moved, total, idx, cut
<1>5. QED BY <1>1, <1>2, <1>3, <1>4, UnitAssumption DEF Kept

LEMMA GroupsIs ==
    ASSUME NEW s \in Int, NEW w \in Nat \ {0}
    PROVE  /\ Groups(s, w) \in Int
           /\ s >= 0 => Groups(s, w) >= 0
           /\ w * (2 * s) >= Unit => Groups(s, w) >= 1
<1> DEFINE x == 2 * s * w
           D == 2 * Unit
<1>1. D \in Nat \ {0} /\ Unit \in Nat \ {0}
    BY UnitAssumption
<1>2. x \in Int /\ x = w * (2 * s) /\ (s >= 0 => x >= 0)
    OBVIOUS
<1>3. Groups(s, w) = (x + Unit) \div D
    BY DEF Groups
<1>4. ASSUME NEW y \in Int
      PROVE  y \div D \in Int /\ (y >= 0 => y \div D >= 0) /\ (y >= D => y \div D >= 1)
    <2> HIDE DEF D
    <2>1. QED BY <1>1
<1>5. x >= Unit => x + Unit >= D
    BY <1>1, <1>2
<1>6. x >= 0 => x + Unit >= 0
    BY <1>1, <1>2
<1>7. x + Unit \in Int
    BY <1>1, <1>2
<1> HIDE DEF x, D
<1>8. QED BY <1>2, <1>3, <1>4, <1>5, <1>6, <1>7

LEMMA RoundedType ==
    ASSUME NEW r \in Seq(Piece), NEW w \in Nat \ {0}
    PROVE  /\ Rounded(r, w) \in [1 .. Len(r) -> Piece]
           /\ \A i \in 1 .. Len(r) : /\ Rounded(r, w)[i].dev = r[i].dev
                                     /\ Rounded(r, w)[i].share = Of(Groups(r[i].share, w), w)
<1>1. Unit \div w \in Int
    BY UnitAssumption
<1>2. DOMAIN r = 1 .. Len(r)
    OBVIOUS
<1> DEFINE e(i) == Of(Groups(r[i].share, w), w)
<1>3. ASSUME NEW i \in 1 .. Len(r)
      PROVE  /\ r[i] \in Piece /\ e(i) \in Int
             /\ Rounded(r, w)[i] = [r[i] EXCEPT !.share = e(i)]
    <2>1. r[i] \in Piece
        OBVIOUS
    <2>2. Groups(r[i].share, w) \in Int
        BY <2>1, GroupsIs DEF Piece
    <2>3. e(i) \in Int
        BY <1>1, <2>2 DEF Of
    <2>4. QED BY <1>2, <2>1, <2>3 DEF Rounded
<1>4. DOMAIN Rounded(r, w) = 1 .. Len(r) /\ Rounded(r, w) = [i \in 1 .. Len(r) |-> Rounded(r, w)[i]]
    BY <1>2 DEF Rounded
<1> HIDE DEF e
<1>5. \A i \in 1 .. Len(r) : /\ Rounded(r, w)[i] = [dev |-> r[i].dev, share |-> e(i)]
                             /\ Rounded(r, w)[i] \in Piece
    <2> SUFFICES ASSUME NEW i \in 1 .. Len(r)
                 PROVE  /\ Rounded(r, w)[i] = [dev |-> r[i].dev, share |-> e(i)]
                        /\ Rounded(r, w)[i] \in Piece
        OBVIOUS
    <2>1. r[i] \in Piece /\ e(i) \in Int /\ Rounded(r, w)[i] = [r[i] EXCEPT !.share = e(i)]
        BY <1>3
    <2>2. QED BY <2>1, WithShare
<1>6. QED BY <1>4, <1>5 DEF e

LEMMA AdaptIsChain ==
    ASSUME NEW r \in Seq(Piece), NEW n, n = Len(r), NEW w \in Nat \ {0}
    PROVE  \E f : /\ Chain(f, n, Kept(n), NothingKept(r, w), Keeping(n))
                  /\ adaptGranudscr(r, w) = MadeUp(f[n])
<1> DEFINE V == Kept(n)
           G == Keeping(n)
           base == NothingKept(r, w)
           pick(s) == Max(s)
           seq == [i \in DOMAIN r |-> i]
           S == DOMAIN seq
           pk == [s \in SUBSET S |-> pick(s)]
           Raw(it) == it = [s \in SUBSET S |-> IF s = {} THEN base
                                     ELSE Keep(it[s \ {pick(s)}], seq[pick(s)])]
<1>0. n \in Nat /\ S = 1 .. n
    OBVIOUS
<1>1. IsFiniteSet(S) /\ base \in V /\ G \in [S \X V -> V]
    <2>1. IsFiniteSet(S)
        BY <1>0, FS_Interval
    <2>2. base \in V
        BY RoundedType DEF NothingKept, Kept
    <2>3. \A q \in (1 .. n) \X V : Keep(q[2], q[1]) \in V
        BY <1>0, KeepType
    <2> HIDE DEF V
    <2>4. Keeping(n) \in [(1 .. n) \X V -> V]
        BY <2>3 DEF Keeping, V
    <2>5. QED BY <1>0, <2>1, <2>2, <2>4
<1>2. \A s \in (SUBSET S) \ {{}} : pick(s) \in s /\ s \ {pick(s)} \in SUBSET S
    BY <1>0, MaxIs
<1>3. \A x \in S, v \in V : G[<<x, v>>] = Keep(v, seq[x])
    BY <1>0 DEF Keeping
<1>4. Picks(pk, S)
    <2> HIDE DEF pick, S
    <2>1. QED BY <1>2 DEF Picks
<1>5. PICK it \in [SUBSET S -> V] : Folds(it, S, base, G, pk)
    <2> HIDE DEF pk, G, S, V, base
    <2>1. QED BY <1>1, <1>4, FoldExists
<1>6. adaptGranudscr(r, w) = MadeUp((CHOOSE f : Raw(f))[S])
    BY DEF adaptGranudscr, FoldLeft, MapThenFoldSet, MadeUp, Keep, NothingKept, Rounded, Groups, Of
<1> DEFINE chosen == CHOOSE f : Raw(f)
<1> HIDE DEF G, S, pick, V, base, seq
<1>7. Raw(it)
    <2>1. \A s \in SUBSET S : it[s] = IF s = {} THEN base ELSE G[<<pick(s), it[s \ {pick(s)}]>>]
        BY <1>5 DEF Folds
    <2>2. \A s \in (SUBSET S) \ {{}} :
             G[<<pick(s), it[s \ {pick(s)}]>>] = Keep(it[s \ {pick(s)}], seq[pick(s)])
        BY <1>2, <1>3, <1>5
    <2>3. \A s \in SUBSET S : it[s] = IF s = {} THEN base
                                      ELSE Keep(it[s \ {pick(s)}], seq[pick(s)])
        BY <2>1, <2>2
    <2>4. QED BY <2>3, <1>5
<1>8. Raw(chosen)
    <2> HIDE DEF Raw
    <2>1. QED BY <1>7
<1>9. chosen[{}] = base
    <2> HIDE DEF chosen
    <2>1. QED BY <1>8
<1>10. ASSUME NEW s \in (SUBSET S) \ {{}}, chosen[s \ {pick(s)}] \in V
       PROVE  chosen[s] = G[<<pick(s), chosen[s \ {pick(s)}]>>]
    <2> HIDE DEF chosen
    <2>1. chosen[s] = Keep(chosen[s \ {pick(s)}], seq[pick(s)])
        BY <1>8
    <2>2. QED BY <1>2, <1>3, <1>10, <2>1
<1> HIDE DEF chosen
<1>11. TakesMax(chosen, n, V, G)
    BY <1>0, <1>10 DEF TakesMax, pick
<1> DEFINE f == [i \in 0 .. n |-> chosen[1 .. i]]
<1>12. Chain(f, n, V, base, G)
    <2>1. G \in [(1 .. n) \X V -> V] /\ base \in V
        BY <1>0, <1>1
    <2>2. QED BY <1>0, <1>9, <1>11, <2>1, ChainOfFold
<1>13. f[n] = chosen[S]
    BY <1>0
<1> HIDE DEF f
<1>14. QED BY <1>6, <1>12, <1>13 DEF chosen, V, base, G
\* The pieces up to m are whole numbers of work groups: T[a] up to the a-th.
LaidOut(granu, m, T, w) ==
    /\ T[0] = 0 /\ T[m] < w
    /\ \A a \in 1 .. m : /\ T[a - 1] < T[a]
                         /\ granu[a].share = Of(T[a] - T[a - 1], w)

\* What has been kept of the first i pieces. Once everything is given out the
\* last one is what remains.
KeptRight(acc, i, n, w, T) ==
    LET m == IF acc.total = Unit THEN acc.idx - 1 ELSE acc.idx
    IN  /\ LaidOut(acc.granu, m, T, w)
        /\ acc.total < Unit /\ i < n => acc.total = Of(T[m], w)

Same(h, granu, m) == \A a \in 1 .. m : h[a] = granu[a]

\* The devices of the first m pieces come in order.
InOrder(r, m) == \A i, j \in 1 .. m : i < j => r[i].dev < r[j].dev

Apart(granu, m, r, i) ==
    /\ \A a \in 1 .. m : /\ granu[a].share > 0
                         /\ \E j \in 1 .. i : granu[a].dev = r[j].dev
    /\ NamedOnce(granu, m)
    /\ InOrder(r, i) => InOrder(granu, m)

KeepInv(r, w, i, acc) ==
    /\ acc.idx \in 0 .. i /\ acc.total <= Unit
    /\ \A j \in i + 1 .. Len(r) : acc.granu[j] = Rounded(r, w)[j]
    /\ Apart(acc.granu, acc.idx, r, i)
    /\ \E T \in [0 .. Len(r) -> Int] : KeptRight(acc, i, Len(r), w, T)
    /\ acc.total = Unit \/ (\E j \in 1 .. i : Rounded(r, w)[j].share > 0) => acc.idx >= 1

LEMMA GroupSize ==
    ASSUME NEW w \in Nat \ {0}, Unit % w = 0
    PROVE  /\ w <= Unit /\ Of(w, w) = Unit
           /\ \A p, q \in Int : Of(p + q, w) = Of(p, w) + Of(q, w)
           /\ \A q \in Int : Of(q, w) \in Int /\ (Of(q, w) > 0 <=> q > 0)
                             /\ (Of(q, w) = 0 <=> q = 0) /\ (Of(q, w) < Unit <=> q < w)
<1> DEFINE u == Unit \div w
<1>1. Unit \in Nat \ {0} /\ u \in Int /\ Unit = w * u
    BY UnitAssumption
<1>2. u \in Nat \ {0} /\ w <= Unit
    <2> HIDE DEF u
    <2>1. ~ (u <= 0)
        BY <1>1
    <2>2. u - 1 \in Nat /\ w * u = w * (u - 1) + w * 1
        BY <1>1, <2>1, Distributes
    <2>3. w * (u - 1) >= 0
        BY <2>2
    <2>4. QED BY <1>1, <2>1, <2>2, <2>3
<1> HIDE DEF u
<1>3. \A p, q \in Int : (p + q) * u = p * u + q * u
    <2> SUFFICES ASSUME NEW p \in Int, NEW q \in Int PROVE (p + q) * u = p * u + q * u
        OBVIOUS
    <2>1. u * (p + q) = u * p + u * q
        BY <1>2, Distributes
    <2>2. QED BY <1>2, <2>1
<1>4. ASSUME NEW q \in Int
      PROVE  q * u \in Int /\ (q * u > 0 <=> q > 0) /\ (q * u = 0 <=> q = 0)
    BY <1>2
<1>5. ASSUME NEW q \in Int
      PROVE  q * u < Unit <=> q < w
    <2>1. w - q \in Int /\ ((w - q) * u > 0 <=> w - q > 0)
        BY <1>4
    <2>2. ((w - q) + q) * u = (w - q) * u + q * u /\ (w - q) + q = w
        BY <1>3, <2>1
    <2>3. (w - q) * u \in Int /\ q * u \in Int
        BY <1>4, <2>1
    <2>4. QED BY <1>1, <2>1, <2>2, <2>3
<1>6. QED BY <1>1, <1>2, <1>3, <1>4, <1>5 DEF u, Of

LEMMA KeepInvStarts ==
    ASSUME NEW r, Request(r), NEW w \in Nat \ {0}, Unit % w = 0
    PROVE  KeepInv(r, w, 0, NothingKept(r, w))
<1> DEFINE acc == NothingKept(r, w)
           T == [i \in 0 .. Len(r) |-> 0]
<1>1. acc.idx = 0 /\ acc.total = 0 /\ acc.granu = Rounded(r, w)
    BY DEF NothingKept
<1>2. Unit > 0 /\ Unit \in Nat /\ Len(r) \in Nat
    BY UnitAssumption DEF Request
<1>3. T \in [0 .. Len(r) -> Int] /\ T[0] = 0
    BY <1>2
<1>4. Of(0, w) = 0
    BY GroupSize
<1> HIDE DEF acc, T
<1>5. KeptRight(acc, 0, Len(r), w, T)
    BY <1>1, <1>2, <1>3, <1>4 DEF KeptRight, LaidOut
<1>6. QED BY <1>1, <1>2, <1>3, <1>5 DEF acc, KeepInv, Apart, NamedOnce, InOrder

\* A piece more is laid out.
LEMMA LayMore ==
    ASSUME NEW n \in Nat, NEW m \in Nat, m < n, NEW T \in [0 .. n -> Int], NEW w \in Nat \ {0},
           Unit % w = 0, NEW granu \in [1 .. n -> Piece], NEW q \in Int, q > 0,
           LaidOut(granu, m, T, w), NEW g \in Piece, g.share = Of(q, w),
           Of(T[m] + q, w) < Unit
    PROVE  LaidOut([granu EXCEPT ![m + 1] = g], m + 1, [T EXCEPT ![m + 1] = T[m] + q], w)
<1> DEFINE S == [T EXCEPT ![m + 1] = T[m] + q]
           h == [granu EXCEPT ![m + 1] = g]
<1>1. /\ m + 1 \in 0 .. n /\ m \in 0 .. n /\ m + 1 \in 1 .. n /\ m # m + 1
      /\ T[m] \in Int /\ 0 # m + 1
    OBVIOUS
<1>2. S[m + 1] = T[m] + q /\ (\A a \in 0 .. m : S[a] = T[a])
    <2>1. \A a \in 0 .. m : a # m + 1 /\ a \in 0 .. n
        OBVIOUS
    <2>2. QED BY <1>1, <2>1
<1>3. h[m + 1] = g /\ (\A a \in 1 .. m : h[a] = granu[a])
    <2>1. \A a \in 1 .. m : a # m + 1 /\ a \in 1 .. n
        OBVIOUS
    <2>2. QED BY <1>1, <2>1
<1> HIDE DEF S, h
<1>4. S[0] = 0
    BY <1>1, <1>2 DEF LaidOut
<1>5. S[m + 1] < w
    BY <1>1, <1>2, GroupSize
<1>6. ASSUME NEW a \in 1 .. m + 1
      PROVE  S[a - 1] < S[a] /\ h[a].share = Of(S[a] - S[a - 1], w)
    <2>1. CASE a = m + 1
        <3>1. a - 1 = m /\ S[a - 1] = T[m] /\ S[a] - S[a - 1] = q
            BY <1>1, <1>2, <2>1
        <3>2. QED BY <1>1, <1>2, <1>3, <2>1, <3>1
    <2>2. CASE a \in 1 .. m
        <3>1. a \in 0 .. m /\ a - 1 \in 0 .. m
            BY <2>2
        <3>2. S[a] = T[a] /\ S[a - 1] = T[a - 1] /\ h[a] = granu[a]
            BY <1>2, <1>3, <2>2, <3>1
        <3>3. QED BY <2>2, <3>2 DEF LaidOut
    <2>3. QED BY <2>1, <2>2
<1>7. LaidOut(h, m + 1, S, w)
    BY <1>4, <1>5, <1>6 DEF LaidOut
<1>8. QED BY <1>7 DEF S, h

\* What is laid out stays so when later pieces change.
LEMMA LaidOutStays ==
    ASSUME NEW m \in Nat, NEW T, NEW w, NEW granu, NEW h, LaidOut(granu, m, T, w),
           Same(h, granu, m)
    PROVE  LaidOut(h, m, T, w)
BY DEF LaidOut, Same

LEMMA ApartStays ==
    ASSUME NEW n \in Nat, NEW i \in 1 .. n, NEW m \in 0 .. i - 1, NEW granu, NEW h, NEW r,
           Apart(granu, m, r, i - 1), Same(h, granu, m)
    PROVE  Apart(h, m, r, i)
<1>1. \A j \in 1 .. i - 1 : j \in 1 .. i
    OBVIOUS
<1>2. InOrder(r, i) => InOrder(h, m)
    <2>1. InOrder(r, i) => InOrder(r, i - 1)
        BY <1>1 DEF InOrder
    <2>2. InOrder(granu, m) => InOrder(h, m)
        BY DEF InOrder, Same
    <2>3. QED BY <2>1, <2>2 DEF Apart
<1>3. QED BY <1>1, <1>2 DEF Apart, Same, NamedOnce

LEMMA ApartMore ==
    ASSUME NEW n \in Nat, NEW i \in 1 .. n, NEW m \in 0 .. i - 1, NEW granu, NEW h, NEW r,
           NamedOnce(r, n),
           Apart(granu, m, r, i - 1), Same(h, granu, m),
           h[m + 1].dev = r[i].dev, h[m + 1].share > 0
    PROVE  Apart(h, m + 1, r, i)
<1>1. Apart(h, m, r, i)
    BY ApartStays
<1>2. ASSUME NEW a \in 1 .. m PROVE h[a].dev # h[m + 1].dev
    <2>1. PICK j \in 1 .. i - 1 : h[a].dev = r[j].dev
        BY DEF Apart, Same
    <2>2. j \in 1 .. n /\ j # i
        OBVIOUS
    <2>3. QED BY <2>1, <2>2 DEF NamedOnce
<1>3. \A a \in 1 .. m + 1 : a = m + 1 \/ a \in 1 .. m
    OBVIOUS
<1>4. \A a \in 1 .. m + 1 : h[a].share > 0 /\ \E j \in 1 .. i : h[a].dev = r[j].dev
    <2>1. i \in 1 .. i
        OBVIOUS
    <2>2. QED BY <1>1, <1>3, <2>1 DEF Apart
<1>5. NamedOnce(h, m + 1)
    BY <1>1, <1>2, <1>3 DEF Apart, NamedOnce
<1>6. ASSUME InOrder(r, i) PROVE InOrder(h, m + 1)
    <2>1. InOrder(h, m)
        BY <1>1, <1>6 DEF Apart
    <2>2. ASSUME NEW a \in 1 .. m PROVE h[a].dev < h[m + 1].dev
        <3>1. PICK j \in 1 .. i - 1 : h[a].dev = r[j].dev
            BY DEF Apart, Same
        <3>2. j \in 1 .. i /\ i \in 1 .. i /\ j < i
            OBVIOUS
        <3>3. QED BY <1>6, <3>1, <3>2 DEF InOrder
    <2> SUFFICES ASSUME NEW a \in 1 .. m + 1, NEW b \in 1 .. m + 1, a < b
                 PROVE  h[a].dev < h[b].dev
        BY DEF InOrder
    <2>3. a \in 1 .. m
        OBVIOUS
    <2>4. QED BY <1>3, <2>1, <2>2, <2>3 DEF InOrder
<1>7. QED BY <1>4, <1>5, <1>6 DEF Apart

LEMMA KeepStep ==
    ASSUME NEW r, Request(r), NEW w \in Nat \ {0}, Unit % w = 0, NEW n, n = Len(r),
           NEW i \in 1 .. n, NEW acc \in Kept(n), KeepInv(r, w, i - 1, acc)
    PROVE  KeepInv(r, w, i, Keep(acc, i))
<1> DEFINE R == Rounded(r, w)
           g == acc.granu[i]
           q == Groups(r[i].share, w)
           moved == [acc.granu EXCEPT ![acc.idx + 1] = g]
           total == acc.total + g.share
           idx   == acc.idx + (IF g.share > 0 THEN 1 ELSE 0)
           cut   == [moved EXCEPT ![i].share = Unit - (total - g.share)]
           next  == Keep(acc, i)
<1>1. next = IF acc.total = Unit THEN acc
             ELSE IF total >= Unit THEN [granu |-> cut, idx |-> idx, total |-> Unit]
             ELSE [granu |-> moved, idx |-> idx, total |-> total]
    BY DEF Keep
<1>2. /\ n \in Nat /\ r \in Seq(Piece) /\ acc.granu \in [1 .. n -> Piece] /\ acc.idx \in 0 .. i - 1
      /\ acc.total \in Int /\ Unit \in Nat \ {0} /\ acc.total <= Unit
      /\ NamedOnce(r, n)
      /\ r[i] \in Piece
    BY UnitAssumption DEF Request, Kept, KeepInv
<1>3. /\ g \in Piece /\ g = R[i] /\ g.dev = r[i].dev /\ q \in Int /\ g.share = Of(q, w)
      /\ g.share \in Int
    <2>1. i \in (i - 1) + 1 .. n
        BY <1>2
    <2>2. g = R[i]
        BY <2>1 DEF KeepInv
    <2>3. q \in Int
        BY <1>2, GroupsIs DEF Piece
    <2>4. g \in Piece
        BY <1>2
    <2>5. R[i].dev = r[i].dev /\ R[i].share = Of(q, w)
        BY <1>2, RoundedType
    <2> HIDE DEF R, g, q
    <2>6. QED BY <2>2, <2>3, <2>4, <2>5 DEF Piece
<1>a. (g.share > 0 <=> q > 0) /\ (g.share = 0 <=> q = 0)
    <2> HIDE DEF g, q
    <2>1. QED BY <1>3, GroupSize
<1>4. PICK T \in [0 .. n -> Int] : KeptRight(acc, i - 1, n, w, T)
    BY DEF KeepInv
<1>5. /\ moved \in [1 .. n -> Piece] /\ acc.idx + 1 \in 1 .. n
      /\ moved[acc.idx + 1] = g
      /\ Same(moved, acc.granu, acc.idx)
      /\ \A a \in i .. n : moved[a] = acc.granu[a]
    <2>1. acc.idx + 1 \in 1 .. n
        BY <1>2
    <2>2. moved \in [1 .. n -> Piece] /\ moved[acc.idx + 1] = g
        BY <1>2, <1>3, <2>1
    <2>3. ASSUME NEW a \in 1 .. n, a # acc.idx + 1 PROVE moved[a] = acc.granu[a]
        BY <1>2, <2>3
    <2>4. \A a \in 1 .. acc.idx : a \in 1 .. n /\ a # acc.idx + 1
        BY <1>2
    <2>5. \A a \in i .. n : a \in 1 .. n
        BY <1>2
    <2>6. acc.idx + 1 = i => moved[i] = acc.granu[i]
        BY <2>2
    <2>7. acc.idx + 1 <= i
        BY <1>2
    <2> HIDE DEF moved, g
    <2>8. \A a \in i .. n : moved[a] = acc.granu[a]
        BY <1>2, <2>2, <2>3, <2>5, <2>6 DEF g
    <2>9. QED BY <2>1, <2>2, <2>3, <2>4, <2>8 DEF Same
<1>6. \A j \in i + 1 .. n : acc.granu[j] = R[j] /\ moved[j] = R[j]
    <2>1. \A j \in i + 1 .. n : j \in (i - 1) + 1 .. n /\ j \in i .. n
        BY <1>2
    <2>2. \A j \in (i - 1) + 1 .. n : acc.granu[j] = R[j]
        BY DEF KeepInv
    <2> HIDE DEF R, moved
    <2>3. QED BY <1>5, <2>1, <2>2
<1> HIDE DEF R, g, q, moved, idx, next
\* Everything has been given out.
<1>7. CASE acc.total = Unit
    <2>1. next = acc
        BY <1>1, <1>7
    <2>2. acc.idx \in 0 .. i /\ acc.idx >= 1
        BY <1>2, <1>7 DEF KeepInv
    <2>3. Apart(acc.granu, acc.idx, r, i)
        BY <1>2, ApartStays DEF KeepInv, Same
    <2>4. KeptRight(acc, i, n, w, T)
        BY <1>2, <1>4, <1>7 DEF KeptRight
    <2>5. KeepInv(r, w, i, acc)
        BY <1>2, <1>6, <2>2, <2>3, <2>4 DEF KeepInv, R
    <2>6. QED BY <2>1, <2>5 DEF next
<1>8. ASSUME acc.total # Unit
      PROVE  /\ acc.total < Unit /\ acc.total = Of(T[acc.idx], w) /\ T[acc.idx] \in Int
             /\ LaidOut(acc.granu, acc.idx, T, w)
    <2>1. acc.idx \in 0 .. n /\ i - 1 < n /\ acc.total < Unit
        BY <1>2, <1>8
    <2>2. QED BY <1>4, <1>8, <2>1 DEF KeptRight
\* The piece is what remains.
<1>9. CASE acc.total # Unit /\ total >= Unit
    <2>1. next = [granu |-> cut, idx |-> idx, total |-> Unit]
        BY <1>1, <1>9
    <2>2. g.share > 0 /\ idx = acc.idx + 1
        BY <1>2, <1>3, <1>8, <1>9 DEF idx
    <2>3. total - g.share = acc.total /\ Unit - acc.total > 0 /\ Unit - acc.total \in Int
        BY <1>2, <1>3, <1>8, <1>9
    <2>4. /\ DOMAIN cut = 1 .. n
          /\ \A a \in 1 .. n : a # i => cut[a] = moved[a]
          /\ cut[i] = [moved[i] EXCEPT !.share = Unit - acc.total]
        BY <1>5, <2>3
    <2>5. cut[i].dev = moved[i].dev /\ cut[i].share > 0
        <3>1. moved[i] \in Piece
            BY <1>2, <1>5
        <3> HIDE DEF cut
        <3>2. QED BY <2>3, <2>4, <3>1, WithShare
    <2> HIDE DEF cut
    <2>6. Same(cut, acc.granu, acc.idx)
        <3>1. \A a \in 1 .. acc.idx : a \in 1 .. n /\ a # i
            BY <1>2
        <3>2. QED BY <1>5, <2>4, <3>1 DEF Same
    <2>7. cut[acc.idx + 1].dev = r[i].dev /\ cut[acc.idx + 1].share > 0
        <3>1. CASE acc.idx + 1 = i
            BY <1>3, <1>5, <2>5, <3>1
        <3>2. CASE acc.idx + 1 # i
            BY <1>3, <1>5, <2>2, <2>4, <3>2
        <3>3. QED BY <3>1, <3>2
    <2>8. Apart(cut, acc.idx + 1, r, i)
        BY <1>2, <2>6, <2>7, ApartMore DEF KeepInv
    <2>9. LaidOut(cut, acc.idx, T, w)
        BY <1>2, <1>8, <1>9, <2>6, LaidOutStays
    <2>10. \A j \in i + 1 .. n : cut[j] = R[j]
        <3>1. \A j \in i + 1 .. n : j \in 1 .. n /\ j # i
            BY <1>2
        <3>2. QED BY <1>6, <2>4, <3>1
    <2>11. /\ next.granu = cut /\ next.idx = acc.idx + 1 /\ next.total = Unit
           /\ next.idx \in 0 .. i /\ next.idx - 1 = acc.idx
        BY <1>2, <2>1, <2>2
    <2>12. KeptRight(next, i, n, w, T)
        BY <1>2, <2>9, <2>11 DEF KeptRight
    <2>13. next.idx >= 1 /\ next.total <= Unit
        BY <1>2, <2>11
    <2>14. KeepInv(r, w, i, next)
        BY <2>8, <2>10, <2>11, <2>12, <2>13 DEF KeepInv, R
    <2>15. QED BY <2>14 DEF next
\* The piece is added, unless it is null.
<1>10. CASE acc.total # Unit /\ ~ (total >= Unit)
    <2>1. next = [granu |-> moved, idx |-> idx, total |-> total]
        BY <1>1, <1>10
    <2>2. total < Unit /\ total \in Int
        BY <1>2, <1>3, <1>10
    <2>3. /\ next.granu = moved /\ next.idx = idx /\ next.total = total
          /\ next.total < Unit
        BY <2>1, <2>2
    <2>4. \A j \in i + 1 .. n : next.granu[j] = R[j]
        BY <1>6, <2>3
    <2>5. total = Of(T[acc.idx] + q, w)
        <3>1. T[acc.idx] \in Int /\ acc.total = Of(T[acc.idx], w)
            BY <1>8, <1>10
        <3>2. Of(T[acc.idx] + q, w) = Of(T[acc.idx], w) + Of(q, w)
            BY ZenonT(40), <1>3, <3>1, GroupSize
        <3>3. QED BY <1>3, <3>1, <3>2
    <2>6. CASE g.share > 0
        <3>1. idx = acc.idx + 1 /\ q > 0 /\ idx \in 0 .. i /\ idx >= 1
            BY <1>2, <1>a, <2>6 DEF idx
        <3> DEFINE S == [T EXCEPT ![acc.idx + 1] = T[acc.idx] + q]
        <3>2. S \in [0 .. n -> Int] /\ S[acc.idx + 1] = T[acc.idx] + q
            <4>1. acc.idx + 1 \in 0 .. n /\ T[acc.idx] + q \in Int
                <5>1. acc.idx + 1 \in 0 .. n
                    BY <1>2
                <5>2. T[acc.idx] \in Int /\ q \in Int
                    BY <1>3, <1>8, <1>10
                <5>3. QED BY <5>1, <5>2
            <4>2. QED BY <4>1
        <3> HIDE DEF S
        <3>3. LaidOut(moved, acc.idx + 1, S, w)
            <4>1. acc.idx \in Nat /\ acc.idx < n /\ Of(T[acc.idx] + q, w) < Unit
                BY <1>2, <2>2, <2>5
            <4>2. QED BY <1>2, <1>3, <1>8, <1>10, <3>1, <4>1, LayMore DEF moved, S
        <3>4. KeptRight(next, i, n, w, S)
            BY <2>2, <2>3, <2>5, <3>1, <3>2, <3>3 DEF KeptRight
        <3>5. Apart(moved, acc.idx + 1, r, i)
            BY <1>2, <1>3, <1>5, <2>6, ApartMore DEF KeepInv
        <3>6. KeepInv(r, w, i, next)
            <4>1. next.idx \in 0 .. i /\ next.total <= Unit /\ next.total # Unit
                  /\ (next.idx >= 1)
                BY <1>2, <2>2, <2>3, <3>1
            <4>2. \E X \in [0 .. n -> Int] : KeptRight(next, i, n, w, X)
                BY <3>2, <3>4
            <4>3. Apart(next.granu, next.idx, r, i)
                BY <2>3, <3>1, <3>5
            <4> HIDE DEF next
            <4>4. QED BY <2>4, <4>1, <4>2, <4>3 DEF KeepInv, R
        <3>7. QED BY <3>6 DEF next
    <2>7. CASE ~ (g.share > 0)
        <3>1. idx = acc.idx /\ idx \in 0 .. i
            BY <1>2, <2>7 DEF idx
        <3>2. i < n => total = acc.total
            <4> SUFFICES ASSUME i < n PROVE q = 0
                BY <1>2, <1>3, <1>a
            <4>1. r[i].share >= 0 /\ r[i].share \in Int
                BY <1>2 DEF Request, Piece
            <4>2. q >= 0 /\ ~ (q > 0)
                BY <1>a, <2>7, <4>1, GroupsIs DEF q
            <4>3. QED BY <1>3, <4>2
        <3>3. LaidOut(moved, acc.idx, T, w)
            BY <1>2, <1>5, <1>8, <1>10, LaidOutStays
        <3>4. KeptRight(next, i, n, w, T)
            <4>1. next.granu = moved /\ next.idx = acc.idx /\ next.total = total /\ next.total # Unit
                BY <2>2, <2>3, <3>1
            <4>2. i < n => total = Of(T[acc.idx], w)
                BY <1>8, <1>10, <3>2
            <4>3. QED BY <3>3, <4>1, <4>2 DEF KeptRight
        <3>5. Apart(moved, acc.idx, r, i)
            BY <1>2, <1>5, ApartStays DEF KeepInv
        <3>6. (\E j \in 1 .. i : R[j].share > 0) => acc.idx >= 1
            <4> SUFFICES ASSUME NEW j \in 1 .. i, R[j].share > 0 PROVE acc.idx >= 1
                OBVIOUS
            <4>1. j # i
                BY <1>3, <2>7
            <4>2. j \in 1 .. i - 1
                BY <1>2, <4>1
            <4>3. QED BY <4>2 DEF KeepInv, R
        <3>7. KeepInv(r, w, i, next)
            <4>1. next.idx \in 0 .. i /\ next.total <= Unit /\ next.total # Unit
                  /\ ((\E j \in 1 .. i : R[j].share > 0) => next.idx >= 1)
                BY <1>2, <2>2, <2>3, <3>1, <3>6
            <4>2. \E X \in [0 .. n -> Int] : KeptRight(next, i, n, w, X)
                BY <3>4
            <4>3. Apart(next.granu, next.idx, r, i)
                BY <2>3, <3>1, <3>5
            <4> HIDE DEF next
            <4>4. QED BY <2>4, <4>1, <4>2, <4>3 DEF KeepInv, R
        <3>8. QED BY <3>7 DEF next
    <2>8. QED BY <2>6, <2>7
<1>11. QED BY <1>7, <1>9, <1>10

\* The pieces of a partition of w work groups: whole numbers of groups, but for
\* the last, which is what remains.
Parts(real, w) ==
    /\ real \in Seq(Piece) /\ Len(real) > 0
    /\ \A a \in 1 .. Len(real) : real[a].share > 0
    /\ NamedOnce(real, Len(real))
    /\ \E T : /\ \A a \in 0 .. Len(real) - 1 : T[a] \in Int
              /\ LaidOut(real, Len(real) - 1, T, w)

LEMMA Larger ==
    ASSUME NEW n \in Nat, n > 0, NEW w \in Nat, n <= w, NEW s \in Int, NEW U \in Nat, U > 0, n * s >= U
    PROVE  w * s >= U
<1>1. s > 0
    <2>1. CASE s <= 0
        <3>1. n * (0 - s) >= 0
            BY <2>1
        <3>2. n * (0 - s) = 0 - n * s
            OBVIOUS
        <3>3. QED BY <3>1, <3>2
    <2>2. QED BY <2>1
<1>2. (w - n) * s >= 0
    BY <1>1
<1>3. s * ((w - n) + n) = s * (w - n) + s * n
    <2>1. w - n \in Int
        OBVIOUS
    <2>2. QED BY <2>1, Distributes
<1>4. QED BY <1>2, <1>3

\* One of the shares is not rounded to nothing.
LEMMA SomeIsKept ==
    ASSUME NEW r, Request(r), NEW w \in Nat \ {0}, Unit % w = 0, Len(r) <= w
    PROVE  \E i \in 1 .. Len(r) : Rounded(r, w)[i].share > 0
<1>1. Len(r) \in Nat /\ Len(r) > 0 /\ w <= Unit /\ Unit \in Nat /\ Unit > 0 /\ r \in Seq(Piece)
    BY UnitAssumption, GroupSize DEF Request
<1>2. PICK i \in 1 .. Len(r) : Len(r) * (2 * r[i].share) >= Unit
    BY <1>1 DEF Request
<1>3. r[i].share \in Int /\ 2 * r[i].share \in Int
    <2>1. r[i] \in Piece
        BY <1>1
    <2>2. r[i].share \in Int
        BY <2>1 DEF Piece
    <2>3. QED BY <2>2
<1>4. w * (2 * r[i].share) >= Unit
    BY <1>1, <1>2, <1>3, Larger
<1>5. Groups(r[i].share, w) \in Int /\ Groups(r[i].share, w) > 0
    <2>1. Groups(r[i].share, w) \in Int /\ Groups(r[i].share, w) >= 1
        BY <1>3, <1>4, GroupsIs
    <2>2. QED BY <2>1
<1>6. Of(Groups(r[i].share, w), w) > 0
    BY <1>5, GroupSize
<1>7. QED BY <1>1, <1>6, RoundedType

LEMMA LaidOutLess ==
    ASSUME NEW m \in Nat, m >= 1, NEW T, NEW w \in Nat, NEW granu, LaidOut(granu, m, T, w),
           \A a \in 0 .. m : T[a] \in Int
    PROVE  LaidOut(granu, m - 1, T, w)
<1>1. m \in 1 .. m /\ m - 1 \in 0 .. m /\ m \in 0 .. m
    OBVIOUS
<1>2. T[m - 1] < w
    BY <1>1 DEF LaidOut
<1>3. \A a \in 1 .. m - 1 : a \in 1 .. m
    OBVIOUS
<1>4. QED BY <1>2, <1>3 DEF LaidOut

LEMMA AdaptIsRight ==
    ASSUME NEW r, Request(r), NEW w \in Nat \ {0}, Unit % w = 0, Len(r) <= w
    PROVE  /\ Parts(adaptGranudscr(r, w), w) /\ Len(adaptGranudscr(r, w)) <= Len(r)
           /\ InOrder(r, Len(r)) => InOrder(adaptGranudscr(r, w), Len(adaptGranudscr(r, w)))
<1> DEFINE n == Len(r)
<1>1. r \in Seq(Piece) /\ n \in Nat /\ n > 0 /\ Unit \in Nat \ {0}
    BY UnitAssumption DEF Request
<1>2. PICK f : /\ Chain(f, n, Kept(n), NothingKept(r, w), Keeping(n))
               /\ adaptGranudscr(r, w) = MadeUp(f[n])
    BY <1>1, AdaptIsChain
<1> DEFINE acc == f[n]
           Q == {q \in (0 .. n) \X Kept(n) : KeepInv(r, w, q[1], q[2])}
<1>3. acc \in Kept(n) /\ KeepInv(r, w, n, acc)
    <2>1. NothingKept(r, w) \in Kept(n)
        <3>1. 0 \in 0 .. n
            BY <1>1
        <3>2. QED BY <1>2, <3>1 DEF Chain
    <2>2. <<0, NothingKept(r, w)>> \in Q
        BY <1>1, <2>1, KeepInvStarts
    <2>3. ASSUME NEW i \in 1 .. n, NEW v \in Kept(n), <<i - 1, v>> \in Q
          PROVE  <<i, Keeping(n)[<<i, v>>]>> \in Q
        <3>1. Keeping(n)[<<i, v>>] = Keep(v, i)
            BY DEF Keeping
        <3>2. KeepInv(r, w, i - 1, v)
            BY <2>3
        <3>3. KeepInv(r, w, i, Keep(v, i)) /\ Keep(v, i) \in Kept(n) /\ i \in 0 .. n
            BY <1>1, <3>2, KeepStep, KeepType
        <3>4. QED BY <3>1, <3>3
    <2>4. <<n, f[n]>> \in Q
        <3> HIDE DEF Q
        <3>1. Q \in SUBSET ((0 .. n) \X Kept(n))
            BY DEF Q
        <3> HIDE DEF n
        <3>2. QED BY <1>1, <1>2, <2>2, <2>3, <3>1, ChainInduction
    <2>5. QED BY <2>4
<1> DEFINE m == acc.idx
           real == adaptGranudscr(r, w)
           h == [acc.granu EXCEPT ![m].share = @ + (Unit - acc.total)]
<1> HIDE DEF acc
<1>4. /\ acc.granu \in [1 .. n -> Piece] /\ m \in 0 .. n /\ acc.total \in Int /\ acc.total <= Unit
      /\ m >= 1 /\ m \in Nat /\ m \in 1 .. n
    <2>1. \E j \in 1 .. n : Rounded(r, w)[j].share > 0
        BY <1>1, SomeIsKept
    <2>2. QED BY <1>1, <1>3, <2>1 DEF KeepInv, Kept
<1>5. PICK T \in [0 .. n -> Int] : KeptRight(acc, n, n, w, T)
    BY <1>3 DEF KeepInv
<1>6. Apart(acc.granu, m, r, n)
    BY <1>3 DEF KeepInv
<1>7. /\ h \in [1 .. n -> Piece]
      /\ \A a \in 1 .. n : a # m => h[a] = acc.granu[a]
      /\ h[m].dev = acc.granu[m].dev /\ h[m].share > 0
    <2>1. acc.granu[m] \in Piece /\ acc.granu[m].share > 0
        BY <1>4, <1>6 DEF Apart
    <2> DEFINE e == acc.granu[m].share + (Unit - acc.total)
    <2>2. e \in Int /\ e > 0
        <3>1. acc.granu[m].share \in Int
            BY <2>1 DEF Piece
        <3> HIDE DEF m
        <3>2. QED BY <1>1, <1>4, <2>1, <3>1
    <2>3. h = [acc.granu EXCEPT ![m] = [acc.granu[m] EXCEPT !.share = e]]
        BY <1>4
    <2>4. [acc.granu[m] EXCEPT !.share = e] = [dev |-> acc.granu[m].dev, share |-> e]
          /\ [acc.granu[m] EXCEPT !.share = e] \in Piece
        BY <2>1, <2>2, WithShare
    <2> HIDE DEF h, e, m
    <2>5. QED BY <1>4, <2>2, <2>3, <2>4
<1>8. real = SubSeq(h, 1, m)
    BY <1>2 DEF MadeUp, acc
<1> HIDE DEF h, m, real, n
<1>9. real \in Seq(Piece) /\ Len(real) = m /\ \A a \in 1 .. m : real[a] = h[a]
    <2>1. \A a \in 1 .. m : a \in 1 .. n
        BY <1>1, <1>4
    <2>2. h \in Seq(Piece) /\ Len(h) = n
        BY <1>1, <1>7
    <2>3. QED BY <1>1, <1>4, <1>7, <1>8, <2>1, <2>2
<1>10. \A a \in 1 .. m : real[a].share > 0 /\ real[a].dev = acc.granu[a].dev
    <2>1. \A a \in 1 .. m : a \in 1 .. n
        BY <1>1, <1>4
    <2>2. QED BY <1>6, <1>7, <1>9, <2>1 DEF Apart
<1>11. NamedOnce(real, m)
    BY <1>6, <1>10 DEF Apart, NamedOnce
<1>12. LaidOut(acc.granu, m - 1, T, w)
    <2>1. \A a \in 0 .. m : T[a] \in Int
        BY <1>1, <1>4
    <2>2. CASE acc.total = Unit
        BY <1>5, <2>2 DEF KeptRight, m
    <2>3. CASE acc.total # Unit
        <3>1. LaidOut(acc.granu, m, T, w)
            BY <1>5, <2>3 DEF KeptRight, m
        <3>2. QED BY <1>4, <2>1, <3>1, LaidOutLess
    <2>4. QED BY <2>2, <2>3
<1>13. LaidOut(real, m - 1, T, w)
    <2>1. Same(real, acc.granu, m - 1)
        <3>1. \A a \in 1 .. m - 1 : a \in 1 .. m /\ a \in 1 .. n /\ a # m
            BY <1>1, <1>4
        <3>2. QED BY <1>7, <1>9, <3>1 DEF Same
    <2>2. m - 1 \in Nat
        BY <1>4
    <2>3. QED BY <1>12, <2>1, <2>2, LaidOutStays
<1>14. \A a \in 0 .. m - 1 : T[a] \in Int
    BY <1>1, <1>4
<1>15. Parts(real, w)
    <2>1. real \in Seq(Piece) /\ Len(real) = m /\ m > 0
        BY <1>4, <1>9
    <2>2. \A a \in 1 .. m : real[a].share > 0
        BY <1>10
    <2>3. QED BY <2>1, <2>2, <1>11, <1>13, <1>14 DEF Parts
<1>16. Len(real) <= n
    BY <1>1, <1>4, <1>9
<1>17. InOrder(r, n) => InOrder(real, Len(real))
    BY <1>6, <1>9, <1>10 DEF Apart, InOrder
<1>18. QED BY <1>15, <1>16, <1>17 DEF real, n

LEMMA FewerIsRequest ==
    ASSUME NEW r, Request(r), NEW w \in Nat \ {0}, Unit % w = 0
    PROVE  /\ Request(FewerWgs(r, w)) /\ Len(FewerWgs(r, w)) <= w
           /\ Len(FewerWgs(r, w)) <= Len(r)
           /\ InOrder(r, Len(r)) => InOrder(FewerWgs(r, w), Len(FewerWgs(r, w)))
<1>1. r \in Seq(Piece) /\ Len(r) \in Nat /\ Unit \in Nat \ {0} /\ NamedOnce(r, Len(r))
    BY UnitAssumption DEF Request
<1>2. CASE ~ (w < Len(r))
    BY <1>1, <1>2 DEF FewerWgs
<1>3. CASE w < Len(r)
    <2> DEFINE u == Unit \div w
               s == [i \in 1 .. w |-> [r[i] EXCEPT !.share = u]]
    <2>1. u \in Int /\ u > 0 /\ w * (2 * u) >= Unit
        <3>1. u = Of(1, w) /\ w * u = Of(w, w) /\ u \in Int
            BY <1>1 DEF Of
        <3>2. Of(1, w) > 0 /\ Of(w, w) = Unit
            BY GroupSize
        <3> HIDE DEF u
        <3>3. w * (u + u) = w * u + w * u /\ 2 * u = u + u
            BY <3>1, Distributes
        <3>4. QED BY <1>1, <3>1, <3>2, <3>3
    <2>2. FewerWgs(r, w) = s
        BY <1>3 DEF FewerWgs
    <2> HIDE DEF u
    <2>3. \A i \in 1 .. w : s[i].dev = r[i].dev /\ s[i].share = u /\ s[i] \in Piece
        <3> SUFFICES ASSUME NEW i \in 1 .. w
                     PROVE  s[i].dev = r[i].dev /\ s[i].share = u /\ s[i] \in Piece
            OBVIOUS
        <3>1. r[i] \in Piece
            BY <1>1, <1>3
        <3>2. s[i] = [r[i] EXCEPT !.share = u]
            OBVIOUS
        <3> HIDE DEF s
        <3>3. s[i] = [dev |-> r[i].dev, share |-> u] /\ s[i] \in Piece
            BY <2>1, <3>1, <3>2, WithShare
        <3>4. QED BY <3>3
    <2>4. s \in Seq(Piece) /\ Len(s) = w
        <3>1. DOMAIN s = 1 .. w
            OBVIOUS
        <3>2. s = [i \in 1 .. w |-> s[i]]
            OBVIOUS
        <3> HIDE DEF s
        <3>3. s \in [1 .. w -> Piece]
            BY <2>3, <3>1, <3>2
        <3>4. QED BY <3>1, <3>3
    <2> HIDE DEF s
    <2>5. NamedOnce(s, w)
        <3>1. \A i \in 1 .. w : i \in 1 .. Len(r)
            BY <1>1, <1>3
        <3>2. QED BY <1>1, <2>3, <3>1 DEF NamedOnce
    <2>6. \A i \in 1 .. w : s[i].share = u
        BY <2>3
    <2>7. 1 \in 1 .. w /\ w > 0 /\ \A i \in 1 .. w - 1 : i \in 1 .. w
        OBVIOUS
    <2>8. Request(s)
        BY <2>1, <2>4, <2>5, <2>6, <2>7 DEF Request
    <2>9. InOrder(r, Len(r)) => InOrder(s, w)
        <3>1. \A i \in 1 .. w : i \in 1 .. Len(r)
            BY <1>1, <1>3
        <3>2. QED BY <2>3, <3>1 DEF InOrder
    <2>10. QED BY <1>1, <1>3, <2>2, <2>4, <2>8, <2>9
<1>4. QED BY <1>2, <1>3

-----------------------------------------------------------------------------
(* The parts that a partition cuts a launch into.                          *)

\* Part i of m is what lies between C[i - 1] and C[i].
Cuts(C, m, w) ==
    /\ C[0] = 0 /\ C[m] = w
    /\ \A a \in 0 .. m : C[a] \in Int
    /\ \A a \in 1 .. m : C[a - 1] < C[a]

\* A part is as large as its piece says, but for the last one.
Fits(C, real, w) == \A i \in 1 .. Len(real) - 1 : real[i].share = Of(C[i] - C[i - 1], w)

LEMMA Increasing ==
    ASSUME NEW m \in Nat, NEW w, NEW C, Cuts(C, m, w), NEW i \in 0 .. m, NEW j \in i .. m
    PROVE  C[i] <= C[j]
<1> DEFINE P == {d \in Nat : i + d <= m => C[i] <= C[i + d]}
<1>1. 0 \in P
    <2>1. C[i] \in Int /\ i + 0 = i
        BY DEF Cuts
    <2>2. C[i] <= C[i + 0]
        BY <2>1
    <2>3. QED BY <2>2
<1>2. ASSUME NEW d \in P PROVE d + 1 \in P
    <2> SUFFICES ASSUME i + (d + 1) <= m PROVE C[i] <= C[i + (d + 1)]
        OBVIOUS
    <2>1. i + d <= m /\ i + d \in 0 .. m /\ i + (d + 1) \in 1 .. m /\ (i + (d + 1)) - 1 = i + d
        OBVIOUS
    <2>2. C[i + d] < C[i + (d + 1)]
        BY <2>1 DEF Cuts
    <2>3. C[i] <= C[i + d]
        BY <2>1
    <2>4. C[i] \in Int /\ C[i + d] \in Int /\ C[i + (d + 1)] \in Int
        BY <2>1 DEF Cuts
    <2>5. QED BY <2>2, <2>3, <2>4
<1>3. P = Nat
    <2> HIDE DEF P
    <2>1. P \in SUBSET Nat
        BY DEF P
    <2>2. QED BY <1>1, <1>2, <2>1, Induction
<1>4. j - i \in Nat /\ i + (j - i) = j /\ j <= m
    OBVIOUS
<1>5. j - i \in P
    <2> HIDE DEF P
    <2>1. QED BY <1>3, <1>4
<1>6. QED BY <1>4, <1>5

IsIn(C, g, j) == C[j - 1] <= g /\ g <= C[j] - 1
OnlyIn(C, m, g, i) == i \in 1 .. m /\ \A j \in 1 .. m : IsIn(C, g, j) <=> j = i

LEMMA InOnePart ==
    ASSUME NEW m \in Nat, NEW w \in Nat, NEW C, Cuts(C, m, w), NEW g \in 0 .. w - 1
    PROVE  \E i : OnlyIn(C, m, g, i)
<1> DEFINE S == {j \in 0 .. m : g < C[j]}
<1>1. S \in SUBSET Nat /\ S # {} /\ 0 \notin S
    BY DEF Cuts
<1>2. PICK i \in S : \A j \in S : i <= j
    BY <1>1, Least
<1>3. i \in 1 .. m /\ i - 1 \in 0 .. m /\ i - 1 \notin S /\ g < C[i]
    BY <1>1, <1>2
<1>4. C[i - 1] \in Int /\ C[i] \in Int /\ g \in Int
    BY <1>3 DEF Cuts
<1>5. C[i - 1] <= g /\ g <= C[i] - 1
    BY <1>3, <1>4
<1>6. ASSUME NEW j \in 1 .. m, C[j - 1] <= g, g <= C[j] - 1 PROVE j = i
    <2>1. j \in 0 .. m /\ j - 1 \in 0 .. m /\ C[j] \in Int /\ C[j - 1] \in Int
        BY DEF Cuts
    <2>2. CASE j < i
        <3>1. j \in S
            BY <1>6, <2>1
        <3>2. QED BY <1>2, <2>2, <3>1
    <2>3. CASE i < j
        <3>1. C[i] <= C[j - 1]
            <4>1. i \in 0 .. m /\ j - 1 \in i .. m
                BY <1>3, <2>3
            <4>2. QED BY <4>1, Increasing
        <3>2. QED BY <1>4, <1>5, <1>6, <2>1, <3>1
    <2>4. QED BY <1>3, <2>2, <2>3
<1>7. OnlyIn(C, m, g, i)
    BY <1>3, <1>5, <1>6 DEF OnlyIn, IsIn
<1>8. QED BY <1>7

LEMMA WholeGroups ==
    ASSUME NEW w \in Nat \ {0}, Unit % w = 0, NEW q \in Int
    PROVE  (w * Of(q, w)) \div Unit = q
<1> DEFINE u == Unit \div w
<1>1. Unit \in Nat \ {0} /\ u \in Int /\ Unit = w * u
    BY UnitAssumption
<1>2. w * (q * u) = q * (w * u)
    <2> HIDE DEF u
    <2>1. QED BY <1>1
<1>3. w * Of(q, w) = q * Unit
    BY <1>1, <1>2 DEF Of
<1>4. (q * Unit) \div Unit = q
    BY <1>1
<1>5. QED BY <1>3, <1>4

\* The part of nd from the work group b up to the work group e.
Between(nd, d, b, e) == Part(nd, d, nd.offset[d] + b * nd.ls[d], (e - b) * nd.ls[d])

LEMMA PartsAreCuts ==
    ASSUME NEW w \in Nat \ {0}, Unit % w = 0, NEW real, Parts(real, w),
           NEW nd, NEW d, NumGroups(nd, d) = w,
           NEW parts, parts = splitDim(nd, d, Shares(real))
    PROVE  /\ DOMAIN parts = 1 .. Len(real) /\ Len(real) \in Nat
           /\ \E C : /\ Cuts(C, Len(real), w) /\ Fits(C, real, w)
                     /\ \A i \in 1 .. Len(real) : parts[i] = Between(nd, d, C[i - 1], C[i])
<1> DEFINE m == Len(real)
           shares == Shares(real)
           groups == NumGroups(nd, d)
           nbWg(i) == (groups * shares[i]) \div Unit
           Raw(f) == f = [i \in 1 .. Len(shares) |-> IF i = 1 THEN 0 ELSE f[i - 1] + nbWg(i - 1)]
           total == CHOOSE f : Raw(f)
           size(i) == IF i < Len(shares) THEN nbWg(i) ELSE groups - total[Len(shares)]
<1>1. /\ real \in Seq(Piece) /\ m \in Nat /\ m > 0 /\ DOMAIN real = 1 .. m
    BY DEF Parts
<1>2. PICK T : LaidOut(real, m - 1, T, w) /\ \A a \in 0 .. m - 1 : T[a] \in Int
    BY DEF Parts
<1>3. groups = w
    OBVIOUS
<1>4. Len(shares) = m /\ \A i \in 1 .. m : shares[i] = real[i].share
    BY <1>1 DEF Shares
<1>5. parts = [i \in 1 .. Len(shares) |->
                 Part(nd, d, nd.offset[d] + total[i] * nd.ls[d], size(i) * nd.ls[d])]
    BY DEF splitDim
<1> HIDE DEF groups, shares, m
<1>6. \A i \in 1 .. m - 1 : nbWg(i) = T[i] - T[i - 1]
    <2> SUFFICES ASSUME NEW i \in 1 .. m - 1 PROVE nbWg(i) = T[i] - T[i - 1]
        OBVIOUS
    <2>1. i \in 1 .. m /\ i \in 0 .. m - 1 /\ i - 1 \in 0 .. m - 1
        BY <1>1
    <2>2. shares[i] = Of(T[i] - T[i - 1], w)
        BY <1>2, <1>4, <2>1 DEF LaidOut
    <2>3. T[i] - T[i - 1] \in Int
        BY <1>2, <2>1
    <2>4. QED BY <1>3, <2>2, <2>3, WholeGroups
<1> HIDE DEF nbWg
<1>7. Raw(total)
    <2> DEFINE f == [i \in 1 .. m |-> T[i - 1]]
    <2>1. \A i \in 1 .. m : f[i] = IF i = 1 THEN 0 ELSE f[i - 1] + nbWg(i - 1)
        <3> SUFFICES ASSUME NEW i \in 1 .. m
                     PROVE  f[i] = IF i = 1 THEN 0 ELSE f[i - 1] + nbWg(i - 1)
            OBVIOUS
        <3>1. CASE i = 1
            BY <1>2, <3>1 DEF LaidOut
        <3>2. CASE i # 1
            <4>1. i - 1 \in 1 .. m - 1 /\ i - 1 \in 0 .. m - 1 /\ (i - 1) - 1 \in 0 .. m - 1 /\ i - 1 \in 1 .. m
                BY <1>1, <3>2
            <4>2. nbWg(i - 1) = T[i - 1] - T[(i - 1) - 1] /\ f[i - 1] = T[(i - 1) - 1] /\ f[i] = T[i - 1]
                BY <1>6, <4>1
            <4>3. T[i - 1] \in Int /\ T[(i - 1) - 1] \in Int
                BY <1>2, <4>1
            <4> HIDE DEF f
            <4>4. QED BY <3>2, <4>2, <4>3
        <3>3. QED BY <3>1, <3>2
    <2>2. f = [i \in 1 .. m |-> f[i]]
        OBVIOUS
    <2> HIDE DEF f
    <2>3. Raw(f)
        BY ZenonT(40), <1>4, <2>1, <2>2
    <2> HIDE DEF Raw
    <2>4. QED BY <2>3
<1> HIDE DEF total
<1>8. \A i \in 1 .. m : total[i] = T[i - 1]
    <2> DEFINE P == {a \in Nat : a + 1 <= m => total[a + 1] = T[a]}
    <2>1. 0 \in P
        BY <1>1, <1>2, <1>4, <1>7 DEF LaidOut
    <2>2. ASSUME NEW a \in P PROVE a + 1 \in P
        <3> SUFFICES ASSUME (a + 1) + 1 <= m PROVE total[(a + 1) + 1] = T[a + 1]
            OBVIOUS
        <3>1. /\ a + 1 <= m /\ (a + 1) + 1 \in 1 .. m /\ (a + 1) + 1 # 1 /\ ((a + 1) + 1) - 1 = a + 1
              /\ a + 1 \in 1 .. m - 1 /\ (a + 1) - 1 = a /\ a \in 0 .. m - 1 /\ a + 1 \in 0 .. m - 1
            BY <1>1
        <3>2. total[(a + 1) + 1] = total[a + 1] + nbWg(a + 1)
            BY <1>4, <1>7, <3>1
        <3>3. total[a + 1] = T[a]
            BY <3>1
        <3>4. nbWg(a + 1) = T[a + 1] - T[a]
            BY <1>6, <3>1
        <3>5. T[a + 1] \in Int /\ T[a] \in Int
            BY <1>2, <3>1
        <3>6. QED BY <3>2, <3>3, <3>4, <3>5
    <2>3. P = Nat
        <3> HIDE DEF P
        <3>1. P \in SUBSET Nat
            BY DEF P
        <3>2. QED BY <2>1, <2>2, <3>1, Induction
    <2> SUFFICES ASSUME NEW i \in 1 .. m PROVE total[i] = T[i - 1]
        OBVIOUS
    <2>4. i - 1 \in Nat /\ (i - 1) + 1 = i /\ i <= m
        BY <1>1
    <2>5. i - 1 \in P
        BY <2>3, <2>4
    <2>6. QED BY <2>4, <2>5
<1> HIDE DEF Raw
<1> DEFINE C == [a \in 0 .. m |-> IF a < m THEN T[a] ELSE w]
<1>9. Cuts(C, m, w)
    <2>1. \A a \in 0 .. m - 1 : C[a] = T[a] /\ C[a] \in Int
        BY <1>1, <1>2
    <2>2. C[m] = w /\ C[0] = 0
        BY <1>1, <1>2 DEF LaidOut
    <2> HIDE DEF C
    <2>3. \A a \in 0 .. m : C[a] \in Int
        BY <1>1, <2>1, <2>2
    <2>4. ASSUME NEW a \in 1 .. m PROVE C[a - 1] < C[a]
        <3>1. CASE a = m
            <4>1. m - 1 \in 0 .. m - 1 /\ T[m - 1] < w
                BY <1>1, <1>2 DEF LaidOut
            <4>2. QED BY <2>1, <2>2, <3>1, <4>1
        <3>2. CASE a # m
            <4>1. a \in 1 .. m - 1 /\ a \in 0 .. m - 1 /\ a - 1 \in 0 .. m - 1
                BY <1>1, <3>2
            <4>2. T[a - 1] < T[a]
                BY <1>2, <4>1 DEF LaidOut
            <4>3. QED BY <2>1, <4>1, <4>2
        <3>3. QED BY <3>1, <3>2
    <2>5. QED BY <2>2, <2>3, <2>4 DEF Cuts
<1>a. Fits(C, real, w)
    <2> SUFFICES ASSUME NEW i \in 1 .. m - 1 PROVE real[i].share = Of(C[i] - C[i - 1], w)
        BY DEF Fits, m
    <2>1. i \in 0 .. m /\ i - 1 \in 0 .. m /\ i < m /\ i - 1 < m
        BY <1>1
    <2>2. C[i] = T[i] /\ C[i - 1] = T[i - 1]
        BY <2>1
    <2> HIDE DEF C
    <2>3. QED BY <1>2, <2>2 DEF LaidOut
<1>10. ASSUME NEW i \in 1 .. m
       PROVE  parts[i] = Between(nd, d, C[i - 1], C[i])
    <2>1. i - 1 \in 0 .. m - 1 /\ i - 1 \in 0 .. m /\ i \in 0 .. m /\ i - 1 < m
        BY <1>1
    <2>2. total[i] = T[i - 1] /\ T[i - 1] \in Int /\ C[i - 1] = T[i - 1]
        BY <1>2, <1>8, <2>1
    <2>3. size(i) = C[i] - C[i - 1] /\ C[i] \in Int
        <3>1. CASE i < m
            <4>1. i \in 1 .. m - 1 /\ i \in 0 .. m - 1
                BY <1>1, <3>1
            <4>2. size(i) = T[i] - T[i - 1] /\ C[i] = T[i] /\ T[i] \in Int
                BY <1>2, <1>4, <1>6, <3>1, <4>1, <2>1
            <4>3. QED BY <2>2, <4>2
        <3>2. CASE ~ (i < m)
            <4>1. i = m
                BY <1>1, <3>2
            <4>2. size(i) = groups - total[i] /\ C[i] = w
                BY <1>4, <4>1, <2>1
            <4>3. QED BY <1>3, <2>2, <4>2
        <3>3. QED BY <3>1, <3>2
    <2> DEFINE z == size(i)
               o == total[i]
    <2> HIDE DEF z, o, C
    <2>4. parts[i] = Part(nd, d, nd.offset[d] + o * nd.ls[d], z * nd.ls[d])
        BY <1>4, <1>5 DEF z, o
    <2>5. o = C[i - 1] /\ z = C[i] - C[i - 1]
        BY <2>2, <2>3 DEF z, o
    <2>6. QED BY <2>4, <2>5 DEF Between
<1>11. DOMAIN parts = 1 .. m
    BY <1>4, <1>5
<1> HIDE DEF C
<1>12. QED BY <1>1, <1>a, <1>9, <1>10, <1>11 DEF m

\* A launch of one dimension, whose work groups are single work items.
LEMMA PartsAre ==
    ASSUME NEW w \in Nat \ {0}, Unit % w = 0, NEW real, Parts(real, w),
           NEW parts, parts = splitDim(Launch(<<w>>, << 0 >>, << 1 >>), 0, Shares(real))
    PROVE  /\ DOMAIN parts = 1 .. Len(real) /\ Len(real) \in Nat
           /\ \E C : /\ Cuts(C, Len(real), w) /\ Fits(C, real, w)
                     /\ \A i \in 1 .. Len(real) : /\ parts[i].offset[0] = C[i - 1]
                                                  /\ parts[i].size[0] = C[i] - C[i - 1]
<1> DEFINE m == Len(real)
           nd == Launch(<<w>>, << 0 >>, << 1 >>)
<1>1. /\ nd.ls[0] = 1 /\ nd.offset[0] = 0 /\ NumGroups(nd, 0) = w
      /\ nd.offset = [d \in 0 .. 0 |-> 0] /\ nd.size = [d \in 0 .. 0 |-> w]
      /\ DOMAIN nd = {"work_dim", "orig", "size", "offset", "ls"}
    BY DEF Launch, NumGroups
<1> HIDE DEF nd
<1>2. /\ DOMAIN parts = 1 .. m /\ m \in Nat
      /\ \E C : /\ Cuts(C, m, w) /\ Fits(C, real, w)
                /\ \A i \in 1 .. m : parts[i] = Between(nd, 0, C[i - 1], C[i])
    BY <1>1, PartsAreCuts DEF nd
<1>3. PICK C : Cuts(C, m, w) /\ Fits(C, real, w) /\ \A i \in 1 .. m : parts[i] = Between(nd, 0, C[i - 1], C[i])
    BY <1>2
<1> HIDE DEF m
<1>4. ASSUME NEW i \in 1 .. m
      PROVE  parts[i].offset[0] = C[i - 1] /\ parts[i].size[0] = C[i] - C[i - 1]
    <2>1. C[i - 1] \in Int /\ C[i] \in Int
        BY <1>2, <1>3 DEF Cuts
    <2> DEFINE b == C[i - 1]
               z == C[i] - C[i - 1]
    <2>2. parts[i] = Part(nd, 0, 0 + b * 1, z * 1)
        BY <1>1, <1>3 DEF Between
    <2> HIDE DEF b, z
    <2>3. b \in Int /\ z \in Int
        BY <2>1 DEF b, z
    <2>4. parts[i] = Part(nd, 0, b, z)
        BY <2>2, <2>3
    <2>5. Part(nd, 0, b, z).offset[0] = b /\ Part(nd, 0, b, z).size[0] = z
        BY <1>1 DEF Part
    <2>6. QED BY <2>4, <2>5 DEF b, z
<1>5. QED BY <1>2, <1>3, <1>4 DEF m

\* Each work group is in one part, and no part is empty.
LEMMA Covered ==
    ASSUME NEW w \in Nat \ {0}, Unit % w = 0, NEW real, Parts(real, w),
           NEW parts, parts = splitDim(Launch(<<w>>, << 0 >>, << 1 >>), 0, Shares(real))
    PROVE  /\ \A i \in DOMAIN parts : parts[i].size[0] > 0
           /\ \A g \in 0 .. w - 1 :
                Cardinality({i \in DOMAIN parts : g \in parts[i].offset[0] .. LastId(parts[i], 0)}) = 1
<1> DEFINE m == Len(real)
<1>1. DOMAIN parts = 1 .. m /\ m \in Nat
    BY PartsAre
<1>2. PICK C : /\ Cuts(C, m, w)
               /\ \A i \in 1 .. m : parts[i].offset[0] = C[i - 1] /\ parts[i].size[0] = C[i] - C[i - 1]
    BY PartsAre
<1> HIDE DEF m
<1>3. ASSUME NEW i \in 1 .. m
      PROVE  /\ C[i] \in Int /\ C[i - 1] \in Int /\ parts[i].size[0] > 0
             /\ LastId(parts[i], 0) = C[i] - 1 /\ parts[i].offset[0] = C[i - 1]
    <2>1. i \in 0 .. m /\ i - 1 \in 0 .. m
        BY <1>1
    <2>2. C[i] \in Int /\ C[i - 1] \in Int /\ C[i - 1] < C[i]
        BY <1>2, <2>1 DEF Cuts
    <2>3. LastId(parts[i], 0) = C[i - 1] + (C[i] - C[i - 1]) - 1
        BY <1>2 DEF LastId
    <2>4. QED BY <1>2, <2>2, <2>3
<1>4. ASSUME NEW g \in 0 .. w - 1
      PROVE  Cardinality({i \in DOMAIN parts : g \in parts[i].offset[0] .. LastId(parts[i], 0)}) = 1
    <2> DEFINE In == {i \in DOMAIN parts : g \in parts[i].offset[0] .. LastId(parts[i], 0)}
    <2>1. PICK i : OnlyIn(C, m, g, i)
        <3>1. w \in Nat /\ Cuts(C, m, w)
            BY <1>2
        <3>2. QED BY <1>1, <3>1, InOnePart
    <2>2. \A j \in 1 .. m : g \in parts[j].offset[0] .. LastId(parts[j], 0) <=> IsIn(C, g, j)
        BY <1>3 DEF IsIn
    <2>3. In = {i}
        BY <1>1, <2>1, <2>2 DEF OnlyIn
    <2> HIDE DEF In
    <2>4. Cardinality(In) = 1
        BY <2>3, FS_Singleton
    <2>5. QED BY <2>4 DEF In
<1>5. QED BY <1>1, <1>3, <1>4
=============================================================================
