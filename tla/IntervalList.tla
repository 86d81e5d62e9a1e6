---------------------------- MODULE IntervalList ----------------------------
(***************************************************************************)
(* ListInterval: the lists of intervals that stand for regions of buffers, *)
(* in the directories, in the regions of launches and in the transfers.    *)
(* The algorithms of add and remove work on the positions of the list; the *)
(* two lists of this specification are subject to every sequence of calls. *)
(***************************************************************************)
EXTENDS Integers, Sequences, FiniteSets, SequencesExt

CONSTANT MaxPos            \* bound: positions are 0 .. MaxPos

ASSUME MaxPosAssumption == MaxPos \in Nat

VARIABLES list, other      \* mList of two objects

vars == <<list, other>>

Position == 0 .. MaxPos
Interval == {x \in [lb : Position, hb : Position] : x.lb <= x.hb}

-----------------------------------------------------------------------------
(* add: insert in the order of the lower bounds, then merge from the left. *)

Insert(l, inter) ==
    LET index == CHOOSE i \in 1 .. Len(l) + 1 :
                    /\ i > Len(l) \/ l[i].lb >= inter.lb
                    /\ \A j \in 1 .. i - 1 : l[j].lb < inter.lb
    IN InsertAt(l, index, inter)

Mutant_TouchingKeptApart(s, x) ==
    IF Last(s).hb < x.lb THEN Append(s, x)
    ELSE IF Last(s).hb < x.hb THEN Front(s) \o <<[Last(s) EXCEPT !.hb = x.hb]>>
    ELSE s
Merge(s, x) ==
    IF Last(s).hb + 1 < x.lb THEN Append(s, x)
    ELSE IF Last(s).hb < x.hb THEN Front(s) \o <<[Last(s) EXCEPT !.hb = x.hb]>>
    ELSE s

AddInterval(l, inter) ==
    IF l = <<>> THEN <<inter>>
    ELSE LET m == Insert(l, inter) IN FoldLeft(Merge, <<Head(m)>>, Tail(m))

-----------------------------------------------------------------------------
(* remove: "index before a block: blockid * 2, inside a block: blockid * 2 *)
(* + 1, after a block: blockid * 2 + 2".  The lower index goes up from 0,  *)
(* the higher one down from twice the length.                              *)

Block(l, index) == l[index \div 2 + 1]

LowerPasses(l, index, lb) ==
    IF index % 2 = 0 THEN lb >= Block(l, index).lb ELSE lb > Block(l, index).hb

HigherPasses(l, index, hb) ==
    IF index % 2 = 0 THEN hb <= Block(l, index - 2).hb ELSE hb < Block(l, index).lb

LowerIndex(l, lb) ==
    CHOOSE i \in 0 .. 2 * Len(l) : /\ ~ LowerPasses(l, i, lb)
                                   /\ \A j \in 0 .. i - 1 : LowerPasses(l, j, lb)

HigherIndex(l, hb) ==
    CHOOSE i \in 1 .. 2 * Len(l) : /\ ~ HigherPasses(l, i, hb)
                                   /\ \A j \in i + 1 .. 2 * Len(l) : HigherPasses(l, j, hb)

\* Both bounds at the same index: inside a block of which at most two pieces
\* stay, or between blocks.
RemoveInside(l, index, inter) ==
    LET idx    == index \div 2 + 1
        x      == l[idx]
        before == IF x.lb < inter.lb THEN <<[x EXCEPT !.hb = inter.lb - 1]>> ELSE <<>>
        after  == IF x.hb > inter.hb THEN <<[x EXCEPT !.lb = inter.hb + 1]>> ELSE <<>>
    IN IF index % 2 = 0 THEN l
       ELSE SubSeq(l, 1, idx - 1) \o before \o after \o SubSeq(l, idx + 1, Len(l))

\* At different indexes: the blocks at both ends are cut, or removed when a bound
\* touches theirs, and those between are removed.
Mutant_HighEndRemoved(l, low, high, inter) ==
    SubSeq(l, 1, low \div 2) \o SubSeq(l, high \div 2 + 2, Len(l))
RemoveAcross(l, low, high, inter) ==
    LET cutLow   == low % 2 = 1 /\ Block(l, low).lb # inter.lb
        cutHigh  == high % 2 = 1 /\ Block(l, high).hb # inter.hb
        firstDel == (low \div 2) + (IF cutLow THEN 2 ELSE 1)
        lastDel  == (high \div 2) + (IF high % 2 = 1 /\ ~ cutHigh THEN 1 ELSE 0)
        cut      == [i \in DOMAIN l |->
                        IF cutLow /\ i = low \div 2 + 1 THEN [l[i] EXCEPT !.hb = inter.lb - 1]
                        ELSE IF cutHigh /\ i = high \div 2 + 1 THEN [l[i] EXCEPT !.lb = inter.hb + 1]
                        ELSE l[i]]
    IN IF lastDel >= firstDel
       THEN SubSeq(cut, 1, firstDel - 1) \o SubSeq(cut, lastDel + 1, Len(l))
       ELSE cut

RemoveInterval(l, inter) ==
    LET low  == LowerIndex(l, inter.lb)
        high == HigherIndex(l, inter.hb)
    IN IF l = <<>> \/ Head(l).lb > inter.hb \/ Last(l).hb < inter.lb THEN l
       ELSE IF low = high THEN RemoveInside(l, low, inter)
       ELSE RemoveAcross(l, low, high, inter)

-----------------------------------------------------------------------------
(* The operations on two lists.                                            *)

MyUnion(l, m)    == FoldLeft(AddInterval, l, m)
Difference(l, m) == FoldLeft(RemoveInterval, l, m)

\* Interval::intersection: the common part, if any.
Mutant_Common(x, y) == IF x.lb <= y.lb /\ y.lb < x.hb
                       THEN <<[lb |-> y.lb, hb |-> IF x.hb < y.hb THEN x.hb ELSE y.hb]>>
                       ELSE <<>>
Common(x, y) ==
    LET lb == IF x.lb > y.lb THEN x.lb ELSE y.lb
        hb == IF x.hb < y.hb THEN x.hb ELSE y.hb
    IN IF lb > hb THEN <<>> ELSE <<[lb |-> lb, hb |-> hb]>>

Intersection(l, m) ==
    LET Row(s, x) == FoldLeft(LAMBDA t, y : FoldLeft(AddInterval, t, Common(x, y)), s, m)
    IN FoldLeft(Row, <<>>, l)

Mutant_TotalOpen(l) == FoldLeft(LAMBDA n, x : n + x.hb - x.lb, 0, l)
Total(l) == FoldLeft(LAMBDA n, x : n + x.hb - x.lb + 1, 0, l)

-----------------------------------------------------------------------------

Init == list = <<>> /\ other = <<>>

AddOne(inter) == \/ list' = AddInterval(list, inter) /\ UNCHANGED other
                 \/ other' = AddInterval(other, inter) /\ UNCHANGED list

RemoveOne(inter) == \/ list' = RemoveInterval(list, inter) /\ UNCHANGED other
                    \/ other' = RemoveInterval(other, inter) /\ UNCHANGED list

AddAll    == list' = MyUnion(list, other) /\ UNCHANGED other
RemoveAll == list' = Difference(list, other) /\ UNCHANGED other

Next == (\E inter \in Interval : AddOne(inter) \/ RemoveOne(inter)) \/ AddAll \/ RemoveAll

Spec == Init /\ [][Next]_vars

-----------------------------------------------------------------------------
(* What the users of ListInterval rely on.                                 *)

Covered(l) == UNION {l[i].lb .. l[i].hb : i \in DOMAIN l}

\* Lists stay sorted, and no two blocks overlap or touch: remove and total would
\* be wrong on others.
Normalised(l) ==
    /\ l \in Seq(Interval)
    /\ \A i \in 1 .. Len(l) - 1 : l[i].hb + 1 < l[i + 1].lb

BothNormalised == Normalised(list) /\ Normalised(other)

\* intersection and total agree with sets.
IntersectionIsExact ==
    LET common == Intersection(list, other)
    IN Normalised(common) /\ Covered(common) = Covered(list) \cap Covered(other)
TotalIsExact        == Total(list) = Cardinality(Covered(list))

Abstract == INSTANCE IntervalSet WITH a <- Covered(list), b <- Covered(other)

\* Every operation does to the lists what it does to the sets they cover.
ImplementsSets == Abstract!Spec
=============================================================================
