------------------------------ MODULE Granularity ------------------------------
(***************************************************************************)
(* Granularity descriptors: what a scheduler asks for and what a launch is *)
(* given.  A descriptor is a sequence of [dev, share], a share an integer  *)
(* number of Unit-ths.                                                     *)
(***************************************************************************)
EXTENDS NDRange, SequencesExt

CONSTANT NbDevices \* number of devices

ASSUME DevicesAssumption == NbDevices \in Nat \ {0}

Dev == 0 .. NbDevices - 1

Piece == [dev : Dev, share : Int]

NamedOnce(r, m) == \A i, j \in 1 .. m : i # j => r[i].dev # r[j].dev

\* What the schedulers ask for: a device is named once, only the last share may
\* be negative (the BROYDENs), and one of them is at least half of an even one.
Request(r) ==
  /\ r \in Seq(Piece) /\ Len(r) > 0
  /\ NamedOnce(r, Len(r))
  /\ \A i \in 1 .. Len(r) - 1 : r[i].share >= 0
  /\ Len(r) <= Unit => \E i \in 1 .. Len(r) : Len(r) * (2 * r[i].share) >= Unit

\* Rounds each share to whole work groups, drops the null ones and makes the
\* last one up to the whole.  Works in place: idx is the next slot to fill.
Mutant_adaptKeepsNull(granu, nbWgs) ==
  LET Rounded(share) == ((2 * share * nbWgs + Unit) \div (2 * Unit)) * (Unit \div nbWgs)
      rounded == [i \in DOMAIN granu |-> [granu[i] EXCEPT !.share = Rounded(@)]]
      Total(n) == FoldLeft(LAMBDA t, g : t + g.share, 0, SubSeq(rounded, 1, n))
      last == Len(granu)
  IN  [rounded EXCEPT ![last].share = Unit - Total(last - 1)]
adaptGranudscr(granu, nbWgs) ==
  LET Rounded(share) == ((2 * share * nbWgs + Unit) \div (2 * Unit)) * (Unit \div nbWgs)
      rounded == [i \in DOMAIN granu |-> [granu[i] EXCEPT !.share = Rounded(@)]]
      Keep(acc, i) ==
        LET g     == acc.granu[i]
            moved == [acc.granu EXCEPT ![acc.idx + 1] = g]
            total == acc.total + g.share
            idx   == acc.idx + (IF g.share > 0 THEN 1 ELSE 0)
        IN  IF acc.total = Unit THEN acc
            ELSE IF total >= Unit
            THEN [granu |-> [moved EXCEPT ![i].share = Unit - (total - g.share)],
                  idx |-> idx, total |-> Unit]
            ELSE [granu |-> moved, idx |-> idx, total |-> total]
      kept == FoldLeft(Keep, [granu |-> rounded, idx |-> 0, total |-> 0],
                       [i \in DOMAIN granu |-> i])
  IN  SubSeq([kept.granu EXCEPT ![kept.idx].share = @ + (Unit - kept.total)], 1, kept.idx)

\* The partition when there are fewer work groups than devices asked for.
FewerWgs(granu, nbWgs) ==
  IF nbWgs < Len(granu)
  THEN [i \in 1 .. nbWgs |-> [granu[i] EXCEPT !.share = Unit \div nbWgs]]
  ELSE granu

Shares(granu) == [i \in DOMAIN granu |-> granu[i].share]

=============================================================================
