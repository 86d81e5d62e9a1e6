-------------------------- MODULE MultiKernelSolver --------------------------
(***************************************************************************)
(* The linear program that the schedulers MKGR and MKGR2 build once per    *)
(* two cycles and solve for the next partitions of the kernels of a cycle: *)
(* the numbering of its rows and columns, its matrix, and the constraints  *)
(* that relate the partitions of two kernels to what a device has to send  *)
(* or receive between them.                                                *)
(*                                                                         *)
(* A partition is a function from the devices to shares, in device order:  *)
(* device d is given [Start(gr, d), Start(gr, d) + gr[d]).  Shares are     *)
(* integers here, so that the tolerance EPSILON of the comparisons is 0.   *)
(* The simplex method itself (GLPK) is not modelled.                       *)
(***************************************************************************)
EXTENDS Granularity, Functions

CONSTANT CycleLength  \* number of kernels of a cycle

ASSUME CycleAssumption == CycleLength \in Nat \ {0}

KerId == 0 .. CycleLength - 1

Start(gr, d) == SumFunctionOnSet(gr, 0 .. d - 1)
End(gr, d)   == Start(gr, d) + gr[d]

Edge(d) == d \in {0, NbDevices - 1}

----------------------------------------------------------------------------
(* Constraints between the partitions of two kernels.                      *)
(*                                                                         *)
(* A constraint is a coefficient for the share of each device in the       *)
(* previous (prev) and in the current (cur) partition; it is observed when *)
(* the device has something to transfer.                                   *)

Zero == [prev |-> [d \in Dev |-> 0], cur |-> [d \in Dev |-> 0]]

\* a * (the shares of ds in prev) + b * (the shares of ds in cur)
Over(ds, a, b) == [prev |-> [d \in Dev |-> IF d \in ds THEN a ELSE 0],
                   cur  |-> [d \in Dev |-> IF d \in ds THEN b ELSE 0]]
Plus(c1, c2) == [w \in {"prev", "cur"} |-> [d \in Dev |-> c1[w][d] + c2[w][d]]]

Value(c, prev, cur) ==
  SumFunction([d \in Dev |-> c.prev[d] * prev[d] + c.cur[d] * cur[d]])

deviceOverlapBetweenKernels(dev, prev, cur) ==
  /\ prev[dev] > 0 /\ cur[dev] > 0
  /\ \/ Edge(dev)
     \/ End(prev, dev) >= Start(cur, dev) /\ End(cur, dev) >= Start(prev, dev)

Observed(c)   == [constraint |-> c, observed |-> TRUE]
Unobserved(c) == [constraint |-> c, observed |-> FALSE]

\* By how far the start and the end of the device's part have moved to the right.
StartMoved(dev) == Over(0 .. dev - 1, -1, 1)
EndMoved(dev)   == Over(0 .. dev, -1, 1)
Opposite(c)     == [w \in {"prev", "cur"} |-> [d \in Dev |-> -c[w][d]]]

Mutant_D2HLeftIsRight(dev, prev, cur) ==
  CASE prev[dev] = 0 -> Unobserved(Zero)
    [] prev[dev] > 0 /\ Edge(dev) ->
         [constraint |-> Over({dev}, 1, -1), observed |-> prev[dev] >= cur[dev]]
    [] OTHER -> Observed(Opposite(EndMoved(dev)))
getD2HConstraint(dev, prev, cur) ==
  LET both == Plus(StartMoved(dev), Opposite(EndMoved(dev)))
  IN CASE prev[dev] = 0 -> Unobserved(Zero)
       [] prev[dev] > 0 /\ Edge(dev) ->
            [constraint |-> Over({dev}, 1, -1), observed |-> prev[dev] >= cur[dev]]
       [] OTHER ->
            IF Start(cur, dev) <= Start(prev, dev) /\ End(prev, dev) <= End(cur, dev)
            THEN Unobserved(both)
            ELSE IF ~deviceOverlapBetweenKernels(dev, prev, cur)
            THEN Observed(Over({dev}, 1, 0))
            ELSE IF Start(prev, dev) < Start(cur, dev) /\ End(cur, dev) < End(prev, dev)
            THEN Observed(both)
            ELSE IF Start(prev, dev) < Start(cur, dev)
            THEN Observed(StartMoved(dev))
            ELSE Observed(Opposite(EndMoved(dev)))

getH2DConstraint(dev, prev, cur) ==
  LET both == Plus(Opposite(StartMoved(dev)), EndMoved(dev))
  IN CASE cur[dev] = 0 -> Unobserved(Zero)
       [] cur[dev] > 0 /\ Edge(dev) ->
            [constraint |-> Over({dev}, -1, 1), observed |-> cur[dev] >= prev[dev]]
       [] OTHER ->
            IF Start(prev, dev) <= Start(cur, dev) /\ End(cur, dev) <= End(prev, dev)
            THEN Unobserved(both)
            ELSE IF ~deviceOverlapBetweenKernels(dev, prev, cur)
            THEN Observed(Over({dev}, 0, 1))
            ELSE IF Start(cur, dev) < Start(prev, dev) /\ End(prev, dev) < End(cur, dev)
            THEN Observed(both)
            ELSE IF End(prev, dev) < End(cur, dev)
            THEN Observed(EndMoved(dev))
            ELSE Observed(Opposite(StartMoved(dev)))

----------------------------------------------------------------------------
(* The numbering of the rows and columns.  i, j are kernels, k a device;   *)
(* what concerns kernel i after kernel j on device k comes in blocks of    *)
(* one number for each i, j and k.  createGlpProb adds rows and columns in *)
(* this order and asserts their numbers.  Columns are at least 0; rows are *)
(* at most 0, those of shares and coefficients 0, those of sums 1.         *)

Cube == CycleLength * CycleLength * NbDevices
InBlock(first, n, i, j, k) ==
  first + n * Cube + i * (CycleLength * NbDevices) + j * NbDevices + k

keri_devj_row(i, j)    == 1 + i * (2 * NbDevices + 1) + j
gr_keri_devj_row(i, j) == 1 + i * (2 * NbDevices + 1) + NbDevices + j
gr_keri_row(i)         == 1 + i * (2 * NbDevices + 1) + 2 * NbDevices

Directions == {"D2H", "H2D"}
FirstCommRow == 1 + CycleLength * (2 * NbDevices + 1)
Mutant_RowBlock(what, dir) ==
  CASE what = "time"  -> IF dir = "D2H" THEN 0 ELSE 1
    [] what = "left"  -> IF dir = "D2H" THEN 2 ELSE 4
    [] what = "right" -> IF dir = "D2H" THEN 3 ELSE 5
    [] what = "comm"  -> IF dir = "D2H" THEN 4 ELSE 7
    [] what = "coef"  -> IF dir = "D2H" THEN 8 ELSE 9
RowBlock(what, dir) ==
  CASE what = "time"  -> IF dir = "D2H" THEN 0 ELSE 1
    [] what = "left"  -> IF dir = "D2H" THEN 2 ELSE 5
    [] what = "right" -> IF dir = "D2H" THEN 3 ELSE 6
    [] what = "comm"  -> IF dir = "D2H" THEN 4 ELSE 7
    [] what = "coef"  -> IF dir = "D2H" THEN 8 ELSE 9
CommRow(what, dir, i, j, k) == InBlock(FirstCommRow, RowBlock(what, dir), i, j, k)

x_col(i, j)   == 1 + i * (2 * NbDevices) + j
gr_col(i, j)  == 1 + i * (2 * NbDevices) + NbDevices + j
TransferTime_col(dir, i) ==
  1 + CycleLength * 2 * NbDevices + i * 2 + (IF dir = "D2H" THEN 0 ELSE 1)
T_col(i)      == 1 + CycleLength * 2 * NbDevices + CycleLength * 2 + i
FirstCommCol  == 1 + CycleLength * 3 + CycleLength * 2 * NbDevices
ColBlock(what, dir) ==
  CASE what = "left"  -> IF dir = "D2H" THEN 0 ELSE 3
    [] what = "right" -> IF dir = "D2H" THEN 1 ELSE 4
    [] what = "comm"  -> IF dir = "D2H" THEN 2 ELSE 5
    [] what = "coef"  -> IF dir = "D2H" THEN 6 ELSE 7
CommCol(what, dir, i, j, k) == InBlock(FirstCommCol, ColBlock(what, dir), i, j, k)

nbRows == CycleLength * (2 * NbDevices + 1) + 10 * Cube
nbCols == CycleLength * 3 + CycleLength * 2 * NbDevices + 8 * Cube

----------------------------------------------------------------------------
(* The matrix.  An entry also says which term of which constraint it is,   *)
(* so that two terms put in one place remain two entries.                  *)

Entry(of, term, row, col, val) ==
  [of |-> of, term |-> term, row |-> row, col |-> col, val |-> val]

\* -T_i + perf_ij x_ij <= 0;  -gr_ij + kernelGr_ij x_ij = 0;  sum of gr_ij = 1
KernelRows(i, j, perf, kernelGr) ==
  {Entry(<<"time", i, j>>, "T", keri_devj_row(i, j), T_col(i), -1),
   Entry(<<"time", i, j>>, "x", keri_devj_row(i, j), x_col(i, j), perf),
   Entry(<<"share", i, j>>, "gr", gr_keri_devj_row(i, j), gr_col(i, j), -1),
   Entry(<<"share", i, j>>, "x", gr_keri_devj_row(i, j), x_col(i, j), kernelGr),
   Entry(<<"sum", i>>, <<"gr", j>>, gr_keri_row(i), gr_col(i, j), 1)}

\* What is charged to kernel cur after kernel prev on device dev:
\* comm <= the time of the transfers of cur; comm = coef (left + right).
TimeRow(dir, cur, prev, dev) ==
  LET In(term, col, val) == Entry(<<"transfer", dir, cur, prev, dev>>, term,
                                  CommRow("time", dir, cur, prev, dev), col, val)
  IN  {In("comm", CommCol("comm", dir, cur, prev, dev), 1),
       In("T", TransferTime_col(dir, cur), -1)}
TotalRow(dir, cur, prev, dev, coef) ==
  LET In(term, col, val) == Entry(<<"comm", dir, cur, prev, dev>>, term,
                                  CommRow("comm", dir, cur, prev, dev), col, val)
  IN  {In("left", CommCol("left", dir, cur, prev, dev), coef),
       In("right", CommCol("right", dir, cur, prev, dev), coef),
       In("comm", CommCol("comm", dir, cur, prev, dev), -1)}

\* start_cur - start_prev <= left and end_prev - end_cur <= right, in both directions.
Mutant_RightUpToBefore(what, dir, cur, prev, dev) ==
  LET In(term, col, val) == Entry(<<what, dir, cur, prev, dev>>, term,
                                  CommRow(what, dir, cur, prev, dev), col, val)
      ds   == 0 .. dev - 1
      sign == IF what = "left" THEN 1 ELSE -1
  IN  {In(<<"cur", i>>, gr_col(cur, i), sign) : i \in ds}
        \cup {In(<<"prev", i>>, gr_col(prev, i), -sign) : i \in ds}
        \cup {In(what, CommCol(what, dir, cur, prev, dev), -1)}
SideRow(what, dir, cur, prev, dev) ==
  LET In(term, col, val) == Entry(<<what, dir, cur, prev, dev>>, term,
                                  CommRow(what, dir, cur, prev, dev), col, val)
      ds   == IF what = "left" THEN 0 .. dev - 1 ELSE 0 .. dev
      sign == IF what = "left" THEN 1 ELSE -1
  IN  {In(<<"cur", i>>, gr_col(cur, i), sign) : i \in ds}
        \cup {In(<<"prev", i>>, gr_col(prev, i), -sign) : i \in ds}
        \cup {In(what, CommCol(what, dir, cur, prev, dev), -1)}

\* coef[dir][cur][prev][dev]: 0 where nothing was sampled.
CommRows(dir, cur, prev, dev, coef) ==
  IF cur = prev \/ coef = 0 THEN {}
  ELSE      TimeRow(dir, cur, prev, dev)
       \cup SideRow("left", dir, cur, prev, dev)
       \cup SideRow("right", dir, cur, prev, dev)
       \cup TotalRow(dir, cur, prev, dev, coef)

updateGlpMatrix(perf, kernelGr, coef) ==
  (UNION {KernelRows(i, j, perf[i][j], kernelGr[i][j]) : i \in KerId, j \in Dev})
    \cup (UNION {CommRows(dir, cur, prev, dev, coef[dir][cur][prev][dev])
                  : dir \in Directions, cur \in KerId, prev \in KerId, dev \in Dev})

\* The values a solution may give the shares: every kernel is given the
\* whole, and a device only where its share was not null (gr = kernelGr x).
Solutions(kernelGr, candidates) ==
  LET Possible(k) == {p \in candidates : \A d \in Dev : kernelGr[k][d] = 0 => p[d] = 0}
  IN  {g \in [KerId -> UNION {Possible(k) : k \in KerId}] : \A k \in KerId : g[k] \in Possible(k)}

=============================================================================
