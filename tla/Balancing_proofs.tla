-------------------------- MODULE Balancing_proofs --------------------------
(***************************************************************************)
(* The partitions cover the launches; what is measured belongs to one      *)
(* solution; the points and the samples of a transfer are what a device    *)
(* has to transfer; the linear program has no two terms in one place and   *)
(* charges a transfer to the host what was sampled of it: for any number   *)
(* of devices and any length of the cycle.                                 *)
(***************************************************************************)
EXTENDS Balancing, Granularity_proofs

-----------------------------------------------------------------------------
(* Numbers of two digits, the second of base n.                            *)

LEMMA Digits ==
    ASSUME NEW n \in Nat \ {0}, NEW a \in Int, NEW c \in Int, NEW b \in 0 .. n - 1,
           NEW d \in 0 .. n - 1, a * n + b = c * n + d
    PROVE  a = c /\ b = d
<1>1. ASSUME NEW x \in Int, NEW y \in Int, x < y
      PROVE  x * n + n <= y * n
  <2>1. (y - x - 1) * n >= 0
    BY <1>1
  <2>2. (y - x - 1) * n = y * n - x * n - n
    BY <1>1
  <2>3. x * n \in Int /\ y * n \in Int
    BY <1>1
  <2>4. QED BY <2>1, <2>2, <2>3
<1>2. ~ a < c
    BY <1>1
<1>3. ~ c < a
    BY <1>1
<1>4. QED BY <1>2, <1>3

LEMMA DigitsRange ==
    ASSUME NEW n \in Nat \ {0}, NEW m \in Nat, NEW a \in 0 .. m - 1, NEW b \in 0 .. n - 1
    PROVE  a * n + b \in 0 .. m * n - 1
<1>1. (m - 1 - a) * n >= 0 /\ a * n >= 0
    OBVIOUS
<1>2. (m - 1 - a) * n = m * n - n - a * n
    OBVIOUS
<1>3. a * n \in Int /\ m * n \in Int
    OBVIOUS
<1>4. QED BY <1>1, <1>2, <1>3

-----------------------------------------------------------------------------
(* The blocks of one number for each pair of kernels and each device.      *)

Index(i, j, k) == (i * CycleLength + j) * NbDevices + k

LEMMA IndexDigits ==
    ASSUME NEW i \in KerId, NEW j \in KerId, NEW k \in Dev
    PROVE  /\ Index(i, j, k) \in 0 .. Cube - 1
           /\ \A a \in KerId, b \in KerId, c \in Dev :
                Index(i, j, k) = Index(a, b, c) => i = a /\ j = b /\ k = c
<1> USE CycleAssumption, DevicesAssumption DEF KerId, Dev
<1>1. i * CycleLength + j \in 0 .. CycleLength * CycleLength - 1
    BY DigitsRange
<1>2. Index(i, j, k) \in 0 .. CycleLength * CycleLength * NbDevices - 1
  <2>1. CycleLength * CycleLength \in Nat
    OBVIOUS
  <2>2. QED BY <1>1, <2>1, DigitsRange DEF Index
<1>3. ASSUME NEW a \in KerId, NEW b \in KerId, NEW c \in Dev, Index(i, j, k) = Index(a, b, c)
      PROVE  i = a /\ j = b /\ k = c
  <2>1. i * CycleLength + j \in Int /\ a * CycleLength + b \in Int
    OBVIOUS
  <2>2. i * CycleLength + j = a * CycleLength + b /\ k = c
    BY <1>3, <2>1, Digits DEF Index
  <2>3. QED BY <2>2, Digits
<1>4. QED BY <1>2, <1>3 DEF Cube

LEMMA BlockNumber ==
    ASSUME NEW first \in Nat, NEW n \in Nat, NEW i \in KerId, NEW j \in KerId, NEW k \in Dev
    PROVE  /\ Cube \in Nat \ {0} /\ n * Cube \in Nat /\ Index(i, j, k) \in 0 .. Cube - 1
           /\ InBlock(first, n, i, j, k) = first + (n * Cube + Index(i, j, k))
<1>1. Cube \in Nat \ {0} /\ Index(i, j, k) \in 0 .. Cube - 1
  <2>1. Index(i, j, k) \in 0 .. Cube - 1
    BY IndexDigits
  <2>2. Cube \in Nat
    BY CycleAssumption, DevicesAssumption DEF Cube
  <2>3. Cube # 0
    BY <2>1, <2>2
  <2>4. QED BY <2>1, <2>2, <2>3
<1>2. n * Cube \in Nat
    BY <1>1
<1>3. i * (CycleLength * NbDevices) + j * NbDevices = (i * CycleLength + j) * NbDevices
    BY CycleAssumption, DevicesAssumption DEF KerId
<1>4. /\ k \in Int
      /\ i * (CycleLength * NbDevices) \in Int /\ j * NbDevices \in Int
    BY CycleAssumption, DevicesAssumption DEF KerId, Dev
<1>5. QED BY <1>1, <1>2, <1>3, <1>4 DEF InBlock, Index

LEMMA Blocks ==
    ASSUME NEW first \in Nat, NEW n \in Nat, NEW i \in KerId, NEW j \in KerId, NEW k \in Dev
    PROVE  InBlock(first, n, i, j, k) \in first + n * Cube .. first + (n + 1) * Cube - 1
<1>1. /\ Cube \in Nat \ {0} /\ n * Cube \in Nat /\ Index(i, j, k) \in 0 .. Cube - 1
      /\ InBlock(first, n, i, j, k) = first + (n * Cube + Index(i, j, k))
    BY SMTT(30), BlockNumber
<1>2. (n + 1) * Cube = n * Cube + Cube
    BY <1>1
<1>3. QED BY <1>1, <1>2

LEMMA BlocksApart ==
    ASSUME NEW first \in Nat, NEW n \in Nat, NEW i \in KerId, NEW j \in KerId, NEW k \in Dev,
           NEW m \in Nat, NEW a \in KerId, NEW b \in KerId, NEW c \in Dev,
           InBlock(first, n, i, j, k) = InBlock(first, m, a, b, c)
    PROVE  n = m /\ i = a /\ j = b /\ k = c
<1> DEFINE p == Index(i, j, k)
           q == Index(a, b, c)
<1>1. /\ Cube \in Nat \ {0} /\ n * Cube \in Nat /\ m * Cube \in Nat
      /\ p \in 0 .. Cube - 1 /\ q \in 0 .. Cube - 1
      /\ first + (n * Cube + p) = first + (m * Cube + q)
  <2>1. /\ Cube \in Nat \ {0} /\ n * Cube \in Nat /\ p \in 0 .. Cube - 1
        /\ InBlock(first, n, i, j, k) = first + (n * Cube + p)
    BY BlockNumber
  <2>2. /\ m * Cube \in Nat /\ q \in 0 .. Cube - 1
        /\ InBlock(first, m, a, b, c) = first + (m * Cube + q)
    BY BlockNumber
  <2>3. QED BY <2>1, <2>2
<1> HIDE DEF p, q
<1>2. n * Cube + p = m * Cube + q
    BY <1>1
<1>3. n = m /\ p = q
    BY <1>1, <1>2, Digits
<1>4. QED BY <1>3, IndexDigits DEF p, q

-----------------------------------------------------------------------------
(* Rows.                                                                   *)

Kinds == {"time", "left", "right", "comm", "coef"}

LEMMA RowBlocks ==
    ASSUME NEW what \in Kinds, NEW dir \in Directions
    PROVE  /\ RowBlock(what, dir) \in 0 .. 9
           /\ \A w \in Kinds, e \in Directions :
                RowBlock(what, dir) = RowBlock(w, e) => what = w /\ dir = e
BY DEF Kinds, Directions, RowBlock

LEMMA ColBlocks ==
    ASSUME NEW what \in Kinds \ {"time"}, NEW dir \in Directions
    PROVE  /\ ColBlock(what, dir) \in 0 .. 7
           /\ \A w \in Kinds \ {"time"}, e \in Directions :
                ColBlock(what, dir) = ColBlock(w, e) => what = w /\ dir = e
BY DEF Kinds, Directions, ColBlock

LEMMA CommRowRange ==
    ASSUME NEW what \in Kinds, NEW dir \in Directions,
           NEW i \in KerId, NEW j \in KerId, NEW k \in Dev
    PROVE  CommRow(what, dir, i, j, k) \in FirstCommRow .. nbRows
<1>1. FirstCommRow \in Nat /\ Cube \in Nat /\ RowBlock(what, dir) \in 0 .. 9
    BY RowBlocks, CycleAssumption, DevicesAssumption DEF FirstCommRow, Cube
<1> DEFINE n == RowBlock(what, dir)
<1>2. CommRow(what, dir, i, j, k)
        \in FirstCommRow + n * Cube .. FirstCommRow + (n + 1) * Cube - 1
  <2>1. FirstCommRow \in Nat /\ n \in Nat
    BY <1>1
  <2> HIDE DEF n
  <2>2. InBlock(FirstCommRow, n, i, j, k)
          \in FirstCommRow + n * Cube .. FirstCommRow + (n + 1) * Cube - 1
    BY <2>1, Blocks
  <2>3. QED BY <2>2 DEF CommRow, n
<1> HIDE DEF n
<1>3. n * Cube >= 0 /\ (10 - (n + 1)) * Cube >= 0
  BY <1>1 DEF n
<1>4. (10 - (n + 1)) * Cube = 10 * Cube - (n + 1) * Cube
  BY <1>1 DEF n
<1>5. nbRows = FirstCommRow - 1 + 10 * Cube
  BY <1>1, CycleAssumption, DevicesAssumption DEF nbRows, FirstCommRow
<1>6. n * Cube \in Int /\ (n + 1) * Cube \in Int
  BY <1>1 DEF n
<1>7. QED BY <1>1, <1>2, <1>3, <1>4, <1>5, <1>6

LEMMA OneCommRow ==
    ASSUME NEW what \in Kinds, NEW dir \in Directions,
           NEW i \in KerId, NEW j \in KerId, NEW k \in Dev,
           NEW w \in Kinds, NEW e \in Directions,
           NEW a \in KerId, NEW b \in KerId, NEW c \in Dev,
           CommRow(what, dir, i, j, k) = CommRow(w, e, a, b, c)
    PROVE  what = w /\ dir = e /\ i = a /\ j = b /\ k = c
<1> DEFINE n == RowBlock(what, dir)
           m == RowBlock(w, e)
<1>1. FirstCommRow \in Nat /\ n \in Nat /\ m \in Nat
    BY RowBlocks, CycleAssumption, DevicesAssumption DEF FirstCommRow
<1>2. InBlock(FirstCommRow, n, i, j, k) = InBlock(FirstCommRow, m, a, b, c)
    BY DEF CommRow
<1> HIDE DEF n, m
<1>3. n = m /\ i = a /\ j = b /\ k = c
    BY <1>1, <1>2, BlocksApart
<1>4. QED BY <1>3, RowBlocks DEF n, m

\* The rows of the kernels: 2 * NbDevices + 1 each.
LEMMA KernelRowsApart ==
    ASSUME NEW i \in KerId, NEW m \in 0 .. 2 * NbDevices
    PROVE  /\ 1 + i * (2 * NbDevices + 1) + m \in 1 .. FirstCommRow - 1
           /\ \A a \in KerId, c \in 0 .. 2 * NbDevices :
                1 + i * (2 * NbDevices + 1) + m = 1 + a * (2 * NbDevices + 1) + c
                  => i = a /\ m = c
<1> DEFINE n == 2 * NbDevices + 1
<1>1. n \in Nat \ {0} /\ m \in 0 .. n - 1 /\ i \in 0 .. CycleLength - 1 /\ CycleLength \in Nat
    BY CycleAssumption, DevicesAssumption DEF KerId
<1>2. FirstCommRow = 1 + CycleLength * n
    BY DEF FirstCommRow
<1>3. \A a \in KerId : a \in Int /\ a * n \in Int
    BY <1>1 DEF KerId
<1>4. \A c \in 0 .. 2 * NbDevices : c \in 0 .. n - 1
    BY DevicesAssumption
<1> HIDE DEF n
<1>5. i * n + m \in 0 .. CycleLength * n - 1
    BY <1>1, DigitsRange
<1>6. 1 + i * n + m \in 1 .. FirstCommRow - 1
    BY <1>1, <1>2, <1>3, <1>5
<1>7. ASSUME NEW a \in KerId, NEW c \in 0 .. 2 * NbDevices, 1 + i * n + m = 1 + a * n + c
      PROVE  i = a /\ m = c
  <2>1. i * n + m = a * n + c
    BY <1>1, <1>3, <1>4, <1>7
  <2>2. QED BY <1>1, <1>3, <1>4, <2>1, Digits
<1>8. QED BY <1>6, <1>7 DEF n

-----------------------------------------------------------------------------
(* Columns.                                                                *)

NbShares == CycleLength * 2 * NbDevices

LEMMA ShareCols ==
    ASSUME NEW i \in KerId, NEW j \in Dev
    PROVE  /\ x_col(i, j) \in 1 .. NbShares /\ gr_col(i, j) \in 1 .. NbShares
           /\ x_col(i, j) # gr_col(i, j)
           /\ \A a \in KerId, b \in Dev : gr_col(i, j) = gr_col(a, b) => i = a /\ j = b
<1> DEFINE n == 2 * NbDevices
<1>1. n \in Nat \ {0} /\ CycleLength \in Nat /\ NbDevices \in Nat \ {0}
    BY CycleAssumption, DevicesAssumption
<1>2. \A a \in KerId : a \in 0 .. CycleLength - 1 /\ a * n \in Int
    BY <1>1 DEF KerId
<1>3. \A b \in Dev : b \in 0 .. n - 1 /\ NbDevices + b \in 0 .. n - 1
    BY <1>1 DEF Dev
<1>4. /\ \A a \in KerId, b \in Dev : gr_col(a, b) = 1 + (a * n + (NbDevices + b))
      /\ x_col(i, j) = 1 + (i * n + j)
    BY <1>1, <1>2, <1>3 DEF gr_col, x_col
<1>5. NbShares = CycleLength * n /\ NbShares \in Nat
    BY <1>1 DEF NbShares
<1> HIDE DEF n
<1>6. i * n + j \in 0 .. NbShares - 1 /\ i * n + (NbDevices + j) \in 0 .. NbShares - 1
    BY <1>1, <1>2, <1>3, <1>5, DigitsRange
<1>7. x_col(i, j) # gr_col(i, j)
    BY <1>1, <1>2, <1>3, <1>4
<1>8. ASSUME NEW a \in KerId, NEW b \in Dev, gr_col(i, j) = gr_col(a, b)
      PROVE  i = a /\ j = b
  <2>1. i * n + (NbDevices + j) = a * n + (NbDevices + b)
    <3> DEFINE y == i * n
               z == a * n
    <3>1. /\ y \in Int /\ z \in Int /\ NbDevices + j \in Int /\ NbDevices + b \in Int
          /\ 1 + (y + (NbDevices + j)) = 1 + (z + (NbDevices + b))
      BY <1>2, <1>3, <1>4, <1>8
    <3> HIDE DEF y, z
    <3>2. y + (NbDevices + j) = z + (NbDevices + b)
      BY <1>1, <1>3, <3>1
    <3>3. QED BY <3>2 DEF y, z
  <2>2. i = a /\ NbDevices + j = NbDevices + b
    BY <1>1, <1>2, <1>3, <2>1, Digits
  <2>3. QED BY <1>1, <1>3, <2>2
<1>9. QED BY <1>4, <1>5, <1>6, <1>7, <1>8

LEMMA TimeCols ==
    ASSUME NEW i \in KerId, NEW dir \in Directions
    PROVE  /\ T_col(i) \in NbShares + 1 .. FirstCommCol - 1
           /\ TransferTime_col(dir, i) \in NbShares + 1 .. FirstCommCol - 1
<1>1. NbShares \in Nat /\ i \in 0 .. CycleLength - 1 /\ CycleLength \in Nat
    BY CycleAssumption, DevicesAssumption DEF NbShares, KerId
<1>2. /\ T_col(i) = 1 + NbShares + CycleLength * 2 + i
      /\ TransferTime_col(dir, i) = 1 + NbShares + i * 2 + (IF dir = "D2H" THEN 0 ELSE 1)
      /\ FirstCommCol = 1 + CycleLength * 3 + NbShares
    BY DEF T_col, TransferTime_col, FirstCommCol, NbShares
<1>3. QED BY <1>1, <1>2

LEMMA CommCols ==
    ASSUME NEW what \in Kinds \ {"time"}, NEW dir \in Directions,
           NEW i \in KerId, NEW j \in KerId, NEW k \in Dev
    PROVE  /\ CommCol(what, dir, i, j, k) \in FirstCommCol .. nbCols
           /\ \A w \in Kinds \ {"time"} :
                CommCol(what, dir, i, j, k) = CommCol(w, dir, i, j, k) => what = w
<1>1. /\ FirstCommCol \in Nat /\ Cube \in Nat /\ ColBlock(what, dir) \in 0 .. 7
      /\ nbCols = FirstCommCol - 1 + 8 * Cube
  <2>1. ColBlock(what, dir) \in 0 .. 7
    BY ColBlocks
  <2>2. CycleLength * 2 * NbDevices \in Nat /\ CycleLength * 3 \in Nat /\ Cube \in Nat
    BY CycleAssumption, DevicesAssumption DEF Cube
  <2>3. QED BY <2>1, <2>2 DEF FirstCommCol, nbCols
<1>2. CommCol(what, dir, i, j, k) \in FirstCommCol .. nbCols
  <2> DEFINE n == ColBlock(what, dir)
  <2>1. CommCol(what, dir, i, j, k)
          \in FirstCommCol + n * Cube .. FirstCommCol + (n + 1) * Cube - 1
    <3>1. FirstCommCol \in Nat /\ n \in Nat
      BY <1>1
    <3> HIDE DEF n
    <3>2. InBlock(FirstCommCol, n, i, j, k)
            \in FirstCommCol + n * Cube .. FirstCommCol + (n + 1) * Cube - 1
      BY <3>1, Blocks
    <3>3. QED BY <3>2 DEF CommCol, n
  <2> HIDE DEF n
  <2>2. n * Cube >= 0 /\ (8 - (n + 1)) * Cube >= 0
    BY <1>1 DEF n
  <2>3. (8 - (n + 1)) * Cube = 8 * Cube - (n + 1) * Cube
    BY <1>1 DEF n
  <2>4. n * Cube \in Int /\ (n + 1) * Cube \in Int
    BY <1>1 DEF n
  <2>5. QED BY <1>1, <2>1, <2>2, <2>3, <2>4
<1>3. ASSUME NEW w \in Kinds \ {"time"}, CommCol(what, dir, i, j, k) = CommCol(w, dir, i, j, k)
      PROVE  what = w
  <2> DEFINE n == ColBlock(what, dir)
             m == ColBlock(w, dir)
  <2>1. FirstCommCol \in Nat /\ n \in Nat /\ m \in Nat
    BY <1>1, ColBlocks
  <2>2. InBlock(FirstCommCol, n, i, j, k) = InBlock(FirstCommCol, m, i, j, k)
    BY <1>3 DEF CommCol
  <2> HIDE DEF n, m
  <2>3. n = m
    BY <2>1, <2>2, BlocksApart
  <2>4. QED BY <2>3, ColBlocks DEF n, m
<1>4. QED BY <1>2, <1>3

-----------------------------------------------------------------------------
(* The constraints, and the row of each.                                   *)

KernelOfs == {<<"time", i, j>> : i \in KerId, j \in Dev}
               \cup {<<"share", i, j>> : i \in KerId, j \in Dev}
               \cup {<<"sum", i>> : i \in KerId}

CommNames == {"transfer", "left", "right", "comm"}
CommOfs == CommNames \X Directions \X KerId \X KerId \X Dev

\* Which of the 2 * NbDevices + 1 rows of its kernel.
Digit(of) == IF of[1] = "time" THEN of[3]
             ELSE IF of[1] = "share" THEN NbDevices + of[3]
             ELSE 2 * NbDevices

KernelRowOf(of) == 1 + of[2] * (2 * NbDevices + 1) + Digit(of)

InKernelRow(e) == e.of \in KernelOfs /\ e.row = KernelRowOf(e.of)

Kind(of) == IF of[1] = "transfer" THEN "time" ELSE of[1]
CommRowOf(of) == CommRow(Kind(of), of[2], of[3], of[4], of[5])

LEMMA KernelDigits ==
    ASSUME NEW of \in KernelOfs
    PROVE  /\ of[2] \in KerId /\ Digit(of) \in 0 .. 2 * NbDevices
           /\ \A o \in KernelOfs : of[2] = o[2] /\ Digit(of) = Digit(o) => of = o
<1> USE DevicesAssumption DEF KernelOfs, Digit, Dev
<1>1. CASE \E i \in KerId, j \in Dev : of = <<"time", i, j>>
    BY <1>1
<1>2. CASE \E i \in KerId, j \in Dev : of = <<"share", i, j>>
    BY <1>2
<1>3. CASE \E i \in KerId : of = <<"sum", i>>
    BY <1>3
<1>4. QED BY <1>1, <1>2, <1>3

LEMMA KernelOfsApart ==
    ASSUME NEW of \in KernelOfs
    PROVE  /\ KernelRowOf(of) \in 1 .. FirstCommRow - 1
           /\ \A o \in KernelOfs : KernelRowOf(of) = KernelRowOf(o) => of = o
<1>1. of[2] \in KerId /\ Digit(of) \in 0 .. 2 * NbDevices
    BY KernelDigits
<1>2. KernelRowOf(of) \in 1 .. FirstCommRow - 1
    BY <1>1, KernelRowsApart DEF KernelRowOf
<1>3. ASSUME NEW o \in KernelOfs, KernelRowOf(of) = KernelRowOf(o)
      PROVE  of = o
  <2>1. o[2] \in KerId /\ Digit(o) \in 0 .. 2 * NbDevices
    BY KernelDigits
  <2>2. of[2] = o[2] /\ Digit(of) = Digit(o)
    BY <1>1, <1>3, <2>1, KernelRowsApart DEF KernelRowOf
  <2>3. QED BY <2>2, KernelDigits
<1>4. QED BY <1>2, <1>3

LEMMA CommOfsApart ==
    ASSUME NEW of \in CommOfs
    PROVE  /\ CommRowOf(of) \in FirstCommRow .. nbRows
           /\ \A o \in CommOfs : CommRowOf(of) = CommRowOf(o) => of = o
<1>1. /\ Kind(of) \in Kinds /\ of[2] \in Directions
      /\ of[3] \in KerId /\ of[4] \in KerId /\ of[5] \in Dev
    BY DEF CommOfs, CommNames, Kind, Kinds
<1>2. CommRowOf(of) \in FirstCommRow .. nbRows
    BY <1>1, CommRowRange DEF CommRowOf
<1>3. ASSUME NEW o \in CommOfs, CommRowOf(of) = CommRowOf(o)
      PROVE  of = o
  <2>1. /\ Kind(o) \in Kinds /\ o[2] \in Directions
        /\ o[3] \in KerId /\ o[4] \in KerId /\ o[5] \in Dev
    BY DEF CommOfs, CommNames, Kind, Kinds
  <2>2. Kind(of) = Kind(o) /\ of[2] = o[2] /\ of[3] = o[3] /\ of[4] = o[4] /\ of[5] = o[5]
    <3> DEFINE v == Kind(of)
               w == Kind(o)
               d == of[2]
               q == o[2]
               i == of[3]
               a == o[3]
               j == of[4]
               b == o[4]
               k == of[5]
               c == o[5]
    <3>1. /\ v \in Kinds /\ d \in Directions /\ i \in KerId /\ j \in KerId /\ k \in Dev
          /\ w \in Kinds /\ q \in Directions /\ a \in KerId /\ b \in KerId /\ c \in Dev
      BY <1>1, <2>1
    <3>2. CommRow(v, d, i, j, k) = CommRow(w, q, a, b, c)
      BY <1>3 DEF CommRowOf
    <3> HIDE DEF v, w, d, q, i, a, j, b, k, c
    <3>3. v = w /\ d = q /\ i = a /\ j = b /\ k = c
      BY <3>1, <3>2, OneCommRow
    <3>4. QED BY <3>3 DEF v, w, d, q, i, a, j, b, k, c
  <2>3. of[1] = o[1]
    <3>1. of[1] \in CommNames /\ o[1] \in CommNames
      BY DEF CommOfs
    <3>2. QED BY <2>2, <3>1 DEF CommNames, Kind
  <2>4. QED BY <2>2, <2>3 DEF CommOfs
<1>4. QED BY <1>2, <1>3

-----------------------------------------------------------------------------
(* The terms of the constraints.                                           *)

LEMMA KernelEntries ==
    ASSUME NEW i \in KerId, NEW j \in Dev, NEW p, NEW g, NEW e \in KernelRows(i, j, p, g)
    PROVE  /\ InKernelRow(e)
           /\ e.col \in 1 .. FirstCommCol - 1
           /\ e.of[1] = "time" => e.of[2] = i /\ e.of[3] = j
           /\ e.of[1] = "share" => e.of[2] = i /\ e.of[3] = j
           /\ e.of[1] = "sum" =>
                /\ e.of[2] = i
                /\ e = Entry(e.of, <<"gr", j>>, gr_keri_row(i), gr_col(i, j), 1)
<1>1. /\ x_col(i, j) \in 1 .. FirstCommCol - 1 /\ gr_col(i, j) \in 1 .. FirstCommCol - 1
      /\ T_col(i) \in 1 .. FirstCommCol - 1
  <2>1. NbShares \in Nat /\ FirstCommCol - 1 \in Nat /\ NbShares <= FirstCommCol - 1
    BY CycleAssumption, DevicesAssumption DEF NbShares, FirstCommCol
  <2>2. \E dir : dir \in Directions
    BY DEF Directions
  <2>3. /\ x_col(i, j) \in 1 .. NbShares /\ gr_col(i, j) \in 1 .. NbShares
        /\ T_col(i) \in NbShares + 1 .. FirstCommCol - 1
    BY <2>2, ShareCols, TimeCols
  <2>4. QED BY <2>1, <2>3
<1>2. /\ <<"time", i, j>> \in KernelOfs /\ <<"share", i, j>> \in KernelOfs
      /\ <<"sum", i>> \in KernelOfs
    BY DEF KernelOfs
<1>3. /\ keri_devj_row(i, j) = KernelRowOf(<<"time", i, j>>)
      /\ gr_keri_devj_row(i, j) = KernelRowOf(<<"share", i, j>>)
      /\ gr_keri_row(i) = KernelRowOf(<<"sum", i>>)
  <2>1. /\ i * (2 * NbDevices + 1) \in Int /\ NbDevices \in Int /\ j \in Int
    BY DevicesAssumption DEF KerId, Dev
  <2>2. QED BY <2>1 DEF keri_devj_row, gr_keri_devj_row, gr_keri_row, KernelRowOf, Digit
<1>4. QED BY <1>1, <1>2, <1>3 DEF KernelRows, Entry, InKernelRow

\* Two terms of one kernel's constraint have columns of their own.
LEMMA KernelTermsApart ==
    ASSUME NEW i \in KerId, NEW j \in Dev, NEW p, NEW g,
           NEW e \in KernelRows(i, j, p, g), NEW f \in KernelRows(i, j, p, g),
           e.of = f.of, e.col = f.col
    PROVE  e = f
<1>1. T_col(i) # x_col(i, j) /\ x_col(i, j) # gr_col(i, j)
  <2>1. NbShares \in Nat /\ FirstCommCol \in Nat
    BY CycleAssumption, DevicesAssumption DEF NbShares, FirstCommCol
  <2>2. \E dir : dir \in Directions
    BY DEF Directions
  <2>3. QED BY <2>1, <2>2, ShareCols, TimeCols
<1>2. QED BY <1>1 DEF KernelRows, Entry

CommEntriesOf(dir, cur, prev, dev, c) ==
    TimeRow(dir, cur, prev, dev) \cup SideRow("left", dir, cur, prev, dev)
      \cup SideRow("right", dir, cur, prev, dev) \cup TotalRow(dir, cur, prev, dev, c)

LEMMA CommEntries ==
    ASSUME NEW dir \in Directions, NEW cur \in KerId, NEW prev \in KerId, NEW dev \in Dev,
           NEW c, NEW e \in CommEntriesOf(dir, cur, prev, dev, c)
    PROVE  /\ e.of \in CommOfs /\ e.row = CommRowOf(e.of) /\ e.col \in 1 .. nbCols
           /\ e.of[2] = dir /\ e.of[3] = cur /\ e.of[4] = prev /\ e.of[5] = dev
<1>1. \A what \in Kinds \ {"time"} : CommCol(what, dir, cur, prev, dev) \in 1 .. nbCols
  <2>1. FirstCommCol \in Nat \ {0}
    BY CycleAssumption, DevicesAssumption DEF FirstCommCol
  <2>2. nbCols \in Nat
    BY CycleAssumption, DevicesAssumption DEF nbCols, Cube
  <2>3. QED BY <2>1, <2>2, CommCols
<1>2. /\ TransferTime_col(dir, cur) \in 1 .. nbCols
      /\ \A k \in KerId, d \in Dev : gr_col(k, d) \in 1 .. nbCols
  <2>1. NbShares \in Nat /\ FirstCommCol \in Nat /\ nbCols \in Nat
    BY CycleAssumption, DevicesAssumption DEF NbShares, FirstCommCol, nbCols, Cube
  <2>2. NbShares < FirstCommCol /\ FirstCommCol - 1 <= nbCols
    BY CycleAssumption, DevicesAssumption DEF NbShares, FirstCommCol, nbCols, Cube
  <2>3. QED BY <2>1, <2>2, ShareCols, TimeCols
<1>3. ASSUME NEW n \in CommNames, e.of = <<n, dir, cur, prev, dev>>,
             e.row = CommRow(IF n = "transfer" THEN "time" ELSE n, dir, cur, prev, dev)
      PROVE  /\ e.of \in CommOfs /\ e.row = CommRowOf(e.of)
             /\ e.of[2] = dir /\ e.of[3] = cur /\ e.of[4] = prev /\ e.of[5] = dev
    BY <1>3 DEF CommOfs, CommRowOf, Kind
<1>4. 0 .. dev - 1 \subseteq Dev /\ 0 .. dev \subseteq Dev
    BY DevicesAssumption DEF Dev
<1>5. CASE e \in TimeRow(dir, cur, prev, dev)
  <2>1. /\ e.of = <<"transfer", dir, cur, prev, dev>>
        /\ e.row = CommRow("time", dir, cur, prev, dev) /\ e.col \in 1 .. nbCols
    BY <1>1, <1>2, <1>5 DEF TimeRow, Entry, Kinds
  <2>2. QED BY <1>3, <2>1 DEF CommNames
<1>6. ASSUME NEW what \in {"left", "right"}, e \in SideRow(what, dir, cur, prev, dev)
      PROVE  /\ e.of = <<what, dir, cur, prev, dev>>
             /\ e.row = CommRow(what, dir, cur, prev, dev) /\ e.col \in 1 .. nbCols
    BY <1>1, <1>2, <1>4, <1>6 DEF SideRow, Entry, Kinds
<1>7. CASE e \in SideRow("left", dir, cur, prev, dev)
    BY <1>3, <1>6, <1>7 DEF CommNames
<1>8. CASE e \in SideRow("right", dir, cur, prev, dev)
    BY <1>3, <1>6, <1>8 DEF CommNames
<1>9. CASE e \in TotalRow(dir, cur, prev, dev, c)
  <2>1. /\ e.of = <<"comm", dir, cur, prev, dev>>
        /\ e.row = CommRow("comm", dir, cur, prev, dev) /\ e.col \in 1 .. nbCols
    BY <1>1, <1>9 DEF TotalRow, Entry, Kinds
  <2>2. QED BY <1>3, <2>1 DEF CommNames
<1>10. QED BY <1>5, <1>7, <1>8, <1>9 DEF CommEntriesOf

\* The first part of its name says which constraint a term is of.
LEMMA CommTermOf ==
    ASSUME NEW dir, NEW cur, NEW prev, NEW dev, NEW c,
           NEW e \in CommEntriesOf(dir, cur, prev, dev, c)
    PROVE  \/ e.of[1] = "transfer" /\ e \in TimeRow(dir, cur, prev, dev)
           \/ e.of[1] = "left" /\ e \in SideRow("left", dir, cur, prev, dev)
           \/ e.of[1] = "right" /\ e \in SideRow("right", dir, cur, prev, dev)
           \/ e.of[1] = "comm" /\ e \in TotalRow(dir, cur, prev, dev, c)
<1>1. e \in TimeRow(dir, cur, prev, dev) => e.of[1] = "transfer"
    BY DEF TimeRow, Entry
<1>2. ASSUME NEW what, e \in SideRow(what, dir, cur, prev, dev)
      PROVE  e.of[1] = what
    BY <1>2 DEF SideRow, Entry
<1>3. e \in TotalRow(dir, cur, prev, dev, c) => e.of[1] = "comm"
    BY DEF TotalRow, Entry
<1>4. QED BY <1>1, <1>2, <1>3 DEF CommEntriesOf

\* Two terms of one constraint on transfers have columns of their own.
LEMMA CommTermsApart ==
    ASSUME NEW dir \in Directions, NEW cur \in KerId, NEW prev \in KerId, NEW dev \in Dev,
           cur # prev, NEW c,
           NEW e \in CommEntriesOf(dir, cur, prev, dev, c),
           NEW f \in CommEntriesOf(dir, cur, prev, dev, c),
           e.of = f.of, e.col = f.col
    PROVE  e = f
<1>1. \A v \in Kinds \ {"time"}, w \in Kinds \ {"time"} :
        CommCol(v, dir, cur, prev, dev) = CommCol(w, dir, cur, prev, dev) => v = w
    BY CommCols
<1>2. NbShares \in Nat /\ FirstCommCol \in Nat /\ NbShares < FirstCommCol /\ nbCols \in Nat
    BY CycleAssumption, DevicesAssumption DEF NbShares, FirstCommCol, nbCols, Cube
<1>3. /\ CommCol("comm", dir, cur, prev, dev) # TransferTime_col(dir, cur)
      /\ \A w \in Kinds \ {"time"} : \A k \in KerId, d \in Dev :
            CommCol(w, dir, cur, prev, dev) # gr_col(k, d)
    BY <1>2, CommCols, TimeCols, ShareCols DEF Kinds
<1>4. \A k \in KerId, d \in Dev : \A l \in KerId, b \in Dev :
        gr_col(k, d) = gr_col(l, b) => k = l /\ d = b
    BY ShareCols
<1>5. 0 .. dev - 1 \subseteq Dev /\ 0 .. dev \subseteq Dev
    BY DevicesAssumption DEF Dev
<1>6. CASE e.of[1] = "transfer"
  <2>1. e \in TimeRow(dir, cur, prev, dev) /\ f \in TimeRow(dir, cur, prev, dev)
    BY <1>6, CommTermOf
  <2>2. QED BY <1>3, <2>1 DEF TimeRow, Entry
<1>7. ASSUME NEW what \in {"left", "right"},
             e \in SideRow(what, dir, cur, prev, dev), f \in SideRow(what, dir, cur, prev, dev)
      PROVE  e = f
    BY <1>3, <1>4, <1>5, <1>7 DEF SideRow, Entry, Kinds
<1>8. CASE e.of[1] \in {"left", "right"}
  <2>1. \E what \in {"left", "right"} :
          e \in SideRow(what, dir, cur, prev, dev) /\ f \in SideRow(what, dir, cur, prev, dev)
    BY <1>8, CommTermOf
  <2>2. QED BY <1>7, <2>1
<1>9. CASE e.of[1] = "comm"
  <2>1. e \in TotalRow(dir, cur, prev, dev, c) /\ f \in TotalRow(dir, cur, prev, dev, c)
    BY <1>9, CommTermOf
  <2>2. QED BY <1>1, <2>1 DEF TotalRow, Entry, Kinds
<1>10. e.of[1] \in CommNames
    BY CommEntries DEF CommOfs
<1>11. QED BY <1>6, <1>8, <1>9, <1>10 DEF CommNames

-----------------------------------------------------------------------------
(* The matrix.                                                             *)

\* Where a term is from: a kernel on a device, or a kernel after another one on
\* a device.
LEMMA Terms ==
    ASSUME NEW perf, NEW kernelGr, NEW c, NEW e \in updateGlpMatrix(perf, kernelGr, c)
    PROVE  \/ \E i \in KerId, j \in Dev : e \in KernelRows(i, j, perf[i][j], kernelGr[i][j])
           \/ \E dir \in Directions, cur \in KerId, prev \in KerId, dev \in Dev :
                cur # prev /\ e \in CommEntriesOf(dir, cur, prev, dev, c[dir][cur][prev][dev])
<1> DEFINE K(i, j) == KernelRows(i, j, perf[i][j], kernelGr[i][j])
           C(dir, cur, prev, dev) == CommRows(dir, cur, prev, dev, c[dir][cur][prev][dev])
<1>1. \/ \E i \in KerId, j \in Dev : e \in K(i, j)
      \/ \E dir \in Directions, cur \in KerId, prev \in KerId, dev \in Dev :
           e \in C(dir, cur, prev, dev)
  <2> DEFINE Ks == UNION {K(i, j) : i \in KerId, j \in Dev}
             Cs == UNION {C(dir, cur, prev, dev) : dir \in Directions, cur \in KerId,
                                                  prev \in KerId, dev \in Dev}
  <2>1. e \in Ks \cup Cs
    BY DEF updateGlpMatrix
  <2>2. e \in Ks \/ e \in Cs
    <3> HIDE DEF Ks, Cs
    <3>1. QED BY <2>1
  <2>3. CASE e \in Ks
    <3> HIDE DEF K
    <3>1. QED BY <2>3
  <2>4. CASE e \in Cs
    <3> HIDE DEF C
    <3>1. QED BY <2>4
  <2>5. QED BY <2>2, <2>3, <2>4
<1>2. ASSUME NEW dir, NEW cur, NEW prev, NEW dev, NEW v, e \in CommRows(dir, cur, prev, dev, v)
      PROVE  cur # prev /\ e \in CommEntriesOf(dir, cur, prev, dev, v)
    BY <1>2 DEF CommRows, CommEntriesOf
<1>3. QED BY <1>1, <1>2

LEMMA RowsAndColumns ==
    ASSUME NEW perf, NEW kernelGr, NEW c, NEW e \in updateGlpMatrix(perf, kernelGr, c)
    PROVE  /\ e.row \in 1 .. nbRows /\ e.col \in 1 .. nbCols
           /\ \/ e.of \in KernelOfs /\ e.row = KernelRowOf(e.of)
              \/ e.of \in CommOfs /\ e.row = CommRowOf(e.of)
<1>1. /\ FirstCommRow \in Nat \ {0} /\ FirstCommRow - 1 <= nbRows /\ nbRows \in Nat
      /\ FirstCommCol \in Nat \ {0} /\ FirstCommCol - 1 <= nbCols /\ nbCols \in Nat
  <2>1. /\ CycleLength * (2 * NbDevices + 1) \in Nat /\ CycleLength * 2 * NbDevices \in Nat
        /\ CycleLength * 3 \in Nat /\ Cube \in Nat
    BY CycleAssumption, DevicesAssumption DEF Cube
  <2>2. QED BY <2>1 DEF FirstCommRow, nbRows, FirstCommCol, nbCols
<1>2. CASE \E i \in KerId, j \in Dev : e \in KernelRows(i, j, perf[i][j], kernelGr[i][j])
  <2>1. /\ e.of \in KernelOfs /\ e.row = KernelRowOf(e.of)
        /\ e.col \in 1 .. FirstCommCol - 1
    <3>1. PICK i \in KerId, j \in Dev : e \in KernelRows(i, j, perf[i][j], kernelGr[i][j])
      BY <1>2
    <3> DEFINE p == perf[i][j]
               g == kernelGr[i][j]
    <3>2. e \in KernelRows(i, j, p, g)
      BY <3>1
    <3> HIDE DEF p, g
    <3>3. InKernelRow(e) /\ e.col \in 1 .. FirstCommCol - 1
      BY <3>2, KernelEntries
    <3>4. QED BY <3>3 DEF InKernelRow
  <2>2. e.row \in 1 .. FirstCommRow - 1
    BY <2>1, KernelOfsApart
  <2>3. QED BY <1>1, <2>1, <2>2
<1>3. CASE \E dir \in Directions, cur \in KerId, prev \in KerId, dev \in Dev :
             cur # prev /\ e \in CommEntriesOf(dir, cur, prev, dev, c[dir][cur][prev][dev])
  <2>1. e.of \in CommOfs /\ e.row = CommRowOf(e.of) /\ e.col \in 1 .. nbCols
    <3>1. PICK dir \in Directions, cur \in KerId, prev \in KerId, dev \in Dev :
                 e \in CommEntriesOf(dir, cur, prev, dev, c[dir][cur][prev][dev])
      BY <1>3
    <3>2. QED BY <3>1, CommEntries
  <2>2. e.row \in FirstCommRow .. nbRows
    BY <2>1, CommOfsApart
  <2>3. QED BY <1>1, <2>1, <2>2
<1>4. QED BY <1>2, <1>3, Terms

LEMMA OfsApart == KernelOfs \cap CommOfs = {}
<1>1. \A o \in KernelOfs : o[1] \in {"time", "share", "sum"}
    BY DEF KernelOfs
<1>2. \A o \in CommOfs : o[1] \in CommNames
    BY DEF CommOfs
<1>3. QED BY <1>1, <1>2 DEF CommNames

LEMMA OneRowEach ==
    ASSUME NEW perf, NEW kernelGr, NEW c,
           NEW e \in updateGlpMatrix(perf, kernelGr, c), NEW f \in updateGlpMatrix(perf, kernelGr, c)
    PROVE  e.row = f.row <=> e.of = f.of
<1>1. KernelOfs \cap CommOfs = {}
    BY OfsApart
<1>2. FirstCommRow \in Int
    BY CycleAssumption, DevicesAssumption DEF FirstCommRow
<1>3. \A o \in KernelOfs : \A q \in CommOfs : KernelRowOf(o) # CommRowOf(q)
    BY <1>2, KernelOfsApart, CommOfsApart
<1>4. QED BY <1>1, <1>3, RowsAndColumns, KernelOfsApart, CommOfsApart

LEMMA OneTermEach ==
    ASSUME NEW perf, NEW kernelGr, NEW c,
           NEW e \in updateGlpMatrix(perf, kernelGr, c), NEW f \in updateGlpMatrix(perf, kernelGr, c),
           e.of = f.of, e.col = f.col
    PROVE  e = f
<1> DEFINE K(i, j) == KernelRows(i, j, perf[i][j], kernelGr[i][j])
           C(dir, cur, prev, dev) == CommEntriesOf(dir, cur, prev, dev, c[dir][cur][prev][dev])
<1>1. CASE /\ \E i \in KerId, j \in Dev : e \in K(i, j)
           /\ \E i \in KerId, j \in Dev : f \in K(i, j)
  <2>1. PICK i \in KerId, j \in Dev : e \in K(i, j)
    BY <1>1
  <2>2. PICK a \in KerId, b \in Dev : f \in K(a, b)
    BY <1>1
  <2>3. /\ InKernelRow(e)
        /\ e.of[1] \in {"time", "share"} => e.of[2] = i /\ e.of[3] = j
        /\ e.of[1] = "sum" =>
             e.of[2] = i /\ e = Entry(e.of, <<"gr", j>>, gr_keri_row(i), gr_col(i, j), 1)
    BY <2>1, KernelEntries
  <2>4. /\ f.of[1] \in {"time", "share"} => f.of[2] = a /\ f.of[3] = b
        /\ f.of[1] = "sum" =>
             f.of[2] = a /\ f = Entry(f.of, <<"gr", b>>, gr_keri_row(a), gr_col(a, b), 1)
    BY <2>2, KernelEntries
  <2>5. CASE e.of[1] \in {"time", "share"}
    <3>1. i = a /\ j = b
      BY <2>3, <2>4, <2>5
    <3>2. f \in K(i, j)
      BY <2>2, <3>1
    <3>3. QED BY <2>1, <3>2, KernelTermsApart
  <2>6. CASE e.of[1] = "sum"
    <3>1. /\ e = Entry(e.of, <<"gr", j>>, gr_keri_row(i), gr_col(i, j), 1)
          /\ f = Entry(e.of, <<"gr", b>>, gr_keri_row(a), gr_col(a, b), 1) /\ i = a
      BY <2>3, <2>4, <2>6
    <3>2. gr_col(i, j) = gr_col(a, b)
      BY <3>1 DEF Entry
    <3>3. j = b
      BY <3>2, ShareCols
    <3>4. QED BY <3>1, <3>3
  <2>7. e.of[1] \in {"time", "share", "sum"}
    BY <2>3 DEF InKernelRow, KernelOfs
  <2>8. QED BY <2>5, <2>6, <2>7
<1>2. CASE /\ \E dir \in Directions, cur \in KerId, prev \in KerId, dev \in Dev :
                cur # prev /\ e \in C(dir, cur, prev, dev)
           /\ \E dir \in Directions, cur \in KerId, prev \in KerId, dev \in Dev :
                cur # prev /\ f \in C(dir, cur, prev, dev)
  <2>1. PICK dir \in Directions, cur \in KerId, prev \in KerId, dev \in Dev :
               cur # prev /\ e \in C(dir, cur, prev, dev)
    BY <1>2
  <2>2. PICK d \in Directions, to \in KerId, from \in KerId, on \in Dev :
               to # from /\ f \in C(d, to, from, on)
    BY <1>2
  <2>3. e.of[2] = dir /\ e.of[3] = cur /\ e.of[4] = prev /\ e.of[5] = dev
    BY <2>1, CommEntries
  <2>4. f.of[2] = d /\ f.of[3] = to /\ f.of[4] = from /\ f.of[5] = on
    BY <2>2, CommEntries
  <2>5. f \in C(dir, cur, prev, dev)
    BY <2>2, <2>3, <2>4
  <2>6. QED BY <2>1, <2>5, CommTermsApart
<1>3. CASE \/ /\ \E i \in KerId, j \in Dev : e \in K(i, j)
              /\ \E dir \in Directions, cur \in KerId, prev \in KerId, dev \in Dev :
                   cur # prev /\ f \in C(dir, cur, prev, dev)
           \/ /\ \E i \in KerId, j \in Dev : f \in K(i, j)
              /\ \E dir \in Directions, cur \in KerId, prev \in KerId, dev \in Dev :
                   cur # prev /\ e \in C(dir, cur, prev, dev)
  <2>1. \/ e.of \in KernelOfs /\ f.of \in CommOfs
        \/ f.of \in KernelOfs /\ e.of \in CommOfs
    <3>1. \A i \in KerId, j \in Dev :
            (e \in K(i, j) => e.of \in KernelOfs) /\ (f \in K(i, j) => f.of \in KernelOfs)
      BY KernelEntries DEF InKernelRow
    <3>2. \A dir \in Directions, cur \in KerId, prev \in KerId, dev \in Dev :
            /\ e \in C(dir, cur, prev, dev) => e.of \in CommOfs
            /\ f \in C(dir, cur, prev, dev) => f.of \in CommOfs
      BY CommEntries
    <3> HIDE DEF K, C
    <3>3. QED BY <1>3, <3>1, <3>2
  <2>2. QED BY <2>1, OfsApart
<1>4. QED BY <1>1, <1>2, <1>3, Terms

-----------------------------------------------------------------------------
\* Whatever was measured, for any number of devices and kernels, every term of
\* the linear program has a place of its own among the rows and columns there
\* are, and no two constraints share a row (MultiKernelSolver.cpp).
THEOREM MatrixAlwaysWellFormed == Spec => []MatrixIsWellFormed
<1>1. MatrixIsWellFormed
  <2> SUFFICES ASSUME NEW e \in TheMatrix, NEW f \in TheMatrix
               PROVE  /\ e.row = f.row /\ e.col = f.col => e = f
                      /\ e.row = f.row <=> e.of = f.of
                      /\ e.row \in 1 .. nbRows /\ e.col \in 1 .. nbCols
    BY Zenon DEF MatrixIsWellFormed
  <2>1. PICK perf, kernelGr, c : TheMatrix = updateGlpMatrix(perf, kernelGr, c)
    BY Zenon DEF TheMatrix
  <2>2. e \in updateGlpMatrix(perf, kernelGr, c) /\ f \in updateGlpMatrix(perf, kernelGr, c)
    BY <2>1
  <2>3. QED BY <2>2, RowsAndColumns, OneRowEach, OneTermEach
<1>2. QED BY <1>1, PTL

-----------------------------------------------------------------------------
(* The place in the cycle.                                                 *)

Pos == count % CycleLength
Cycle == count \div CycleLength
Even(n) == n % 2 = 0

LEMMA NextPlace ==
    ASSUME NEW c \in Nat, NEW n \in Nat \ {0}
    PROVE  /\ c % n \in 0 .. n - 1 /\ c \div n \in Nat
           /\ c \div n = 0 => c % n = c
           /\ c \div n # 0 => c >= n
           /\ \/ /\ ((c + 1) % n) = (c % n) + 1 /\ (c % n) + 1 # n
                 /\ (c + 1) \div n = c \div n
              \/ /\ (c + 1) % n = 0 /\ (c % n) + 1 = n
                 /\ (c + 1) \div n = c \div n + 1
OBVIOUS

-----------------------------------------------------------------------------
(* What is kept of a kernel and under which solution it ran.               *)

Fields == {"known", "wgs", "req", "real", "of", "transfers"}
OfSolution(k) == info[k].of = solutions
Fresh(k) == \A t \in info[k].transfers : t.from = solutions /\ t.to = solutions

\* The kernels launched so far have a record.
Records ==
    /\ count \in Nat /\ DOMAIN info = KerId
    /\ \A k \in KerId : /\ info[k].known \in BOOLEAN
                        /\ Known(k) <=> k < count
                        /\ Known(k) => Fields \subseteq DOMAIN info[k]

\* An even cycle adopts the last solution kernel by kernel; at its end all run
\* under it, and the odd cycle, whose first launch drops what was measured, sees
\* transfers between partitions of this solution only.
OneSolutionEach ==
    /\ Even(Cycle) /\ Cycle # 0 /\ Pos = 0 => \A k \in KerId : OfSolution(k) /\ Fresh(k)
    /\ Even(Cycle) => \A k \in KerId : k < Pos => OfSolution(k)
    /\ ~ Even(Cycle) => \A k \in KerId : OfSolution(k)
    /\ ~ Even(Cycle) /\ Pos > 0 => \A k \in KerId : Fresh(k)

SolutionInv == Solving => Records /\ OneSolutionEach

\* What a launch leaves of a kernel's record, given the records before it.
Ran(SI, infos, k, need, of) ==
    /\ SI.known = TRUE /\ Fields \subseteq DOMAIN SI
    /\ need \/ infos[k].of = of => SI.of = of
    /\ SI.transfers = infos[k].transfers \cup TransfersOf(infos, k, SI.of)

LEMMA Launched ==
    ASSUME NEW infos, NEW k \in KerId, Fields \subseteq DOMAIN infos[k], infos[k].known = TRUE,
           NEW wgs, NEW need \in BOOLEAN, NEW alone, NEW of
    PROVE  Ran(AfterLaunch(infos, k, wgs, need, alone, of), infos, k, need, of)
<1> DEFINE again == need \/ infos[k].wgs # wgs
           newOf == IF again THEN of ELSE infos[k].of
           real  == IF again THEN Adapted(infos[k].req, wgs, alone) ELSE infos[k].real
           SI    == [infos[k] EXCEPT !.wgs = wgs, !.real = real, !.of = newOf,
                       !.transfers = infos[k].transfers \cup TransfersOf(infos, k, newOf)]
<1>1. AfterLaunch(infos, k, wgs, need, alone, of) = SI
    BY DEF AfterLaunch
<1>2. newOf = of \/ ~ (need \/ infos[k].of = of)
    OBVIOUS
<1> HIDE DEF newOf, real
<1>3. SI.of = newOf /\ SI.known = TRUE /\ Fields \subseteq DOMAIN SI
      /\ SI.transfers = infos[k].transfers \cup TransfersOf(infos, k, newOf)
    BY DEF Fields
<1>4. Ran(SI, infos, k, need, of)
    BY <1>2, <1>3 DEF Ran
<1> QED BY <1>1, <1>4

\* The kernel that a step launches, and what it leaves of the others.
LEMMA EnqueueStep ==
    ASSUME NEW infos, DOMAIN infos = KerId, NEW k \in KerId, k = Pos, NEW need \in BOOLEAN, NEW of,
           \A j \in KerId : infos[j].known = TRUE => Fields \subseteq DOMAIN infos[j],
           infos[k].known = TRUE, Solving, NEW h, Enqueue(h, infos, need, of)
    PROVE  /\ count' = count + 1 /\ DOMAIN info' = KerId
           /\ \A j \in KerId : j # k => info'[j] = infos[j]
           /\ Ran(info'[k], infos, k, need, of)
<1>1. getKernelID(h) = k
    BY DEF getKernelID, Cycles, Solving, MultiKernel, Pos
<1>2. PICK wgs \in WorkGroups, alone \in BOOLEAN :
         info' = [infos EXCEPT ![k] = AfterLaunch(infos, k, wgs, need, alone, of)]
    BY <1>1 DEF Enqueue
<1>3. count' = count + 1
    BY DEF Enqueue
<1>4. info'[k] = AfterLaunch(infos, k, wgs, need, alone, of)
    BY <1>2
<1>5. /\ \A j \in KerId : j # k => info'[j] = infos[j]
      /\ DOMAIN info' = KerId
    BY <1>2
<1>6. Fields \subseteq DOMAIN infos[k]
    OBVIOUS
<1>7. Ran(AfterLaunch(infos, k, wgs, need, alone, of), infos, k, need, of)
    BY <1>6, Launched
<1> QED BY <1>3, <1>4, <1>5, <1>7

\* The transfers of a launch are between kernels of the solution it runs under.
LEMMA FreshTransfers ==
    ASSUME NEW infos, NEW k \in KerId, NEW of,
           \A j \in KerId : infos[j].known = TRUE => infos[j].of = of,
           NEW t \in TransfersOf(infos, k, of), \A j \in KerId : infos[j].known \in BOOLEAN
    PROVE  t.from = of /\ t.to = of
BY DEF TransfersOf

LEMMA ForgottenInfo ==
    ASSUME NEW k \in KerId, Known(k) => Fields \subseteq DOMAIN info[k], info[k].known \in BOOLEAN
    PROVE  /\ Forgotten(info[k]).known = info[k].known
           /\ Known(k) => /\ Fields \subseteq DOMAIN Forgotten(info[k])
                          /\ Forgotten(info[k]).of = info[k].of
                          /\ Forgotten(info[k]).transfers = {}
BY DEF Forgotten, Fields, Known

LEMMA Place ==
    ASSUME Records
    PROVE  /\ Pos \in KerId /\ Cycle \in Nat /\ count \in Nat
           /\ Cycle = 0 => Pos = count
           /\ Cycle # 0 => \A k \in KerId : k < count
           /\ count' = count + 1 =>
                \/ Pos' = Pos + 1 /\ Pos' \in KerId /\ Cycle' = Cycle
                \/ Pos' = 0 /\ Cycle' = Cycle + 1 /\ \A k \in KerId : k <= Pos
<1> USE CycleAssumption, DevicesAssumption
<1>1. count \in Nat /\ CycleLength \in Nat \ {0}
    BY DEF Records
<1>2. Pos \in KerId /\ Cycle \in Nat
    BY <1>1, NextPlace DEF Pos, Cycle, KerId
<1>3. Cycle = 0 => Pos = count
    BY <1>1, NextPlace DEF Pos, Cycle
<1>4. Cycle # 0 => \A k \in KerId : k < count
  <2>1. Cycle # 0 => count >= CycleLength
    BY <1>1, NextPlace DEF Cycle
  <2> QED BY <1>1, <2>1 DEF KerId
<1>5. ASSUME count' = count + 1
      PROVE  \/ Pos' = Pos + 1 /\ Pos' \in KerId /\ Cycle' = Cycle
             \/ Pos' = 0 /\ Cycle' = Cycle + 1 /\ \A k \in KerId : k <= Pos
  <2>1. \/ Pos' = Pos + 1 /\ Pos + 1 # CycleLength /\ Cycle' = Cycle
        \/ Pos' = 0 /\ Pos + 1 = CycleLength /\ Cycle' = Cycle + 1
    BY <1>1, <1>5, NextPlace DEF Pos, Cycle
  <2> QED BY <1>1, <1>2, <2>1 DEF KerId
<1> QED BY <1>1, <1>2, <1>3, <1>4, <1>5

\* The kernels launched have a record after one more launch, too.
LEMMA RecordsStep ==
    ASSUME Records, count' = count + 1, DOMAIN info' = KerId, Known(Pos) \/ Cycle = 0,
           info'[Pos].known = TRUE, Fields \subseteq DOMAIN info'[Pos],
           \A j \in KerId : j # Pos => /\ info'[j].known = info[j].known
                                       /\ Known(j) => Fields \subseteq DOMAIN info'[j]
    PROVE  Records'
<1>0. Pos \in KerId /\ count \in Nat /\ (Cycle = 0 => Pos = count)
    BY Place
<1>1. \A j \in KerId : j # Pos => (j < count <=> j < count + 1)
  <2>1. Cycle # 0 => \A j \in KerId : j < count
    BY Place
  <2> QED BY <1>0, <2>1 DEF KerId
<1>2. Pos < count + 1
    BY <1>0 DEF Records, KerId
<1>3. ASSUME NEW j \in KerId
      PROVE  /\ info'[j].known \in BOOLEAN
             /\ info'[j].known <=> j < count'
             /\ info'[j].known => Fields \subseteq DOMAIN info'[j]
  <2>1. CASE j = Pos
    BY <1>2, <2>1
  <2>2. CASE j # Pos
    <3>1. /\ info'[j].known = info[j].known
          /\ j < count' <=> j < count
          /\ Known(j) => Fields \subseteq DOMAIN info'[j]
      BY <1>0, <1>1, <2>2 DEF KerId
    <3>2. /\ info[j].known \in BOOLEAN
          /\ Known(j) <=> j < count
      BY DEF Records
    <3> HIDE DEF Records
    <3> QED BY <3>1, <3>2 DEF Known
  <2> QED BY <2>1, <2>2
<1> QED BY <1>0, <1>3 DEF Records, Known

\* An even cycle, one kernel further.
LEMMA EvenStep ==
    ASSUME Records, Even(Cycle), count' = count + 1,
           \A j \in KerId : j <= Pos => OfSolution(j)'
    PROVE  OneSolutionEach'
<1>1. CASE Pos' = Pos + 1 /\ Cycle' = Cycle
    BY <1>1, Place DEF OneSolutionEach, Even, KerId
<1>2. CASE Pos' = 0 /\ Cycle' = Cycle + 1 /\ \A k \in KerId : k <= Pos
    BY <1>2, Place DEF OneSolutionEach, Even, KerId
<1> QED BY <1>1, <1>2, Place

\* An odd cycle, one kernel further.
LEMMA OddStep ==
    ASSUME Records, ~ Even(Cycle), count' = count + 1,
           \A j \in KerId : OfSolution(j)' /\ Fresh(j)'
    PROVE  OneSolutionEach'
<1>1. CASE Pos' = Pos + 1 /\ Cycle' = Cycle
    BY <1>1, Place DEF OneSolutionEach, Even, KerId
<1>2. CASE Pos' = 0 /\ Cycle' = Cycle + 1
    BY <1>2, Place DEF OneSolutionEach, Even, KerId
<1> QED BY <1>1, <1>2, Place

LEMMA FirstStep ==
    ASSUME SolutionInv, Solving, NEW h, First(h)
    PROVE  SolutionInv'
<1> DEFINE k == Pos
           infos == [info EXCEPT ![k] = NewInfo(Asked)]
<1>1. getKernelID(h) = k /\ Records /\ OneSolutionEach
    BY DEF getKernelID, Cycles, Solving, MultiKernel, Pos, SolutionInv
<1>2. k \in KerId /\ Cycle = 0 /\ Even(Cycle)
  <2>1. ~ Known(k)
    BY <1>1 DEF First
  <2>2. k \in KerId /\ ~ k < count
    BY <2>1, <1>1, Place DEF Records
  <2> QED BY <1>1, <2>2, Place DEF Even
<1>3. /\ DOMAIN infos = KerId /\ infos[k] = NewInfo(Asked)
      /\ \A j \in KerId : j # k => infos[j] = info[j]
    BY <1>1, <1>2 DEF Records
<1>4. infos[k].known = TRUE /\ Fields \subseteq DOMAIN infos[k]
    BY <1>3 DEF NewInfo, Fields
<1>5. \A j \in KerId : infos[j].known = TRUE => Fields \subseteq DOMAIN infos[j]
    BY <1>1, <1>3, <1>4 DEF Records, Known
<1>6. /\ Enqueue(h, infos, TRUE, solutions)
      /\ scheduler' = scheduler /\ solutions' = solutions
    BY <1>1 DEF First
<1> HIDE DEF infos, k
<1>7. /\ count' = count + 1 /\ DOMAIN info' = KerId
      /\ \A j \in KerId : j # k => info'[j] = info[j]
      /\ Ran(info'[k], infos, k, TRUE, solutions)
    BY <1>2, <1>3, <1>4, <1>5, <1>6, EnqueueStep DEF k
<1>8. info'[k].known = TRUE /\ Fields \subseteq DOMAIN info'[k] /\ info'[k].of = solutions
    BY <1>7 DEF Ran
<1>9. Records'
    BY <1>1, <1>2, <1>7, <1>8, RecordsStep DEF k, Known, Records
<1>10. OneSolutionEach'
  <2>1. \A j \in KerId : j < k => OfSolution(j)
    BY <1>1, <1>2 DEF k, OneSolutionEach
  <2>2. \A j \in KerId : j <= k => OfSolution(j)'
    BY <1>2, <1>6, <1>7, <1>8, <2>1 DEF OfSolution, KerId
  <2> QED BY <1>1, <1>2, <1>7, <2>2, EvenStep DEF k
<1> QED BY <1>9, <1>10 DEF SolutionInv

LEMMA MeasureStep ==
    ASSUME SolutionInv, Solving, NEW h, Measure(h)
    PROVE  SolutionInv'
<1> DEFINE k == Pos
           infos == IF k = 0 THEN ForgetAll ELSE info
<1>1. getKernelID(h) = k /\ Records /\ OneSolutionEach
    BY DEF getKernelID, Cycles, Solving, MultiKernel, Pos, SolutionInv
<1>2. /\ Known(k) /\ ~ Even(Cycle) /\ Enqueue(h, infos, FALSE, solutions)
      /\ scheduler' = scheduler /\ solutions' = solutions
    BY <1>1 DEF Measure, Relaunch, Cycle, getCycleIter, Even
<1>3. /\ k \in KerId /\ \A j \in KerId : Known(j) /\ OfSolution(j)
      /\ k # 0 => \A j \in KerId : Fresh(j)
  <2>1. Cycle # 0
    BY <1>2 DEF Even
  <2> QED BY <1>1, <1>2, <2>1, Place DEF Records, OneSolutionEach, KerId
<1>4. /\ DOMAIN infos = KerId
      /\ \A j \in KerId : /\ infos[j].known = TRUE /\ Fields \subseteq DOMAIN infos[j]
                          /\ infos[j].of = solutions
                          /\ infos[j].transfers = {} \/ (k # 0 /\ infos[j] = info[j])
  <2>1. CASE k = 0
    <3>1. \A j \in KerId : infos[j] = Forgotten(info[j]) /\ DOMAIN infos = KerId
      BY <2>1 DEF ForgetAll
    <3> HIDE DEF infos, k
    <3>2. \A j \in KerId : info[j].known = TRUE /\ Fields \subseteq DOMAIN info[j]
      BY <1>1, <1>3 DEF Records, Known
    <3> QED BY <1>3, <3>1, <3>2, ForgottenInfo DEF Known, OfSolution
  <2>2. CASE k # 0
    BY <1>1, <1>3, <2>2 DEF Records, Known, OfSolution
  <2> QED BY <2>1, <2>2
<1> HIDE DEF infos, k
<1>5. /\ count' = count + 1 /\ DOMAIN info' = KerId
      /\ \A j \in KerId : j # k => info'[j] = infos[j]
      /\ Ran(info'[k], infos, k, FALSE, solutions)
    BY <1>2, <1>3, <1>4, EnqueueStep DEF k
<1>6. /\ info'[k].known = TRUE /\ Fields \subseteq DOMAIN info'[k] /\ info'[k].of = solutions
      /\ info'[k].transfers = infos[k].transfers \cup TransfersOf(infos, k, solutions)
    BY <1>3, <1>4, <1>5 DEF Ran
<1>7. Records'
    BY <1>1, <1>2, <1>3, <1>4, <1>5, <1>6, RecordsStep DEF k, Known, Records
<1>8. \A j \in KerId : \A t \in infos[j].transfers : t.from = solutions /\ t.to = solutions
    BY <1>3, <1>4 DEF Fresh
<1>9. \A t \in TransfersOf(infos, k, solutions) : t.from = solutions /\ t.to = solutions
    BY <1>3, <1>4 DEF TransfersOf
<1>10. OneSolutionEach'
  <2>1. \A j \in KerId : OfSolution(j)' /\ Fresh(j)'
    BY <1>2, <1>3, <1>4, <1>5, <1>6, <1>8, <1>9 DEF OfSolution, Fresh
  <2> QED BY <1>1, <1>2, <1>5, <2>1, OddStep
<1> QED BY <1>7, <1>10 DEF SolutionInv

\* A kernel of an even cycle takes what the solver has last answered.
LEMMA AdoptsSolution ==
    ASSUME Records, OneSolutionEach, Solving, scheduler' = scheduler, Even(Cycle), Known(Pos),
           NEW h, NEW infos, NEW need \in BOOLEAN, Enqueue(h, infos, need, solutions'),
           DOMAIN infos = KerId,
           \A j \in KerId : /\ infos[j].known = info[j].known
                            /\ Known(j) => Fields \subseteq DOMAIN infos[j]
                            /\ Known(j) => infos[j].of = info[j].of,
           \/ need /\ (solutions' = solutions \/ Pos = 0)
           \/ solutions' = solutions /\ OfSolution(Pos)
    PROVE  SolutionInv'
<1> DEFINE k == Pos
<1>1. k \in KerId /\ infos[k].known = TRUE
    BY Place DEF Records, Known
<1>2. \A j \in KerId : infos[j].known = TRUE => Fields \subseteq DOMAIN infos[j]
    BY DEF Records, Known
<1>3. /\ count' = count + 1 /\ DOMAIN info' = KerId
      /\ \A j \in KerId : j # k => info'[j] = infos[j]
      /\ Ran(info'[k], infos, k, need, solutions')
    BY <1>1, <1>2, EnqueueStep
<1>4. info'[k].known = TRUE /\ Fields \subseteq DOMAIN info'[k] /\ info'[k].of = solutions'
    BY <1>1, <1>3 DEF Ran, OfSolution, Known
<1>5. Records'
    BY <1>1, <1>3, <1>4, RecordsStep DEF Known
<1>6. \A j \in KerId : j <= k => OfSolution(j)'
  <2> SUFFICES ASSUME NEW j \in KerId, j <= k, j # k PROVE OfSolution(j)'
    BY <1>4 DEF OfSolution
  <2>1. j < k /\ k # 0
    BY <1>1 DEF KerId
  <2>2. Known(j)
    BY <2>1, <1>1, Place DEF Records, KerId, Known
  <2>3. OfSolution(j) /\ solutions' = solutions
    BY <2>1 DEF OneSolutionEach
  <2> QED BY <1>3, <2>2, <2>3 DEF OfSolution
<1> QED BY <1>3, <1>5, <1>6, EvenStep DEF SolutionInv

LEMMA AdoptStep ==
    ASSUME SolutionInv, Solving, NEW h, Adopt(h)
    PROVE  SolutionInv'
<1>1. getKernelID(h) = Pos /\ Records /\ OneSolutionEach
    BY DEF getKernelID, Cycles, Solving, MultiKernel, Pos, SolutionInv
<1>2. /\ Known(Pos) /\ Even(Cycle) /\ Enqueue(h, info, TRUE, solutions)
      /\ scheduler' = scheduler /\ solutions' = solutions
    BY <1>1 DEF Adopt, Relaunch, Cycle, getCycleIter, Even
<1>3. Enqueue(h, info, TRUE, solutions')
    BY <1>2
<1> QED BY <1>1, <1>2, <1>3, AdoptsSolution DEF Records

LEMMA ConsultStep ==
    ASSUME SolutionInv, Solving, NEW h, Consult(h)
    PROVE  SolutionInv'
<1>1. getKernelID(h) = Pos /\ Records /\ OneSolutionEach
    BY DEF getKernelID, Cycles, Solving, MultiKernel, Pos, SolutionInv
<1>2. Known(Pos) /\ Even(Cycle) /\ Pos = 0 /\ scheduler' = scheduler
    BY <1>1 DEF Consult, Relaunch, ConsultsSolver, Cycle, getCycleIter, Even
<1>3. /\ DOMAIN ForgetAll = KerId
      /\ \A j \in KerId : /\ ForgetAll[j].known = info[j].known
                          /\ Known(j) => Fields \subseteq DOMAIN ForgetAll[j]
                          /\ Known(j) => ForgetAll[j].of = info[j].of
    BY <1>1, ForgottenInfo DEF ForgetAll, Records
<1>7. Cycle # 0 /\ Pos \in KerId /\ \A j \in KerId : Known(j)
  <2>1. Pos \in KerId /\ Cycle = 0 => ~ Pos < count
    BY <1>1, Place DEF Records
  <2>2. Pos \in KerId /\ Cycle # 0
    BY <1>1, <1>2, <2>1, Place DEF Records
  <2> QED BY <1>1, <2>2, Place DEF Records
<1>4. CASE Enqueue(h, ForgetAll, FALSE, solutions) /\ solutions' = solutions
  <2>1. OfSolution(Pos)
    BY <1>1, <1>2, <1>7 DEF OneSolutionEach
  <2>2. Enqueue(h, ForgetAll, FALSE, solutions')
    BY <1>4
  <2> QED BY <1>1, <1>2, <1>3, <1>4, <2>1, <2>2, AdoptsSolution
<1>5. ASSUME NEW g, Enqueue(h, [k \in KerId |-> [ForgetAll[k] EXCEPT !.req = Descriptor(g[k])]],
                            TRUE, solutions')
      PROVE  SolutionInv'
  <2> DEFINE infos == [k \in KerId |-> [ForgetAll[k] EXCEPT !.req = Descriptor(g[k])]]
  <2>1. /\ DOMAIN infos = KerId
        /\ \A j \in KerId : /\ infos[j].known = info[j].known
                            /\ Known(j) => Fields \subseteq DOMAIN infos[j]
                            /\ Known(j) => infos[j].of = info[j].of
    BY <1>3, <1>7 DEF Fields
  <2> HIDE DEF infos
  <2> QED BY <1>1, <1>2, <1>5, <2>1, AdoptsSolution DEF infos
<1> QED BY <1>1, <1>4, <1>5 DEF Consult

LEMMA OneSolutionStep == SolutionInv /\ [Next]_vars => SolutionInv'
<1> SUFFICES ASSUME SolutionInv, [Next]_vars PROVE SolutionInv'
    OBVIOUS
<1>1. CASE UNCHANGED <<scheduler, count, info, solutions>>
    BY <1>1 DEF SolutionInv, Solving, Records, OneSolutionEach, Known, Cycle, Pos, OfSolution, Fresh
<1>2. CASE UNCHANGED vars
    BY <1>1, <1>2 DEF vars
<1>3. CASE \E h \in Handles : BadPartition(h) \/ OutOfTurn(h) \/ FixedPointFails(h)
    BY <1>1, <1>3 DEF BadPartition, OutOfTurn, FixedPointFails
<1>4. CASE \E h \in Handles : KeepPartition(h) \/ FixedPoint(h) \/ Broyden(h) \/ BadBroyden(h)
  <2>1. ~ Solving /\ scheduler' = scheduler
    BY <1>4 DEF KeepPartition, FixedPoint, Broyden, BadBroyden, BroydenStep, Solving, Static
  <2> QED BY <2>1 DEF SolutionInv, Solving
<1>5. CASE \E h \in Handles : First(h) \/ Measure(h) \/ Adopt(h) \/ Consult(h)
  <2>1. CASE Solving
    BY <1>5, <2>1, FirstStep, MeasureStep, AdoptStep, ConsultStep
  <2>2. CASE ~ Solving
    <3>1. scheduler' = scheduler
      BY <1>5 DEF First, Measure, Adopt, Consult
    <3> QED BY <2>2, <3>1 DEF SolutionInv, Solving
  <2> QED BY <2>1, <2>2
<1> QED BY <1>2, <1>3, <1>4, <1>5 DEF Next

\* Whenever MKGR or MKGR2 asks the solver, the transfers it is given samples of
\* took place between partitions of one solution, for any number of devices and
\* any length of the cycle, although each kernel adopts a solution at its own launch
\* and keeps its partition when the number of work groups changes.
THEOREM SamplesOfOneSolution == Spec => []TransfersAreOfOneSolution
<1>1. Init => SolutionInv
  <2> SUFFICES ASSUME Init PROVE Records /\ OneSolutionEach
    BY DEF SolutionInv
  <2>1. count = 0 /\ Records
    <3>1. count = 0 /\ info = [k \in KerId |-> NoInfo]
      BY DEF Init
    <3>2. \A k \in KerId : info[k].known = FALSE /\ ~ k < 0
      BY <3>1, CycleAssumption DEF NoInfo, KerId
    <3> QED BY <3>1, <3>2 DEF Records, Known
  <2>2. Cycle = 0 /\ Pos = 0
    BY <2>1, CycleAssumption DEF Cycle, Pos
  <2> QED BY <2>1, <2>2 DEF OneSolutionEach, Even, KerId
<1>2. SolutionInv => TransfersAreOfOneSolution
  <2> SUFFICES ASSUME SolutionInv, AboutToConsult
               PROVE  \A k \in KerId : Fresh(k)
    BY DEF TransfersAreOfOneSolution, Fresh
  <2>1. Records /\ OneSolutionEach /\ Even(Cycle) /\ Pos = 0 /\ \A k \in KerId : Known(k)
    BY DEF AboutToConsult, SolutionInv, ConsultsSolver, getCycleIter, Even, Cycle, Pos
  <2>2. Cycle # 0
    BY <2>1, Place DEF Records
  <2> QED BY <2>1, <2>2 DEF OneSolutionEach
<1> QED BY <1>1, <1>2, OneSolutionStep, PTL DEF Spec

-----------------------------------------------------------------------------
(* Sums of shares.                                                         *)

-----------------------------------------------------------------------------
(* Sums: the order in which SumFunctionOnSet takes the terms is immaterial. *)

Picked(s) == CHOOSE x \in s : TRUE
SumOver(f, s) == SumFunctionOnSet(f, s)

SumsOf(it, f, S) ==
    /\ it \in [SUBSET S -> Int] /\ it[{}] = 0
    /\ \A s \in (SUBSET S) \ {{}} : it[s] = f[Picked(s)] + it[s \ {Picked(s)}]

LEMMA SumsExist ==
    ASSUME NEW S, IsFiniteSet(S), NEW f, \A x \in S : f[x] \in Int
    PROVE  \E it : SumsOf(it, f, S) /\ SumOver(f, S) = it[S]
<1> DEFINE pk == [s \in SUBSET S |-> Picked(s)]
           Raw(it) == it = [s \in SUBSET S |-> IF s = {} THEN 0
                                     ELSE f[Picked(s)] + it[s \ {Picked(s)}]]
           G == Adding(S, f)
<1>1. \A s \in (SUBSET S) \ {{}} : Picked(s) \in s /\ s \ {Picked(s)} \in SUBSET S
    BY DEF Picked
<1>2. Picks(pk, S) /\ G \in [S \X Int -> Int] /\ 0 \in Int
    BY <1>1 DEF Picks, Adding
<1>3. PICK it \in [SUBSET S -> Int] : Folds(it, S, 0, G, pk)
    <2> HIDE DEF pk, G
    <2>1. QED BY <1>2, FoldExists
<1>4. Raw(it)
    <2>1. ASSUME NEW s \in SUBSET S
          PROVE  it[s] = IF s = {} THEN 0 ELSE f[Picked(s)] + it[s \ {Picked(s)}]
        <3>1. CASE s = {}
            BY <1>3, <3>1 DEF Folds
        <3>2. CASE s # {}
            <4>1. it[s] = G[<<Picked(s), it[s \ {Picked(s)}]>>]
                BY <1>3, <3>2 DEF Folds
            <4>2. Picked(s) \in S /\ it[s \ {Picked(s)}] \in Int
                BY <1>1, <1>3, <3>2
            <4>3. QED BY <3>2, <4>1, <4>2 DEF Adding
        <3>3. QED BY <3>1, <3>2
    <2>2. QED BY <1>3, <2>1
<1> DEFINE chosen == CHOOSE h : Raw(h)
<1>5. Raw(chosen)
    <2> HIDE DEF Raw
    <2>1. QED BY <1>4
<1>6. SumOver(f, S) = chosen[S]
    BY DEF SumOver, SumFunctionOnSet, FoldFunctionOnSet, MapThenFoldSet, Picked
<1> HIDE DEF chosen
<1>7. chosen[{}] = 0
    BY <1>5
<1>8. \A s \in (SUBSET S) \ {{}} : chosen[s] = f[Picked(s)] + chosen[s \ {Picked(s)}]
    BY <1>5
<1> DEFINE P == {n \in Nat : \A s \in SUBSET S : Cardinality(s) = n => chosen[s] \in Int}
<1>9. P = Nat
    <2>1. 0 \in P
        <3>1. \A s \in SUBSET S : Cardinality(s) = 0 => s = {}
            BY OneLess
        <3>2. QED BY <1>7, <3>1
    <2>2. ASSUME NEW n \in P PROVE n + 1 \in P
        <3> SUFFICES ASSUME NEW s \in SUBSET S, Cardinality(s) = n + 1 PROVE chosen[s] \in Int
            OBVIOUS
        <3>1. s # {}
            BY OneLess
        <3>2. Picked(s) \in s /\ s \ {Picked(s)} \in SUBSET S
            BY <1>1, <3>1
        <3>3. Cardinality(s \ {Picked(s)}) = n
            BY <3>2, OneLess
        <3>4. chosen[s \ {Picked(s)}] \in Int /\ f[Picked(s)] \in Int
            BY <3>2, <3>3
        <3>5. chosen[s] = f[Picked(s)] + chosen[s \ {Picked(s)}]
            BY <1>8, <3>1
        <3>6. QED BY <3>4, <3>5
    <2> HIDE DEF P
    <2>3. P \in SUBSET Nat
        BY DEF P
    <2>4. QED BY <2>1, <2>2, <2>3, Induction
<1>10. ASSUME NEW s \in SUBSET S PROVE chosen[s] \in Int
    BY <1>9, OneLess
<1>11. chosen \in [SUBSET S -> Int]
    <2>1. DOMAIN chosen = SUBSET S /\ chosen = [s \in SUBSET S |-> chosen[s]]
        BY <1>5
    <2>2. QED BY <1>10, <2>1
<1>12. QED BY <1>6, <1>7, <1>8, <1>11 DEF SumsOf

LEMMA SumsAgree ==
    ASSUME NEW S, IsFiniteSet(S), NEW T \in SUBSET S, NEW f, NEW a, SumsOf(a, f, S),
           NEW b, SumsOf(b, f, T)
    PROVE  \A s \in SUBSET T : a[s] = b[s]
<1> DEFINE P == {n \in Nat : \A s \in SUBSET T : Cardinality(s) = n => a[s] = b[s]}
<1>0. IsFiniteSet(T)
    BY FS_Subset
<1>1. 0 \in P
    BY <1>0, OneLess DEF SumsOf
<1>2. ASSUME NEW n \in P PROVE n + 1 \in P
    <2> SUFFICES ASSUME NEW s \in SUBSET T, Cardinality(s) = n + 1 PROVE a[s] = b[s]
        OBVIOUS
    <2>1. s # {}
        BY <1>0, OneLess
    <2>2. Picked(s) \in s /\ s \ {Picked(s)} \in SUBSET T
        BY <2>1 DEF Picked
    <2>3. Cardinality(s \ {Picked(s)}) = n
        BY <1>0, <2>2, OneLess
    <2>4. a[s \ {Picked(s)}] = b[s \ {Picked(s)}]
        BY <2>2, <2>3
    <2>5. QED BY <2>1, <2>4 DEF SumsOf
<1> HIDE DEF P
<1>3. P \in SUBSET Nat
    BY DEF P
<1>4. P = Nat
    BY <1>1, <1>2, <1>3, Induction
<1>5. QED BY <1>0, <1>4, OneLess DEF P

LEMMA SumTakes ==
    ASSUME NEW S, IsFiniteSet(S), NEW f, \A x \in S : f[x] \in Int, S # {}
    PROVE  SumOver(f, S) = f[Picked(S)] + SumOver(f, S \ {Picked(S)})
<1>1. PICK a : SumsOf(a, f, S) /\ SumOver(f, S) = a[S]
    BY SumsExist
<1> DEFINE T == S \ {Picked(S)}
<1>2. T \in SUBSET S /\ IsFiniteSet(T)
    BY FS_Subset
<1>3. PICK b : SumsOf(b, f, T) /\ SumOver(f, T) = b[T]
    BY <1>2, SumsExist
<1>4. a[T] = b[T]
    BY <1>1, <1>2, <1>3, SumsAgree
<1>5. QED BY <1>1, <1>3, <1>4 DEF SumsOf

\* Any term can be taken out of a sum.
LEMMA SumIs ==
    ASSUME NEW S, IsFiniteSet(S), NEW f, \A x \in S : f[x] \in Int
    PROVE  /\ SumFunctionOnSet(f, S) \in Int /\ SumFunctionOnSet(f, {}) = 0
           /\ \A x \in S : SumFunctionOnSet(f, S) = f[x] + SumFunctionOnSet(f, S \ {x})
<1> DEFINE Free(s) == \A x \in s : SumOver(f, s) = f[x] + SumOver(f, s \ {x})
           P == {n \in Nat : \A s \in SUBSET S : Cardinality(s) = n => Free(s)}
<1>1. \A s \in SUBSET S : IsFiniteSet(s) /\ SumOver(f, s) \in Int
    <2> SUFFICES ASSUME NEW s \in SUBSET S PROVE IsFiniteSet(s) /\ SumOver(f, s) \in Int
        OBVIOUS
    <2>1. IsFiniteSet(s)
        BY FS_Subset
    <2>2. PICK a : SumsOf(a, f, s) /\ SumOver(f, s) = a[s]
        BY <2>1, SumsExist
    <2>3. QED BY <2>1, <2>2 DEF SumsOf
<1>2. SumOver(f, {}) = 0
    <2>1. IsFiniteSet({}) /\ \A x \in {} : f[x] \in Int
        BY FS_EmptySet
    <2>2. PICK a : SumsOf(a, f, {}) /\ SumOver(f, {}) = a[{}]
        BY <2>1, SumsExist
    <2>3. QED BY <2>2 DEF SumsOf
<1>3. 0 \in P
    <2>1. \A s \in SUBSET S : Cardinality(s) = 0 => s = {}
        BY OneLess
    <2>2. QED BY <2>1
<1>4. ASSUME NEW n \in P PROVE n + 1 \in P
    <2> SUFFICES ASSUME NEW s \in SUBSET S, Cardinality(s) = n + 1, NEW x \in s
                 PROVE  SumOver(f, s) = f[x] + SumOver(f, s \ {x})
        OBVIOUS
    <2> DEFINE p == Picked(s)
    <2>1. s # {} /\ p \in s
        BY DEF Picked
    <2>2. SumOver(f, s) = f[p] + SumOver(f, s \ {p})
        BY <1>1, <2>1, SumTakes
    <2>3. CASE x = p
        BY <2>2, <2>3
    <2>4. CASE x # p
        <3> DEFINE u == s \ {p}
                   v == s \ {x}
                   c == s \ {p, x}
        <3>1. /\ u \in SUBSET S /\ v \in SUBSET S /\ c \in SUBSET S /\ x \in u /\ p \in v
              /\ u \ {x} = c /\ v \ {p} = c
            BY <2>1, <2>4
        <3>2. Cardinality(u) = n /\ Cardinality(v) = n
            BY <2>1, OneLess
        <3> HIDE DEF u, v, c, p
        <3>3. SumOver(f, u) = f[x] + SumOver(f, c) /\ SumOver(f, v) = f[p] + SumOver(f, c)
            BY <3>1, <3>2
        <3>4. SumOver(f, c) \in Int /\ f[x] \in Int /\ f[p] \in Int
            BY <1>1, <2>1, <3>1
        <3>5. QED BY <2>2, <3>3, <3>4 DEF u, v
    <2>5. QED BY <2>3, <2>4
<1>5. P = Nat
    <2> HIDE DEF P
    <2>1. P \in SUBSET Nat
        BY DEF P
    <2>2. QED BY <1>3, <1>4, <2>1, Induction
<1>6. Free(S)
    <2> HIDE DEF Free
    <2>1. QED BY <1>5, OneLess
<1>7. QED BY <1>1, <1>2, <1>6 DEF SumOver

LEMMA SumIsFold ==
    ASSUME NEW p \in [Dev -> Int]
    PROVE  \E it : /\ it[{}] = 0 /\ SumFunction(p) = it[Dev]
                   /\ Combines(it, Dev, Int, Adding(Dev, p))
<1>1. IsFiniteSet(Dev) /\ \A d \in Dev : p[d] \in Int
    BY DevicesAssumption, FS_Interval DEF Dev
<1>2. PICK it : SumsOf(it, p, Dev) /\ SumOver(p, Dev) = it[Dev]
    BY <1>1, SumsExist
<1>3. SumFunction(p) = it[Dev]
    BY <1>2 DEF SumOver, SumFunction
<1>4. ASSUME NEW s \in (SUBSET Dev) \ {{}}
      PROVE  \E x \in s : it[s \ {x}] \in Int => it[s] = Adding(Dev, p)[<<x, it[s \ {x}]>>]
    <2>1. Picked(s) \in s /\ Picked(s) \in Dev
        BY DEF Picked
    <2>2. it[s] = p[Picked(s)] + it[s \ {Picked(s)}]
        BY <1>2 DEF SumsOf
    <2>3. QED BY <2>1, <2>2 DEF Adding
<1>5. QED BY <1>2, <1>3, <1>4 DEF SumsOf, Combines

LEMMA TotalIsFold ==
    ASSUME NEW n \in Nat, NEW r, DOMAIN r = 1 .. n, \A i \in 1 .. n : r[i].share \in Int
    PROVE  \E it : /\ it[{}] = 0 /\ TotalShare(r) = it[1 .. n]
                   /\ Combines(it, 1 .. n, Int, Adding(1 .. n, [i \in 1 .. n |-> r[i].share]))
<1> DEFINE S == 1 .. n
           w == [i \in 1 .. n |-> r[i].share]
           G == Adding(S, w)
           pick(s) == Max(s)
           pk == [s \in SUBSET S |-> pick(s)]
           Raw(it) == it = [s \in SUBSET S |-> IF s = {} THEN 0
                                     ELSE it[s \ {pick(s)}] + r[pick(s)].share]
<1>0. IsFiniteSet(S) /\ G \in [S \X Int -> Int] /\ 0 \in Int
    <2>1. IsFiniteSet(S)
        BY FS_Interval
    <2>2. w \in [S -> Int]
        OBVIOUS
    <2> HIDE DEF w, S
    <2>3. QED BY <2>1, <2>2 DEF Adding
<1>1. \A s \in (SUBSET S) \ {{}} : pick(s) \in s /\ s \ {pick(s)} \in SUBSET S
    BY MaxIs
<1>2. Picks(pk, S)
    <2> HIDE DEF pick
    <2>1. QED BY <1>1 DEF Picks
<1>3. PICK it \in [SUBSET S -> Int] : Folds(it, S, 0, G, pk)
    <2> HIDE DEF pk, G, S
    <2>1. QED BY <1>0, <1>2, FoldExists
<1>a. \A x \in S, v \in Int : G[<<x, v>>] = v + r[x].share
    BY DEF Adding
<1> HIDE DEF G, S, pick
<1>4. Raw(it)
    <2>1. \A s \in SUBSET S : it[s] = IF s = {} THEN 0 ELSE G[<<pick(s), it[s \ {pick(s)}]>>]
        BY <1>3 DEF Folds
    <2>2. \A s \in (SUBSET S) \ {{}} :
             G[<<pick(s), it[s \ {pick(s)}]>>] = it[s \ {pick(s)}] + r[pick(s)].share
        BY <1>1, <1>3, <1>a
    <2>3. \A s \in SUBSET S : it[s] = IF s = {} THEN 0 ELSE it[s \ {pick(s)}] + r[pick(s)].share
        BY <2>1, <2>2
    <2>4. QED BY <2>3, <1>3
<1> DEFINE chosen == CHOOSE f : Raw(f)
<1>5. Raw(chosen)
    <2> HIDE DEF Raw
    <2>1. QED BY <1>4
<1>6. TotalShare(r) = chosen[S]
    BY DEF TotalShare, FoldLeft, MapThenFoldSet, pick, S
<1> HIDE DEF chosen
<1>7. chosen[{}] = 0
    BY <1>5
<1>8. ASSUME NEW s \in (SUBSET S) \ {{}}, chosen[s \ {pick(s)}] \in Int
      PROVE  chosen[s] = G[<<pick(s), chosen[s \ {pick(s)}]>>]
    <2>1. chosen[s] = chosen[s \ {pick(s)}] + r[pick(s)].share
        BY <1>5
    <2>2. QED BY <1>1, <1>8, <1>a, <2>1
<1>9. Combines(chosen, S, Int, G)
    BY <1>1, <1>8 DEF Combines
<1>10. QED BY <1>6, <1>7, <1>9 DEF S, G

-----------------------------------------------------------------------------
(* The partition of a launch.                                              *)

LEMMA AdaptedIsRight ==
    ASSUME NEW r, Request(r), NEW w \in Nat \ {0}, Unit % w = 0, NEW alone \in BOOLEAN
    PROVE  /\ Parts(Adapted(r, w, alone), w)
           /\ InOrder(r, Len(r)) => InOrder(Adapted(r, w, alone), Len(Adapted(r, w, alone)))
<1>1. CASE ~ alone
    <2> DEFINE f == FewerWgs(r, w)
    <2>1. Request(f) /\ (Len(f) <= w) /\ (InOrder(r, Len(r)) => InOrder(f, Len(f)))
        BY FewerIsRequest
    <2> HIDE DEF f
    <2>2. /\ Parts(adaptGranudscr(f, w), w)
          /\ InOrder(f, Len(f)) => InOrder(adaptGranudscr(f, w), Len(adaptGranudscr(f, w)))
        BY <2>1, AdaptIsRight
    <2>3. QED BY <1>1, <2>1, <2>2 DEF Adapted, f
<1>2. CASE alone
    <2> DEFINE p == [dev |-> 0, share |-> Unit]
               s == <<p>>
               T == [a \in 0 .. 0 |-> 0]
    <2>1. p \in Piece /\ p.share > 0
        BY UnitAssumption, DevicesAssumption DEF Piece, Dev
    <2> HIDE DEF p
    <2>2. s \in Seq(Piece) /\ Len(s) = 1 /\ s[1] = p /\ \A a \in 1 .. 1 : a = 1
        BY <2>1
    <2> HIDE DEF s
    <2>3. NamedOnce(s, 1) /\ \A a \in 1 .. 1 : s[a].share > 0
        BY <2>1, <2>2 DEF NamedOnce
    <2>4. LaidOut(s, 1 - 1, T, w) /\ \A a \in 0 .. 1 - 1 : T[a] \in Int
        BY DEF LaidOut
    <2>5. Parts(s, w)
        BY <2>2, <2>3, <2>4 DEF Parts
    <2>6. Adapted(r, w, alone) = s
        BY <1>2 DEF Adapted, s, p
    <2>7. InOrder(s, Len(s))
        BY <2>2 DEF InOrder
    <2>8. QED BY <2>5, <2>6, <2>7
<1>3. QED BY <1>1, <1>2
-----------------------------------------------------------------------------
(* The partitions that are asked for.                                      *)

\* An even share, cut to whole Unit-ths, is not less than half of one.
LEMMA HalfOfEven ==
    ASSUME NEW n \in Nat \ {0}, n <= Unit
    PROVE  n * (2 * (Unit \div n)) >= Unit
<1> DEFINE q == Unit \div n
           c == Unit % n
<1>1. Unit \in Nat /\ n \in Int /\ n > 0
    BY UnitAssumption
<1>2. q \in Int /\ c \in Int /\ c >= 0 /\ c < n /\ Unit = n * q + c
    BY <1>1
<1> HIDE DEF q, c
<1>3. q >= 1
    <2>1. CASE q <= 0
        <3>1. n * (0 - q) >= 0
            BY <1>1, <1>2, <2>1
        <3>2. n * (0 - q) = 0 - n * q
            BY <1>1, <1>2
        <3>3. QED BY <1>1, <1>2, <3>1, <3>2
    <2>2. QED BY <1>2, <2>1
<1>4. n * q >= n
    <2>1. n * (q - 1) >= 0
        BY <1>1, <1>2, <1>3
    <2>2. n * ((q - 1) + 1) = n * (q - 1) + n * 1
        BY <1>1, <1>2, Distributes
    <2>3. (q - 1) + 1 = q /\ n * 1 = n
        BY <1>1, <1>2
    <2>4. QED BY <1>1, <1>2, <2>1, <2>2, <2>3
<1>5. n * (2 * q) = n * q + n * q
    <2>1. n * (q + q) = n * q + n * q
        BY <1>1, <1>2, Distributes
    <2>2. 2 * q = q + q
        BY <1>2
    <2>3. QED BY <2>1, <2>2
<1>6. n * q \in Int
    BY <1>1, <1>2
<1> DEFINE z == n * q
<1> HIDE DEF z
<1>7. QED BY <1>1, <1>2, <1>4, <1>5, <1>6 DEF q, z

LEMMA DoubleOf ==
    ASSUME NEW n \in Nat, NEW s \in Int, n * s >= Unit
    PROVE  n * (2 * s) >= Unit
<1>1. n * (2 * s) = n * s + n * s
    <2>1. n * (s + s) = n * s + n * s
        BY Distributes
    <2>2. 2 * s = s + s
        OBVIOUS
    <2>3. QED BY <2>1, <2>2
<1>2. n * s \in Int /\ Unit \in Nat
    BY UnitAssumption
<1>3. QED BY <1>1, <1>2

\* A partition by place: one share per device, in their order.
ByDevice(r) ==
    /\ DOMAIN r = 1 .. NbDevices
    /\ r \in Seq(Piece) /\ Len(r) = NbDevices
    /\ \A i \in 1 .. NbDevices : r[i].dev = i - 1

\* What is left of it when shares change: the devices.
PerDevice(r) == Len(r) = NbDevices /\ InOrder(r, Len(r))

LEMMA DescriptorIs ==
    ASSUME NEW p \in [Dev -> Int]
    PROVE  /\ ByDevice(Descriptor(p))
           /\ \A i \in 1 .. NbDevices : Descriptor(p)[i].share = p[i - 1]
<1> DEFINE r == [i \in 1 .. NbDevices |-> [dev |-> i - 1, share |-> p[i - 1]]]
<1>1. NbDevices \in Nat
    BY DevicesAssumption
<1>2. \A i \in 1 .. NbDevices : i - 1 \in Dev /\ p[i - 1] \in Int
    BY <1>1 DEF Dev
<1>3. \A i \in 1 .. NbDevices : r[i] \in Piece /\ r[i].dev = i - 1 /\ r[i].share = p[i - 1]
    BY <1>2 DEF Piece
<1>4. r \in [1 .. NbDevices -> Piece]
    <2>1. r = [i \in 1 .. NbDevices |-> r[i]]
        OBVIOUS
    <2> HIDE DEF r
    <2>2. QED BY <1>3, <2>1
<1> HIDE DEF r
<1>5. r \in Seq(Piece) /\ Len(r) = NbDevices /\ DOMAIN r = 1 .. NbDevices
    BY <1>1, <1>4
<1>6. Descriptor(p) = r
    BY DEF Descriptor, r
<1>7. QED BY <1>3, <1>5, <1>6 DEF ByDevice

LEMMA UniformIs ==
    Uniform = Descriptor([d \in Dev |-> Unit \div NbDevices])
<1>1. \A i \in 1 .. NbDevices : i - 1 \in Dev
    BY DevicesAssumption DEF Dev
<1>2. QED BY <1>1 DEF Uniform, Descriptor

LEMMA ByDeviceIsRequest ==
    ASSUME NEW r, ByDevice(r), \A i \in 1 .. NbDevices - 1 : r[i].share >= 0,
           NbDevices <= Unit => \E i \in 1 .. NbDevices : NbDevices * (2 * r[i].share) >= Unit
    PROVE  Request(r) /\ PerDevice(r)
<1>1. NbDevices \in Nat /\ NbDevices > 0
    BY DevicesAssumption
<1>2. NamedOnce(r, NbDevices)
    <2>1. \A i, j \in 1 .. NbDevices : i # j => i - 1 # j - 1
        BY <1>1
    <2>2. QED BY <2>1 DEF NamedOnce, ByDevice
<1>3. PerDevice(r)
    <2>1. \A i, j \in 1 .. NbDevices : i < j => i - 1 < j - 1
        BY <1>1
    <2>2. QED BY <2>1 DEF PerDevice, InOrder, ByDevice
<1>4. QED BY <1>1, <1>2, <1>3 DEF Request, ByDevice

LEMMA UniformIsRequest == Request(Uniform) /\ PerDevice(Uniform)
<1> DEFINE p == [d \in Dev |-> Unit \div NbDevices]
<1>1. NbDevices \in Nat \ {0} /\ Unit \div NbDevices \in Int /\ Unit \div NbDevices >= 0 /\ 1 \in 1 .. NbDevices
    BY DevicesAssumption, UnitAssumption
<1>2. p \in [Dev -> Int]
    BY <1>1
<1>3. \A i \in 1 .. NbDevices : p[i - 1] = Unit \div NbDevices
    BY <1>1 DEF Dev
<1> HIDE DEF p
<1>4. Uniform = Descriptor(p)
    BY UniformIs DEF p
<1>5. ByDevice(Uniform) /\ \A i \in 1 .. NbDevices : Uniform[i].share = Unit \div NbDevices
    BY <1>2, <1>3, <1>4, DescriptorIs
<1>6. NbDevices <= Unit => NbDevices * (2 * (Unit \div NbDevices)) >= Unit
    BY <1>1, HalfOfEven
<1>7. \A i \in 1 .. NbDevices - 1 : i \in 1 .. NbDevices
    BY <1>1
<1>8. QED BY <1>1, <1>5, <1>6, <1>7, ByDeviceIsRequest DEF ByDevice

\* Of shares that make up the whole, one is not less than an even one.
LEMMA OneIsLarge ==
    ASSUME NEW p \in [Dev -> Int], SumFunction(p) = Unit
    PROVE  \E i \in 1 .. NbDevices : NbDevices * p[i - 1] >= Unit
<1>1. NbDevices \in Nat \ {0} /\ Unit \in Nat \ {0}
    BY DevicesAssumption, UnitAssumption
<1>2. IsFiniteSet(Dev) /\ Cardinality(Dev) = NbDevices
    <2>1. 0 \in Int /\ NbDevices - 1 \in Int /\ (NbDevices - 1) - 0 + 1 = NbDevices /\ ~ (0 > NbDevices - 1)
        BY <1>1
    <2>2. QED BY <2>1, FS_Interval DEF Dev
<1>3. PICK it : /\ it[{}] = 0 /\ SumFunction(p) = it[Dev]
                /\ Combines(it, Dev, Int, Adding(Dev, p))
    BY SumIsFold
<1>4. \A x \in Dev : p[x] \in Int
    OBVIOUS
<1>5. PICK x \in Dev : Cardinality(Dev) * p[x] >= Unit
    BY <1>1, <1>2, <1>3, <1>4, NotBelowMean
<1>6. x + 1 \in 1 .. NbDevices /\ (x + 1) - 1 = x
    BY <1>1 DEF Dev
<1>7. QED BY <1>2, <1>5, <1>6

\* What the solver and the BROYDENs compute.
LEMMA DescriptorIsRequest ==
    ASSUME NEW p \in Candidates \cup Steps
    PROVE  Request(Descriptor(p)) /\ PerDevice(Descriptor(p))
<1>1. /\ p \in [Dev -> Int] /\ SumFunction(p) = Unit
      /\ \A d \in Dev \ {NbDevices - 1} : p[d] >= 0
    BY CandidatesAssumption
<1>2. NbDevices \in Nat \ {0} /\ \A i \in 1 .. NbDevices : p[i - 1] \in Int
    BY <1>1, DevicesAssumption DEF Dev
<1>3. ByDevice(Descriptor(p)) /\ \A i \in 1 .. NbDevices : Descriptor(p)[i].share = p[i - 1]
    BY <1>1, DescriptorIs
<1>4. \A i \in 1 .. NbDevices - 1 : i \in 1 .. NbDevices /\ i - 1 \in Dev \ {NbDevices - 1}
    BY <1>2 DEF Dev
<1>5. PICK i \in 1 .. NbDevices : NbDevices * p[i - 1] >= Unit
    BY <1>1, OneIsLarge
<1>6. NbDevices * (2 * p[i - 1]) >= Unit
    BY <1>2, <1>5, DoubleOf
<1>7. \A j \in 1 .. NbDevices - 1 : Descriptor(p)[j].share >= 0
    BY <1>1, <1>3, <1>4
<1>8. \E j \in 1 .. NbDevices : NbDevices * (2 * Descriptor(p)[j].share) >= Unit
    BY <1>3, <1>6
<1>9. QED BY <1>3, <1>7, <1>8, ByDeviceIsRequest DEF ByDevice

\* What FIXEDPOINT makes of a request: the shares of its first n places change.
FixedShares(r, p, n) ==
    [i \in DOMAIN r |-> IF i <= n THEN [r[i] EXCEPT !.share = p[i - 1]] ELSE r[i]]

LEMMA FixedIsRequest ==
    ASSUME NEW r, Request(r), PerDevice(r), NEW p \in Candidates, NEW n \in Nat,
           \A i \in 1 .. n : p[i - 1] > 0, \A i \in n + 1 .. NbDevices : p[i - 1] = 0
    PROVE  Request(FixedShares(r, p, n)) /\ PerDevice(FixedShares(r, p, n))
<1> DEFINE s == FixedShares(r, p, n)
<1>1. /\ r \in Seq(Piece) /\ DOMAIN r = 1 .. NbDevices /\ Len(r) = NbDevices
      /\ NbDevices \in Nat \ {0} /\ Unit \in Nat \ {0}
    BY DevicesAssumption, UnitAssumption DEF Request, PerDevice
<1>2. p \in [Dev -> Int] /\ SumFunction(p) = Unit
    BY CandidatesAssumption
<1>3. \A i \in 1 .. NbDevices : p[i - 1] \in Int /\ r[i] \in Piece
    BY <1>1, <1>2 DEF Dev
<1>4. ASSUME NEW i \in 1 .. NbDevices
      PROVE  /\ s[i] \in Piece /\ s[i].dev = r[i].dev
             /\ s[i].share = IF i <= n THEN p[i - 1] ELSE r[i].share
    <2>1. r[i] \in Piece /\ p[i - 1] \in Int
        BY <1>3
    <2>2. CASE i <= n
        <3>1. s[i] = [r[i] EXCEPT !.share = p[i - 1]]
            BY <1>1, <2>2 DEF FixedShares
        <3>2. s[i] = [dev |-> r[i].dev, share |-> p[i - 1]] /\ s[i] \in Piece
            BY <2>1, <3>1, WithShare
        <3>3. QED BY <2>2, <3>2
    <2>3. CASE ~ (i <= n)
        <3>1. s[i] = r[i]
            BY <1>1, <2>3 DEF FixedShares
        <3>2. QED BY <2>1, <2>3, <3>1
    <2>4. QED BY <2>2, <2>3
<1>5. s \in Seq(Piece) /\ Len(s) = NbDevices
    <2>1. s = [i \in 1 .. NbDevices |-> s[i]]
        BY <1>1 DEF FixedShares
    <2> HIDE DEF s
    <2>2. s \in [1 .. NbDevices -> Piece]
        BY <1>4, <2>1
    <2>3. QED BY <1>1, <2>2
<1>6. NamedOnce(s, NbDevices)
    BY <1>1, <1>4 DEF NamedOnce, Request
<1>7. \A i \in 1 .. NbDevices - 1 : s[i].share >= 0
    <2> SUFFICES ASSUME NEW i \in 1 .. NbDevices - 1 PROVE s[i].share >= 0
        OBVIOUS
    <2>1. i \in 1 .. NbDevices /\ r[i].share >= 0 /\ (i <= n => i \in 1 .. n)
        BY <1>1 DEF Request
    <2>2. i <= n => p[i - 1] >= 0
        <3>1. p[i - 1] \in Int
            BY <1>3, <2>1
        <3>2. QED BY <2>1, <3>1
    <2>3. QED BY <1>4, <2>1, <2>2
<1>8. \E i \in 1 .. NbDevices : NbDevices * (2 * s[i].share) >= Unit
    <2>1. PICK i \in 1 .. NbDevices : NbDevices * p[i - 1] >= Unit
        BY <1>2, OneIsLarge
    <2>2. i <= n
        <3> SUFFICES ASSUME ~ (i <= n) PROVE FALSE
            OBVIOUS
        <3>1. i \in n + 1 .. NbDevices
            BY <1>1
        <3>2. p[i - 1] = 0 /\ NbDevices * 0 = 0
            BY <1>1, <3>1
        <3>3. QED BY <1>1, <2>1, <3>2
    <2>3. s[i].share = p[i - 1] /\ p[i - 1] \in Int
        BY <1>3, <1>4, <2>2
    <2>4. NbDevices * (2 * p[i - 1]) >= Unit
        BY <1>1, <2>1, <2>3, DoubleOf
    <2>5. QED BY <2>3, <2>4
<1>9. PerDevice(s)
    BY <1>4, <1>5 DEF PerDevice, InOrder
<1>10. QED BY <1>1, <1>5, <1>6, <1>7, <1>8, <1>9 DEF Request

\* A user names a device once. Shares given by GRANUDSCR, unlike those given by
\* PARTITION, need not make up the whole: one is at least half of an even one.
OptionsArePartitions ==
    \A o \in Options : o.name # "none" =>
       /\ o.granu \in Seq(Piece) /\ Len(o.granu) > 0
       /\ NamedOnce(o.granu, Len(o.granu))
       /\ \A i \in 1 .. Len(o.granu) : o.granu[i].share >= 0
       /\ o.name # "PARTITION" =>
            \E i \in 1 .. Len(o.granu) : Len(o.granu) * (2 * o.granu[i].share) >= Unit

LEMMA OptionIsRequest ==
    ASSUME OptionsArePartitions, NEW o \in Options, o.name # "none",
           o.name = "PARTITION" => TotalShare(o.granu) = Unit
    PROVE  Request(o.granu)
<1> DEFINE r == o.granu
           n == Len(r)
<1>1. /\ r \in Seq(Piece) /\ n > 0 /\ n \in Nat /\ NamedOnce(r, n) /\ DOMAIN r = 1 .. n
      /\ \A i \in 1 .. n : r[i].share >= 0
    BY DEF OptionsArePartitions
<1>2. \A i \in 1 .. n : r[i].share \in Int
    <2> SUFFICES ASSUME NEW i \in 1 .. n PROVE r[i].share \in Int
        OBVIOUS
    <2>1. r[i] \in Piece
        BY <1>1
    <2>2. QED BY <2>1 DEF Piece
<1>3. o.name # "PARTITION" => \E i \in 1 .. n : n * (2 * r[i].share) >= Unit
    BY DEF OptionsArePartitions
<1>4. CASE o.name = "PARTITION"
    <2> DEFINE S == 1 .. n
               w == [i \in S |-> r[i].share]
    <2> HIDE DEF n, r
    <2>1. PICK it : it[{}] = 0 /\ TotalShare(r) = it[S] /\ Combines(it, S, Int, Adding(S, w))
        BY <1>1, <1>2, TotalIsFold
    <2>2. it[S] = Unit /\ Unit \in Nat \ {0}
        BY <1>4, <2>1, UnitAssumption DEF r
    <2>3. IsFiniteSet(S) /\ Cardinality(S) = n
        <3>1. 1 \in Int /\ n \in Int /\ n - 1 + 1 = n /\ ~ (1 > n)
            BY <1>1
        <3>2. QED BY <3>1, FS_Interval
    <2>4. \A x \in S : w[x] \in Int /\ w[x] = r[x].share
        BY <1>2
    <2> HIDE DEF S, w
    <2>5. PICK x \in S : Cardinality(S) * w[x] >= Unit
        BY <2>1, <2>2, <2>3, <2>4, NotBelowMean
    <2>6. n * (2 * r[x].share) >= Unit
        BY <1>1, <2>3, <2>4, <2>5, DoubleOf
    <2>7. \E i \in 1 .. n : n * (2 * r[i].share) >= Unit
        BY <2>6 DEF S
    <2>8. QED BY <1>1, <2>7 DEF Request, r, n
<1>5. CASE o.name # "PARTITION"
    BY <1>1, <1>3, <1>5 DEF Request
<1>6. QED BY <1>4, <1>5
-----------------------------------------------------------------------------
(* The partition of each kernel, through the launches.                     *)

\* What is kept of a launched kernel: what to ask for and the partition of its
\* last launch; a share per device, in the order of the devices, when each says so.
Asks(SI, each) ==
    /\ SI.known = TRUE /\ Fields \subseteq DOMAIN SI
    /\ Request(SI.req) /\ (each => PerDevice(SI.req))
Runs(SI, each) ==
    /\ SI.wgs \in WorkGroups /\ Parts(SI.real, SI.wgs)
    /\ each => InOrder(SI.real, Len(SI.real))
Recorded(SI, each) ==
    /\ "known" \in DOMAIN SI /\ SI.known \in BOOLEAN
    /\ SI.known => Asks(SI, each) /\ Runs(SI, each)

PartitionInv ==
    /\ option \in Options /\ DOMAIN info = KerId
    /\ \A k \in KerId : Recorded(info[k], ~ Static)

LEMMA LaunchRecorded ==
    ASSUME NEW each \in BOOLEAN, NEW infos, NEW k, Asks(infos[k], each), NEW need \in BOOLEAN,
           need \/ Runs(infos[k], each), NEW wgs \in WorkGroups, NEW alone \in BOOLEAN, NEW of
    PROVE  /\ Recorded(AfterLaunch(infos, k, wgs, need, alone, of), each)
           /\ AfterLaunch(infos, k, wgs, need, alone, of).known
<1> DEFINE old   == infos[k]
           again == need \/ old.wgs # wgs
           newOf == IF again THEN of ELSE old.of
           real  == IF again THEN Adapted(old.req, wgs, alone) ELSE old.real
           all   == old.transfers \cup TransfersOf(infos, k, newOf)
           SI    == [old EXCEPT !.wgs = wgs, !.real = real, !.of = newOf, !.transfers = all]
<1>1. AfterLaunch(infos, k, wgs, need, alone, of) = SI
    BY DEF AfterLaunch
<1>2. wgs \in Nat \ {0} /\ Unit % wgs = 0
    BY GroupsAssumption
<1>3. Parts(real, wgs) /\ (each => InOrder(real, Len(real)))
    <2>1. CASE again
        <3> DEFINE a == Adapted(old.req, wgs, alone)
        <3>1. Parts(a, wgs) /\ (each => InOrder(a, Len(a)))
            BY <1>2, AdaptedIsRight DEF Asks, PerDevice
        <3>2. QED BY <2>1, <3>1
    <2>2. CASE ~ again
        BY <2>2 DEF Runs
    <2>3. QED BY <2>1, <2>2
<1> HIDE DEF newOf, real, all, again
<1>4. /\ DOMAIN SI = DOMAIN old /\ SI.known = old.known /\ SI.req = old.req
      /\ SI.wgs = wgs /\ SI.real = real
    BY DEF Asks, Fields
<1> HIDE DEF SI, old
<1>5. Asks(SI, each)
    BY <1>4 DEF Asks, old
<1>6. Runs(SI, each) /\ "known" \in DOMAIN SI
    BY <1>3, <1>4 DEF Runs, Asks, Fields, old
<1>7. QED BY <1>1, <1>5, <1>6 DEF Recorded, Asks

LEMMA EnqueueRecorded ==
    ASSUME NEW each \in BOOLEAN, NEW infos, DOMAIN infos = KerId, NEW h, NEW k \in KerId,
           getKernelID(h) = k, NEW need \in BOOLEAN, NEW of, Enqueue(h, infos, need, of),
           \A j \in KerId : j # k => Recorded(infos[j], each), Asks(infos[k], each),
           need \/ Runs(infos[k], each)
    PROVE  DOMAIN info' = KerId /\ info'[k].known /\ \A j \in KerId : Recorded(info'[j], each)
<1>1. PICK wgs \in WorkGroups, alone \in BOOLEAN :
         info' = [infos EXCEPT ![k] = AfterLaunch(infos, k, wgs, need, alone, of)]
    BY DEF Enqueue
<1> DEFINE SI == AfterLaunch(infos, k, wgs, need, alone, of)
<1>2. Recorded(SI, each) /\ SI.known
    BY LaunchRecorded
<1> HIDE DEF SI
<1>3. DOMAIN info' = KerId /\ info'[k] = SI /\ \A j \in KerId : j # k => info'[j] = infos[j]
    BY <1>1 DEF SI
<1>4. QED BY <1>2, <1>3

LEMMA AsksAnew ==
    ASSUME NEW each \in BOOLEAN, NEW SI, Recorded(SI, each), NEW r, Request(r),
           each => PerDevice(r)
    PROVE  /\ Recorded([SI EXCEPT !.req = r], each)
           /\ SI.known => Asks([SI EXCEPT !.req = r], each)
<1> DEFINE new == [SI EXCEPT !.req = r]
<1>1. "known" \in DOMAIN SI /\ DOMAIN new = DOMAIN SI /\ new.known = SI.known
    BY DEF Recorded
<1>2. ASSUME SI.known PROVE new.req = r /\ new.wgs = SI.wgs /\ new.real = SI.real
    BY <1>2 DEF Recorded, Asks, Fields
<1> HIDE DEF new
<1>3. ASSUME SI.known PROVE Asks(new, each) /\ Runs(new, each)
    BY <1>1, <1>2, <1>3 DEF Recorded, Asks, Runs
<1>4. SI.known \in BOOLEAN
    BY DEF Recorded
<1>5. Recorded(new, each) /\ (SI.known => Asks(new, each))
    BY <1>1, <1>3, <1>4 DEF Recorded
<1>6. QED BY <1>5 DEF new

LEMMA ForgottenRecorded ==
    ASSUME NEW each \in BOOLEAN, NEW SI, Recorded(SI, each)
    PROVE  /\ Recorded(Forgotten(SI), each) /\ Forgotten(SI).known = SI.known
           /\ SI.known => Asks(Forgotten(SI), each) /\ Runs(Forgotten(SI), each)
                          /\ Forgotten(SI).req = SI.req
<1>1. CASE ~ SI.known
    BY <1>1 DEF Recorded, Forgotten
<1>2. CASE SI.known
    <2> DEFINE new == [SI EXCEPT !.transfers = {}]
    <2>1. Forgotten(SI) = new /\ "known" \in DOMAIN SI /\ SI.known = TRUE
        BY <1>2 DEF Forgotten, Recorded, Asks
    <2>2. DOMAIN new = DOMAIN SI /\ new.known = SI.known /\ new.req = SI.req
          /\ new.wgs = SI.wgs /\ new.real = SI.real
        BY <1>2 DEF Recorded, Asks, Fields
    <2> HIDE DEF new
    <2>3. Asks(new, each) /\ Runs(new, each)
        BY <1>2, <2>2 DEF Recorded, Asks, Runs
    <2>4. QED BY <2>1, <2>2, <2>3 DEF Recorded
<1>3. SI.known \in BOOLEAN
    BY DEF Recorded
<1>4. QED BY <1>1, <1>2, <1>3

\* The kernel a step launches.
LEMMA Launching ==
    ASSUME NEW h \in Handles, Running(h)
    PROVE  getKernelID(h) = h /\ h \in KerId
<1>1. 0 \in KerId
    BY CycleAssumption DEF KerId
<1>2. QED BY <1>1 DEF Running, RightKernel, Handles

\* No action but these changes what is kept of the kernels.
LEMMA RunsOn ==
    ASSUME NEW h, \/ First(h) \/ KeepPartition(h) \/ FixedPoint(h) \/ Broyden(h) \/ BadBroyden(h)
                  \/ Measure(h) \/ Adopt(h) \/ Consult(h)
    PROVE  Running(h) /\ scheduler' = scheduler /\ option' = option /\ pc' = "run"
           /\ (Static' <=> Static)
<1>1. Running(h) /\ scheduler' = scheduler /\ option' = option /\ pc' = pc
    BY DEF First, KeepPartition, FixedPoint, Broyden, BadBroyden, BroydenStep, Measure, Adopt,
           Consult, Relaunch
<1>2. QED BY <1>1 DEF Running, Static

LEMMA FirstPartition ==
    ASSUME OptionsArePartitions, PartitionInv, NEW h \in Handles, First(h)
    PROVE  DOMAIN info' = KerId /\ \A j \in KerId : Recorded(info'[j], ~ Static)
<1>1. h \in KerId /\ getKernelID(h) = h
    BY Launching, RunsOn
<1> DEFINE infos == [info EXCEPT ![h] = NewInfo(Asked)]
<1>2. Enqueue(h, infos, TRUE, solutions)
    BY <1>1 DEF First
<1>3. Request(Asked) /\ (~ Static => PerDevice(Asked))
    <2>1. CASE Static /\ option.name # "none"
        <3>1. Asked = option.granu /\ (option.name = "PARTITION" => TotalShare(option.granu) = Unit)
            BY <2>1 DEF Asked, First
        <3>2. QED BY <2>1, <3>1, OptionIsRequest DEF PartitionInv
    <2>2. CASE ~ (Static /\ option.name # "none")
        BY <2>2, UniformIsRequest DEF Asked
    <2>3. QED BY <2>1, <2>2
<1>4. Asks(NewInfo(Asked), ~ Static)
    <2> DEFINE r == Asked
    <2> HIDE DEF r
    <2>1. NewInfo(r).known = TRUE /\ NewInfo(r).req = r /\ Fields \subseteq DOMAIN NewInfo(r)
        BY DEF NewInfo, Fields
    <2>2. QED BY <1>3, <2>1 DEF Asks, r
<1>5. infos[h] = NewInfo(Asked) /\ DOMAIN infos = KerId /\ \A j \in KerId : j # h => infos[j] = info[j]
    BY <1>1 DEF PartitionInv
<1> HIDE DEF infos
<1>6. QED BY <1>1, <1>2, <1>4, <1>5, EnqueueRecorded DEF PartitionInv

\* A launch under the partition, or the request, there is.
LEMMA NextPartition ==
    ASSUME PartitionInv, NEW h \in Handles, Relaunch(h), NEW infos, DOMAIN infos = KerId,
           NEW need \in BOOLEAN, NEW of, Enqueue(h, infos, need, of),
           \A j \in KerId : /\ Recorded(infos[j], ~ Static)
                            /\ info[j].known => infos[j].known
    PROVE  DOMAIN info' = KerId /\ info'[h].known /\ \A j \in KerId : Recorded(info'[j], ~ Static)
<1>1. h \in KerId /\ getKernelID(h) = h /\ Known(h)
    BY Launching DEF Relaunch
<1>2. infos[h].known
    BY <1>1 DEF Known
<1>3. Asks(infos[h], ~ Static) /\ Runs(infos[h], ~ Static)
    BY <1>1, <1>2 DEF Recorded
<1> DEFINE each == ~ Static
<1>4. each \in BOOLEAN /\ \A j \in KerId : Recorded(infos[j], each)
    OBVIOUS
<1>5. Asks(infos[h], each) /\ (need \/ Runs(infos[h], each))
    BY <1>3
<1> HIDE DEF each
<1>6. DOMAIN info' = KerId /\ info'[h].known /\ \A j \in KerId : Recorded(info'[j], each)
    BY <1>1, <1>4, <1>5, EnqueueRecorded
<1>7. QED BY <1>6 DEF each

LEMMA ForgetRecorded ==
    ASSUME PartitionInv
    PROVE  /\ DOMAIN ForgetAll = KerId
           /\ \A j \in KerId : /\ Recorded(ForgetAll[j], ~ Static)
                               /\ info[j].known => ForgetAll[j].known
           /\ \A k \in KerId : /\ DOMAIN Forget(k) = KerId
                               /\ Forget(k)[k] = Forgotten(info[k])
                               /\ \A j \in KerId : /\ Recorded(Forget(k)[j], ~ Static)
                                                   /\ info[j].known => Forget(k)[j].known
<1>1. \A j \in KerId : /\ Recorded(Forgotten(info[j]), ~ Static)
                       /\ info[j].known => Forgotten(info[j]).known
    BY ForgottenRecorded DEF PartitionInv
<1>2. \A j \in KerId : ForgetAll[j] = Forgotten(info[j])
    BY DEF ForgetAll
<1>3. DOMAIN ForgetAll = KerId
    BY DEF ForgetAll
<1>4. ASSUME NEW k \in KerId
      PROVE  /\ DOMAIN Forget(k) = KerId /\ Forget(k)[k] = Forgotten(info[k])
             /\ \A j \in KerId : j # k => Forget(k)[j] = info[j]
    BY DEF Forget, PartitionInv
<1>5. ASSUME NEW k \in KerId, NEW j \in KerId
      PROVE  Recorded(Forget(k)[j], ~ Static) /\ (info[j].known => Forget(k)[j].known)
    <2>1. CASE j = k
        BY <1>1, <1>4, <2>1
    <2>2. CASE j # k
        BY <1>4, <2>2 DEF PartitionInv
    <2>3. QED BY <2>1, <2>2
<1>6. QED BY <1>1, <1>2, <1>3, <1>4, <1>5

\* The kernel is asked for other shares.
LEMMA OtherShares ==
    ASSUME PartitionInv, NEW h \in Handles, Relaunch(h), NEW of, NEW r, Request(r),
           ~ Static => PerDevice(r),
           Enqueue(h, [Forget(h) EXCEPT ![h].req = r], TRUE, of)
    PROVE  DOMAIN info' = KerId /\ info'[h].known /\ \A j \in KerId : Recorded(info'[j], ~ Static)
<1>1. h \in KerId
    BY Launching DEF Relaunch
<1> DEFINE old == Forget(h)
           new == [old[h] EXCEPT !.req = r]
           infos == [old EXCEPT ![h] = new]
<1>2. /\ DOMAIN old = KerId
      /\ \A j \in KerId : Recorded(old[j], ~ Static) /\ (info[j].known => old[j].known)
    BY <1>1, ForgetRecorded
<1>3. Enqueue(h, infos, TRUE, of)
    OBVIOUS
<1> HIDE DEF old
<1>4. Recorded(new, ~ Static) /\ new.known = old[h].known
    <2>1. Recorded(new, ~ Static)
        BY <1>1, <1>2, AsksAnew
    <2>2. "known" \in DOMAIN old[h]
        BY <1>1, <1>2 DEF Recorded
    <2>3. QED BY <2>1, <2>2
<1> HIDE DEF new
<1>5. DOMAIN infos = KerId /\ infos[h] = new /\ \A j \in KerId : j # h => infos[j] = old[j]
    BY <1>1, <1>2
<1> HIDE DEF infos
<1>6. \A j \in KerId : Recorded(infos[j], ~ Static) /\ (info[j].known => infos[j].known)
    BY <1>2, <1>4, <1>5
<1>7. QED BY <1>3, <1>5, <1>6, NextPartition

LEMMA KeepPartitionStep ==
    ASSUME PartitionInv, NEW h \in Handles, KeepPartition(h) \/ Measure(h) \/ Adopt(h)
    PROVE  DOMAIN info' = KerId /\ \A j \in KerId : Recorded(info'[j], ~ Static)
<1>1. Relaunch(h) /\ getKernelID(h) = h /\ h \in KerId
    BY Launching, RunsOn DEF KeepPartition, Measure, Adopt
<1>2. PICK infos \in {Forget(h), ForgetAll, info}, need \in BOOLEAN : Enqueue(h, infos, need, solutions)
    <2>1. CASE KeepPartition(h)
        BY <1>1, <2>1 DEF KeepPartition
    <2>2. CASE Measure(h)
        BY <1>1, <2>2 DEF Measure
    <2>3. CASE Adopt(h)
        BY <1>1, <2>3 DEF Adopt
    <2>4. QED BY <2>1, <2>2, <2>3
<1>3. /\ DOMAIN infos = KerId
      /\ \A j \in KerId : Recorded(infos[j], ~ Static) /\ (info[j].known => infos[j].known)
    BY <1>1, ForgetRecorded DEF PartitionInv
<1>4. QED BY <1>1, <1>2, <1>3, NextPartition

LEMMA FixedPointStep ==
    ASSUME PartitionInv, NEW h \in Handles, FixedPoint(h)
    PROVE  DOMAIN info' = KerId /\ info'[h].known /\ \A j \in KerId : Recorded(info'[j], ~ Static)
<1>1. Relaunch(h) /\ getKernelID(h) = h /\ h \in KerId /\ Known(h) /\ ~ Static
    BY Launching, RunsOn DEF FixedPoint, Relaunch, Static
<1> DEFINE req == info[h].req
           n   == Len(info[h].real)
           Given(k, p) ==
             /\ \A i \in 1 .. Len(info[k].real) : p[i - 1] > 0
             /\ \A i \in Len(info[k].real) + 1 .. NbDevices : p[i - 1] = 0
             /\ Enqueue(h, [Forget(k) EXCEPT ![k].req =
                              FixedShares(info[k].req, p, Len(info[k].real))], TRUE, solutions)
<1>a. \E p \in Candidates : Given(getKernelID(h), p)
    BY DEF FixedPoint, FixedShares
<1>2. PICK p \in Candidates : Given(h, p)
    <2> HIDE DEF Given
    <2>1. QED BY <1>a, <1>1
<1>3. Asks(info[h], ~ Static) /\ Runs(info[h], ~ Static)
    BY <1>1 DEF PartitionInv, Recorded, Known
<1>4. Request(req) /\ PerDevice(req) /\ n \in Nat
    BY <1>1, <1>3 DEF Asks, Runs, Parts
<1> DEFINE r == FixedShares(req, p, n)
<1>5. /\ \A i \in 1 .. n : p[i - 1] > 0
      /\ \A i \in n + 1 .. NbDevices : p[i - 1] = 0
      /\ Enqueue(h, [Forget(h) EXCEPT ![h].req = r], TRUE, solutions)
    BY <1>2
<1> HIDE DEF req, n
<1>6. Request(r) /\ PerDevice(r)
    BY <1>4, <1>5, FixedIsRequest
<1> HIDE DEF r
<1>7. QED BY <1>1, <1>5, <1>6, OtherShares

LEMMA BroydenPartition ==
    ASSUME PartitionInv, NEW h \in Handles, Broyden(h) \/ BadBroyden(h)
    PROVE  DOMAIN info' = KerId /\ \A j \in KerId : Recorded(info'[j], ~ Static)
<1>1. Relaunch(h) /\ getKernelID(h) = h /\ h \in KerId /\ BroydenStep(h)
    BY Launching, RunsOn DEF Broyden, BadBroyden, BroydenStep
<1>2. CASE Enqueue(h, Forget(h), TRUE, solutions)
    BY <1>1, <1>2, ForgetRecorded, NextPartition
<1>3. ASSUME NEW x \in Steps,
             Enqueue(h, [Forget(h) EXCEPT ![h].req = Descriptor(x)], TRUE, solutions)
      PROVE  DOMAIN info' = KerId /\ \A j \in KerId : Recorded(info'[j], ~ Static)
    BY <1>1, <1>3, DescriptorIsRequest, OtherShares
<1>4. QED BY <1>1, <1>2, <1>3 DEF BroydenStep

LEMMA ConsultPartition ==
    ASSUME PartitionInv, NEW h \in Handles, Consult(h)
    PROVE  DOMAIN info' = KerId /\ \A j \in KerId : Recorded(info'[j], ~ Static)
<1>1. Relaunch(h)
    BY DEF Consult
<1>2. /\ DOMAIN ForgetAll = KerId
      /\ \A j \in KerId : Recorded(ForgetAll[j], ~ Static) /\ (info[j].known => ForgetAll[j].known)
    BY ForgetRecorded
<1>3. CASE Enqueue(h, ForgetAll, FALSE, solutions)
    BY <1>1, <1>2, <1>3, NextPartition
<1>4. ASSUME NEW g \in Solutions(Reported, Candidates),
             Enqueue(h, [k \in KerId |-> [ForgetAll[k] EXCEPT !.req = Descriptor(g[k])]],
                     TRUE, solutions')
      PROVE  DOMAIN info' = KerId /\ \A j \in KerId : Recorded(info'[j], ~ Static)
    <2> DEFINE old == ForgetAll
               infos == [k \in KerId |-> [old[k] EXCEPT !.req = Descriptor(g[k])]]
    <2>1. Enqueue(h, infos, TRUE, solutions')
        BY <1>4
    <2>2. \A k \in KerId : g[k] \in Candidates
        BY DEF Solutions
    <2> HIDE DEF old
    <2>3. ASSUME NEW j \in KerId
          PROVE  Recorded(infos[j], ~ Static) /\ (info[j].known => infos[j].known)
        <3> DEFINE r == Descriptor(g[j])
        <3>1. Request(r) /\ PerDevice(r)
            BY <2>2, DescriptorIsRequest
        <3> HIDE DEF r
        <3>2. Recorded(old[j], ~ Static) /\ (info[j].known => old[j].known)
            BY <1>2 DEF old
        <3>3. infos[j] = [old[j] EXCEPT !.req = r]
            BY DEF r
        <3> HIDE DEF infos
        <3>4. Recorded(infos[j], ~ Static)
            BY ZenonT(40), <3>1, <3>2, <3>3, AsksAnew
        <3>5. infos[j].known = old[j].known
            BY <3>2, <3>3 DEF Recorded
        <3>6. QED BY <3>2, <3>4, <3>5
    <2>4. DOMAIN infos = KerId
        OBVIOUS
    <2> HIDE DEF infos
    <2>5. QED BY <1>1, <2>1, <2>3, <2>4, NextPartition
<1>5. QED BY <1>3, <1>4 DEF Consult

\* Devices in order: none stands before its place, and they stand in their places when
\* the first ones are all there, or when there is one for each place.
LEMMA NotBeforePlace ==
    ASSUME NEW m \in Nat, NEW r, InOrder(r, m), \A i \in 1 .. m : r[i].dev \in Nat,
           NEW i \in 1 .. m
    PROVE  r[i].dev >= i - 1
<1> DEFINE Early == {j \in 1 .. m : r[j].dev < j - 1}
<1>1. SUFFICES ASSUME i \in Early PROVE FALSE
    OBVIOUS
<1>2. PICK j \in Early : \A k \in Early : j <= k
    <2>1. Early \in SUBSET Nat /\ Early # {}
        BY <1>1
    <2> HIDE DEF Early
    <2>2. QED BY <2>1, Least
<1>3. j > 1 /\ j \in 1 .. m /\ r[j].dev < j - 1
    BY <1>2
<1>4. j - 1 \in 1 .. m /\ j - 1 < j /\ j - 1 \notin Early
    BY <1>2, <1>3
<1>5. r[j - 1].dev >= (j - 1) - 1
    BY <1>4
<1>6. r[j - 1].dev < r[j].dev
    BY <1>3, <1>4 DEF InOrder
<1>7. QED BY <1>3, <1>4, <1>5, <1>6

LEMMA InPlaces ==
    ASSUME NEW m \in Nat, NEW r, InOrder(r, m), \A i \in 1 .. m : r[i].dev \in Nat,
           \A i \in 1 .. m : \E j \in 1 .. m : r[j].dev = i - 1
    PROVE  \A i \in 1 .. m : r[i].dev = i - 1
<1> DEFINE Late == {i \in 1 .. m : r[i].dev # i - 1}
<1>1. SUFFICES ASSUME Late # {} PROVE FALSE
    OBVIOUS
<1>2. PICK i \in Late : \A k \in Late : i <= k
    <2>1. Late \in SUBSET Nat
        OBVIOUS
    <2> HIDE DEF Late
    <2>2. QED BY <1>1, <2>1, Least
<1>3. i \in 1 .. m /\ r[i].dev # i - 1
    BY <1>2
<1>4. PICK j \in 1 .. m : r[j].dev = i - 1
    BY <1>3
<1>5. j # i /\ ~ (j < i)
    <2>1. j < i => r[j].dev = j - 1
        BY <1>2
    <2>2. QED BY <1>3, <1>4, <2>1
<1>6. r[i].dev < i - 1
    BY <1>3, <1>4, <1>5 DEF InOrder
<1>7. QED BY <1>3, <1>6, NotBeforePlace

LEMMA EveryDevice ==
    ASSUME NEW r, Request(r), PerDevice(r)
    PROVE  \A i \in 1 .. NbDevices : r[i].dev = i - 1
<1> DEFINE Late == {i \in 1 .. NbDevices : r[i].dev # i - 1}
<1>1. /\ NbDevices \in Nat /\ Len(r) = NbDevices /\ InOrder(r, NbDevices)
      /\ \A i \in 1 .. NbDevices : r[i].dev \in Nat /\ r[i].dev <= NbDevices - 1
    <2>1. NbDevices \in Nat /\ r \in Seq(Piece) /\ Len(r) = NbDevices /\ InOrder(r, NbDevices)
        BY DevicesAssumption DEF Request, PerDevice
    <2>2. \A i \in 1 .. NbDevices : r[i] \in Piece
        BY <2>1
    <2>3. QED BY <2>1, <2>2 DEF Piece, Dev
<1>2. SUFFICES ASSUME Late # {} PROVE FALSE
    OBVIOUS
<1>3. Late \in (SUBSET (1 .. NbDevices)) \ {{}}
    BY <1>2
<1> DEFINE i == Max(Late)
<1>4. i \in Late /\ \A k \in Late : i >= k
    <2> HIDE DEF Late
    <2>1. QED BY <1>1, <1>3, MaxIs
<1> HIDE DEF i
<1>5. i \in 1 .. NbDevices /\ r[i].dev > i - 1
    <2>1. r[i].dev >= i - 1
        BY <1>1, <1>4, NotBeforePlace
    <2>2. QED BY <1>1, <1>4, <2>1
<1>6. CASE i = NbDevices
    BY <1>1, <1>5, <1>6
<1>7. CASE i < NbDevices
    <2>1. i + 1 \in 1 .. NbDevices /\ i + 1 \notin Late
        BY <1>1, <1>4, <1>5, <1>7
    <2>2. r[i + 1].dev = i
        BY <1>5, <2>1
    <2>3. r[i].dev < r[i + 1].dev
        BY <1>1, <1>5, <2>1 DEF InOrder
    <2>4. QED BY <1>1, <1>5, <2>2, <2>3
<1>8. QED BY <1>1, <1>5, <1>6, <1>7

\* FIXEDPOINT takes each share for the device whose cost it looks up.
LEMMA OwnShares ==
    ASSUME PartitionInv, PartitionInv', NEW h \in Handles, FixedPoint(h)
    PROVE  OfOneDevice(info[h].real, info'[h].req)
<1>1. getKernelID(h) = h /\ h \in KerId /\ Known(h) /\ ~ Static
    BY Launching, RunsOn DEF FixedPoint, Relaunch, Static
<1> DEFINE real == info[h].real
           m == Len(real)
<1>2. Asks(info[h], ~ Static) /\ Runs(info[h], ~ Static) /\ \A i \in 1 .. m : Cost(real, i) > 0
    <2>1. \A i \in 1 .. m : Cost(real, i) > 0
        BY <1>1 DEF FixedPoint
    <2>2. QED BY <1>1, <2>1 DEF PartitionInv, Recorded, Known
<1> HIDE DEF real
<1>3. /\ m \in Nat /\ DOMAIN real = 1 .. m /\ InOrder(real, m)
      /\ \A i \in 1 .. m : real[i] \in Piece
    BY <1>1, <1>2 DEF Runs, Parts, real
<1>4. NbDevices \in Nat /\ Dev = 0 .. NbDevices - 1 /\ \A i \in 1 .. m : real[i].dev \in Dev
    BY <1>3, DevicesAssumption DEF Piece, Dev
<1>5. m <= NbDevices
    <2>1. CASE m > 0
        <3>1. real[m].dev >= m - 1
            <4>1. \A i \in 1 .. m : real[i].dev \in Nat
                BY <1>4
            <4>2. m \in 1 .. m
                BY <1>3, <2>1
            <4> HIDE DEF m
            <4>3. QED BY <1>3, <4>1, <4>2, NotBeforePlace
        <3>2. QED BY <1>3, <1>4, <2>1, <3>1
    <2>2. QED BY <1>3, <1>4, <2>1
<1>6. ASSUME NEW i \in 1 .. m PROVE \E j \in 1 .. m : real[j].dev = i - 1
    <2>1. i - 1 \in Dev
        BY <1>3, <1>4, <1>5
    <2>2. Cost(real, i) > 0
        BY <1>2
    <2>3. Cost(real, i) = IF \E j \in DOMAIN real : real[j].dev = i - 1 THEN 1 ELSE 0
        BY <2>1 DEF Cost, PerfDevice, kernelTimes
    <2>4. QED BY <1>3, <2>2, <2>3
<1>7. \A i \in 1 .. m : real[i].dev = i - 1
    <2>1. \A i \in 1 .. m : real[i].dev \in Nat
        BY <1>4
    <2> HIDE DEF m
    <2>2. QED BY <1>3, <1>6, <2>1, InPlaces
<1>8. Request(info'[h].req) /\ PerDevice(info'[h].req)
    <2>1. info'[h].known /\ Recorded(info'[h], ~ Static)
        BY <1>1, FixedPointStep
    <2>2. QED BY <1>1, <2>1 DEF Recorded, Asks
<1>9. \A i \in 1 .. NbDevices : info'[h].req[i].dev = i - 1
    BY <1>8, EveryDevice
<1>10. QED BY <1>3, <1>5, <1>7, <1>9, <1>4 DEF OfOneDevice, PerfDevice, real

LEMMA PartitionStep ==
    ASSUME OptionsArePartitions, PartitionInv, [Next]_vars
    PROVE  PartitionInv'
<1>1. CASE UNCHANGED vars
    BY <1>1 DEF vars, PartitionInv, Static
<1>2. CASE \E h \in Handles : BadPartition(h) \/ OutOfTurn(h) \/ FixedPointFails(h)
    <2>1. scheduler' = scheduler /\ option' = option /\ info' = info
        BY <1>2 DEF BadPartition, OutOfTurn, FixedPointFails
    <2>2. QED BY <2>1 DEF PartitionInv, Static
<1>4. ASSUME NEW h \in Handles,
             \/ First(h) \/ KeepPartition(h) \/ FixedPoint(h) \/ Broyden(h) \/ BadBroyden(h)
             \/ Measure(h) \/ Adopt(h) \/ Consult(h)
      PROVE  PartitionInv'
    <2>1. option' = option /\ pc' = "run" /\ (Static' <=> Static)
        BY <1>4, RunsOn
    <2>2. DOMAIN info' = KerId /\ \A j \in KerId : Recorded(info'[j], ~ Static)
        BY <1>4, FirstPartition, KeepPartitionStep, FixedPointStep, BroydenPartition, ConsultPartition
    <2>3. (~ Static)' = ~ Static
        BY <2>1
    <2>4. QED BY <2>1, <2>2, <2>3 DEF PartitionInv
<1>5. QED BY <1>1, <1>2, <1>4 DEF Next

LEMMA PartitionInvHolds ==
    ASSUME OptionsArePartitions
    PROVE  Spec => []PartitionInv
<1>1. Init => PartitionInv
    <2> SUFFICES ASSUME Init PROVE PartitionInv
        OBVIOUS
    <2>1. option \in Options /\ pc = "run" /\ info = [k \in KerId |-> NoInfo]
        BY DEF Init
    <2>2. Recorded(NoInfo, ~ Static)
        BY DEF Recorded, NoInfo
    <2>3. QED BY <2>1, <2>2 DEF PartitionInv
<1>2. PartitionInv /\ [Next]_vars => PartitionInv'
    BY PartitionStep
<1>3. QED BY <1>1, <1>2, PTL DEF Spec

\* Whatever the scheduler, the user and the solver ask for, each work group of
\* each launch is run by one device, once, and no device is given an empty part:
\* for any number of devices, kernels and work groups.
THEOREM PartitionsCover ==
    ASSUME OptionsArePartitions
    PROVE  Spec => []PartitionCoversLaunch
<1>1. PartitionInv => PartitionCoversLaunch
    <2> SUFFICES ASSUME PartitionInv, NEW k \in KerId, Known(k)
                 PROVE  LET real == info[k].real
                            parts == splitDim(Launch(<<info[k].wgs>>, << 0 >>, << 1 >>), 0, Shares(real))
                        IN  /\ \A i \in DOMAIN parts : parts[i].size[0] > 0
                            /\ \A i, j \in DOMAIN real : i # j => real[i].dev # real[j].dev
                            /\ \A g \in 0 .. info[k].wgs - 1 :
                                 Cardinality({i \in DOMAIN parts :
                                    g \in parts[i].offset[0] .. LastId(parts[i], 0)}) = 1
        BY DEF PartitionCoversLaunch
    <2>1. Runs(info[k], ~ Static)
        BY DEF PartitionInv, Recorded, Known
    <2> DEFINE real == info[k].real
               w == info[k].wgs
               parts == splitDim(Launch(<<w>>, << 0 >>, << 1 >>), 0, Shares(real))
    <2>2. w \in Nat \ {0} /\ Unit % w = 0 /\ Parts(real, w)
        BY <2>1, GroupsAssumption DEF Runs
    <2> HIDE DEF real, w
    <2>3. \A i, j \in DOMAIN real : i # j => real[i].dev # real[j].dev
        <3>1. DOMAIN real = 1 .. Len(real)
            BY <2>2 DEF Parts
        <3>2. QED BY <2>2, <3>1 DEF Parts, NamedOnce
    <2>4. /\ \A i \in DOMAIN parts : parts[i].size[0] > 0
          /\ \A g \in 0 .. w - 1 :
               Cardinality({i \in DOMAIN parts : g \in parts[i].offset[0] .. LastId(parts[i], 0)}) = 1
        BY <2>2, Covered
    <2> HIDE DEF parts
    <2>5. QED BY <2>3, <2>4 DEF real, w, parts
<1>2. QED BY <1>1, PartitionInvHolds, PTL

\* Whatever the devices cost and however many work groups there are, FIXEDPOINT never takes
\* the cost of one device for that of another: the devices stay in the order of the request,
\* so those of a partition either stand in their places or leave a place without a cost.
THEOREM SharesOfOneDevice ==
    ASSUME OptionsArePartitions
    PROVE  Spec => SharesAreOfOneDevice
<1>1. PartitionInv /\ PartitionInv' /\ [Next]_vars =>
        [\A k \in Handles : Rebalances(k) => OfOneDevice(info[k].real, info'[k].req)]_vars
    <2> SUFFICES ASSUME PartitionInv, PartitionInv', Next, NEW k \in Handles, Rebalances(k)
                 PROVE  OfOneDevice(info[k].real, info'[k].req)
        BY DEF vars
    <2>1. scheduler = "FIXEDPOINT" /\ Known(k) /\ count' # count /\ \A h \in Handles : h = k /\ getKernelID(h) = k
        BY DEF Rebalances, Handles, getKernelID, Cycles, MultiKernel
    <2>2. \A h \in Handles : ~ (BadPartition(h) \/ OutOfTurn(h) \/ FixedPointFails(h))
        BY <2>1 DEF BadPartition, OutOfTurn, FixedPointFails
    <2>3. \A h \in Handles : ~ (First(h) \/ KeepPartition(h) \/ Broyden(h) \/ BadBroyden(h)
                                \/ Measure(h) \/ Adopt(h) \/ Consult(h))
        BY <2>1 DEF First, KeepPartition, Broyden, BadBroyden, Measure, Adopt, Consult, Solving, Static
    <2>4. FixedPoint(k)
        BY <2>1, <2>2, <2>3 DEF Next
    <2>5. QED BY <2>4, OwnShares
<1>2. QED BY <1>1, PartitionInvHolds, PTL DEF SharesAreOfOneDevice, Spec

-----------------------------------------------------------------------------
(* What the devices ran and read of a launch.                              *)

\* The cuts K of the last launch: the Unit-ths a device ran of it lie between two of
\* them, as far from each other as the share of its piece says but for the last one.
RanBetween(K, k, real) ==
    /\ Cuts(K, Len(real), Unit)
    /\ \A i \in 1 .. Len(real) - 1 : real[i].share = K[i] - K[i - 1]
    /\ \A d \in Dev : \A u : u \in granu_intervals(k)[d] <=>
          u \in Int /\ \E i \in 1 .. Len(real) : real[i].dev = d /\ IsIn(K, u, i)

LEMMA IntervalsAre ==
    ASSUME PartitionInv, NEW k \in KerId, Known(k), NEW real, real = info[k].real
    PROVE  /\ \A i \in 1 .. Len(real) : real[i].dev \in Dev
           /\ \E K : RanBetween(K, k, real)
<1> DEFINE w == info[k].wgs
           m == Len(real)
           parts == splitDim(Launch(<<w>>, << 0 >>, << 1 >>), 0, Shares(real))
           group == Unit \div w
           Span(p) == p.offset[0] * group .. (p.offset[0] + p.size[0]) * group - 1
<1>1. w \in Nat \ {0} /\ Unit % w = 0 /\ Parts(real, w)
    <2>1. Runs(info[k], ~ Static)
        BY DEF PartitionInv, Recorded, Known
    <2>2. QED BY <2>1, GroupsAssumption DEF Runs
<1>2. granu_intervals(k) = [d \in Dev |-> UNION {Span(parts[i]) : i \in {i \in DOMAIN parts : real[i].dev = d}}]
    BY DEF granu_intervals
<1>3. group \in Nat \ {0} /\ w * group = Unit
    <2> HIDE DEF w
    <2>1. group \in Int /\ w * group = Unit /\ group >= 0 /\ Unit \in Nat \ {0}
        BY <1>1, UnitAssumption
    <2>2. group # 0
        BY <1>1, <2>1
    <2>3. QED BY <2>1, <2>2
<1> HIDE DEF w, group, parts
<1>4. DOMAIN parts = 1 .. m /\ m \in Nat
    BY <1>1, PartsAre DEF parts
<1>5. PICK C : /\ Cuts(C, m, w)
               /\ Fits(C, real, w)
               /\ \A i \in 1 .. m : parts[i].offset[0] = C[i - 1] /\ parts[i].size[0] = C[i] - C[i - 1]
    BY <1>1, PartsAre DEF parts
<1>6. real \in Seq(Piece) /\ NamedOnce(real, m)
    BY <1>1 DEF Parts
<1>7. \A i \in 1 .. m : real[i].dev \in Dev
    <2>1. \A i \in 1 .. m : real[i] \in Piece
        BY <1>6
    <2> HIDE DEF m
    <2>2. QED BY <2>1 DEF Piece
<1> DEFINE K == [a \in 0 .. m |-> C[a] * group]
<1> HIDE DEF m
<1>8. Cuts(K, m, Unit)
    <2>1. ASSUME NEW a \in 0 .. m PROVE C[a] \in Int /\ K[a] = C[a] * group /\ K[a] \in Int
        BY <1>3, <1>5 DEF Cuts
    <2>2. K[0] = 0 /\ K[m] = Unit
        <3>1. C[0] = 0 /\ C[m] = w /\ 0 \in 0 .. m /\ m \in 0 .. m
            BY <1>4, <1>5 DEF Cuts
        <3>2. K[0] = C[0] * group /\ K[m] = C[m] * group
            BY <2>1, <3>1
        <3>3. 0 * group = 0
            BY <1>3
        <3> HIDE DEF K
        <3>4. QED BY <1>3, <3>1, <3>2, <3>3
    <2>3. ASSUME NEW a \in 1 .. m PROVE K[a - 1] < K[a]
        <3>1. a \in 0 .. m /\ a - 1 \in 0 .. m /\ C[a - 1] < C[a]
            BY <1>4, <1>5 DEF Cuts
        <3> DEFINE x == C[a - 1]
                   y == C[a]
        <3>2. x \in Int /\ y \in Int /\ x < y /\ K[a - 1] = x * group /\ K[a] = y * group
            BY <2>1, <3>1
        <3> HIDE DEF x, y, K
        <3>3. x * group < y * group
            BY <1>3, <3>2
        <3>4. QED BY <3>2, <3>3
    <2> HIDE DEF K
    <2>4. QED BY <2>1, <2>2, <2>3 DEF Cuts
<1>9. ASSUME NEW i \in 1 .. m, NEW u PROVE u \in Span(parts[i]) <=> u \in Int /\ IsIn(K, u, i)
    <2>1. i - 1 \in 0 .. m /\ i \in 0 .. m
        BY <1>4
    <2>2. C[i - 1] \in Int /\ C[i] \in Int /\ K[i - 1] = C[i - 1] * group /\ K[i] = C[i] * group
        BY <1>5, <2>1 DEF Cuts
    <2>3. parts[i].offset[0] = C[i - 1] /\ parts[i].offset[0] + parts[i].size[0] = C[i]
        BY <1>5, <2>2
    <2>4. Span(parts[i]) = K[i - 1] .. K[i] - 1 /\ K[i - 1] \in Int /\ K[i] \in Int
        BY <1>3, <2>2, <2>3
    <2> HIDE DEF K, Span
    <2>5. QED BY <2>4 DEF IsIn
<1> HIDE DEF K, Span
<1>10. ASSUME NEW d \in Dev, NEW u
       PROVE  u \in granu_intervals(k)[d] <=>
                u \in Int /\ \E i \in 1 .. m : real[i].dev = d /\ IsIn(K, u, i)
    BY <1>2, <1>4, <1>9
<1>11. ASSUME NEW i \in 1 .. m - 1 PROVE real[i].share = K[i] - K[i - 1]
    <2>1. i - 1 \in 0 .. m /\ i \in 0 .. m
        BY <1>4
    <2> DEFINE x == C[i - 1]
               y == C[i]
    <2>2. x \in Int /\ y \in Int
        BY <1>5, <2>1 DEF Cuts
    <2>3. real[i].share = (y - x) * group
        BY <1>5 DEF Fits, Of, m, group
    <2>4. K[i] = y * group /\ K[i - 1] = x * group
        BY <2>1 DEF K
    <2> HIDE DEF x, y
    <2>5. (y - x) * group = y * group - x * group
        BY <1>3, <2>2
    <2>6. QED BY <2>3, <2>4, <2>5
<1>12. RanBetween(K, k, real)
    BY <1>8, <1>10, <1>11 DEF m, RanBetween
<1>13. QED BY <1>7, <1>12 DEF m

\* Each Unit-th of a launch is run by one device.
LEMMA IntervalsCut ==
    ASSUME PartitionInv, NEW k \in KerId, Known(k)
    PROVE  /\ \A u \in 0 .. Unit - 1 : \E d \in Dev : u \in granu_intervals(k)[d]
           /\ \A d \in Dev : granu_intervals(k)[d] \subseteq 0 .. Unit - 1
           /\ \A d, e \in Dev : d # e => granu_intervals(k)[d] \cap granu_intervals(k)[e] = {}
<1> DEFINE real == info[k].real
           m == Len(real)
<1>1. Runs(info[k], ~ Static)
    BY DEF PartitionInv, Recorded, Known
<1>2. m \in Nat
    BY <1>1 DEF Runs, Parts
<1>3. (\A i \in 1 .. m : real[i].dev \in Dev) /\ \E K : RanBetween(K, k, real)
    BY IntervalsAre
<1> PICK K : RanBetween(K, k, real)
    BY <1>3
<1>4. /\ Cuts(K, m, Unit)
      /\ \A d \in Dev : \A u : u \in granu_intervals(k)[d] <=>
           u \in Int /\ \E i \in 1 .. m : real[i].dev = d /\ IsIn(K, u, i)
    BY DEF RanBetween
<1> HIDE DEF real, m
<1>5. ASSUME NEW i \in 1 .. m, NEW u \in Int, IsIn(K, u, i) PROVE u \in 0 .. Unit - 1
    <2>1. /\ i - 1 \in 0 .. m /\ i \in 0 .. m /\ 0 \in 0 .. m /\ m \in 0 .. m
          /\ i - 1 \in 0 .. m /\ m \in i .. m
        BY <1>2
    <2>2. K[0] <= K[i - 1] /\ K[i] <= K[m]
        BY <1>2, <1>4, <2>1, Increasing
    <2>3. K[0] = 0 /\ K[m] = Unit /\ K[i - 1] \in Int /\ K[i] \in Int
        BY <1>4, <2>1 DEF Cuts
    <2>4. QED BY <1>5, <2>2, <2>3, UnitAssumption DEF IsIn
<1>6. \A u \in 0 .. Unit - 1 : \E i : OnlyIn(K, m, u, i)
    BY <1>2, <1>4, UnitAssumption, InOnePart
<1>7. ASSUME NEW u \in 0 .. Unit - 1 PROVE \E d \in Dev : u \in granu_intervals(k)[d]
    BY <1>3, <1>4, <1>6 DEF OnlyIn
<1>8. ASSUME NEW d \in Dev PROVE granu_intervals(k)[d] \subseteq 0 .. Unit - 1
    BY <1>4, <1>5
<1>9. ASSUME NEW d \in Dev, NEW e \in Dev, d # e
       PROVE  granu_intervals(k)[d] \cap granu_intervals(k)[e] = {}
    <2> SUFFICES ASSUME NEW u \in granu_intervals(k)[d], u \in granu_intervals(k)[e] PROVE FALSE
        OBVIOUS
    <2>1. u \in 0 .. Unit - 1
        BY <1>8
    <2>2. PICK i \in 1 .. m : real[i].dev = d /\ IsIn(K, u, i)
        BY <1>4
    <2>3. PICK j \in 1 .. m : real[j].dev = e /\ IsIn(K, u, j)
        BY <1>4
    <2>4. i = j
        BY <1>6, <2>1, <2>2, <2>3 DEF OnlyIn
    <2>5. QED BY <1>9, <2>2, <2>3, <2>4
<1>10. QED BY <1>7, <1>8, <1>9

\* A transfer is sampled for what one device has run and another one reads.
THEOREM SamplesMeasureTraffic ==
    ASSUME OptionsArePartitions
    PROVE  Spec => []SamplesAreTraffic
<1>1. ASSUME PartitionInv PROVE SamplesAreTraffic
    <2> SUFFICES ASSUME AboutToConsult, NEW to \in KerId, NEW from \in KerId, NEW d \in Dev
                 PROVE  LET ReadByOthers == UNION {ReadRegion(to)[e] : e \in Dev \ {d}}
                            Leaves == granu_intervals(from)[d] \cap ReadByOthers
                        IN  /\ H2D_Y(to, from, d) = ReadRegion(to)[d] \ granu_intervals(from)[d]
                            /\ D2H_Y(to, from, d) \subseteq Leaves
                            /\ Halo[to] = 0 => D2H_Y(to, from, d) = Leaves
        BY DEF SamplesAreTraffic
    <2> DEFINE R == ReadRegion(to)
               F == granu_intervals(from)
               T == granu_intervals(to)
               Missing(e) == R[e] \ (R[e] \cap F[e])
    <2>1. /\ \A u \in 0 .. Unit - 1 : \E e \in Dev : u \in F[e]
          /\ \A e, f \in Dev : e # f => F[e] \cap F[f] = {} /\ T[e] \cap T[f] = {}
          /\ \A e \in Dev : F[e] \subseteq 0 .. Unit - 1 /\ T[e] \subseteq 0 .. Unit - 1
        BY <1>1, IntervalsCut DEF AboutToConsult
    <2>2. /\ H2D_Y(to, from, d) = Missing(d) \cap UNION {F[e] : e \in Dev}
          /\ D2H_Y(to, from, d) = ((UNION {Missing(e) : e \in Dev}) \ R[d]) \cap F[d]
        BY DEF H2D_Y, D2H_Y, requiredMinusPresent
    <2>3. \A e \in Dev : R[e] = {u \in 0 .. Unit - 1 : \E v \in T[e] : u - v \in -Halo[to] .. Halo[to]}
        BY DEF ReadRegion
    <2>4. Halo[to] = 0 => \A e \in Dev : R[e] = T[e]
        <3> SUFFICES ASSUME Halo[to] = 0, NEW e \in Dev PROVE R[e] = T[e]
            OBVIOUS
        <3>1. \A u, v \in 0 .. Unit - 1 : u - v \in -0 .. 0 <=> u = v
            BY UnitAssumption
        <3> HIDE DEF R, T
        <3>2. R[e] = {u \in 0 .. Unit - 1 : \E v \in T[e] : u - v \in -0 .. 0}
            BY <2>3
        <3>3. T[e] \subseteq 0 .. Unit - 1
            BY <2>1
        <3>4. ASSUME NEW u \in 0 .. Unit - 1 PROVE u \in R[e] <=> u \in T[e]
            BY <3>1, <3>2, <3>3
        <3>5. QED BY <3>2, <3>3, <3>4
    <2> HIDE DEF R, F, T
    <2>5. H2D_Y(to, from, d) = R[d] \ F[d]
        <3>1. R[d] \subseteq 0 .. Unit - 1
            BY <2>3
        <3>2. QED BY <2>1, <2>2, <3>1
    <2> DEFINE Leaves == F[d] \cap UNION {R[e] : e \in Dev \ {d}}
    <2>6. D2H_Y(to, from, d) \subseteq Leaves
        BY <2>2
    <2>7. ASSUME Halo[to] = 0 PROVE Leaves \subseteq D2H_Y(to, from, d)
        <3> SUFFICES ASSUME NEW u \in F[d], NEW e \in Dev \ {d}, u \in R[e]
                     PROVE  u \in D2H_Y(to, from, d)
            OBVIOUS
        <3>1. u \notin F[e] /\ u \notin R[d]
            BY <2>1, <2>4, <2>7
        <3>2. QED BY <2>2, <3>1
    <2>8. QED BY <2>5, <2>6, <2>7 DEF R, F
<1>2. QED BY <1>1, PartitionInvHolds, PTL

-----------------------------------------------------------------------------
(* Where the parts of a partition begin, and the constraints.              *)

LEMMA StartIs ==
    ASSUME NEW p \in [Dev -> Int]
    PROVE  /\ Start(p, 0) = 0 /\ SumFunction(p) = Start(p, NbDevices)
           /\ \A d \in 0 .. NbDevices : Start(p, d) \in Int
           /\ \A d \in Dev : Start(p, d + 1) = Start(p, d) + p[d]
<1>1. NbDevices \in Nat \ {0} /\ Dev = 0 .. NbDevices - 1 /\ DOMAIN p = Dev
    BY DevicesAssumption DEF Dev
<1>2. ASSUME NEW d \in 0 .. NbDevices
      PROVE  IsFiniteSet(0 .. d - 1) /\ 0 .. d - 1 \in SUBSET Dev /\ Start(p, d) \in Int
    <2>1. d \in Int /\ 0 \in Int /\ d - 1 \in Int
        BY <1>1
    <2>2. IsFiniteSet(0 .. d - 1)
        BY <2>1, FS_Interval
    <2>3. 0 .. d - 1 \in SUBSET Dev
        BY <1>1
    <2>4. \A x \in 0 .. d - 1 : p[x] \in Int
        BY <2>3
    <2>5. QED BY <2>2, <2>3, <2>4, SumIs DEF Start
<1>3. Start(p, 0) = 0
    <2>1. 0 .. 0 - 1 = {} /\ IsFiniteSet({}) /\ \A x \in {} : p[x] \in Int
        BY FS_EmptySet
    <2>2. QED BY <2>1, SumIs DEF Start
<1>4. SumFunction(p) = Start(p, NbDevices)
    BY <1>1 DEF SumFunction, Start
<1>5. ASSUME NEW d \in Dev PROVE Start(p, d + 1) = Start(p, d) + p[d]
    <2>1. /\ d + 1 \in 0 .. NbDevices /\ d \in 0 .. NbDevices /\ d + 1 - 1 = d
          /\ d \in 0 .. d /\ 0 .. d - 1 = (0 .. d) \ {d}
        BY <1>1
    <2>2. /\ IsFiniteSet(0 .. d) /\ \A x \in 0 .. d : p[x] \in Int
        <3>1. IsFiniteSet(0 .. d + 1 - 1) /\ 0 .. d + 1 - 1 \in SUBSET Dev
            BY <1>2, <2>1
        <3>2. QED BY <2>1, <3>1
    <2>3. SumFunctionOnSet(p, 0 .. d) = p[d] + SumFunctionOnSet(p, (0 .. d) \ {d})
        BY <2>1, <2>2, SumIs
    <2>4. Start(p, d + 1) = p[d] + Start(p, d)
        <3>1. Start(p, d + 1) = SumFunctionOnSet(p, 0 .. d)
            BY <2>1 DEF Start
        <3>2. Start(p, d) = SumFunctionOnSet(p, (0 .. d) \ {d})
            BY <2>1 DEF Start
        <3>3. QED BY <2>3, <3>1, <3>2
    <2>5. Start(p, d) \in Int /\ p[d] \in Int
        BY <1>2, <2>1
    <2>6. QED BY <2>4, <2>5
<1>6. QED BY <1>2, <1>3, <1>4, <1>5

\* Two functions of which one grows as the other does.
LEMMA UpTo ==
    ASSUME NEW n \in Nat, NEW g, NEW h, g[0] = h[0],
           \A d \in 0 .. n : g[d] \in Int /\ h[d] \in Int,
           \A d \in 0 .. n - 1 : g[d + 1] - g[d] = h[d + 1] - h[d]
    PROVE  g[n] = h[n]
<1> DEFINE P == {d \in Nat : d <= n => g[d] = h[d]}
<1>1. 0 \in P
    OBVIOUS
<1>2. ASSUME NEW d \in P PROVE d + 1 \in P
    <2> SUFFICES ASSUME d + 1 <= n PROVE g[d + 1] = h[d + 1]
        OBVIOUS
    <2>1. d \in 0 .. n /\ d + 1 \in 0 .. n /\ d \in 0 .. n - 1 /\ g[d] = h[d]
        OBVIOUS
    <2>2. g[d + 1] - g[d] = h[d + 1] - h[d] /\ g[d] \in Int /\ h[d] \in Int
          /\ g[d + 1] \in Int /\ h[d + 1] \in Int
        BY <2>1
    <2>3. QED BY <2>1, <2>2
<1>3. P = Nat
    <2> HIDE DEF P
    <2>1. P \in SUBSET Nat
        BY DEF P
    <2>2. QED BY <1>1, <1>2, <2>1, Induction
<1>4. QED BY <1>3

\* Shares are not negative: later parts begin later.
LEMMA StartGrows ==
    ASSUME NEW p \in [Dev -> Nat], NEW d \in 0 .. NbDevices
    PROVE  Start(p, d) \in Nat /\ Start(p, d) <= Start(p, NbDevices)
<1>0. p \in [Dev -> Int] /\ NbDevices \in Nat /\ Dev = 0 .. NbDevices - 1
    BY DevicesAssumption DEF Dev
<1> DEFINE P == {e \in Nat : e <= NbDevices => Start(p, e) >= 0}
           Q == {e \in Nat : d + e <= NbDevices => Start(p, d) <= Start(p, d + e)}
<1>1. /\ Start(p, 0) = 0 /\ \A e \in 0 .. NbDevices : Start(p, e) \in Int
      /\ \A e \in 0 .. NbDevices - 1 : Start(p, e + 1) >= Start(p, e)
    <2>1. /\ Start(p, 0) = 0 /\ \A e \in 0 .. NbDevices : Start(p, e) \in Int
          /\ \A e \in Dev : Start(p, e + 1) = Start(p, e) + p[e]
        BY <1>0, StartIs
    <2>2. ASSUME NEW e \in 0 .. NbDevices - 1 PROVE Start(p, e + 1) >= Start(p, e)
        <3>1. e \in Dev /\ e \in 0 .. NbDevices /\ p[e] \in Nat
            BY <1>0
        <3>2. Start(p, e + 1) = Start(p, e) + p[e] /\ Start(p, e) \in Int
            BY <2>1, <3>1
        <3>3. QED BY <3>1, <3>2
    <2>3. QED BY <2>1, <2>2
<1>2. P = Nat
    <2>1. 0 \in P
        BY <1>1
    <2>2. ASSUME NEW e \in P PROVE e + 1 \in P
        <3> SUFFICES ASSUME e + 1 <= NbDevices PROVE Start(p, e + 1) >= 0
            OBVIOUS
        <3>1. e \in 0 .. NbDevices - 1 /\ e \in 0 .. NbDevices /\ e + 1 \in 0 .. NbDevices
            BY <1>0
        <3>2. QED BY <1>1, <3>1
    <2> HIDE DEF P
    <2>3. P \in SUBSET Nat
        BY DEF P
    <2>4. QED BY <2>1, <2>2, <2>3, Induction
<1>3. Q = Nat
    <2>1. 0 \in Q
        BY <1>0, <1>1
    <2>2. ASSUME NEW e \in Q PROVE e + 1 \in Q
        <3> SUFFICES ASSUME d + (e + 1) <= NbDevices PROVE Start(p, d) <= Start(p, d + (e + 1))
            OBVIOUS
        <3>1. /\ d + e \in 0 .. NbDevices - 1 /\ d + e \in 0 .. NbDevices /\ d + (e + 1) = (d + e) + 1
              /\ (d + e) + 1 \in 0 .. NbDevices
            BY <1>0
        <3>2. Start(p, (d + e) + 1) >= Start(p, d + e) /\ Start(p, d + e) \in Int
              /\ Start(p, (d + e) + 1) \in Int /\ Start(p, d) \in Int
            BY <1>1, <3>1
        <3>3. Start(p, d) <= Start(p, d + e)
            BY <3>1, <1>0
        <3>4. QED BY <3>1, <3>2, <3>3
    <2> HIDE DEF Q
    <2>3. Q \in SUBSET Nat
        BY DEF Q
    <2>4. QED BY <2>1, <2>2, <2>3, Induction
<1>4. Start(p, d) \in Nat
    <2>1. d \in P
        BY <1>2
    <2>2. QED BY <1>0, <1>1, <2>1
<1>5. Start(p, d) <= Start(p, NbDevices)
    <2>1. NbDevices - d \in Nat /\ d + (NbDevices - d) = NbDevices
        BY <1>0
    <2>2. NbDevices - d \in Q
        BY <1>3, <2>1
    <2>3. QED BY <1>0, <2>1, <2>2
<1>6. QED BY <1>4, <1>5

\* The value of a constraint on the shares of some devices.
Constraint(c) == c.prev \in [Dev -> Int] /\ c.cur \in [Dev -> Int]

LEMMA ValueOverFirst ==
    ASSUME NEW prev \in [Dev -> Int], NEW cur \in [Dev -> Int], NEW n \in 0 .. NbDevices,
           NEW a \in {-1, 0, 1}, NEW b \in {-1, 0, 1}
    PROVE  /\ Constraint(Over(0 .. n - 1, a, b))
           /\ Value(Over(0 .. n - 1, a, b), prev, cur) = a * Start(prev, n) + b * Start(cur, n)
<1> DEFINE c == Over(0 .. n - 1, a, b)
           t == [d \in Dev |-> c.prev[d] * prev[d] + c.cur[d] * cur[d]]
           h == [d \in 0 .. NbDevices |->
                   IF d <= n THEN a * Start(prev, d) + b * Start(cur, d)
                             ELSE a * Start(prev, n) + b * Start(cur, n)]
           g == [d \in 0 .. NbDevices |-> Start(t, d)]
<1>0. NbDevices \in Nat /\ Dev = 0 .. NbDevices - 1 /\ 0 \in 0 .. NbDevices /\ NbDevices \in 0 .. NbDevices
    BY DevicesAssumption DEF Dev
<1>1. /\ \A d \in Dev : c.prev[d] = IF d < n THEN a ELSE 0
      /\ \A d \in Dev : c.cur[d] = IF d < n THEN b ELSE 0
      /\ Constraint(c)
    <2>1. \A d \in Dev : d \in 0 .. n - 1 <=> d < n
        BY <1>0
    <2>2. QED BY <2>1 DEF Over, Constraint
<1> HIDE DEF c
<1>2. ASSUME NEW d \in Dev PROVE t[d] \in Int /\ t[d] = IF d < n THEN a * prev[d] + b * cur[d] ELSE 0
    <2>1. prev[d] \in Int /\ cur[d] \in Int
        OBVIOUS
    <2>2. 0 * prev[d] = 0 /\ 0 * cur[d] = 0
        BY <2>1
    <2>3. QED BY <1>1, <2>1, <2>2
<1>3. t \in [Dev -> Int]
    BY <1>2
<1> HIDE DEF t
<1>4. /\ Start(t, 0) = 0 /\ Start(prev, 0) = 0 /\ Start(cur, 0) = 0
      /\ SumFunction(t) = Start(t, NbDevices)
      /\ \A d \in 0 .. NbDevices : Start(t, d) \in Int /\ Start(prev, d) \in Int /\ Start(cur, d) \in Int
      /\ \A d \in Dev : /\ Start(t, d + 1) = Start(t, d) + t[d]
                        /\ Start(prev, d + 1) = Start(prev, d) + prev[d]
                        /\ Start(cur, d + 1) = Start(cur, d) + cur[d]
    BY <1>3, StartIs
<1>5. ASSUME NEW d \in 0 .. NbDevices PROVE g[d] \in Int /\ h[d] \in Int
    BY <1>4
<1>6. g[0] = h[0]
    BY <1>0, <1>4
<1>7. ASSUME NEW d \in 0 .. NbDevices - 1 PROVE g[d + 1] - g[d] = h[d + 1] - h[d]
    <2>1. d \in Dev /\ d \in 0 .. NbDevices /\ d + 1 \in 0 .. NbDevices
        BY <1>0
    <2>2. g[d + 1] = Start(t, d) + t[d] /\ g[d] = Start(t, d) /\ t[d] \in Int /\ Start(t, d) \in Int
        BY <1>2, <1>4, <2>1
    <2>3. g[d + 1] - g[d] = t[d]
        BY <2>2
    <2>4. /\ Start(prev, d + 1) = Start(prev, d) + prev[d] /\ Start(cur, d + 1) = Start(cur, d) + cur[d]
          /\ Start(prev, d) \in Int /\ Start(cur, d) \in Int /\ prev[d] \in Int /\ cur[d] \in Int
        BY <1>4, <2>1
    <2>5. CASE d < n
        <3>1. h[d + 1] = a * Start(prev, d + 1) + b * Start(cur, d + 1) /\ h[d] = a * Start(prev, d) + b * Start(cur, d)
            BY <2>1, <2>5
        <3>2. t[d] = a * prev[d] + b * cur[d]
            BY <1>2, <2>1, <2>5
        <3>3. h[d + 1] - h[d] = t[d]
            <4> DEFINE x == Start(prev, d)
                       y == Start(cur, d)
                       u == prev[d]
                       v == cur[d]
            <4>1. x \in Int /\ y \in Int /\ u \in Int /\ v \in Int
                BY <2>4
            <4>2. h[d + 1] = a * (x + u) + b * (y + v) /\ h[d] = a * x + b * y /\ t[d] = a * u + b * v
                BY <2>4, <3>1, <3>2
            <4> HIDE DEF x, y, u, v, h
            <4>3. a * (x + u) = a * x + a * u /\ b * (y + v) = b * y + b * v
                BY <4>1
            <4>4. a * x \in Int /\ b * y \in Int /\ a * u \in Int /\ b * v \in Int
                BY <4>1
            <4>5. QED BY <4>2, <4>3, <4>4
        <3>4. QED BY <2>3, <3>3
    <2>6. CASE ~ (d < n)
        <3>1. h[d + 1] = h[d]
            <4>1. h[d] = a * Start(prev, n) + b * Start(cur, n)
                BY <2>1, <2>6
            <4>2. h[d + 1] = a * Start(prev, n) + b * Start(cur, n)
                BY <2>1, <2>6
            <4>3. QED BY <4>1, <4>2
        <3>2. t[d] = 0
            BY <1>2, <2>1, <2>6
        <3>3. h[d] \in Int
            BY <1>5, <2>1
        <3>4. QED BY <2>3, <3>1, <3>2, <3>3
    <2>7. QED BY <2>5, <2>6
<1> HIDE DEF g, h
<1>8. g[NbDevices] = h[NbDevices]
    BY <1>0, <1>5, <1>6, <1>7, UpTo
<1>9. g[NbDevices] = Value(c, prev, cur)
    BY <1>0, <1>4 DEF g, Value, t
<1>10. h[NbDevices] = a * Start(prev, n) + b * Start(cur, n)
    BY <1>0 DEF h
<1>11. QED BY <1>1, <1>8, <1>9, <1>10 DEF c

\* What each device contributes to a constraint.
TermsOf(c, prev, cur) == [d \in Dev |-> c.prev[d] * prev[d] + c.cur[d] * cur[d]]

LEMMA TermsAre ==
    ASSUME NEW prev \in [Dev -> Int], NEW cur \in [Dev -> Int], NEW c, Constraint(c)
    PROVE  TermsOf(c, prev, cur) \in [Dev -> Int] /\ Value(c, prev, cur) \in Int
<1> DEFINE t == TermsOf(c, prev, cur)
<1>1. t \in [Dev -> Int]
    <2>1. ASSUME NEW d \in Dev PROVE t[d] \in Int
        <3>1. c.prev[d] \in Int /\ c.cur[d] \in Int /\ prev[d] \in Int /\ cur[d] \in Int
            BY DEF Constraint
        <3>2. QED BY <3>1 DEF TermsOf
    <2>2. t = [d \in Dev |-> t[d]]
        BY DEF TermsOf
    <2> HIDE DEF t
    <2>3. QED BY <2>1, <2>2
<1>2. SumFunction(t) = Start(t, NbDevices) /\ NbDevices \in 0 .. NbDevices
    BY <1>1, StartIs, DevicesAssumption
<1>3. SumFunction(t) \in Int
    BY <1>1, <1>2, StartIs
<1>4. Value(c, prev, cur) = SumFunction(t)
    BY DEF Value, TermsOf
<1>5. QED BY <1>1, <1>3, <1>4

\* A sum is linear in its terms.
LEMMA SumIsLinear ==
    ASSUME NEW t \in [Dev -> Int], NEW u \in [Dev -> Int], NEW v \in [Dev -> Int],
           NEW a \in {-1, 0, 1}, NEW b \in {-1, 0, 1}, \A d \in Dev : t[d] = a * u[d] + b * v[d]
    PROVE  SumFunction(t) = a * SumFunction(u) + b * SumFunction(v)
<1> DEFINE g == [d \in 0 .. NbDevices |-> Start(t, d)]
           h == [d \in 0 .. NbDevices |-> a * Start(u, d) + b * Start(v, d)]
<1>0. NbDevices \in Nat /\ Dev = 0 .. NbDevices - 1 /\ 0 \in 0 .. NbDevices /\ NbDevices \in 0 .. NbDevices
    BY DevicesAssumption DEF Dev
<1>1. /\ Start(t, 0) = 0 /\ Start(u, 0) = 0 /\ Start(v, 0) = 0
      /\ SumFunction(t) = Start(t, NbDevices) /\ SumFunction(u) = Start(u, NbDevices)
      /\ SumFunction(v) = Start(v, NbDevices)
      /\ \A d \in 0 .. NbDevices : Start(t, d) \in Int /\ Start(u, d) \in Int /\ Start(v, d) \in Int
      /\ \A d \in Dev : /\ Start(t, d + 1) = Start(t, d) + t[d]
                        /\ Start(u, d + 1) = Start(u, d) + u[d]
                        /\ Start(v, d + 1) = Start(v, d) + v[d]
    BY StartIs
<1>2. ASSUME NEW d \in 0 .. NbDevices PROVE g[d] \in Int /\ h[d] \in Int
    BY <1>1
<1>3. g[0] = h[0]
    BY <1>0, <1>1
<1>4. ASSUME NEW d \in 0 .. NbDevices - 1 PROVE g[d + 1] - g[d] = h[d + 1] - h[d]
    <2>1. d \in Dev /\ d \in 0 .. NbDevices /\ d + 1 \in 0 .. NbDevices
        BY <1>0
    <2> DEFINE x == Start(u, d)
               y == Start(v, d)
               z == Start(t, d)
               p == u[d]
               q == v[d]
    <2>2. x \in Int /\ y \in Int /\ z \in Int /\ p \in Int /\ q \in Int /\ t[d] \in Int
        BY <1>1, <2>1
    <2>3. /\ h[d] = a * x + b * y /\ g[d] = z
          /\ h[d + 1] = a * Start(u, d + 1) + b * Start(v, d + 1) /\ g[d + 1] = Start(t, d + 1)
        BY <2>1
    <2>4. t[d] = a * p + b * q
        BY <2>1
    <2>5. h[d + 1] = a * (x + p) + b * (y + q) /\ g[d + 1] = z + t[d]
        BY <1>1, <2>1, <2>3
    <2> HIDE DEF x, y, z, p, q, g, h
    <2>6. a * (x + p) = a * x + a * p /\ b * (y + q) = b * y + b * q
        BY <2>2
    <2>7. a * x \in Int /\ b * y \in Int /\ a * p \in Int /\ b * q \in Int
        BY <2>2
    <2>8. QED BY <2>2, <2>3, <2>4, <2>5, <2>6, <2>7
<1> HIDE DEF g, h
<1>5. g[NbDevices] = h[NbDevices]
    BY <1>0, <1>2, <1>3, <1>4, UpTo
<1>6. QED BY <1>0, <1>1, <1>5 DEF g, h

LEMMA ValueOfPlus ==
    ASSUME NEW prev \in [Dev -> Int], NEW cur \in [Dev -> Int],
           NEW c, Constraint(c), NEW e, Constraint(e)
    PROVE  /\ Constraint(Plus(c, e))
           /\ Value(Plus(c, e), prev, cur) = Value(c, prev, cur) + Value(e, prev, cur)
<1> DEFINE s == Plus(c, e)
<1>1. /\ \A d \in Dev : s.prev[d] = c.prev[d] + e.prev[d] /\ s.cur[d] = c.cur[d] + e.cur[d]
      /\ s.prev = [d \in Dev |-> c.prev[d] + e.prev[d]] /\ s.cur = [d \in Dev |-> c.cur[d] + e.cur[d]]
    BY DEF Plus
<1>2. Constraint(s)
    <2>1. \A d \in Dev : c.prev[d] + e.prev[d] \in Int /\ c.cur[d] + e.cur[d] \in Int
        BY DEF Constraint
    <2> HIDE DEF s
    <2>2. QED BY <1>1, <2>1 DEF Constraint
<1> HIDE DEF s
<1> DEFINE t == TermsOf(s, prev, cur)
           u == TermsOf(c, prev, cur)
           v == TermsOf(e, prev, cur)
<1>3. t \in [Dev -> Int] /\ u \in [Dev -> Int] /\ v \in [Dev -> Int]
    BY <1>2, TermsAre
<1>4. ASSUME NEW d \in Dev PROVE t[d] = 1 * u[d] + 1 * v[d]
    <2>1. /\ t[d] = s.prev[d] * prev[d] + s.cur[d] * cur[d]
          /\ u[d] = c.prev[d] * prev[d] + c.cur[d] * cur[d]
          /\ v[d] = e.prev[d] * prev[d] + e.cur[d] * cur[d]
        BY DEF TermsOf
    <2>2. /\ prev[d] \in Int /\ cur[d] \in Int /\ c.prev[d] \in Int /\ c.cur[d] \in Int
          /\ e.prev[d] \in Int /\ e.cur[d] \in Int
        BY DEF Constraint
    <2>3. /\ (c.prev[d] + e.prev[d]) * prev[d] = c.prev[d] * prev[d] + e.prev[d] * prev[d]
          /\ (c.cur[d] + e.cur[d]) * cur[d] = c.cur[d] * cur[d] + e.cur[d] * cur[d]
        BY <2>2
    <2>4. /\ c.prev[d] * prev[d] \in Int /\ e.prev[d] * prev[d] \in Int
          /\ c.cur[d] * cur[d] \in Int /\ e.cur[d] * cur[d] \in Int
        BY <2>2
    <2>5. t[d] = (c.prev[d] * prev[d] + e.prev[d] * prev[d]) + (c.cur[d] * cur[d] + e.cur[d] * cur[d])
        BY <1>1, <2>1, <2>3
    <2> HIDE DEF t, u, v
    <2>6. QED BY <2>1, <2>4, <2>5
<1>5. /\ Value(s, prev, cur) = SumFunction(t) /\ Value(c, prev, cur) = SumFunction(u)
      /\ Value(e, prev, cur) = SumFunction(v)
    BY DEF Value, TermsOf
<1>6. SumFunction(u) \in Int /\ SumFunction(v) \in Int
    BY <1>5, TermsAre
<1> HIDE DEF t, u, v
<1>7. SumFunction(t) = 1 * SumFunction(u) + 1 * SumFunction(v)
    BY <1>3, <1>4, SumIsLinear
<1>8. QED BY <1>2, <1>5, <1>6, <1>7 DEF s

LEMMA ValueOfOpposite ==
    ASSUME NEW prev \in [Dev -> Int], NEW cur \in [Dev -> Int], NEW c, Constraint(c)
    PROVE  Constraint(Opposite(c)) /\ Value(Opposite(c), prev, cur) = 0 - Value(c, prev, cur)
<1> DEFINE s == Opposite(c)
<1>1. /\ \A d \in Dev : s.prev[d] = -c.prev[d] /\ s.cur[d] = -c.cur[d]
      /\ s.prev = [d \in Dev |-> -c.prev[d]] /\ s.cur = [d \in Dev |-> -c.cur[d]]
    BY DEF Opposite
<1>2. Constraint(s)
    <2>1. \A d \in Dev : -c.prev[d] \in Int /\ -c.cur[d] \in Int
        BY DEF Constraint
    <2> HIDE DEF s
    <2>2. QED BY <1>1, <2>1 DEF Constraint
<1> HIDE DEF s
<1> DEFINE t == TermsOf(s, prev, cur)
           u == TermsOf(c, prev, cur)
<1>3. t \in [Dev -> Int] /\ u \in [Dev -> Int]
    BY <1>2, TermsAre
<1>4. ASSUME NEW d \in Dev PROVE t[d] = (-1) * u[d] + 0 * u[d]
    <2>1. /\ t[d] = s.prev[d] * prev[d] + s.cur[d] * cur[d]
          /\ u[d] = c.prev[d] * prev[d] + c.cur[d] * cur[d]
        BY DEF TermsOf
    <2>2. /\ prev[d] \in Int /\ cur[d] \in Int /\ c.prev[d] \in Int /\ c.cur[d] \in Int
        BY DEF Constraint
    <2>3. /\ (-c.prev[d]) * prev[d] = 0 - c.prev[d] * prev[d]
          /\ (-c.cur[d]) * cur[d] = 0 - c.cur[d] * cur[d]
        BY <2>2
    <2>4. c.prev[d] * prev[d] \in Int /\ c.cur[d] * cur[d] \in Int
        BY <2>2
    <2>5. t[d] = (0 - c.prev[d] * prev[d]) + (0 - c.cur[d] * cur[d])
        BY <1>1, <2>1, <2>3
    <2> HIDE DEF t, u
    <2>6. QED BY <2>1, <2>4, <2>5
<1>5. Value(s, prev, cur) = SumFunction(t) /\ Value(c, prev, cur) = SumFunction(u)
    BY DEF Value, TermsOf
<1>6. SumFunction(u) \in Int
    BY <1>5, TermsAre
<1> HIDE DEF t, u
<1>7. SumFunction(t) = (-1) * SumFunction(u) + 0 * SumFunction(u)
    BY <1>3, <1>4, SumIsLinear
<1>8. QED BY <1>2, <1>5, <1>6, <1>7 DEF s

LEMMA ValueOfOne ==
    ASSUME NEW prev \in [Dev -> Int], NEW cur \in [Dev -> Int], NEW d \in Dev,
           NEW a \in {-1, 0, 1}, NEW b \in {-1, 0, 1}
    PROVE  Value(Over({d}, a, b), prev, cur) = a * prev[d] + b * cur[d]
<1> DEFINE c == Over({d}, a, b)
           x == Over(0 .. (d + 1) - 1, a, b)
           y == Over(0 .. d - 1, a, b)
           t == TermsOf(c, prev, cur)
           u == TermsOf(x, prev, cur)
           v == TermsOf(y, prev, cur)
<1>0. NbDevices \in Nat /\ Dev = 0 .. NbDevices - 1 /\ d + 1 \in 0 .. NbDevices /\ d \in 0 .. NbDevices
    BY DevicesAssumption DEF Dev
<1>1. /\ Constraint(x) /\ Constraint(y)
      /\ Value(x, prev, cur) = a * Start(prev, d + 1) + b * Start(cur, d + 1)
      /\ Value(y, prev, cur) = a * Start(prev, d) + b * Start(cur, d)
    <2>1. ASSUME NEW n \in 0 .. NbDevices
          PROVE  /\ Constraint(Over(0 .. n - 1, a, b))
                 /\ Value(Over(0 .. n - 1, a, b), prev, cur) = a * Start(prev, n) + b * Start(cur, n)
        BY ValueOverFirst
    <2> DEFINE m == d + 1
    <2>2. m \in 0 .. NbDevices /\ x = Over(0 .. m - 1, a, b)
        BY <1>0
    <2> HIDE DEF m
    <2>3. Constraint(x) /\ Value(x, prev, cur) = a * Start(prev, m) + b * Start(cur, m)
        BY <2>1, <2>2
    <2>4. Constraint(y) /\ Value(y, prev, cur) = a * Start(prev, d) + b * Start(cur, d)
        BY <1>0, <2>1
    <2>5. QED BY <2>3, <2>4 DEF m
<1>2. /\ \A e \in Dev : c.prev[e] = (IF e = d THEN a ELSE 0) /\ c.cur[e] = (IF e = d THEN b ELSE 0)
      /\ c.prev = [e \in Dev |-> c.prev[e]] /\ c.cur = [e \in Dev |-> c.cur[e]]
    BY DEF Over
<1>3. Constraint(c)
    <2>0. a \in Int /\ b \in Int /\ 0 \in Int
        OBVIOUS
    <2> HIDE DEF c
    <2>1. \A e \in Dev : c.prev[e] \in Int /\ c.cur[e] \in Int
        BY <1>2, <2>0
    <2>2. QED BY <1>2, <2>1 DEF Constraint
<1>4. t \in [Dev -> Int] /\ u \in [Dev -> Int] /\ v \in [Dev -> Int]
    BY <1>1, <1>3, TermsAre
<1>5. ASSUME NEW e \in Dev PROVE t[e] = 1 * u[e] + (-1) * v[e]
    <2>1. /\ t[e] = c.prev[e] * prev[e] + c.cur[e] * cur[e]
          /\ u[e] = x.prev[e] * prev[e] + x.cur[e] * cur[e]
          /\ v[e] = y.prev[e] * prev[e] + y.cur[e] * cur[e]
        BY DEF TermsOf
    <2>2. /\ x.prev[e] = (IF e <= d THEN a ELSE 0) /\ x.cur[e] = (IF e <= d THEN b ELSE 0)
          /\ y.prev[e] = (IF e < d THEN a ELSE 0) /\ y.cur[e] = (IF e < d THEN b ELSE 0)
        <3>1. (e \in 0 .. (d + 1) - 1 <=> e <= d) /\ (e \in 0 .. d - 1 <=> e < d)
            BY <1>0
        <3>2. QED BY <3>1 DEF Over
    <2>3. prev[e] \in Int /\ cur[e] \in Int
        OBVIOUS
    <2> HIDE DEF t, u, v, c, x, y
    <2>4. CASE e = d
        <3>1. t[e] = a * prev[e] + b * cur[e] /\ u[e] = a * prev[e] + b * cur[e]
              /\ v[e] = 0 * prev[e] + 0 * cur[e]
            BY <1>0, <1>2, <2>1, <2>2, <2>4
        <3>2. a * prev[e] \in Int /\ b * cur[e] \in Int /\ 0 * prev[e] = 0 /\ 0 * cur[e] = 0
            BY <2>3
        <3>3. QED BY <3>1, <3>2
    <2>5. CASE e # d
        <3>1. t[e] = 0 * prev[e] + 0 * cur[e] /\ u[e] = v[e]
            BY <1>0, <1>2, <2>1, <2>2, <2>5
        <3>2. 0 * prev[e] = 0 /\ 0 * cur[e] = 0 /\ v[e] \in Int
            BY <1>4, <2>3
        <3>3. QED BY <3>1, <3>2
    <2>6. QED BY <2>4, <2>5
<1>6. /\ Value(c, prev, cur) = SumFunction(t) /\ Value(x, prev, cur) = SumFunction(u)
      /\ Value(y, prev, cur) = SumFunction(v)
    BY DEF Value, TermsOf
<1>7. SumFunction(u) \in Int /\ SumFunction(v) \in Int
    BY <1>1, <1>6, TermsAre
<1> HIDE DEF t, u, v, c, x, y
<1>8. SumFunction(t) = 1 * SumFunction(u) + (-1) * SumFunction(v)
    BY <1>4, <1>5, SumIsLinear
<1>9. /\ Start(prev, d + 1) = Start(prev, d) + prev[d] /\ Start(cur, d + 1) = Start(cur, d) + cur[d]
      /\ Start(prev, d) \in Int /\ Start(cur, d) \in Int /\ prev[d] \in Int /\ cur[d] \in Int
    BY <1>0, StartIs
<1>10. /\ a * (Start(prev, d) + prev[d]) = a * Start(prev, d) + a * prev[d]
       /\ b * (Start(cur, d) + cur[d]) = b * Start(cur, d) + b * cur[d]
       /\ a * Start(prev, d) \in Int /\ a * prev[d] \in Int /\ b * Start(cur, d) \in Int
       /\ b * cur[d] \in Int
    BY <1>9
<1>11. Value(c, prev, cur) = SumFunction(u) - SumFunction(v)
    BY <1>6, <1>7, <1>8
<1>12. /\ SumFunction(u) = (a * Start(prev, d) + a * prev[d]) + (b * Start(cur, d) + b * cur[d])
       /\ SumFunction(v) = a * Start(prev, d) + b * Start(cur, d)
    BY <1>1, <1>6, <1>9, <1>10
<1>13. Value(c, prev, cur) = a * prev[d] + b * cur[d]
    BY <1>10, <1>11, <1>12
<1>14. QED BY <1>13 DEF c

\* What is in one interval and not in another.
Minus(a, b, c, e) == (a .. b - 1) \ (c .. e - 1)
LEMMA IntervalMinus ==
    ASSUME NEW a \in Int, NEW b \in Int, NEW c \in Int, NEW e \in Int, a <= b, c <= e
    PROVE  LET rest == Minus(a, b, c, e)
           IN  /\ c <= a /\ b <= e => rest = {}
               /\ b <= c \/ e <= a \/ c = e => Cardinality(rest) = b - a
               /\ a <= c /\ e <= b => Cardinality(rest) = (c - a) + (b - e)
               /\ a <= c /\ c <= b /\ b <= e => Cardinality(rest) = c - a
               /\ c <= a /\ a <= e /\ e <= b => Cardinality(rest) = b - e
<1> DEFINE rest == (a .. b - 1) \ (c .. e - 1)
<1>1. ASSUME NEW x \in Int, NEW y \in Int, x <= y
      PROVE  IsFiniteSet(x .. y - 1) /\ Cardinality(x .. y - 1) = y - x
    <2> DEFINE z == y - 1
    <2>1. z \in Int /\ IsFiniteSet(x .. z)
        BY FS_Interval
    <2>2. Cardinality(x .. z) = IF x <= z THEN z - x + 1 ELSE 0
        BY <2>1, FS_Interval
    <2>3. QED BY <1>1, <2>1, <2>2
<1>2. ASSUME c <= a, b <= e PROVE rest = {}
    BY <1>2
<1>3. ASSUME b <= c \/ e <= a \/ c = e PROVE Cardinality(rest) = b - a
    <2>1. rest = a .. b - 1
        BY <1>3
    <2>2. QED BY <1>1, <2>1
<1>4. ASSUME a <= c, e <= b PROVE Cardinality(rest) = (c - a) + (b - e)
    <2> DEFINE S == a .. c - 1
               T == e .. b - 1
    <2>1. rest = S \cup T /\ S \cap T = {}
        BY <1>4
    <2>2. IsFiniteSet(S) /\ IsFiniteSet(T) /\ Cardinality(S) = c - a /\ Cardinality(T) = b - e
        BY <1>1, <1>4
    <2> HIDE DEF S, T, rest
    <2>3. Cardinality(S \cup T) = Cardinality(S) + Cardinality(T) - Cardinality(S \cap T)
        BY <2>2, FS_Union
    <2>4. Cardinality({}) = 0
        BY FS_EmptySet
    <2>5. Cardinality(rest) = Cardinality(S) + Cardinality(T) - 0
        BY <2>1, <2>3, <2>4
    <2>6. QED BY <2>2, <2>5
<1>5. ASSUME a <= c, c <= b, b <= e PROVE Cardinality(rest) = c - a
    <2>1. rest = a .. c - 1
        BY <1>5
    <2>2. QED BY <1>1, <1>5, <2>1
<1>6. ASSUME c <= a, a <= e, e <= b PROVE Cardinality(rest) = b - e
    <2>1. rest = e .. b - 1
        BY <1>6
    <2>2. QED BY <1>1, <1>6, <2>1
<1>7. QED BY <1>2, <1>3, <1>4, <1>5, <1>6 DEF Minus

\* How far the ends of a part have moved, and how much its share has grown.
LEMMA MovedValues ==
    ASSUME NEW prev \in [Dev -> Int], NEW cur \in [Dev -> Int], NEW d \in Dev
    PROVE  LET left  == Start(cur, d) - Start(prev, d)
               right == End(cur, d) - End(prev, d)
               V(c)  == Value(c, prev, cur)
           IN  /\ left \in Int /\ right \in Int
               /\ V(StartMoved(d)) = left /\ V(Opposite(StartMoved(d))) = 0 - left
               /\ V(EndMoved(d)) = right /\ V(Opposite(EndMoved(d))) = 0 - right
               /\ V(Plus(StartMoved(d), Opposite(EndMoved(d)))) = left - right
               /\ V(Plus(Opposite(StartMoved(d)), EndMoved(d))) = right - left
               /\ V(Over({d}, 1, -1)) = prev[d] - cur[d] /\ V(Over({d}, -1, 1)) = cur[d] - prev[d]
               /\ V(Over({d}, 1, 0)) = prev[d] /\ V(Over({d}, 0, 1)) = cur[d]
<1> DEFINE left  == Start(cur, d) - Start(prev, d)
           right == End(cur, d) - End(prev, d)
           S == StartMoved(d)
           E == EndMoved(d)
<1>0. NbDevices \in Nat /\ Dev = 0 .. NbDevices - 1 /\ d + 1 \in 0 .. NbDevices /\ d \in 0 .. NbDevices
    BY DevicesAssumption DEF Dev
<1>1. /\ Start(prev, d + 1) = End(prev, d) /\ Start(cur, d + 1) = End(cur, d)
      /\ Start(prev, d) \in Int /\ Start(cur, d) \in Int /\ prev[d] \in Int /\ cur[d] \in Int
      /\ End(prev, d) \in Int /\ End(cur, d) \in Int
    BY <1>0, StartIs DEF End
<1>2. ASSUME NEW n \in 0 .. NbDevices
      PROVE  /\ Constraint(Over(0 .. n - 1, -1, 1))
             /\ Value(Over(0 .. n - 1, -1, 1), prev, cur) = (-1) * Start(prev, n) + 1 * Start(cur, n)
    <2>1. -1 \in {-1, 0, 1} /\ 1 \in {-1, 0, 1}
        OBVIOUS
    <2>2. QED BY <2>1, ValueOverFirst
<1>3. Constraint(S) /\ Value(S, prev, cur) = left
    <2>1. Constraint(S) /\ Value(S, prev, cur) = (-1) * Start(prev, d) + 1 * Start(cur, d)
        BY <1>0, <1>2 DEF StartMoved
    <2>2. QED BY <1>1, <2>1
<1>4. Constraint(E) /\ Value(E, prev, cur) = right
    <2> DEFINE n == d + 1
    <2>1. n \in 0 .. NbDevices /\ E = Over(0 .. n - 1, -1, 1)
        BY <1>0 DEF EndMoved
    <2> HIDE DEF n
    <2>2. Constraint(E) /\ Value(E, prev, cur) = (-1) * Start(prev, n) + 1 * Start(cur, n)
        BY <1>2, <2>1
    <2>3. Start(prev, n) = End(prev, d) /\ Start(cur, n) = End(cur, d)
        BY <1>1 DEF n
    <2> HIDE DEF E
    <2>4. QED BY <1>1, <2>2, <2>3
<1> HIDE DEF S, E
<1>5. /\ Constraint(Opposite(S)) /\ Value(Opposite(S), prev, cur) = 0 - left
      /\ Constraint(Opposite(E)) /\ Value(Opposite(E), prev, cur) = 0 - right
    BY <1>3, <1>4, ValueOfOpposite
<1>6. left \in Int /\ right \in Int
    BY <1>1
<1>7. /\ Value(Plus(S, Opposite(E)), prev, cur) = left + (0 - right)
      /\ Value(Plus(Opposite(S), E), prev, cur) = (0 - left) + right
    BY <1>3, <1>4, <1>5, ValueOfPlus
<1>8. ASSUME NEW a \in {-1, 0, 1}, NEW b \in {-1, 0, 1}
      PROVE  Value(Over({d}, a, b), prev, cur) = a * prev[d] + b * cur[d]
    BY ZenonT(40), ValueOfOne
<1>9. /\ Value(Over({d}, 1, -1), prev, cur) = prev[d] - cur[d]
      /\ Value(Over({d}, -1, 1), prev, cur) = cur[d] - prev[d]
      /\ Value(Over({d}, 1, 0), prev, cur) = prev[d]
      /\ Value(Over({d}, 0, 1), prev, cur) = cur[d]
    <2>1. /\ Value(Over({d}, 1, -1), prev, cur) = 1 * prev[d] + (-1) * cur[d]
          /\ Value(Over({d}, -1, 1), prev, cur) = (-1) * prev[d] + 1 * cur[d]
          /\ Value(Over({d}, 1, 0), prev, cur) = 1 * prev[d] + 0 * cur[d]
          /\ Value(Over({d}, 0, 1), prev, cur) = 0 * prev[d] + 1 * cur[d]
        <3>1. -1 \in {-1, 0, 1} /\ 1 \in {-1, 0, 1} /\ 0 \in {-1, 0, 1}
            OBVIOUS
        <3>2. QED BY <3>1, <1>8
    <2>2. QED BY <1>1, <2>1
<1>10. left + (0 - right) = left - right /\ (0 - left) + right = right - left
    BY <1>6
<1>11. QED BY <1>3, <1>4, <1>5, <1>6, <1>7, <1>9, <1>10 DEF S, E

\* Of whole partitions, the first device starts and the last one ends together.
LEMMA PartsOfWhole ==
    ASSUME NEW p \in [Dev -> Nat], Whole(p), NEW d \in Dev
    PROVE  /\ Start(p, d) \in Nat /\ p[d] \in Nat /\ End(p, d) = Start(p, d) + p[d]
           /\ d = 0 => Start(p, d) = 0
           /\ d = NbDevices - 1 => End(p, d) = Unit
<1>1. p \in [Dev -> Int] /\ NbDevices \in Nat /\ Dev = 0 .. NbDevices - 1 /\ d \in 0 .. NbDevices
    BY DevicesAssumption DEF Dev
<1>2. Start(p, d) \in Nat /\ p[d] \in Nat /\ End(p, d) = Start(p, d) + p[d]
    BY <1>1, StartGrows DEF End
<1>3. d = 0 => Start(p, d) = 0
    BY <1>1, StartIs
<1>4. ASSUME d = NbDevices - 1 PROVE End(p, d) = Unit
    <2>1. Start(p, d + 1) = End(p, d) /\ SumFunction(p) = Start(p, NbDevices)
        BY <1>1, StartIs DEF End
    <2>2. d + 1 = NbDevices
        BY <1>1, <1>4
    <2>3. QED BY <2>1, <2>2 DEF Whole
<1>5. QED BY <1>2, <1>3, <1>4

LEMMA D2HIsExact ==
    ASSUME NEW prev \in [Dev -> Nat], NEW cur \in [Dev -> Nat], Whole(prev), Whole(cur), NEW d \in Dev
    PROVE  LET c     == getD2HConstraint(d, prev, cur)
               moved == (Start(prev, d) .. End(prev, d) - 1) \ (Start(cur, d) .. End(cur, d) - 1)
           IN  IF c.observed THEN Value(c.constraint, prev, cur) = Cardinality(moved) ELSE moved = {}
<1> DEFINE sp == Start(prev, d)
           ep == End(prev, d)
           sc == Start(cur, d)
           ec == End(cur, d)
           p == prev[d]
           q == cur[d]
           c == getD2HConstraint(d, prev, cur)
           v == Value(c.constraint, prev, cur)
           both == Plus(StartMoved(d), Opposite(EndMoved(d)))
           rest == Minus(sp, ep, sc, ec)
<1>1. /\ sp \in Nat /\ sc \in Nat /\ p \in Nat /\ q \in Nat /\ ep = sp + p /\ ec = sc + q
      /\ Edge(d) => (sp = 0 /\ sc = 0) \/ (ep = Unit /\ ec = Unit)
    <2>1. /\ sp \in Nat /\ p \in Nat /\ ep = sp + p /\ (d = 0 => sp = 0)
          /\ d = NbDevices - 1 => ep = Unit
        BY PartsOfWhole
    <2>2. /\ sc \in Nat /\ q \in Nat /\ ec = sc + q /\ (d = 0 => sc = 0)
          /\ d = NbDevices - 1 => ec = Unit
        BY PartsOfWhole
    <2> HIDE DEF sp, ep, sc, ec, p, q
    <2>3. QED BY <2>1, <2>2 DEF Edge
<1>2. prev \in [Dev -> Int] /\ cur \in [Dev -> Int]
    OBVIOUS
<1>3. /\ Value(StartMoved(d), prev, cur) = sc - sp
      /\ Value(Opposite(EndMoved(d)), prev, cur) = 0 - (ec - ep)
      /\ Value(both, prev, cur) = (sc - sp) - (ec - ep)
      /\ Value(Over({d}, 1, -1), prev, cur) = p - q
      /\ Value(Over({d}, 1, 0), prev, cur) = p
    BY <1>2, MovedValues
<1>4. /\ sp \in Int /\ ep \in Int /\ sc \in Int /\ ec \in Int /\ sp <= ep /\ sc <= ec
    BY <1>1
<1>5. /\ sc <= sp /\ ep <= ec => rest = {}
      /\ ep <= sc \/ ec <= sp \/ sc = ec => Cardinality(rest) = ep - sp
      /\ sp <= sc /\ ec <= ep => Cardinality(rest) = (sc - sp) + (ep - ec)
      /\ sp <= sc /\ sc <= ep /\ ep <= ec => Cardinality(rest) = sc - sp
      /\ sc <= sp /\ sp <= ec /\ ec <= ep => Cardinality(rest) = ep - ec
    <2> HIDE DEF sp, ep, sc, ec
    <2>1. QED BY SMTT(30), <1>4, IntervalMinus
<1>6. CASE p = 0
    <2>1. c = Unobserved(Zero)
        BY <1>6 DEF getD2HConstraint
    <2>2. rest = {}
        BY <1>1, <1>6 DEF Minus
    <2>3. QED BY <2>1, <2>2 DEF Unobserved, Minus
<1>7. CASE p > 0 /\ Edge(d)
    <2>1. c = [constraint |-> Over({d}, 1, -1), observed |-> p >= q]
        BY <1>1, <1>7 DEF getD2HConstraint
    <2>2. c.observed = (p >= q) /\ v = p - q
        BY <1>3, <2>1
    <2> HIDE DEF c, v, sp, ep, sc, ec, p, q
    <2>3. CASE p >= q
        <3>1. sp <= sc /\ ec <= ep /\ (sc - sp) + (ep - ec) = p - q
            BY <1>1, <1>7, <2>3, UnitAssumption
        <3>2. Cardinality(rest) = p - q
            <4> HIDE DEF rest
            <4>1. QED BY <1>5, <3>1
        <3>3. QED BY <2>2, <2>3, <3>2 DEF v, c, sp, ep, sc, ec, Minus
    <2>4. CASE ~ (p >= q)
        <3>1. sc <= sp /\ ep <= ec
            BY <1>1, <1>7, <2>4, UnitAssumption
        <3>2. rest = {}
            <4> HIDE DEF rest
            <4>1. QED BY <1>5, <3>1
        <3>3. QED BY <2>2, <2>4, <3>2 DEF c, sp, ep, sc, ec, Minus
    <2>5. QED BY <2>3, <2>4
<1>8. CASE p > 0 /\ ~ Edge(d)
    <2> DEFINE over == deviceOverlapBetweenKernels(d, prev, cur)
    <2>1. over <=> q > 0 /\ ep >= sc /\ ec >= sp
        BY <1>8 DEF deviceOverlapBetweenKernels
    <2>2. c = IF sc <= sp /\ ep <= ec THEN Unobserved(both)
              ELSE IF ~ over THEN Observed(Over({d}, 1, 0))
              ELSE IF sp < sc /\ ec < ep THEN Observed(both)
              ELSE IF sp < sc THEN Observed(StartMoved(d))
              ELSE Observed(Opposite(EndMoved(d)))
        BY <1>1, <1>8 DEF getD2HConstraint
    <2> HIDE DEF c, sp, ep, sc, ec, p, q, over, both, rest
    <2>3. CASE sc <= sp /\ ep <= ec
        <3>1. c.observed = FALSE
            BY <2>2, <2>3 DEF Unobserved
        <3>2. rest = {}
            BY <1>5, <2>3
        <3>3. QED BY <3>1, <3>2 DEF c, rest, sp, ep, sc, ec, Minus
    <2>4. CASE ~ (sc <= sp /\ ep <= ec)
        <3>1. c.observed = TRUE /\ v = Cardinality(rest)
            <4>1. CASE ~ over
                <5>1. c = Observed(Over({d}, 1, 0))
                    BY <2>2, <2>4, <4>1
                <5>2. c.observed = TRUE /\ v = p
                    BY <1>3, <5>1 DEF Observed
                <5>3. (ep <= sc \/ ec <= sp \/ sc = ec) /\ p = ep - sp
                    BY <1>1, <2>1, <4>1
                <5> HIDE DEF v
                <5>4. QED BY <1>5, <5>2, <5>3
            <4>2. CASE over /\ sp < sc /\ ec < ep
                <5>1. c = Observed(both)
                    BY <2>2, <2>4, <4>2
                <5>2. c.observed = TRUE /\ v = (sc - sp) - (ec - ep)
                    BY <1>3, <5>1 DEF Observed
                <5> HIDE DEF v
                <5>3. sp <= sc /\ ec <= ep /\ (sc - sp) - (ec - ep) = (sc - sp) + (ep - ec)
                    BY <1>4, <4>2
                <5>4. QED BY <1>5, <5>2, <5>3
            <4>3. CASE over /\ sp < sc /\ ~ (ec < ep)
                <5>1. c = Observed(StartMoved(d))
                    BY <2>2, <2>4, <4>3
                <5>2. c.observed = TRUE /\ v = sc - sp
                    BY <1>3, <5>1 DEF Observed
                <5> HIDE DEF v
                <5>3. sp <= sc /\ sc <= ep /\ ep <= ec
                    BY <1>4, <2>1, <4>3
                <5>4. QED BY <1>5, <5>2, <5>3
            <4>4. CASE over /\ ~ (sp < sc)
                <5>1. c = Observed(Opposite(EndMoved(d)))
                    BY <2>2, <2>4, <4>4
                <5>2. c.observed = TRUE /\ v = 0 - (ec - ep)
                    BY <1>3, <5>1 DEF Observed
                <5> HIDE DEF v
                <5>3. sc <= sp /\ sp <= ec /\ ec <= ep /\ 0 - (ec - ep) = ep - ec
                    BY <1>4, <2>1, <2>4, <4>4
                <5>4. QED BY <1>5, <5>2, <5>3
            <4>5. QED BY <4>1, <4>2, <4>3, <4>4
        <3>2. QED BY <3>1 DEF c, v, rest, sp, ep, sc, ec, Minus
    <2>5. QED BY <2>3, <2>4
<1>9. QED BY <1>1, <1>6, <1>7, <1>8

LEMMA H2DIsExact ==
    ASSUME NEW prev \in [Dev -> Nat], NEW cur \in [Dev -> Nat], Whole(prev), Whole(cur), NEW d \in Dev
    PROVE  LET c     == getH2DConstraint(d, prev, cur)
               moved == (Start(cur, d) .. End(cur, d) - 1) \ (Start(prev, d) .. End(prev, d) - 1)
           IN  IF c.observed THEN Value(c.constraint, prev, cur) = Cardinality(moved) ELSE moved = {}
<1> DEFINE sp == Start(prev, d)
           ep == End(prev, d)
           sc == Start(cur, d)
           ec == End(cur, d)
           p == prev[d]
           q == cur[d]
           c == getH2DConstraint(d, prev, cur)
           v == Value(c.constraint, prev, cur)
           both == Plus(Opposite(StartMoved(d)), EndMoved(d))
           rest == Minus(sc, ec, sp, ep)
<1>1. /\ sp \in Nat /\ sc \in Nat /\ p \in Nat /\ q \in Nat /\ ep = sp + p /\ ec = sc + q
      /\ Edge(d) => (sp = 0 /\ sc = 0) \/ (ep = Unit /\ ec = Unit)
    <2>1. /\ sp \in Nat /\ p \in Nat /\ ep = sp + p /\ (d = 0 => sp = 0)
          /\ d = NbDevices - 1 => ep = Unit
        BY PartsOfWhole
    <2>2. /\ sc \in Nat /\ q \in Nat /\ ec = sc + q /\ (d = 0 => sc = 0)
          /\ d = NbDevices - 1 => ec = Unit
        BY PartsOfWhole
    <2> HIDE DEF sp, ep, sc, ec, p, q
    <2>3. QED BY <2>1, <2>2 DEF Edge
<1>2. prev \in [Dev -> Int] /\ cur \in [Dev -> Int]
    OBVIOUS
<1>3. /\ Value(EndMoved(d), prev, cur) = ec - ep
      /\ Value(Opposite(StartMoved(d)), prev, cur) = 0 - (sc - sp)
      /\ Value(both, prev, cur) = (ec - ep) - (sc - sp)
      /\ Value(Over({d}, -1, 1), prev, cur) = q - p
      /\ Value(Over({d}, 0, 1), prev, cur) = q
    BY <1>2, MovedValues
<1>4. /\ sp \in Int /\ ep \in Int /\ sc \in Int /\ ec \in Int /\ sp <= ep /\ sc <= ec
    BY <1>1
<1>5. /\ sp <= sc /\ ec <= ep => rest = {}
      /\ ec <= sp \/ ep <= sc \/ sp = ep => Cardinality(rest) = ec - sc
      /\ sc <= sp /\ ep <= ec => Cardinality(rest) = (sp - sc) + (ec - ep)
      /\ sc <= sp /\ sp <= ec /\ ec <= ep => Cardinality(rest) = sp - sc
      /\ sp <= sc /\ sc <= ep /\ ep <= ec => Cardinality(rest) = ec - ep
    <2> HIDE DEF sp, ep, sc, ec
    <2>1. QED BY SMTT(30), <1>4, IntervalMinus
<1>6. CASE q = 0
    <2>1. c = Unobserved(Zero)
        BY <1>6 DEF getH2DConstraint
    <2>2. rest = {}
        BY <1>1, <1>6 DEF Minus
    <2>3. QED BY <2>1, <2>2 DEF Unobserved, Minus
<1>7. CASE q > 0 /\ Edge(d)
    <2>1. c = [constraint |-> Over({d}, -1, 1), observed |-> q >= p]
        BY <1>1, <1>7 DEF getH2DConstraint
    <2>2. c.observed = (q >= p) /\ v = q - p
        BY <1>3, <2>1
    <2> HIDE DEF c, v, sp, ep, sc, ec, p, q
    <2>3. CASE q >= p
        <3>1. sc <= sp /\ ep <= ec /\ (sp - sc) + (ec - ep) = q - p
            BY <1>1, <1>7, <2>3, UnitAssumption
        <3>2. Cardinality(rest) = q - p
            <4> HIDE DEF rest
            <4>1. QED BY <1>5, <3>1
        <3>3. QED BY <2>2, <2>3, <3>2 DEF v, c, sp, ep, sc, ec, Minus
    <2>4. CASE ~ (q >= p)
        <3>1. sp <= sc /\ ec <= ep
            BY <1>1, <1>7, <2>4, UnitAssumption
        <3>2. rest = {}
            <4> HIDE DEF rest
            <4>1. QED BY <1>5, <3>1
        <3>3. QED BY <2>2, <2>4, <3>2 DEF c, sp, ep, sc, ec, Minus
    <2>5. QED BY <2>3, <2>4
<1>8. CASE q > 0 /\ ~ Edge(d)
    <2> DEFINE over == deviceOverlapBetweenKernels(d, prev, cur)
    <2>1. over <=> p > 0 /\ ep >= sc /\ ec >= sp
        BY <1>8 DEF deviceOverlapBetweenKernels
    <2>2. c = IF sp <= sc /\ ec <= ep THEN Unobserved(both)
              ELSE IF ~ over THEN Observed(Over({d}, 0, 1))
              ELSE IF sc < sp /\ ep < ec THEN Observed(both)
              ELSE IF ep < ec THEN Observed(EndMoved(d))
              ELSE Observed(Opposite(StartMoved(d)))
        BY <1>1, <1>8 DEF getH2DConstraint
    <2> HIDE DEF c, sp, ep, sc, ec, p, q, over, both, rest
    <2>3. CASE sp <= sc /\ ec <= ep
        <3>1. c.observed = FALSE
            BY <2>2, <2>3 DEF Unobserved
        <3>2. rest = {}
            BY <1>5, <2>3
        <3>3. QED BY <3>1, <3>2 DEF c, rest, sp, ep, sc, ec, Minus
    <2>4. CASE ~ (sp <= sc /\ ec <= ep)
        <3>1. c.observed = TRUE /\ v = Cardinality(rest)
            <4>1. CASE ~ over
                <5>1. c = Observed(Over({d}, 0, 1))
                    BY <2>2, <2>4, <4>1
                <5>2. c.observed = TRUE /\ v = q
                    BY <1>3, <5>1 DEF Observed
                <5>3. (ec <= sp \/ ep <= sc \/ sp = ep) /\ q = ec - sc
                    BY <1>1, <2>1, <4>1
                <5> HIDE DEF v
                <5>4. QED BY <1>5, <5>2, <5>3
            <4>2. CASE over /\ sc < sp /\ ep < ec
                <5>1. c = Observed(both)
                    BY <2>2, <2>4, <4>2
                <5>2. c.observed = TRUE /\ v = (ec - ep) - (sc - sp)
                    BY <1>3, <5>1 DEF Observed
                <5> HIDE DEF v
                <5>3. sc <= sp /\ ep <= ec /\ (ec - ep) - (sc - sp) = (sp - sc) + (ec - ep)
                    BY <1>4, <4>2
                <5>4. QED BY <1>5, <5>2, <5>3
            <4>3. CASE over /\ ep < ec /\ ~ (sc < sp)
                <5>1. c = Observed(EndMoved(d))
                    BY <2>2, <2>4, <4>3
                <5>2. c.observed = TRUE /\ v = ec - ep
                    BY <1>3, <5>1 DEF Observed
                <5> HIDE DEF v
                <5>3. sp <= sc /\ sc <= ep /\ ep <= ec
                    BY <1>4, <2>1, <4>3
                <5>4. QED BY <1>5, <5>2, <5>3
            <4>4. CASE over /\ ~ (ep < ec)
                <5>1. c = Observed(Opposite(StartMoved(d)))
                    BY <2>2, <2>4, <4>4
                <5>2. c.observed = TRUE /\ v = 0 - (sc - sp)
                    BY <1>3, <5>1 DEF Observed
                <5> HIDE DEF v
                <5>3. sc <= sp /\ sp <= ec /\ ec <= ep /\ 0 - (sc - sp) = sp - sc
                    BY <1>4, <2>1, <2>4, <4>4
                <5>4. QED BY <1>5, <5>2, <5>3
            <4>5. QED BY <4>1, <4>2, <4>3, <4>4
        <3>2. QED BY <3>1 DEF c, v, rest, sp, ep, sc, ec, Minus
    <2>5. QED BY <2>3, <2>4
<1>9. QED BY <1>1, <1>6, <1>7, <1>8

\* What is kept of a launched kernel amounts to a share for each device.
LEMMA ReportedIs ==
    ASSUME PartitionInv, \A k \in KerId : Known(k)
    PROVE  \A k \in KerId : Reported[k] \in [Dev -> Nat]
<1> SUFFICES ASSUME NEW k \in KerId PROVE Vector(info[k].real) \in [Dev -> Nat]
    BY DEF Reported
<1> DEFINE real == info[k].real
           m == Len(real)
           At(d) == {i \in DOMAIN real : real[i].dev = d}
<1>1. Parts(real, info[k].wgs)
    BY DEF PartitionInv, Recorded, Runs, Known
<1>2. real \in Seq(Piece) /\ m \in Nat /\ DOMAIN real = 1 .. m /\ \A a \in 1 .. m : real[a].share > 0
    BY <1>1 DEF Parts
<1>3. \A a \in 1 .. m : real[a].share \in Nat
    <2>1. \A a \in 1 .. m : real[a] \in Piece
        BY <1>2
    <2> HIDE DEF real, m
    <2>2. QED BY <1>2, <2>1 DEF Piece
<1> HIDE DEF real, m
<1>4. ASSUME NEW d \in Dev PROVE (IF At(d) = {} THEN 0 ELSE real[Max(At(d))].share) \in Nat
    <2>1. CASE At(d) # {}
        <3>1. At(d) \in (SUBSET (1 .. m)) \ {{}}
            BY <1>2, <2>1
        <3> HIDE DEF At
        <3>2. Max(At(d)) \in At(d)
            BY <1>2, <3>1, MaxIs
        <3>3. QED BY <1>3, <2>1, <3>1, <3>2
    <2>2. QED BY <2>1
<1>5. Vector(real) = [d \in Dev |-> IF At(d) = {} THEN 0 ELSE real[Max(At(d))].share]
    BY DEF Vector
<1> HIDE DEF At
<1>6. QED BY <1>4, <1>5 DEF real

\* A constraint is worth, for the partitions it was made of, what the device
\* has to send or receive; none is left out where that is not nothing.
THEOREM ConstraintsAreExact ==
    ASSUME OptionsArePartitions
    PROVE  Spec => []ConstraintsMeasureTraffic
<1>1. ASSUME PartitionInv PROVE ConstraintsMeasureTraffic
    <2> DEFINE PartOf(k, d) == Start(Reported[k], d) .. End(Reported[k], d) - 1
               Exact(point, moved) ==
                 IF point.observed THEN point.x = Cardinality(moved) ELSE moved = {}
    <2> SUFFICES ASSUME AboutToConsult, NEW to \in KerId, NEW from \in KerId, NEW d \in Dev,
                        Whole(Reported[to]), Whole(Reported[from])
                 PROVE  /\ Exact(Point("D2H", to, from, d), PartOf(from, d) \ PartOf(to, d))
                        /\ Exact(Point("H2D", to, from, d), PartOf(to, d) \ PartOf(from, d))
        BY DEF ConstraintsMeasureTraffic
    <2> DEFINE prev == Reported[from]
               cur == Reported[to]
               out == getD2HConstraint(d, prev, cur)
               in == getH2DConstraint(d, prev, cur)
    <2>1. prev \in [Dev -> Nat] /\ cur \in [Dev -> Nat]
        BY <1>1, ReportedIs DEF AboutToConsult
    <2>2. prev = Vector(info[from].real) /\ cur = Vector(info[to].real)
        BY DEF Reported
    <2>3. /\ Point("D2H", to, from, d) = [observed |-> out.observed, x |-> Value(out.constraint, prev, cur)]
          /\ Point("H2D", to, from, d) = [observed |-> in.observed, x |-> Value(in.constraint, prev, cur)]
        BY <2>2 DEF Point
    <2>4. PartOf(from, d) = Start(prev, d) .. End(prev, d) - 1 /\ PartOf(to, d) = Start(cur, d) .. End(cur, d) - 1
        OBVIOUS
    <2>5. /\ IF out.observed THEN Value(out.constraint, prev, cur) = Cardinality(PartOf(from, d) \ PartOf(to, d))
                             ELSE PartOf(from, d) \ PartOf(to, d) = {}
          /\ IF in.observed THEN Value(in.constraint, prev, cur) = Cardinality(PartOf(to, d) \ PartOf(from, d))
                            ELSE PartOf(to, d) \ PartOf(from, d) = {}
        <3> HIDE DEF prev, cur
        <3>1. Whole(prev) /\ Whole(cur)
            BY DEF prev, cur
        <3>2. QED BY <2>1, <2>4, <3>1, D2HIsExact, H2DIsExact
    <2> HIDE DEF prev, cur, out, in, PartOf
    <2>6. QED BY <2>3, <2>5
<1>2. QED BY <1>1, PartitionInvHolds, PTL

-----------------------------------------------------------------------------
(* What the rows of a transfer charge a device.                            *)

\* The terms of the row of t = <<"left" or "right", dir, cur, prev, dev>> on the
\* shares of device i, and the devices the row is about: the first ones.
Sides == {"left", "right"} \X Directions \X KerId \X KerId \X Dev
Sign(t) == IF t[1] = "left" THEN 1 ELSE -1
OwnCol(t) == CommCol(t[1], t[2], t[3], t[4], t[5])
OwnRow(t) == CommRow(t[1], t[2], t[3], t[4], t[5])
CurTerm(t, i) == Entry(t, <<"cur", i>>, OwnRow(t), gr_col(t[3], i), Sign(t))
PrevTerm(t, i) == Entry(t, <<"prev", i>>, OwnRow(t), gr_col(t[4], i), -Sign(t))
FirstTerms(t, n) == {CurTerm(t, i) : i \in 0 .. n - 1} \cup {PrevTerm(t, i) : i \in 0 .. n - 1}
NbTerms(t) == IF t[1] = "left" THEN t[5] ELSE t[5] + 1
RowOf(M, t) == {e \in M : e.of = t /\ e.col # OwnCol(t)}

LEMMA SideParts ==
    ASSUME NEW t \in Sides
    PROVE  /\ t = <<t[1], t[2], t[3], t[4], t[5]>> /\ t[1] \in {"left", "right"} /\ t[2] \in Directions
           /\ t[3] \in KerId /\ t[4] \in KerId /\ t[5] \in Dev
           /\ NbTerms(t) \in 0 .. NbDevices /\ 0 .. NbTerms(t) - 1 \subseteq Dev
           /\ Sign(t) \in {-1, 1}
<1>1. /\ t = <<t[1], t[2], t[3], t[4], t[5]>> /\ t[1] \in {"left", "right"} /\ t[2] \in Directions
      /\ t[3] \in KerId /\ t[4] \in KerId /\ t[5] \in Dev
    BY DEF Sides
<1>2. NbTerms(t) \in 0 .. NbDevices /\ 0 .. NbTerms(t) - 1 \subseteq Dev
    BY <1>1, DevicesAssumption DEF NbTerms, Dev
<1>3. QED BY <1>1, <1>2 DEF Sign

LEMMA SideRowIs ==
    ASSUME NEW t \in Sides, NEW e
    PROVE  e \in SideRow(t[1], t[2], t[3], t[4], t[5]) /\ e.col # OwnCol(t) <=>
             e \in FirstTerms(t, NbTerms(t))
<1> DEFINE n == NbTerms(t)
           own == Entry(t, t[1], OwnRow(t), OwnCol(t), -1)
           ds == IF t[1] = "left" THEN 0 .. t[5] - 1 ELSE 0 .. t[5]
<1>1. /\ t = <<t[1], t[2], t[3], t[4], t[5]>> /\ t[1] \in {"left", "right"} /\ t[2] \in Directions
      /\ t[3] \in KerId /\ t[4] \in KerId /\ t[5] \in Dev
      /\ n \in 0 .. NbDevices /\ 0 .. n - 1 \subseteq Dev
    BY SideParts
<1>2. ds = 0 .. n - 1
    BY <1>1, DevicesAssumption DEF NbTerms, Dev
<1>3. SideRow(t[1], t[2], t[3], t[4], t[5]) =
        {CurTerm(t, i) : i \in ds} \cup {PrevTerm(t, i) : i \in ds} \cup {own}
    BY <1>1 DEF SideRow, CurTerm, PrevTerm, Sign, OwnRow, OwnCol
<1>4. own.col = OwnCol(t)
    BY DEF Entry
<1>5. ASSUME NEW i \in 0 .. n - 1
      PROVE  CurTerm(t, i).col # OwnCol(t) /\ PrevTerm(t, i).col # OwnCol(t)
    <2>1. NbShares \in Nat /\ FirstCommCol \in Nat /\ nbCols \in Nat /\ NbShares < FirstCommCol
        BY CycleAssumption, DevicesAssumption DEF NbShares, FirstCommCol, nbCols, Cube
    <2>2. OwnCol(t) \in FirstCommCol .. nbCols
        BY <1>1, CommCols DEF OwnCol, Kinds
    <2>3. gr_col(t[3], i) \in 1 .. NbShares /\ gr_col(t[4], i) \in 1 .. NbShares
        BY <1>1, ShareCols
    <2>4. CurTerm(t, i).col = gr_col(t[3], i) /\ PrevTerm(t, i).col = gr_col(t[4], i)
        BY DEF CurTerm, PrevTerm, Entry
    <2>5. QED BY <2>1, <2>2, <2>3, <2>4
<1> HIDE DEF own, n, ds
<1>6. FirstTerms(t, n) = {CurTerm(t, i) : i \in 0 .. n - 1} \cup {PrevTerm(t, i) : i \in 0 .. n - 1}
    BY DEF FirstTerms
<1>7. QED BY <1>2, <1>3, <1>4, <1>5, <1>6 DEF n

LEMMA RowIs ==
    ASSUME NEW perf, NEW kernelGr, NEW c, NEW t \in Sides, t[3] # t[4], c[t[2]][t[3]][t[4]][t[5]] # 0
    PROVE  RowOf(updateGlpMatrix(perf, kernelGr, c), t) = FirstTerms(t, NbTerms(t))
<1> DEFINE M == updateGlpMatrix(perf, kernelGr, c)
           S == SideRow(t[1], t[2], t[3], t[4], t[5])
<1>1. /\ t = <<t[1], t[2], t[3], t[4], t[5]>> /\ t[1] \in {"left", "right"} /\ t[2] \in Directions
      /\ t[3] \in KerId /\ t[4] \in KerId /\ t[5] \in Dev
    BY SideParts
<1>2. ASSUME NEW e \in M, e.of = t PROVE e \in S
    <2>1. t \in CommOfs
        BY <1>1 DEF CommOfs, CommNames, Sides
    <2>2. ~ \E i \in KerId, j \in Dev : e \in KernelRows(i, j, perf[i][j], kernelGr[i][j])
        <3> SUFFICES ASSUME NEW i \in KerId, NEW j \in Dev,
                            e \in KernelRows(i, j, perf[i][j], kernelGr[i][j])
                     PROVE  FALSE
            OBVIOUS
        <3> DEFINE p == perf[i][j]
                   g == kernelGr[i][j]
        <3>1. e \in KernelRows(i, j, p, g)
            OBVIOUS
        <3> HIDE DEF p, g
        <3>2. e.of \in KernelOfs
            BY <3>1, KernelEntries DEF InKernelRow
        <3>3. QED BY <1>2, <2>1, <3>2, OfsApart
    <2>3. PICK dir \in Directions, cur \in KerId, prev \in KerId, dev \in Dev :
               cur # prev /\ e \in CommEntriesOf(dir, cur, prev, dev, c[dir][cur][prev][dev])
        BY <2>2, Terms
    <2>4. dir = t[2] /\ cur = t[3] /\ prev = t[4] /\ dev = t[5]
        BY <1>2, <2>3, CommEntries
    <2> DEFINE v == c[dir][cur][prev][dev]
    <2>5. e \in CommEntriesOf(dir, cur, prev, dev, v)
        BY <2>3
    <2> HIDE DEF v
    <2>6. e \in SideRow(t[1], dir, cur, prev, dev)
        BY <1>1, <1>2, <2>5, CommTermOf
    <2>7. QED BY <2>4, <2>6
<1>3. ASSUME NEW e \in S PROVE e \in M /\ e.of = t
    <2>1. e.of = t
        BY <1>1, <1>3 DEF SideRow, Entry
    <2>2. e \in CommRows(t[2], t[3], t[4], t[5], c[t[2]][t[3]][t[4]][t[5]])
        BY <1>1, <1>3 DEF CommRows
    <2> DEFINE C(dir, cur, prev, dev) == CommRows(dir, cur, prev, dev, c[dir][cur][prev][dev])
    <2>3. M = (UNION {KernelRows(i, j, perf[i][j], kernelGr[i][j]) : i \in KerId, j \in Dev})
                 \cup (UNION {C(dir, cur, prev, dev) : dir \in Directions, cur \in KerId,
                                                       prev \in KerId, dev \in Dev})
        BY DEF updateGlpMatrix
    <2>4. e \in C(t[2], t[3], t[4], t[5])
        BY <2>2
    <2> HIDE DEF C, M
    <2>5. QED BY <1>1, <2>1, <2>3, <2>4
<1> HIDE DEF M, S
<1>4. RowOf(M, t) = {e \in S : e.col # OwnCol(t)}
    BY <1>2, <1>3 DEF RowOf
<1>5. \A e : e \in S /\ e.col # OwnCol(t) <=> e \in FirstTerms(t, NbTerms(t))
    BY SideRowIs DEF S
<1>6. RowOf(M, t) = FirstTerms(t, NbTerms(t))
    BY <1>4, <1>5
<1>7. QED BY <1>6 DEF M

\* The sum of the terms, each with the share its column stands for.
LEMMA RowSum ==
    ASSUME NEW t \in Sides, t[3] # t[4], NEW x \in [Dev -> Int], NEW y \in [Dev -> Int],
           NEW f, \A i \in 0 .. NbTerms(t) - 1 : /\ f[CurTerm(t, i)] = Sign(t) * x[i]
                                                 /\ f[PrevTerm(t, i)] = (-Sign(t)) * y[i]
    PROVE  SumFunctionOnSet(f, FirstTerms(t, NbTerms(t))) =
             Sign(t) * (Start(x, NbTerms(t)) - Start(y, NbTerms(t)))
<1> DEFINE N == NbTerms(t)
           s == Sign(t)
           R(n) == FirstTerms(t, n)
           g == [n \in 0 .. N |-> SumFunctionOnSet(f, R(n))]
           h == [n \in 0 .. N |-> s * (Start(x, n) - Start(y, n))]
<1>1. /\ t[3] \in KerId /\ t[4] \in KerId /\ N \in 0 .. NbDevices /\ 0 .. N - 1 \subseteq Dev
      /\ s \in {-1, 1} /\ N \in Nat /\ NbDevices \in Nat
    BY SideParts, DevicesAssumption
<1>a. \A i \in 0 .. N - 1 : f[CurTerm(t, i)] = s * x[i] /\ f[PrevTerm(t, i)] = (-s) * y[i]
    OBVIOUS
<1> HIDE DEF N
<1>2. \A i \in 0 .. N - 1, j \in 0 .. N - 1 :
         /\ CurTerm(t, i) = CurTerm(t, j) => i = j
         /\ PrevTerm(t, i) = PrevTerm(t, j) => i = j
         /\ CurTerm(t, i) # PrevTerm(t, j)
    <2> SUFFICES ASSUME NEW i \in 0 .. N - 1, NEW j \in 0 .. N - 1
                 PROVE  /\ CurTerm(t, i) = CurTerm(t, j) => i = j
                        /\ PrevTerm(t, i) = PrevTerm(t, j) => i = j
                        /\ CurTerm(t, i) # PrevTerm(t, j)
        OBVIOUS
    <2>1. i \in Dev /\ j \in Dev
        BY <1>1
    <2>2. /\ CurTerm(t, i).col = gr_col(t[3], i) /\ CurTerm(t, j).col = gr_col(t[3], j)
          /\ PrevTerm(t, i).col = gr_col(t[4], i) /\ PrevTerm(t, j).col = gr_col(t[4], j)
        BY DEF CurTerm, PrevTerm, Entry
    <2>3. /\ gr_col(t[3], i) = gr_col(t[3], j) => i = j
          /\ gr_col(t[4], i) = gr_col(t[4], j) => i = j
          /\ gr_col(t[3], i) # gr_col(t[4], j)
        BY <1>1, <2>1, ShareCols
    <2>4. QED BY <2>2, <2>3
<1>3. ASSUME NEW n \in 0 .. N
      PROVE  IsFiniteSet(R(n)) /\ \A e \in R(n) : f[e] \in Int
    <2> DEFINE A == {CurTerm(t, i) : i \in 0 .. n - 1}
               B == {PrevTerm(t, i) : i \in 0 .. n - 1}
    <2>1. IsFiniteSet(0 .. n - 1)
        BY FS_Interval
    <2>2. IsFiniteSet(A) /\ IsFiniteSet(B)
        <3> DEFINE fa == [i \in 0 .. n - 1 |-> CurTerm(t, i)]
                   fb == [i \in 0 .. n - 1 |-> PrevTerm(t, i)]
        <3>1. fa \in Surjection(0 .. n - 1, A) /\ fb \in Surjection(0 .. n - 1, B)
            BY DEF Surjection
        <3> HIDE DEF fa, fb, A, B
        <3>2. QED BY <2>1, <3>1, FS_Surjection
    <2>3. R(n) = A \cup B
        BY DEF FirstTerms
    <2>4. \A i \in 0 .. n - 1 : /\ i \in 0 .. N - 1 /\ x[i] \in Int /\ y[i] \in Int
                                /\ s * x[i] \in Int /\ (-s) * y[i] \in Int
        <3> SUFFICES ASSUME NEW i \in 0 .. n - 1
                     PROVE  /\ i \in 0 .. N - 1 /\ x[i] \in Int /\ y[i] \in Int
                            /\ s * x[i] \in Int /\ (-s) * y[i] \in Int
            OBVIOUS
        <3>1. i \in 0 .. N - 1 /\ i \in Dev
            BY <1>1
        <3>2. x[i] \in Int /\ y[i] \in Int /\ s \in Int
            BY <1>1, <3>1
        <3> HIDE DEF s
        <3>3. QED BY <3>1, <3>2
    <2>5. \A e \in A \cup B : f[e] \in Int
        <3>1. \A i \in 0 .. n - 1 : f[CurTerm(t, i)] \in Int /\ f[PrevTerm(t, i)] \in Int
            BY <1>a, <2>4
        <3>2. QED BY <3>1
    <2>6. IsFiniteSet(A \cup B)
        BY <2>2, FS_Union
    <2>7. QED BY <2>3, <2>5, <2>6
<1>4. R(0) = {}
    BY DEF FirstTerms
<1>5. ASSUME NEW n \in 0 .. N - 1
      PROVE  SumFunctionOnSet(f, R(n + 1)) = s * x[n] + ((-s) * y[n] + SumFunctionOnSet(f, R(n)))
    <2> DEFINE p == CurTerm(t, n)
               q == PrevTerm(t, n)
               U == R(n + 1) \ {p}
    <2>1. n + 1 \in 0 .. N /\ n \in 0 .. N /\ (\A i : i \in 0 .. (n + 1) - 1 <=> i \in 0 .. n - 1 \/ i = n)
          /\ n \notin 0 .. n - 1
        BY <1>1
    <2>2. \A i \in 0 .. n - 1 : i \in 0 .. N - 1
        BY <1>1
    <2>3. R(n + 1) = R(n) \cup {p, q}
        BY <2>1 DEF FirstTerms
    <2>4. p \notin R(n) /\ q \notin R(n) /\ p # q
        BY <1>2, <2>1, <2>2 DEF FirstTerms
    <2> DEFINE big == R(n + 1)
               low == R(n)
    <2>5. IsFiniteSet(big) /\ \A e \in big : f[e] \in Int
        <3>1. \A m \in 0 .. N : IsFiniteSet(R(m)) /\ \A e \in R(m) : f[e] \in Int
            BY <1>3
        <3> HIDE DEF R
        <3>2. QED BY <2>1, <3>1
    <2> HIDE DEF p, q, R, s
    <2>6. p \in big /\ q \in U /\ U \ {q} = low
        BY <2>3, <2>4
    <2>7. IsFiniteSet(U) /\ \A e \in U : f[e] \in Int
        BY <2>5, FS_Subset
    <2> HIDE DEF big, low, U
    <2>8. /\ SumFunctionOnSet(f, big) = f[p] + SumFunctionOnSet(f, big \ {p})
          /\ SumFunctionOnSet(f, U) = f[q] + SumFunctionOnSet(f, U \ {q})
        BY <2>5, <2>6, <2>7, SumIs
    <2>9. f[p] = s * x[n] /\ f[q] = (-s) * y[n]
        BY <1>a DEF p, q
    <2>10. QED BY <2>6, <2>8, <2>9 DEF U, big, low
<1>6. /\ Start(x, 0) = 0 /\ Start(y, 0) = 0
      /\ \A d \in 0 .. NbDevices : Start(x, d) \in Int /\ Start(y, d) \in Int
      /\ \A d \in Dev : Start(x, d + 1) = Start(x, d) + x[d] /\ Start(y, d + 1) = Start(y, d) + y[d]
    BY StartIs
<1>7. ASSUME NEW n \in 0 .. N PROVE g[n] \in Int /\ h[n] \in Int
    <2>1. IsFiniteSet(R(n)) /\ \A e \in R(n) : f[e] \in Int
        BY <1>3
    <2> HIDE DEF R, s
    <2>2. g[n] \in Int
        BY <2>1, SumIs
    <2>3. n \in 0 .. NbDevices
        BY <1>1
    <2>4. h[n] \in Int
        BY <1>1, <1>6, <2>3
    <2>5. QED BY <2>2, <2>4
<1>8. g[0] = h[0]
    <2>1. g[0] = SumFunctionOnSet(f, {}) /\ 0 \in 0 .. N
        <3>1. 0 \in 0 .. N
            BY <1>1
        <3> HIDE DEF R
        <3>2. QED BY <1>4, <3>1
    <2>2. SumFunctionOnSet(f, {}) = 0
        <3>1. IsFiniteSet({}) /\ \A e \in {} : f[e] \in Int
            BY FS_EmptySet
        <3>2. QED BY <3>1, SumIs
    <2>3. h[0] = s * (0 - 0)
        BY <1>6, <2>1
    <2> HIDE DEF g, h
    <2>4. QED BY <1>1, <2>1, <2>2, <2>3
<1>9. ASSUME NEW n \in 0 .. N - 1 PROVE g[n + 1] - g[n] = h[n + 1] - h[n]
    <2>1. n \in 0 .. N /\ n + 1 \in 0 .. N /\ n \in Dev /\ n \in 0 .. NbDevices
        BY <1>1
    <2> DEFINE a == Start(x, n)
               b == Start(y, n)
               u == x[n]
               v == y[n]
               z == SumFunctionOnSet(f, R(n))
    <2>2. a \in Int /\ b \in Int /\ u \in Int /\ v \in Int
        BY <1>6, <2>1
    <2>3. g[n] = z /\ g[n + 1] = s * u + ((-s) * v + z) /\ z \in Int
        <3>1. g[n] = z /\ g[n + 1] = SumFunctionOnSet(f, R(n + 1))
            BY <2>1
        <3>2. z \in Int
            BY <1>7, <2>1
        <3> HIDE DEF R, s
        <3>3. QED BY <1>5, <3>1, <3>2
    <2>4. h[n] = s * (a - b) /\ h[n + 1] = s * ((a + u) - (b + v))
        BY <1>6, <2>1
    <2> HIDE DEF a, b, u, v, z, g, h, s
    <2>5. CASE s = 1
        BY <2>2, <2>3, <2>4, <2>5
    <2>6. CASE s = -1
        BY <2>2, <2>3, <2>4, <2>6
    <2>7. QED BY <1>1, <2>5, <2>6
<1> HIDE DEF g, h, R
<1>10. g[N] = h[N]
    <2>1. QED BY <1>1, <1>7, <1>8, <1>9, UpTo
<1>11. N \in 0 .. N
    BY <1>1
<1>12. QED BY <1>10, <1>11 DEF g, h, R, N

\* The share that a column stands for.
ShareAt(gr, cur, prev, col) ==
    LET at == {p \in {cur, prev} \X Dev : gr_col(p[1], p[2]) = col}
    IN  SumFunctionOnSet([p \in at |-> gr[p[1]][p[2]]], at)

LEMMA ShareAtIs ==
    ASSUME NEW cur \in KerId, NEW prev \in KerId, NEW k \in {cur, prev}, NEW i \in Dev,
           NEW gr, gr[k] \in [Dev -> Int]
    PROVE  ShareAt(gr, cur, prev, gr_col(k, i)) = gr[k][i]
<1> DEFINE at == {p \in {cur, prev} \X Dev : gr_col(p[1], p[2]) = gr_col(k, i)}
           f == [p \in at |-> gr[p[1]][p[2]]]
           one == <<k, i>>
<1>1. at = {one}
    <2>1. \A a \in KerId, b \in Dev : gr_col(k, i) = gr_col(a, b) => k = a /\ i = b
        BY ShareCols
    <2>2. QED BY <2>1
<1>2. f[one] = gr[k][i] /\ gr[k][i] \in Int
    BY <1>1
<1> HIDE DEF at, f, one
<1>3. IsFiniteSet(at) /\ \A x \in at : f[x] \in Int
    BY <1>1, <1>2, FS_Singleton
<1>4. SumFunctionOnSet(f, at) = f[one] + SumFunctionOnSet(f, at \ {one})
    BY <1>1, <1>3, SumIs
<1>5. SumFunctionOnSet(f, at \ {one}) = 0
    <2>1. at \ {one} = {}
        BY <1>1
    <2>2. QED BY <1>3, <2>1, SumIs
<1>6. SumFunctionOnSet(f, at) = gr[k][i]
    BY <1>2, <1>4, <1>5
<1>7. QED BY <1>6 DEF ShareAt, f, at

NotBelow0(x) == IF x > 0 THEN x ELSE 0
LEMMA MaxWith0 ==
    ASSUME NEW x \in Int
    PROVE  Max({0, x}) = NotBelow0(x)
<1>1. CASE x > 0
    <2>1. x \in {0, x} /\ \A y \in {0, x} : x >= y
        BY <1>1
    <2>2. \A z \in {0, x} : (\A y \in {0, x} : z >= y) => z = x
        BY <1>1
    <2>3. Max({0, x}) = x
        BY <2>1, <2>2 DEF Max
    <2>4. QED BY <1>1, <2>3 DEF NotBelow0
<1>2. CASE ~ (x > 0)
    <2>1. 0 \in {0, x} /\ \A y \in {0, x} : 0 >= y
        BY <1>2
    <2>2. \A z \in {0, x} : (\A y \in {0, x} : z >= y) => z = 0
        BY <1>2
    <2>3. Max({0, x}) = 0
        BY <2>1, <2>2 DEF Max
    <2>4. QED BY <1>2, <2>3 DEF NotBelow0
<1>3. QED BY <1>1, <1>2

\* The left and the right hand side of a row.
LEMMA RowCharge ==
    ASSUME NEW M, NEW t \in Sides, t[3] # t[4], RowOf(M, t) = FirstTerms(t, NbTerms(t)),
           NEW gr, gr[t[3]] \in [Dev -> Int], gr[t[4]] \in [Dev -> Int]
    PROVE  SumFunction([e \in RowOf(M, t) |-> e.val * ShareAt(gr, t[3], t[4], e.col)]) =
             Sign(t) * (Start(gr[t[3]], NbTerms(t)) - Start(gr[t[4]], NbTerms(t)))
<1> DEFINE n == NbTerms(t)
           f == [e \in RowOf(M, t) |-> e.val * ShareAt(gr, t[3], t[4], e.col)]
<1>1. t[3] \in KerId /\ t[4] \in KerId /\ 0 .. n - 1 \subseteq Dev
    BY SideParts
<1>2. RowOf(M, t) = FirstTerms(t, n)
    OBVIOUS
<1> HIDE DEF n
<1>3. ASSUME NEW i \in 0 .. n - 1
      PROVE  f[CurTerm(t, i)] = Sign(t) * gr[t[3]][i] /\ f[PrevTerm(t, i)] = (-Sign(t)) * gr[t[4]][i]
    <2>1. CurTerm(t, i) \in RowOf(M, t) /\ PrevTerm(t, i) \in RowOf(M, t)
        BY <1>2 DEF FirstTerms
    <2>2. /\ CurTerm(t, i).val = Sign(t) /\ CurTerm(t, i).col = gr_col(t[3], i)
          /\ PrevTerm(t, i).val = -Sign(t) /\ PrevTerm(t, i).col = gr_col(t[4], i)
        BY DEF CurTerm, PrevTerm, Entry
    <2>3. /\ ShareAt(gr, t[3], t[4], gr_col(t[3], i)) = gr[t[3]][i]
          /\ ShareAt(gr, t[3], t[4], gr_col(t[4], i)) = gr[t[4]][i]
        BY <1>1, ShareAtIs
    <2>4. QED BY <2>1, <2>2, <2>3
<1> HIDE DEF f
<1>4. SumFunctionOnSet(f, FirstTerms(t, n)) =
        Sign(t) * (Start(gr[t[3]], n) - Start(gr[t[4]], n))
    BY <1>3, RowSum DEF n
<1>5. SumFunction(f) = SumFunctionOnSet(f, RowOf(M, t))
    <2>1. DOMAIN f = RowOf(M, t)
        BY DEF f
    <2>2. QED BY <2>1 DEF SumFunction
<1>6. QED BY <1>2, <1>4, <1>5 DEF f, n

CoefOf(c, dir, cur, prev, dev) == c[dir][cur][prev][dev]

LEMMA ChargedIs ==
    ASSUME NEW perf, NEW kernelGr, NEW c,
           NEW dir \in Directions, NEW cur \in KerId, NEW prev \in KerId, NEW dev \in Dev,
           cur # prev, CoefOf(c, dir, cur, prev, dev) # 0,
           NEW gr, gr[cur] \in [Dev -> Int], gr[prev] \in [Dev -> Int]
    PROVE  Charged(updateGlpMatrix(perf, kernelGr, c), dir, cur, prev, dev, gr) =
             NotBelow0(Start(gr[cur], dev) - Start(gr[prev], dev))
               + NotBelow0(End(gr[prev], dev) - End(gr[cur], dev))
<1> DEFINE M == updateGlpMatrix(perf, kernelGr, c)
           l == <<"left", dir, cur, prev, dev>>
           r == <<"right", dir, cur, prev, dev>>
           Sum(t) == SumFunction([e \in RowOf(M, t) |-> e.val * ShareAt(gr, cur, prev, e.col)])
<1>1. /\ l \in Sides /\ l[1] = "left" /\ l[2] = dir /\ l[3] = cur /\ l[4] = prev /\ l[5] = dev
      /\ r \in Sides /\ r[1] = "right" /\ r[2] = dir /\ r[3] = cur /\ r[4] = prev /\ r[5] = dev
    BY DEF Sides
<1>2. /\ OwnCol(l) = CommCol("left", dir, cur, prev, dev)
      /\ OwnCol(r) = CommCol("right", dir, cur, prev, dev)
      /\ NbTerms(l) = dev /\ NbTerms(r) = dev + 1 /\ Sign(l) = 1 /\ Sign(r) = -1
    BY <1>1 DEF OwnCol, NbTerms, Sign
<1>3. Charged(M, dir, cur, prev, dev, gr) = Max({0, Sum(l)}) + Max({0, Sum(r)})
    <2>1. /\ RowOf(M, l) = {e \in M : /\ e.of = <<"left", dir, cur, prev, dev>>
                                      /\ e.col # CommCol("left", dir, cur, prev, dev)}
          /\ RowOf(M, r) = {e \in M : /\ e.of = <<"right", dir, cur, prev, dev>>
                                      /\ e.col # CommCol("right", dir, cur, prev, dev)}
        BY <1>2 DEF RowOf
    <2>2. QED BY <2>1 DEF Charged, ShareAt
<1> HIDE DEF l, r, M
<1>4. /\ Sum(l) = 1 * (Start(gr[cur], dev) - Start(gr[prev], dev))
      /\ Sum(r) = (-1) * (Start(gr[cur], dev + 1) - Start(gr[prev], dev + 1))
    <2>1. ASSUME NEW t \in {l, r}
          PROVE  Sum(t) = Sign(t) * (Start(gr[cur], NbTerms(t)) - Start(gr[prev], NbTerms(t)))
        <3>1. /\ t \in Sides /\ t[2] = dir /\ t[3] = cur /\ t[4] = prev /\ t[5] = dev
            BY <1>1
        <3>2. /\ t[3] # t[4] /\ c[t[2]][t[3]][t[4]][t[5]] # 0
              /\ gr[t[3]] \in [Dev -> Int] /\ gr[t[4]] \in [Dev -> Int]
            BY <3>1 DEF CoefOf
        <3>a. RowOf(M, t) = FirstTerms(t, NbTerms(t))
            <4>1. RowOf(updateGlpMatrix(perf, kernelGr, c), t) = FirstTerms(t, NbTerms(t))
                BY <3>1, <3>2, RowIs
            <4>2. QED BY <4>1 DEF M
        <3>3. SumFunction([e \in RowOf(M, t) |-> e.val * ShareAt(gr, t[3], t[4], e.col)]) =
                Sign(t) * (Start(gr[t[3]], NbTerms(t)) - Start(gr[t[4]], NbTerms(t)))
            BY <3>1, <3>2, <3>a, RowCharge
        <3>4. QED BY <3>1, <3>3
    <2> HIDE DEF Sum
    <2>2. QED BY <1>2, <2>1
<1>5. /\ Start(gr[cur], dev + 1) = End(gr[cur], dev) /\ Start(gr[prev], dev + 1) = End(gr[prev], dev)
      /\ Start(gr[cur], dev) \in Int /\ Start(gr[prev], dev) \in Int
      /\ End(gr[cur], dev) \in Int /\ End(gr[prev], dev) \in Int
    <2>1. dev \in 0 .. NbDevices /\ dev + 1 \in 0 .. NbDevices
        BY DevicesAssumption DEF Dev
    <2>2. QED BY <2>1, StartIs DEF End
<1> HIDE DEF Sum
<1>6. /\ Sum(l) = Start(gr[cur], dev) - Start(gr[prev], dev) /\ Sum(l) \in Int
      /\ Sum(r) = End(gr[prev], dev) - End(gr[cur], dev) /\ Sum(r) \in Int
    BY <1>4, <1>5
<1>7. Max({0, Sum(l)}) = NotBelow0(Sum(l)) /\ Max({0, Sum(r)}) = NotBelow0(Sum(r))
    BY <1>6, MaxWith0
<1>8. QED BY <1>3, <1>6, <1>7 DEF M

LEMMA VectorIs ==
    ASSUME NEW w, NEW real, Parts(real, w), NEW d \in Dev
    PROVE  /\ (\A i \in 1 .. Len(real) : real[i].dev # d) => Vector(real)[d] = 0
           /\ \A i \in 1 .. Len(real) : real[i].dev = d => Vector(real)[d] = real[i].share
<1> DEFINE m == Len(real)
           At(e) == {i \in DOMAIN real : real[i].dev = e}
           at == At(d)
<1>1. /\ m \in Nat /\ DOMAIN real = 1 .. m
      /\ \A i, j \in 1 .. m : i # j => real[i].dev # real[j].dev
    BY DEF Parts, NamedOnce
<1>2. Vector(real)[d] = IF at = {} THEN 0 ELSE real[Max(at)].share
    <2>1. Vector(real) = [e \in Dev |-> IF At(e) = {} THEN 0 ELSE real[Max(At(e))].share]
        BY DEF Vector
    <2> HIDE DEF At
    <2>2. QED BY <2>1
<1> HIDE DEF m
<1>3. ASSUME \A i \in 1 .. m : real[i].dev # d PROVE Vector(real)[d] = 0
    <2>1. at = {}
        BY <1>1, <1>3
    <2> HIDE DEF at
    <2>2. QED BY <1>2, <2>1
<1>4. ASSUME NEW i \in 1 .. m, real[i].dev = d PROVE Vector(real)[d] = real[i].share
    <2>1. at = {i}
        BY <1>1, <1>4
    <2> HIDE DEF at
    <2>2. at \in (SUBSET (1 .. m)) \ {{}}
        BY <2>1
    <2>3. Max(at) \in at
        BY <1>1, <2>2, MaxIs
    <2>4. Max(at) = i /\ at # {}
        BY <2>1, <2>3
    <2>5. QED BY <1>2, <2>4
<1>5. QED BY <1>3, <1>4 DEF m

\* When the shares amount to the whole, and the devices are in order, a device
\* runs of a launch what its share says, after what the ones before it run.
LEMMA IntervalsAreShares ==
    ASSUME PartitionInv, ~ Static, NEW k \in KerId, Known(k),
           Reported[k] \in [Dev -> Nat], Whole(Reported[k]), NEW d \in Dev
    PROVE  granu_intervals(k)[d] = Start(Reported[k], d) .. End(Reported[k], d) - 1
<1> DEFINE real == info[k].real
           m == Len(real)
           V == Reported[k]
<1>1. Parts(real, info[k].wgs) /\ InOrder(real, m)
    BY DEF PartitionInv, Recorded, Runs, Known
<1>2. (\A i \in 1 .. m : real[i].dev \in Dev) /\ \E K : RanBetween(K, k, real)
    BY IntervalsAre
<1> PICK K : RanBetween(K, k, real)
    BY <1>2
<1>3. /\ Cuts(K, m, Unit)
      /\ \A i \in 1 .. m - 1 : real[i].share = K[i] - K[i - 1]
      /\ \A e \in Dev : \A u : u \in granu_intervals(k)[e] <=>
           u \in Int /\ \E i \in 1 .. m : real[i].dev = e /\ IsIn(K, u, i)
    BY DEF RanBetween
<1>4. /\ m \in Nat /\ m > 0 /\ real \in Seq(Piece) /\ NbDevices \in Nat /\ Dev = 0 .. NbDevices - 1
      /\ \A i, j \in 1 .. m : i # j => real[i].dev # real[j].dev
      /\ \A i \in 1 .. m : real[i].share \in Int
    <2>1. m \in Nat /\ m > 0 /\ real \in Seq(Piece) /\ NamedOnce(real, m)
        BY <1>1 DEF Parts
    <2>2. \A i \in 1 .. m : real[i] \in Piece
        BY <2>1
    <2>3. \A i \in 1 .. m : real[i].share \in Int
        <3> HIDE DEF real, m
        <3>1. QED BY <2>2 DEF Piece
    <2>4. QED BY <2>1, <2>3, DevicesAssumption DEF NamedOnce, Dev
<1>5. \A e \in Dev : /\ (\A i \in 1 .. m : real[i].dev # e) => V[e] = 0
                     /\ \A i \in 1 .. m : real[i].dev = e => V[e] = real[i].share
    BY <1>1, VectorIs DEF Reported
<1>6. /\ Start(V, 0) = 0 /\ Start(V, NbDevices) = Unit
      /\ \A e \in 0 .. NbDevices : Start(V, e) \in Int
      /\ \A e \in Dev : Start(V, e + 1) = Start(V, e) + V[e]
    <2>1. V \in [Dev -> Int]
        OBVIOUS
    <2>2. SumFunction(V) = Unit
        BY DEF Whole
    <2> HIDE DEF V
    <2>3. QED BY <2>1, <2>2, StartIs
<1>7. /\ K[0] = 0 /\ K[m] = Unit
      /\ \A a \in 0 .. m : K[a] \in Int
      /\ \A i \in 1 .. m - 1 : real[i].share = K[i] - K[i - 1]
    BY <1>3 DEF Cuts
<1>8. \A i, j \in 1 .. m : i < j => real[i].dev < real[j].dev
    BY <1>1 DEF InOrder
<1> DEFINE S(a) == IF a < m THEN K[a] ELSE K[m - 1] + real[m].share
           Before(e, a) == /\ a \in 0 .. m /\ Start(V, e) = S(a)
                           /\ \A i \in 1 .. m : real[i].dev < e <=> i <= a
<1>9. ASSUME NEW a \in 0 .. m PROVE S(a) \in Int
    <2>1. m \in 1 .. m /\ m - 1 \in 0 .. m
        BY <1>4
    <2>2. K[a] \in Int /\ K[m - 1] \in Int /\ real[m].share \in Int
        BY <1>4, <1>7, <2>1
    <2> HIDE DEF m
    <2>3. QED BY <2>2
<1>10. ASSUME NEW i \in 1 .. m PROVE S(i) = S(i - 1) + real[i].share
    <2>1. CASE i < m
        <3>1. i \in 1 .. m - 1 /\ i \in 0 .. m /\ i - 1 \in 0 .. m /\ i - 1 < m
            BY <1>4, <2>1
        <3>2. real[i].share = K[i] - K[i - 1] /\ K[i] \in Int /\ K[i - 1] \in Int
            BY <1>7, <3>1
        <3>3. S(i) = K[i] /\ S(i - 1) = K[i - 1]
            BY <2>1, <3>1
        <3> HIDE DEF S
        <3>4. QED BY <3>2, <3>3
    <2>2. CASE i = m
        <3>1. m - 1 < m /\ ~ (m < m)
            BY <1>4
        <3>2. S(m) = K[m - 1] + real[m].share /\ S(m - 1) = K[m - 1]
            BY <3>1
        <3> HIDE DEF S, m
        <3>3. QED BY <2>2, <3>2
    <2>3. QED BY <1>4, <2>1, <2>2
<1> HIDE DEF real, m, V, S
<1>11. ASSUME NEW e \in Dev, NEW a, Before(e, a)
       PROVE  \/ /\ V[e] = 0 /\ Before(e + 1, a)
                 /\ \A i \in 1 .. m : real[i].dev # e
              \/ /\ a + 1 \in 1 .. m /\ V[e] = real[a + 1].share /\ Before(e + 1, a + 1)
                 /\ \A i \in 1 .. m : real[i].dev = e <=> i = a + 1
    <2>0. e \in Int /\ a \in Int /\ \A i \in 1 .. m : real[i].dev \in Int
        BY <1>2, <1>4, <1>11
    <2>1. CASE \A i \in 1 .. m : real[i].dev # e
        <3>1. V[e] = 0
            BY <1>5, <2>1
        <3>2. Start(V, e + 1) = S(a)
            <4>1. Start(V, e + 1) = Start(V, e) + V[e] /\ Start(V, e) = S(a) /\ S(a) \in Int
                BY <1>6, <1>9, <1>11
            <4>2. QED BY <3>1, <4>1
        <3>3. \A i \in 1 .. m : real[i].dev < e + 1 <=> i <= a
            <4>1. \A i \in 1 .. m : real[i].dev < e + 1 <=> real[i].dev < e
                BY <2>0, <2>1
            <4>2. QED BY <1>11, <4>1
        <3>4. QED BY <1>11, <2>1, <3>1, <3>2, <3>3
    <2>2. ASSUME NEW i \in 1 .. m, real[i].dev = e
          PROVE  /\ a + 1 \in 1 .. m /\ V[e] = real[a + 1].share /\ Before(e + 1, a + 1)
                 /\ \A j \in 1 .. m : real[j].dev = e <=> j = a + 1
        <3>1. ~ (i <= a)
            BY <1>11, <2>0, <2>2
        <3>2. ASSUME NEW j \in 1 .. m, j < i PROVE j <= a
            BY <1>8, <1>11, <2>2, <3>2
        <3>3. i = a + 1
            <4>1. i - 1 \in 1 .. m => i - 1 <= a
                BY <3>2
            <4>2. QED BY <1>4, <1>11, <2>0, <3>1, <4>1
        <3>4. \A j \in 1 .. m : real[j].dev = e <=> j = a + 1
            BY <1>4, <2>2, <3>3
        <3>5. V[e] = real[a + 1].share
            BY <1>5, <2>2, <3>3
        <3>6. Start(V, e + 1) = S(a + 1)
            <4>1. S(i) = S(i - 1) + real[i].share
                BY <1>10
            <4>2. i - 1 = a
                BY <2>0, <3>3
            <4>3. QED BY <1>6, <1>11, <3>3, <3>5, <4>1, <4>2
        <3>7. \A j \in 1 .. m : real[j].dev < e + 1 <=> j <= a + 1
            <4>1. \A j \in 1 .. m : real[j].dev < e + 1 <=> real[j].dev < e \/ real[j].dev = e
                BY <2>0
            <4>2. QED BY <1>11, <2>0, <3>4, <4>1
        <3>8. QED BY <1>4, <3>3, <3>4, <3>5, <3>6, <3>7
    <2>3. QED BY <2>1, <2>2
<1> DEFINE P == {e \in Nat : e <= NbDevices => \E a : Before(e, a)}
<1>12. P = Nat
    <2>1. 0 \in P
        <3>1. ASSUME NEW i \in 1 .. m PROVE ~ (real[i].dev < 0) /\ ~ (i <= 0)
            BY <1>2, <1>4
        <3>2. S(0) = 0 /\ 0 \in 0 .. m
            BY <1>4, <1>7 DEF S
        <3>3. Before(0, 0)
            BY <1>6, <3>1, <3>2
        <3> HIDE DEF Before
        <3>4. QED BY <3>3
    <2>2. ASSUME NEW e \in P PROVE e + 1 \in P
        <3> SUFFICES ASSUME e + 1 <= NbDevices PROVE \E a : Before(e + 1, a)
            OBVIOUS
        <3>1. e \in Dev /\ \E a : Before(e, a)
            BY <1>4
        <3> HIDE DEF Before
        <3>2. QED BY <1>11, <3>1
    <2> HIDE DEF P
    <2>3. P \in SUBSET Nat
        BY DEF P
    <2>4. QED BY <2>1, <2>2, <2>3, Induction
<1>13. \A e \in 0 .. NbDevices : \E a : Before(e, a)
    <2> HIDE DEF Before
    <2>1. \A e \in 0 .. NbDevices : e \in Nat /\ e <= NbDevices
        BY <1>4
    <2>2. QED BY <1>12, <2>1
\* The last piece is not longer than its share: the shares are the whole.
<1>14. \A a \in 0 .. m : S(a) = K[a]
    <2>1. PICK a : Before(NbDevices, a)
        <3>1. NbDevices \in 0 .. NbDevices
            BY <1>4
        <3> HIDE DEF Before
        <3>2. QED BY <1>13, <3>1
    <2>2. m \in 1 .. m /\ real[m].dev < NbDevices
        BY <1>2, <1>4
    <2>3. a = m
        BY <1>4, <2>1, <2>2
    <2>4. S(m) = Unit
        BY <1>6, <2>1, <2>3
    <2>5. QED BY <1>4, <1>7, <2>4 DEF S
<1>15. PICK a : Before(d, a)
    <2>1. d \in 0 .. NbDevices
        BY <1>4
    <2>2. QED BY <1>13, <2>1
<1>16. a \in 0 .. m /\ K[a] \in Int /\ Start(V, d) = K[a] /\ End(V, d) = K[a] + V[d]
    BY <1>7, <1>14, <1>15 DEF End
<1>17. CASE \A i \in 1 .. m : real[i].dev # d
    <2>1. V[d] = 0
        BY <1>5, <1>17
    <2>2. Start(V, d) .. End(V, d) - 1 = {}
        BY <1>16, <2>1
    <2>3. granu_intervals(k)[d] = {}
        BY <1>3, <1>17
    <2>4. QED BY <2>2, <2>3 DEF V
<1>18. CASE a + 1 \in 1 .. m /\ V[d] = real[a + 1].share /\ \A i \in 1 .. m : real[i].dev = d <=> i = a + 1
    <2>1. End(V, d) = K[a + 1]
        <3> DEFINE i == a + 1
        <3>1. i \in 1 .. m /\ i - 1 = a /\ i \in 0 .. m
            BY <1>16, <1>18
        <3>2. S(i) = S(i - 1) + real[i].share
            BY <1>10, <3>1
        <3>3. S(i) = K[i] /\ S(i - 1) = K[a]
            BY <1>14, <1>16, <3>1
        <3>4. QED BY <1>16, <1>18, <3>2, <3>3
    <2>2. K[a + 1] \in Int /\ (a + 1) - 1 = a
        BY <1>7, <1>16, <1>18
    <2>3. ASSUME NEW u PROVE u \in granu_intervals(k)[d] <=> u \in K[a] .. K[a + 1] - 1
        <3>1. u \in granu_intervals(k)[d] <=> u \in Int /\ IsIn(K, u, a + 1)
            BY <1>3, <1>18
        <3>2. QED BY <1>16, <2>2, <3>1 DEF IsIn
    <2>4. granu_intervals(k)[d] = K[a] .. K[a + 1] - 1
        BY <2>3
    <2>5. QED BY <1>16, <2>1, <2>4 DEF V
<1>19. QED BY <1>11, <1>15, <1>17, <1>18

\* What moves of the two ends of an interval is at least what of it is left out
\* by another one, and that when the two meet.
LEMMA EndsMove ==
    ASSUME NEW a \in Int, NEW b \in Int, NEW c \in Int, NEW e \in Int, a <= b, c <= e
    PROVE  LET moved == NotBelow0(c - a) + NotBelow0(b - e)
           IN  /\ moved >= Cardinality(Minus(a, b, c, e))
               /\ c <= b /\ a <= e => moved = Cardinality(Minus(a, b, c, e))
<1> DEFINE rest == Minus(a, b, c, e)
           left == NotBelow0(c - a)
           right == NotBelow0(b - e)
<1>1. /\ c <= a /\ b <= e => rest = {}
      /\ b <= c \/ e <= a \/ c = e => Cardinality(rest) = b - a
      /\ a <= c /\ e <= b => Cardinality(rest) = (c - a) + (b - e)
      /\ a <= c /\ c <= b /\ b <= e => Cardinality(rest) = c - a
      /\ c <= a /\ a <= e /\ e <= b => Cardinality(rest) = b - e
    BY IntervalMinus
<1>2. /\ left = IF c - a > 0 THEN c - a ELSE 0
      /\ right = IF b - e > 0 THEN b - e ELSE 0
    BY DEF NotBelow0
<1>3. Cardinality({}) = 0
    BY FS_EmptySet
<1> DEFINE size == Cardinality(rest)
<1>4. c <= a /\ b <= e => size = 0
    BY <1>1, <1>3
<1> HIDE DEF left, right, size
<1>5. left + right >= size /\ (c <= b /\ a <= e => left + right = size)
    <2>1. CASE c <= a /\ b <= e
        BY <1>2, <1>4, <2>1
    <2>2. CASE c <= a /\ a <= e /\ e < b
        BY <1>1, <1>2, <2>2 DEF size
    <2>3. CASE c <= a /\ e < a
        BY <1>1, <1>2, <2>3 DEF size
    <2>4. CASE a < c /\ e <= b
        BY <1>1, <1>2, <2>4 DEF size
    <2>5. CASE a < c /\ b < e /\ c <= b
        BY <1>1, <1>2, <2>5 DEF size
    <2>6. CASE a < c /\ b < c
        BY <1>1, <1>2, <2>6 DEF size
    <2>7. QED BY <2>1, <2>2, <2>3, <2>4, <2>5, <2>6
<1>6. QED BY <1>5 DEF left, right, size

\* For a transfer to the host the rows charge a device what it ran of the kernel
\* before and does not run of this one, when its two parts meet, and never less:
\* for any number of devices and kernels and any partitions that are the whole.
THEOREM RowsChargeTraffic ==
    ASSUME OptionsArePartitions
    PROVE  Spec => []D2HRowsChargeSampledShare
<1>1. ASSUME PartitionInv PROVE D2HRowsChargeSampledShare
    <2> DEFINE M == TheMatrix
    <2> SUFFICES ASSUME AboutToConsult, NEW to \in KerId, NEW from \in KerId, NEW d \in Dev,
                        to # from, coef["D2H"][to][from] # 0,
                        Whole(Reported[to]), Whole(Reported[from])
                 PROVE  LET charged == Charged(M, "D2H", to, from, d, Reported)
                            share   == Cardinality(D2H_X(to, from, d))
                        IN  charged >= share /\ (Meet(to, from, d) => charged = share)
        BY DEF D2HRowsChargeSampledShare, ChargesShare
    <2> DEFINE prev == Reported[from]
               cur == Reported[to]
               a == Start(prev, d)
               b == End(prev, d)
               c == Start(cur, d)
               e == End(cur, d)
               charged == Charged(M, "D2H", to, from, d, Reported)
               share == Cardinality(D2H_X(to, from, d))
    <2>1. prev \in [Dev -> Nat] /\ cur \in [Dev -> Nat] /\ ~ Static /\ \A k \in KerId : Known(k)
        <3>1. ~ Static /\ \A k \in KerId : Known(k)
            BY DEF AboutToConsult, Solving, Static
        <3>2. QED BY <1>1, <3>1, ReportedIs
    <2>2. D2H_X(to, from, d) = Minus(a, b, c, e)
        <3>1. /\ granu_intervals(from)[d] = Start(Reported[from], d) .. End(Reported[from], d) - 1
              /\ granu_intervals(to)[d] = Start(Reported[to], d) .. End(Reported[to], d) - 1
            BY <1>1, <2>1, IntervalsAreShares
        <3>2. QED BY <3>1 DEF D2H_X, Minus
    <2>3. charged = NotBelow0(c - a) + NotBelow0(b - e)
        <3> DEFINE perf == [k \in KerId |-> [i \in Dev |-> 1]]
                   cc == [dir \in Directions |-> [k \in KerId |-> [j \in KerId |->
                            [i \in Dev |-> coef[dir][k][j]]]]]
        <3>1. M = updateGlpMatrix(perf, Reported, cc)
            BY DEF TheMatrix
        <3>2. "D2H" \in Directions /\ cc["D2H"][to][from][d] # 0
            <4>1. "D2H" \in Directions
                BY DEF Directions
            <4>2. cc["D2H"][to][from][d] = coef["D2H"][to][from]
                BY <4>1
            <4> HIDE DEF cc
            <4>3. QED BY <4>1, <4>2
        <3>3. Reported[to] \in [Dev -> Int] /\ Reported[from] \in [Dev -> Int]
            BY <2>1
        <3> DEFINE gr == Reported
                   dir == "D2H"
        <3> HIDE DEF M, perf, cc, gr, dir
        <3>4. /\ M = updateGlpMatrix(perf, gr, cc) /\ dir \in Directions /\ CoefOf(cc, dir, to, from, d) # 0
              /\ gr[to] \in [Dev -> Int] /\ gr[from] \in [Dev -> Int]
            BY <3>1, <3>2, <3>3 DEF gr, dir, CoefOf
        <3>5. Charged(updateGlpMatrix(perf, gr, cc), dir, to, from, d, gr) =
                NotBelow0(Start(gr[to], d) - Start(gr[from], d))
                  + NotBelow0(End(gr[from], d) - End(gr[to], d))
            BY <3>4, ChargedIs
        <3>6. QED BY <3>4, <3>5 DEF gr, dir
    <2>4. /\ a \in Int /\ b \in Int /\ c \in Int /\ e \in Int /\ a <= b /\ c <= e
        <3>1. Start(prev, d) \in Nat /\ prev[d] \in Nat /\ End(prev, d) = Start(prev, d) + prev[d]
            BY <2>1, PartsOfWhole
        <3>2. Start(cur, d) \in Nat /\ cur[d] \in Nat /\ End(cur, d) = Start(cur, d) + cur[d]
            BY <2>1, PartsOfWhole
        <3>3. a \in Nat /\ c \in Nat /\ prev[d] \in Nat /\ cur[d] \in Nat /\ b = a + prev[d] /\ e = c + cur[d]
            BY <3>1, <3>2
        <3> HIDE DEF a, b, c, e, prev, cur
        <3>4. QED BY <3>3
    <2>5. Meet(to, from, d) => c <= b /\ a <= e
        BY DEF Meet
    <2> HIDE DEF a, b, c, e, charged, M
    <2>6. charged >= share /\ (c <= b /\ a <= e => charged = share)
        <3>1. /\ NotBelow0(c - a) + NotBelow0(b - e) >= Cardinality(Minus(a, b, c, e))
              /\ c <= b /\ a <= e =>
                   NotBelow0(c - a) + NotBelow0(b - e) = Cardinality(Minus(a, b, c, e))
            BY <2>4, EndsMove
        <3>2. QED BY <2>2, <2>3, <3>1
    <2>7. QED BY <2>5, <2>6 DEF charged
<1>2. QED BY <1>1, PartitionInvHolds, PTL

=============================================================================
