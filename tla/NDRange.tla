------------------------------- MODULE NDRange -------------------------------
(***************************************************************************)
(* The index space of a kernel launch and the ways it is cut into the      *)
(* index spaces of its sub-kernels.                                        *)
(*                                                                         *)
(* An NDRange is a record of functions over its dimensions 0 ..            *)
(* work_dim - 1: orig, the global size of the launch it is part of, size,  *)
(* its own global size, offset, and ls, the work-group size, which divides *)
(* size and offset.  A share of a launch, a double in the code, is an      *)
(* integer number of Unit-ths.                                             *)
(***************************************************************************)
EXTENDS Integers, Sequences

CONSTANT Unit \* the granularity 1.0

ASSUME UnitAssumption == Unit \in Nat \ {0}

Launch(size, offset, ls) ==
  [work_dim |-> Len(size),
   orig   |-> [d \in 0 .. Len(size) - 1 |-> size[d + 1]],
   size   |-> [d \in 0 .. Len(size) - 1 |-> size[d + 1]],
   offset |-> [d \in 0 .. Len(size) - 1 |-> offset[d + 1]],
   ls     |-> [d \in 0 .. Len(size) - 1 |-> ls[d + 1]]]

NDRanges(n) ==
  [work_dim : {n}, orig : [0 .. n - 1 -> Nat], size : [0 .. n - 1 -> Nat],
   offset : [0 .. n - 1 -> Nat], ls : [0 .. n - 1 -> Nat \ {0}]]

\* What OpenCL accepts: whole work groups, one at least, in each dimension. It
\* is part of itself.
Launchable(nd) ==
  /\ (\E n \in 1 .. 3 : nd \in NDRanges(n)) /\ nd.orig = nd.size
  /\ \A d \in 0 .. nd.work_dim - 1 : nd.size[d] > 0 /\ nd.size[d] % nd.ls[d] = 0

NumGroups(nd, d) == nd.size[d] \div nd.ls[d]

\* The part of nd that starts at offset and has the given size in dimension d.
Part(nd, d, offset, size) == [nd EXCEPT !.offset[d] = offset, !.size[d] = size]

LastId(nd, d) == nd.offset[d] + nd.size[d] - 1

\* One sub-range per share; each but the last has the whole number of work
\* groups its share amounts to, the last one has what remains.
Mutant_splitDimOneBefore(nd, d, shares) ==
  LET groups == NumGroups(nd, d)
      n      == Len(shares)
      nbWg(i) == (groups * shares[i]) \div Unit
      before(i) == IF i = 1 THEN 0 ELSE nbWg(i - 1)
  IN  [i \in 1 .. n |-> Part(nd, d, nd.offset[d] + before(i) * nd.ls[d], nbWg(i) * nd.ls[d])]
splitDim(nd, d, shares) ==
  LET groups == NumGroups(nd, d)
      n      == Len(shares)
      nbWg(i) == (groups * shares[i]) \div Unit
      totalWg[i \in 1 .. n] == IF i = 1 THEN 0 ELSE totalWg[i - 1] + nbWg(i - 1)
  IN  [i \in 1 .. n |->
         Part(nd, d, nd.offset[d] + totalWg[i] * nd.ls[d],
              (IF i < n THEN nbWg(i) ELSE groups - totalWg[n]) * nd.ls[d])]

\* The sub-range part of nd widened by wgs work groups on both sides.
Mutant_WidenedHighFree(nd, part, d, wgs) ==
  LET lb == part.offset[d] - wgs * nd.ls[d]
      newLB == IF lb < nd.offset[d] THEN nd.offset[d] ELSE lb
  IN  Part(nd, d, newLB, LastId(part, d) + wgs * nd.ls[d] - newLB + 1)
Widened(nd, part, d, wgs) ==
  LET lb == part.offset[d] - wgs * nd.ls[d]
      hb == LastId(part, d) + wgs * nd.ls[d]
      newLB == IF lb < nd.offset[d] THEN nd.offset[d] ELSE lb
      newHB == IF hb > LastId(nd, d) THEN LastId(nd, d) ELSE hb
  IN  Part(nd, d, newLB, newHB - newLB + 1)

\* getShiftedPartition: the widened sub-range between what is left of nd on
\* its two sides.  Each piece is a launch of its own: orig is its own size.
\* The last piece is given one work item less than the widened one.
getShiftedPartition(nd, part, d, wgs) ==
  LET mid   == Widened(nd, part, d, wgs)
      Own(p) == [p EXCEPT !.orig = p.size]
      left  == Part(nd, d, nd.offset[d], mid.offset[d] - nd.offset[d])
      right == Part(nd, d, LastId(mid, d) + 1, mid.size[d] - 1)
  IN  (IF mid.offset[d] > nd.offset[d] THEN <<Own(left)>> ELSE <<>>)
        \o <<Own(mid)>>
        \o (IF LastId(mid, d) < LastId(nd, d) THEN <<Own(right)>> ELSE <<>>)

=============================================================================
