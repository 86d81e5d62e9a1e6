------------------------------ MODULE Balancing ------------------------------
(***************************************************************************)
(* The schedulers: which partition each launch is given, from what was     *)
(* measured of the launches before.                                        *)
(*                                                                         *)
(* ENV and MKSTATIC keep one partition, FIXEDPOINT and the two BROYDENs    *)
(* balance each kernel by itself, MKGR and MKGR2 balance the CycleLength   *)
(* kernels the program launches in turn: every second cycle they give the  *)
(* solver what the last cycle cost and ask it for the next partitions.     *)
(*                                                                         *)
(* Times are not modelled: what a method computes from them is any member  *)
(* of a set of partitions.  What is modelled is under which partitions a   *)
(* cost was measured and what it is attributed to.  Kernel k writes a      *)
(* buffer of its own, element u in the u-th Unit-th of the launch, and     *)
(* reads the buffers of all kernels, Halo[k] elements around its part.     *)
(***************************************************************************)
EXTENDS MultiKernelSolver

CONSTANTS
    Schedulers,  \* the settings of option SCHEDULER to look at
    Options,     \* partitions set by the user: [name, granu]
    WorkGroups,  \* numbers of work groups of the launches
    Candidates,  \* partitions the solver or FIXEDPOINT may compute
    Steps,       \* results of a step of the BROYDENs
    Halo,        \* per kernel, how far it reads around its part
    MinIter,     \* solutions that are always accepted (MIN_ITER)
    MaxCount     \* bound on the number of launches

MultiKernel == {"MKSTATIC", "MKGR", "MKGR2"}

ASSUME SchedulersAssumption ==
  Schedulers \subseteq MultiKernel \cup {"ENV", "FIXEDPOINT", "BROYDEN", "BADBROYDEN"}
ASSUME GroupsAssumption == \A n \in WorkGroups : n \in Nat \ {0} /\ Unit % n = 0
ASSUME CandidatesAssumption ==
  /\ \A p \in Candidates \cup Steps : p \in [Dev -> Int] /\ SumFunction(p) = Unit
  /\ \A p \in Candidates : \A d \in Dev : p[d] >= 0
  /\ \A p \in Steps : \A d \in Dev \ {NbDevices - 1} : p[d] >= 0
ASSUME BoundsAssumption == MinIter \in Nat /\ MaxCount \in Nat /\ Halo \in [KerId -> Nat]

VARIABLES
    scheduler,   \* option SCHEDULER
    option,      \* options PARTITION and GRANUDSCR
    count,       \* launches done
    info,        \* kerID2InfoMap: what is kept of each kernel
    solutions,   \* solutions taken from the solver
    asked,       \* times the solver was asked (curiter)
    coef,        \* the coefficients of transfers given to the solver
    pc           \* "run", "exit" (an error was reported) or "undefined" (a share is no number)

vars == <<scheduler, option, count, info, solutions, asked, coef, pc>>

NoInfo == [known |-> FALSE]
Known(k) == info[k].known

Uniform == [i \in 1 .. NbDevices |-> [dev |-> i - 1, share |-> Unit \div NbDevices]]
Descriptor(p) == [i \in 1 .. NbDevices |-> [dev |-> i - 1, share |-> p[i - 1]]]

\* The descriptor as a vector over the devices (getRealCycleGranuDscr).
Vector(granu) ==
  [d \in Dev |-> LET at == {i \in DOMAIN granu : granu[i].dev = d}
                 IN  IF at = {} THEN 0 ELSE granu[Max(at)].share]

----------------------------------------------------------------------------
(* One launch. *)

\* The partition made of the one asked for; the first device alone when the
\* kernel cannot be split.
Adapted(req, wgs, alone) ==
  IF alone THEN <<[dev |-> 0, share |-> Unit]>> ELSE adaptGranudscr(FewerWgs(req, wgs), wgs)

\* What the launch of k adds to the measured transfers: for each buffer, which
\* kernel wrote it last, under which solution, and the solution k runs under.
TransfersOf(infos, k, of) ==
  {[src |-> j, from |-> infos[j].of, to |-> of] : j \in {j \in KerId : infos[j].known}}

\* The state of kernel k after a launch of wgs work groups; need says that the
\* scheduler wants the analysis instantiated again.
AfterLaunch(infos, k, wgs, need, alone, of) ==
  LET SI == infos[k]
      again == need \/ SI.wgs # wgs
      newOf == IF again THEN of ELSE SI.of
  IN  [SI EXCEPT !.wgs  = wgs,
                 !.real = IF again THEN Adapted(SI.req, wgs, alone) ELSE @,
                 !.of   = newOf,
                 !.transfers = @ \cup TransfersOf(infos, k, newOf)]

NewInfo(req) == [known |-> TRUE, wgs |-> 0, req |-> req, real |-> req, of |-> 0,
                 transfers |-> {}]

\* getKernelID: the place in the cycle, for the schedulers of several kernels
\* (which assert that every cycle launches the kernels of the first, here
\* numbered by their place); otherwise the kernel itself, and as a kernel does
\* not depend on the others one is looked at.
Cycles == scheduler \in MultiKernel
Handles == IF Cycles THEN KerId ELSE {0}
getKernelID(h) == IF Cycles THEN count % CycleLength ELSE h
RightKernel(h) == h = getKernelID(h)

getCycleIter == count \div CycleLength

\* One more launch, of kernel h with infos what the scheduler has made of info.
Enqueue(h, infos, need, of) ==
  LET k == getKernelID(h) IN
  /\ \E wgs \in WorkGroups, alone \in BOOLEAN :
       info' = [infos EXCEPT ![k] = AfterLaunch(infos, k, wgs, need, alone, of)]
  /\ count' = count + 1

Running(h) == /\ pc = "run" /\ count < MaxCount
              /\ RightKernel(h)

\* The assertion of getKernelID.
OutOfTurn(h) ==
  /\ pc = "run" /\ count \in CycleLength .. MaxCount - 1
  /\ ~RightKernel(h)
  /\ pc' = "exit"
  /\ UNCHANGED <<scheduler, option, count, info, solutions, asked, coef>>

----------------------------------------------------------------------------
(* The first launch of a kernel (getInitialPartition). *)

Static == scheduler \in {"ENV", "MKSTATIC"}
TotalShare(granu) == FoldLeft(LAMBDA t, g : t + g.share, 0, granu)
Asked == IF Static /\ option.name # "none" THEN option.granu ELSE Uniform

First(h) ==
  LET k == getKernelID(h) IN
  /\ Running(h) /\ ~Known(k)
  /\ ~(Static /\ option.name = "PARTITION" /\ TotalShare(option.granu) # Unit)
  /\ Enqueue(h, [info EXCEPT ![k] = NewInfo(Asked)], TRUE, solutions)
  /\ UNCHANGED <<scheduler, option, solutions, asked, coef, pc>>

\* "Error bad split parameters !"
BadPartition(h) ==
  /\ Running(h) /\ ~Known(getKernelID(h))
  /\ Static /\ option.name = "PARTITION" /\ TotalShare(option.granu) # Unit
  /\ pc' = "exit"
  /\ UNCHANGED <<scheduler, option, count, info, solutions, asked, coef>>

----------------------------------------------------------------------------
(* The next launches (getNextPartition). *)

Relaunch(h) == Running(h) /\ Known(getKernelID(h))
Forgotten(SI) == IF SI.known THEN [SI EXCEPT !.transfers = {}] ELSE SI
ForgetAll == [k \in KerId |-> Forgotten(info[k])]
Forget(k) == [info EXCEPT ![k] = Forgotten(@)]

\* ENV and MKSTATIC: the partition stays; the measures are dropped.
KeepPartition(h) ==
  /\ Relaunch(h) /\ Static
  /\ Enqueue(h, IF ~Cycles THEN Forget(getKernelID(h))
                ELSE IF getKernelID(h) = 0 THEN ForgetAll ELSE info, FALSE, solutions)
  /\ UNCHANGED <<scheduler, option, solutions, asked, coef, pc>>

\* What the last launch has cost each device (updateTimers): nothing, when it had no
\* part in it, for the times of the launch before are dropped first.
Mutant_kernelTimesKept(real) == [d \in Dev |-> 1]
kernelTimes(real) == [d \in Dev |-> IF \E i \in DOMAIN real : real[i].dev = d THEN 1 ELSE 0]

\* FIXEDPOINT: the shares of the first nbSplits places of the descriptor become
\* inversely proportional to the cost of a Unit-th, the cost of a launch over the
\* share.  The share is that of the place, the cost is looked up for the device
\* PerfDevice, and the new share is for the device of the place in the request.
\* A cost of 0 makes the share of its place 0 over 0, and the others 0.
PerfDevice(i) == i - 1
Cost(real, i) == kernelTimes(real)[PerfDevice(i)]
FixedPoint(h) ==
  LET k  == getKernelID(h)
      SI == info[k]
      n  == Len(SI.real)
  IN
  /\ Relaunch(h) /\ scheduler = "FIXEDPOINT"
  /\ \A i \in 1 .. n : Cost(SI.real, i) > 0
  /\ \E p \in Candidates :
       /\ \A i \in 1 .. n : p[i - 1] > 0
       /\ \A i \in n + 1 .. NbDevices : p[i - 1] = 0
       /\ Enqueue(h, [Forget(k) EXCEPT ![k].req =
                        [i \in DOMAIN SI.req |->
                           IF i <= n THEN [SI.req[i] EXCEPT !.share = p[i - 1]] ELSE SI.req[i]]],
                  TRUE, solutions)
  /\ UNCHANGED <<scheduler, option, solutions, asked, coef, pc>>
FixedPointFails(h) ==
  /\ Relaunch(h) /\ scheduler = "FIXEDPOINT"
  /\ \E i \in DOMAIN info[getKernelID(h)].real : Cost(info[getKernelID(h)].real, i) = 0
  /\ pc' = "undefined"
  /\ UNCHANGED <<scheduler, option, count, info, solutions, asked, coef>>

\* The BROYDENs: nothing when a device had no part; otherwise a step, in which
\* all shares but the last are cut at 0 and the last is the rest, be it
\* negative; the step is not taken when the update of the matrix degenerates.
BroydenStep(h) ==
  LET k == getKernelID(h) IN
  /\ Relaunch(h)
  /\ \/ Enqueue(h, Forget(k), TRUE, solutions)
     \/ /\ Len(info[k].real) >= NbDevices
        /\ \E x \in Steps :
             Enqueue(h, [Forget(k) EXCEPT ![k].req = Descriptor(x)], TRUE, solutions)
  /\ UNCHANGED <<scheduler, option, solutions, asked, coef, pc>>
Broyden(h)    == scheduler = "BROYDEN" /\ BroydenStep(h)
BadBroyden(h) == scheduler = "BADBROYDEN" /\ BroydenStep(h)

----------------------------------------------------------------------------
(* What a cycle has shown of the transfers (sampleKernelTransfersForBuffer),*)
(* for the buffer kernel from writes and kernel to reads.                  *)

\* The Unit-ths of the launch each device ran (granu_intervals).
granu_intervals(k) ==
  LET SI    == info[k]
      parts == splitDim(Launch(<<SI.wgs>>, <<0>>, <<1>>), 0, Shares(SI.real))
      group == Unit \div SI.wgs
      Ran(p) == p.offset[0] * group .. (p.offset[0] + p.size[0]) * group - 1
  IN  [d \in Dev |-> UNION {Ran(parts[i]) : i \in {i \in DOMAIN parts : SI.real[i].dev = d}}]
ReadRegion(k) ==
  LET ran == granu_intervals(k)
  IN  [d \in Dev |-> {u \in 0 .. Unit - 1 : \E v \in ran[d] : u - v \in -Halo[k] .. Halo[k]}]

\* X: the part of its share that changes hands; Y: what has to be transferred.
H2D_X(to, from, d) == granu_intervals(to)[d] \ granu_intervals(from)[d]
D2H_X(to, from, d) == granu_intervals(from)[d] \ granu_intervals(to)[d]

requiredMinusPresent(to, from, d) ==
  LET required == ReadRegion(to)[d]
  IN  required \ (required \cap granu_intervals(from)[d])
Mutant_YAll(to, from, d) == ReadRegion(to)[d] \cap UNION {granu_intervals(from)[e] : e \in Dev}
H2D_Y(to, from, d) ==
  requiredMinusPresent(to, from, d) \cap UNION {granu_intervals(from)[e] : e \in Dev}
D2H_Y(to, from, d) ==
  ((UNION {requiredMinusPresent(to, from, e) : e \in Dev}) \ ReadRegion(to)[d])
    \cap granu_intervals(from)[d]

\* MKGR's point for the time device d took to transfer what kernel from left to
\* kernel to: where a transfer was to be expected, the value of the constraint.
Point(dir, to, from, d) ==
  LET prev == Vector(info[from].real)
      cur  == Vector(info[to].real)
      c == IF dir = "D2H" THEN getD2HConstraint(d, prev, cur) ELSE getH2DConstraint(d, prev, cur)
  IN  [observed |-> c.observed, x |-> Value(c.constraint, prev, cur)]

Sampled(dir, to, from) ==
  to # from /\ \E d \in Dev : IF dir = "H2D" THEN H2D_X(to, from, d) # {}
                                              ELSE D2H_X(to, from, d) # {}

\* With more than two points a coefficient is fitted: positive, or 0 when the
\* points are not on a line.  MKGR fits the times of the transfers, but gives
\* the solver no coefficient.
sampleTransfers ==
  LET pairs   == {q \in Directions \X KerId \X KerId : Sampled(q[1], q[2], q[3])}
      With(f) == [dir \in Directions |-> [to \in KerId |-> [from \in KerId |->
                    IF <<dir, to, from>> \in pairs THEN f[<<dir, to, from>>]
                                                   ELSE coef[dir][to][from]]]]
  IN  IF scheduler = "MKGR2" THEN {With(f) : f \in [pairs -> 0 .. 1]} ELSE {coef}

----------------------------------------------------------------------------
(* MKGR and MKGR2: a cycle to adopt new partitions, a cycle to measure.    *)

Solving == scheduler \in {"MKGR", "MKGR2"}
ConsultsSolver(k) == k = 0 /\ getCycleIter % 2 = 0

\* An odd cycle: the partitions stay; the first kernel drops what was measured.
Mutant_OnlyFirstForgets(h) ==
  LET k == getKernelID(h) IN
  /\ Relaunch(h) /\ Solving /\ getCycleIter % 2 # 0
  /\ Enqueue(h, IF k = 0 THEN Forget(0) ELSE info, FALSE, solutions)
  /\ UNCHANGED <<scheduler, option, solutions, asked, coef, pc>>
Measure(h) ==
  LET k == getKernelID(h) IN
  /\ Relaunch(h) /\ Solving /\ getCycleIter % 2 # 0
  /\ Enqueue(h, IF k = 0 THEN ForgetAll ELSE info, FALSE, solutions)
  /\ UNCHANGED <<scheduler, option, solutions, asked, coef, pc>>

\* The other kernels of an even cycle take what the first has been given.
Adopt(h) ==
  /\ Relaunch(h) /\ Solving /\ getCycleIter % 2 = 0 /\ ~ConsultsSolver(getKernelID(h))
  /\ Enqueue(h, info, TRUE, solutions)
  /\ UNCHANGED <<scheduler, option, solutions, asked, coef, pc>>

Reported == [k \in KerId |-> Vector(info[k].real)]

Consult(h) ==
  /\ Relaunch(h) /\ Solving /\ ConsultsSolver(getKernelID(h))
  /\ coef' \in sampleTransfers
  /\ asked' = Min({asked + 1, MinIter + 1})
  /\ \/ /\ asked + 1 > MinIter  \* not worth a new partition
        /\ Enqueue(h, ForgetAll, FALSE, solutions)
        /\ UNCHANGED solutions
     \/ \E g \in Solutions(Reported, Candidates) :
          /\ solutions' = solutions + 1
          /\ Enqueue(h, [k \in KerId |-> [ForgetAll[k] EXCEPT !.req = Descriptor(g[k])]],
                     TRUE, solutions')
  /\ UNCHANGED <<scheduler, option, pc>>

----------------------------------------------------------------------------
Init ==
  /\ scheduler \in Schedulers /\ option \in Options
  /\ Static \/ option.name = "none"
  /\ count = 0 /\ solutions = 0 /\ asked = 0
  /\ info = [k \in KerId |-> NoInfo]
  /\ coef = [dir \in Directions |-> [to \in KerId |-> [from \in KerId |-> 0]]]
  /\ pc = "run"

Next ==
  \E h \in Handles :
    \/ First(h) \/ BadPartition(h) \/ OutOfTurn(h)
    \/ KeepPartition(h)
    \/ FixedPoint(h) \/ FixedPointFails(h)
    \/ Broyden(h) \/ BadBroyden(h)
    \/ Measure(h) \/ Adopt(h) \/ Consult(h)

Spec == Init /\ [][Next]_vars

----------------------------------------------------------------------------
(* Properties. *)

\* The descriptors are sequences of parts of known devices; counters stay bounded.
TypeOK ==
  /\ pc \in {"run", "exit", "undefined"} /\ count \in 0 .. MaxCount
  /\ asked \in 0 .. MinIter + 1 /\ solutions \in 0 .. count
  /\ \A k \in KerId : Known(k) =>
       /\ \A i \in DOMAIN info[k].real : info[k].real[i].dev \in Dev
       /\ \A i \in DOMAIN info[k].real : info[k].real[i].share > 0
       /\ info[k].of \in 0 .. solutions

\* Every work group of a launch is run by one device, and a device that runs
\* none has no place in the partition, whatever the scheduler, the user or the
\* solver asked for: null shares, shares that round to nothing or to more than
\* the whole, negative ones, more devices than work groups.
PartitionCoversLaunch ==
  \A k \in KerId : Known(k) =>
    LET real == info[k].real
        parts == splitDim(Launch(<<info[k].wgs>>, <<0>>, <<1>>), 0, Shares(real))
    IN  /\ \A i \in DOMAIN parts : parts[i].size[0] > 0
        /\ \A i, j \in DOMAIN real : i # j => real[i].dev # real[j].dev
        /\ \A g \in 0 .. info[k].wgs - 1 :
             Cardinality({i \in DOMAIN parts : g \in parts[i].offset[0] .. LastId(parts[i], 0)}) = 1

\* "The total granularity has to be equal to 1.0" (Scheduler.cpp:1345).
TotalIsWhole == \A k \in KerId : Known(k) => TotalShare(info[k].real) = Unit

\* The first kernel of a cycle is about to ask the solver.
AboutToConsult == /\ pc = "run" /\ Solving /\ \A k \in KerId : Known(k)
                  /\ ConsultsSolver(count % CycleLength)

\* The transfers the solver's input is made of were between partitions of one
\* solution: none is left from the cycle in which the partitions changed, where
\* data moved from the old part of a device to the new one.
TransfersAreOfOneSolution ==
  AboutToConsult =>
    \A k \in KerId : \A t \in info[k].transfers : t.from = solutions /\ t.to = solutions

\* FIXEDPOINT goes on from a partition of its kernel.
Rebalances(k) == scheduler = "FIXEDPOINT" /\ Known(k) /\ count' # count
OfOneDevice(real, req) ==
  \A i \in DOMAIN real : real[i].dev = PerfDevice(i) /\ req[i].dev = PerfDevice(i)

\* FIXEDPOINT never asks for shares that mix devices: in each place of the partition
\* it goes on from, the share and the cost are of one device, and the new share is
\* asked for that device.  It does not compare the devices: when one was left out
\* before another, places and devices no longer agree, but then a cost is 0 and it
\* does not come to shares.
SharesAreOfOneDevice ==
  [][\A k \in Handles : Rebalances(k) => OfOneDevice(info[k].real, info'[k].req)]_vars

Whole(gr) == SumFunction(gr) = Unit

\* The point a transfer is recorded at is the share of the launch the device has
\* to send (receive) between two kernels, and no point is left out when that is
\* not nothing; of partitions that amount to the whole (see TotalIsWhole).
ConstraintsMeasureTraffic ==
  AboutToConsult =>
    \A to, from \in KerId : \A d \in Dev :
      LET Of(k) == Start(Reported[k], d) .. End(Reported[k], d) - 1
          Exact(point, moved) ==
            IF point.observed THEN point.x = Cardinality(moved) ELSE moved = {}
      IN  (Whole(Reported[to]) /\ Whole(Reported[from])) =>
            /\ Exact(Point("D2H", to, from, d), Of(from) \ Of(to))
            /\ Exact(Point("H2D", to, from, d), Of(to) \ Of(from))

TheMatrix == updateGlpMatrix([k \in KerId |-> [d \in Dev |-> 1]], Reported,
               [dir \in Directions |-> [to \in KerId |-> [from \in KerId |->
                  [d \in Dev |-> coef[dir][to][from]]]]])

\* No two terms of the problem are put in one place of the matrix and no two
\* constraints in one row, whichever transfers were sampled, and all rows and
\* columns exist: the solver ends the program otherwise.
MatrixIsWellFormed ==
  AboutToConsult =>
    LET M == TheMatrix IN
    /\ \A e, f \in M :
         /\ e.row = f.row /\ e.col = f.col => e = f
         /\ e.row = f.row <=> e.of = f.of
    /\ \A e \in M : e.row \in 1 .. nbRows /\ e.col \in 1 .. nbCols

\* The least the rows of left and right allow for partitions gr of the kernels.
Charged(M, dir, cur, prev, dev, gr) ==
  LET Share(col) == LET at == {p \in {cur, prev} \X Dev : gr_col(p[1], p[2]) = col}
                    IN  SumFunctionOnSet([p \in at |-> gr[p[1]][p[2]]], at)
      Row(what)   == {e \in M : /\ e.of = <<what, dir, cur, prev, dev>>
                                /\ e.col # CommCol(what, dir, cur, prev, dev)}
      Least(what) == Max({0, SumFunction([e \in Row(what) |-> e.val * Share(e.col)])})
  IN  Least("left") + Least("right")

Meet(to, from, d) == /\ Reported[to][d] > 0 /\ Reported[from][d] > 0
                     /\ Start(Reported[to], d) <= End(Reported[from], d)
                     /\ Start(Reported[from], d) <= End(Reported[to], d)
ChargesShare(dir, moved(_, _, _)) ==
  AboutToConsult =>
    LET M == TheMatrix IN
    \A to, from \in KerId : \A d \in Dev :
      (to # from /\ coef[dir][to][from] # 0 /\ Whole(Reported[to]) /\ Whole(Reported[from])) =>
        LET charged == Charged(M, dir, to, from, d, Reported)
            share   == Cardinality(moved(to, from, d))
        IN  charged >= share /\ (Meet(to, from, d) => charged = share)

\* For a transfer to the host the rows charge a device the share of the launch
\* its samples were taken for: what it ran of the kernel before and does not
\* run of this one.  Never less, and no more when its two parts meet.
D2HRowsChargeSampledShare == ChargesShare("D2H", D2H_X)

\* The same of transfers to a device: what it runs of this kernel and has not
\* run of the one before.
H2DRowsChargeSampledShare == ChargesShare("H2D", H2D_X)

\* Samples count what a device reads of other devices' results; and of its own,
\* no more than what others read, all of it when kernels read their own part only.
SamplesAreTraffic ==
  AboutToConsult =>
    \A to, from \in KerId : \A d \in Dev :
      LET ReadByOthers == UNION {ReadRegion(to)[e] : e \in Dev \ {d}}
          Leaves == granu_intervals(from)[d] \cap ReadByOthers
      IN  /\ H2D_Y(to, from, d) = ReadRegion(to)[d] \ granu_intervals(from)[d]
          /\ D2H_Y(to, from, d) \subseteq Leaves
          /\ Halo[to] = 0 => D2H_Y(to, from, d) = Leaves

=============================================================================
