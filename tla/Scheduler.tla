------------------------------- MODULE Scheduler -------------------------------
(***************************************************************************)
(* The scheduler: from the launch of a kernel to the sub-kernels, one per  *)
(* device, and the regions of buffers each of them requires and writes.    *)
(*                                                                         *)
(* The driver asks for the parts of index arrays to read, reads them and   *)
(* gives the values back until the scheduler is done.  The scheduler       *)
(* meanwhile instantiates the analysis of the kernel for a partition of a  *)
(* dimension; when a written region is unknown it tries the next           *)
(* dimension, and in the end a single device; when sub-kernels may write   *)
(* the same elements it widens the sub-kernel of each device, by more and  *)
(* more work groups, until every element is written by a device that runs  *)
(* all the work items writing it.                                          *)
(*                                                                         *)
(* The state of a kernel is kept from one launch to the next: a launch     *)
(* like the previous one gets the same sub-kernels, without analysis.      *)
(***************************************************************************)
EXTENDS KernelAnalysis, KernelSemantics, Granularity

CONSTANTS
  Kernels,            \* function from the kernels to their code
  Calls,              \* launches: [kernel, nd, args, arrays]; arrays[a] is the
                      \* contents of argument a, a function, where a is an index array
  Requests,           \* partitions asked for: sequences of [dev, share]
  EnableIndirections, \* option ENABLEINDIR
  ShiftInit,          \* option SHIFTINIT, 0 when not set
  ShiftStep,          \* option SHIFTSTEP, 0 when not set
  MaxCalls            \* bound on the number of launches

ASSUME OptionsAssumption ==
  EnableIndirections \in BOOLEAN /\ ShiftInit \in Nat /\ ShiftStep \in Nat

ASSUME CallsAssumption == \A c \in Calls : c.kernel \in DOMAIN Kernels /\ Launchable(c.nd)

ASSUME RequestsAssumption == \A r \in Requests : Request(r)

\* Shares are numbers of work groups rounded to a share again.
ASSUME SharesAssumption ==
  \A c \in Calls : \A d \in DOMAIN c.nd.size : Unit % NumGroups(c.nd, d) = 0

VARIABLES
  info,   \* kerID2InfoMap: what is kept of each kernel, NoInfo before its first launch
  call,   \* the launch being scheduled
  pc,     \* "idle", "regions", "values", "partition" or "aborted"
  calls   \* number of launches

vars == <<info, call, pc, calls>>

NoInfo == [hasPartition |-> FALSE]
NoCall == [kernel |-> "none"]
NoRange == Launch(<<1>>, <<0>>, <<1>>)

\* A region of a buffer: the whole of it when undefined.
Only(S)  == [elements |-> S, undefined |-> FALSE]
Undefined(S) == [elements |-> S, undefined |-> TRUE]
RegionOf(S, known) == IF known THEN Only(S) ELSE Undefined(S)
Includes(r, e) == r.undefined \/ e \in r.elements

SI == info[call.kernel]

----------------------------------------------------------------------------
(* Partitions. *)

\* The dimensions, those with the most work groups first.
getSortedDim(nd) ==
  LET Before(d, e) == \/ NumGroups(nd, d) > NumGroups(nd, e)
                      \/ NumGroups(nd, d) = NumGroups(nd, e) /\ d < e
  IN  CHOOSE order \in [1 .. nd.work_dim -> DOMAIN nd.size] :
        \A i \in 2 .. nd.work_dim : Before(order[i - 1], order[i])

Mutant_ShiftedWgsNone(nd, d) == IF ShiftInit > 0 THEN ShiftInit ELSE NumGroups(nd, d) \div 100
ShiftedWgs(nd, d) == IF ShiftInit > 0 THEN ShiftInit ELSE Max({NumGroups(nd, d) \div 100, 1})

\* Beyond the number of work groups a shift no longer changes anything.
MoreWgs(wgs, nd, d) ==
  Min({IF ShiftStep > 0 THEN wgs + ShiftStep ELSE 2 * wgs, NumGroups(nd, d)})

----------------------------------------------------------------------------
(* getIndirectionRegions. *)

splitDimension(si) == si.order[si.dim + 1]

\* The first request for this launch: the scheduler's partition, and what
\* has changed since the previous launch.
Mutant_FirstRequestSameArgs(si, c, granu, again) ==
  IF si = NoInfo
  THEN [hasPartition |-> TRUE, partitionUnchanged |-> FALSE, need |-> TRUE,
        req |-> granu, real |-> granu, nd |-> c.nd, args |-> c.args,
        order |-> getSortedDim(c.nd), dim |-> 0,
        shifting |-> FALSE, shiftingDevice |-> 1, shiftingWgs |-> 0, shiftedId |-> 1,
        orig |-> NoRange, required |-> <<>>, shifted |-> <<>>,
        shiftData |-> <<>>, full |-> <<>>,
        analysis |-> NewAnalysis(Kernels[c.kernel], c.nd, <<>>, c.args),
        subkernels |-> <<>>, data |-> <<>>]
  ELSE [si EXCEPT !.hasPartition = TRUE, !.need = again \/ si.nd # c.nd,
                  !.req = granu, !.nd = c.nd, !.args = c.args,
                  !.order = getSortedDim(c.nd), !.dim = 0]
FirstRequest(si, c, granu, again) ==
  IF si = NoInfo
  THEN [hasPartition |-> TRUE, partitionUnchanged |-> FALSE, need |-> TRUE,
        req |-> granu, real |-> granu, nd |-> c.nd, args |-> c.args,
        order |-> getSortedDim(c.nd), dim |-> 0,
        shifting |-> FALSE, shiftingDevice |-> 1, shiftingWgs |-> 0, shiftedId |-> 1,
        orig |-> NoRange, required |-> <<>>, shifted |-> <<>>,
        shiftData |-> <<>>, full |-> <<>>,
        analysis |-> NewAnalysis(Kernels[c.kernel], c.nd, <<>>, c.args),
        subkernels |-> <<>>, data |-> <<>>]
  ELSE [si EXCEPT !.hasPartition = TRUE,
                  !.need = again \/ si.nd # c.nd \/ si.args # c.args,
                  !.req = granu, !.nd = c.nd, !.args = c.args,
                  !.order = getSortedDim(c.nd), !.dim = 0]

\* Every launch of a kernel with indirections is analysed again.
NeedsAnalysis(si) ==
  [si EXCEPT !.need = @ \/ (EnableIndirections /\ si.analysis.kernel.indirections # <<>>)]

AsRequested(si) == IF si.partitionUnchanged THEN si ELSE [si EXCEPT !.real = si.req]

\* No dimension can be split.
SingleDevice(si) ==
  IF si.dim < si.nd.work_dim THEN si
  ELSE [si EXCEPT !.real = <<[dev |-> 0, share |-> Unit]>>, !.dim = 0]

ShiftPartition(si) ==
  LET part  == si.required[si.shiftingDevice]
      d     == splitDimension(si)
      subs  == getShiftedPartition(si.orig, part, d, si.shiftingWgs)
      mid   == IF subs[1].offset[d] = Widened(si.orig, part, d, si.shiftingWgs).offset[d]
               THEN 1 ELSE 2
  IN  [si EXCEPT !.partitionUnchanged = TRUE, !.shiftedId = mid,
                 !.shifted[si.shiftingDevice] = subs[mid],
                 !.analysis.nd = si.orig, !.analysis.subs = subs]

NewPartition(si, c) ==
  LET d     == splitDimension(si)
      nbWgs == NumGroups(c.nd, d)
      real  == adaptGranudscr(FewerWgs(si.real, nbWgs), nbWgs)
      subs  == splitDim(c.nd, d, Shares(real))
  IN  [si EXCEPT !.real = real, !.orig = c.nd, !.required = subs,
                 !.analysis.nd = c.nd, !.analysis.subs = subs]

Partitioned(si, c) == IF si.shifting THEN ShiftPartition(si) ELSE NewPartition(si, c)

Instantiated(si, c) ==
  [si EXCEPT !.analysis = setPartition(@.kernel, @.nd, @.subs, c.args)]

WithIndirections(si) ==
  IF EnableIndirections THEN [si EXCEPT !.analysis = computeIndirections(@)] ELSE si

\* A device dropped when the partition was adapted comes back with the
\* request: a shift for it would read beyond the end of the sub-ranges.
OutOfSubRanges(si) ==
  ~si.partitionUnchanged /\ si.shifting /\ si.shiftingDevice > Len(si.required)

\* The analysis keeps the regions and the values of its indirections in vectors
\* with an element for each part it was given; the scheduler indexes them by
\* device. What it does beyond their end is undefined: it finds nothing where an
\* emptied element of an earlier partition was, or the program ends.
BeyondParts(si) == EnableIndirections /\ Len(si.real) > Len(si.analysis.subs)
Reached(si, next) == IF BeyondParts(si) THEN {next, "aborted"} ELSE {next}

\* The launch as it is asked for.  A scheduler asks for another partition
\* only together with a new analysis, and never between two calls.
Asked ==
  IF SI = NoInfo THEN {FirstRequest(SI, call, granu, TRUE) : granu \in Requests}
  ELSE IF SI.hasPartition THEN {SI}
  ELSE {FirstRequest(SI, call, SI.req, FALSE)}
         \cup {FirstRequest(SI, call, granu, TRUE) : granu \in Requests}

getIndirectionRegions ==
  /\ pc = "regions"
  /\ \E asked \in Asked : \E si \in {NeedsAnalysis(asked)} :
       \/ /\ ~si.need
          /\ info' = [info EXCEPT ![call.kernel] = si]
          /\ pc' = "values"
       \/ /\ si.need
          /\ \E ready \in {SingleDevice(AsRequested(si))} :
               \/ /\ OutOfSubRanges(ready)
                  /\ info' = [info EXCEPT ![call.kernel] = ready]
                  /\ pc' = "aborted"
               \/ /\ ~OutOfSubRanges(ready)
                  /\ \E part \in IF ready.partitionUnchanged THEN {ready}
                                 ELSE {Instantiated(x, call) : x \in {Partitioned(ready, call)}} :
                       /\ info' = [info EXCEPT ![call.kernel] = WithIndirections(part)]
                       /\ pc' \in Reached(part, "values")
  /\ UNCHANGED <<call, calls>>

----------------------------------------------------------------------------
(* What is handed out for sub-kernel i, an entry per argument: the region  *)
(* it requires, the elements it alone writes, those several write, and     *)
(* those it accumulates into, by kind of reduction.                        *)

Reductions == {"or", "atomicSum", "atomicMin", "atomicMax"}

SubKernelOf(si, i, nd) ==
  [dev |-> si.real[i].dev, nd |-> nd, splitdim |-> splitDimension(si),
   numgroups |-> NumGroups(si.orig, splitDimension(si))]

\* The elements sub-kernel i writes are sent to its device beforehand.
MultiData(an, a, i) ==
  LET known(kind) == BoundsComputed(an, a, kind)
      accumulated == [r \in Reductions |-> Region(an, a, r, i)]
      merge       == MergeRegion(an, a)
      written     == WrittenRegion(an, a, i)
  IN  [required |-> RegionOf(Region(an, a, "load", i) \cup written \cup merge
                               \cup UNION {accumulated[r] : r \in Reductions},
                             known("load") /\ known("atomicSum")),
       written |-> Only(written),
       merge |-> merge,
       accumulated |-> [r \in Reductions |->
                          RegionOf(accumulated[r], r # "atomicSum" \/ known(r))]]

\* A single device accumulates nothing apart: it writes the results.
SingleData(an, a) ==
  LET writes == Kinds \ {"load"}
      known  == \A kind \in writes : BoundsComputed(an, a, kind)
      written == IF known THEN UNION {Region(an, a, kind, 1) : kind \in writes} ELSE {}
      loaded  == IF known THEN Region(an, a, "load", 1) ELSE {}
  IN  [required |-> RegionOf(loaded \cup written, known /\ BoundsComputed(an, a, "load")),
       written |-> RegionOf(written, known),
       merge |-> {},
       accumulated |-> [r \in Reductions |-> Only({})]]

Handed(si, subs, data) ==
  [si EXCEPT !.subkernels = [i \in DOMAIN si.real |-> SubKernelOf(si, i, subs[i])],
             !.data = data]

\* fillSubkernelInfoSingle and fillSubkernelInfoMulti.
FillSingle(si) ==
  Handed(si, si.analysis.subs, <<[a \in Arguments(si.analysis) |-> SingleData(si.analysis, a)]>>)

FillMulti(si) ==
  Handed(si, si.analysis.subs,
         [i \in DOMAIN si.real |-> [a \in Arguments(si.analysis) |-> MultiData(si.analysis, a, i)]])

\* fillSubkernelInfoShift: the shares become those of the widened sub-ranges.
FillShift(si) ==
  LET d == splitDimension(si)
      shares == [i \in DOMAIN si.real |->
                   [si.real[i] EXCEPT !.share = (si.shifted[i].size[d] * Unit) \div si.orig.size[d]]]
  IN  Handed([si EXCEPT !.partitionUnchanged = FALSE, !.shifting = FALSE, !.real = shares],
             si.shifted, si.shiftData)

----------------------------------------------------------------------------
(* Shifting. *)

\* What the device shifted last requires and writes.  The elements it alone
\* writes are added to those found with smaller shifts.
ShiftedData(si, a) ==
  LET an      == si.analysis
      s       == si.shiftedId
      old     == si.shiftData[si.shiftingDevice][a].written.elements
      written == old \cup WrittenRegion(an, a, s)
      accumulated == [r \in Reductions |-> Region(an, a, r, s)]
      sums    == BoundsComputed(an, a, "atomicSum")
  IN  [required |-> RegionOf(Region(an, a, "load", s) \cup written
                               \cup UNION {accumulated[r] : r \in Reductions},
                             BoundsComputed(an, a, "load") /\ sums),
       written |-> Only(written),
       merge |-> {},
       accumulated |-> [r \in Reductions |->
                          RegionOf(accumulated[r], r # "atomicSum" \/ sums)]]

StartShifting(si) ==
  LET an == si.analysis
      none == [required |-> Only({}), written |-> Only({}), merge |-> {},
               accumulated |-> [r \in Reductions |-> Only({})]]
  IN  [si EXCEPT !.shifting = TRUE, !.shiftingDevice = 1,
                 !.shiftingWgs = ShiftedWgs(si.orig, splitDimension(si)),
                 !.shifted = si.required,
                 !.shiftData = [i \in DOMAIN si.req |-> [a \in Arguments(an) |-> none]],
                 !.full = [a \in {b \in Arguments(an) : ArgumentMerges(an, b)} |->
                             FullWrittenRegion(an, a)]]

\* Every element of a merge argument is written by a device on its own.
ShiftDone(si) ==
  \A a \in DOMAIN si.full :
    si.full[a] \subseteq UNION {si.shiftData[i][a].written.elements : i \in DOMAIN si.shiftData}

Shift(si) ==
  [si EXCEPT !.shiftData[si.shiftingDevice] =
     [a \in Arguments(si.analysis) |-> ShiftedData(si, a)]]

\* Every device has been shifted, far enough.
ShiftEnds(si) == si.shiftingDevice = Len(si.real) /\ ShiftDone(si)

NextShift(si) ==
  IF si.shiftingDevice < Len(si.real)
  THEN [si EXCEPT !.shiftingDevice = @ + 1]
  ELSE [si EXCEPT !.shiftingDevice = 1,
                  !.shiftingWgs = MoreWgs(@, si.orig, splitDimension(si))]

----------------------------------------------------------------------------
(* setIndirectionValues. *)

\* What the driver reads of the index arrays: the two ends of each region, of
\* the first parts, one for each device. Beyond the last part it has found none.
ReadValues(si, c) ==
  [s \in 1 .. Min({Len(si.real), Len(si.analysis.subs)}) |->
     LET parts  == si.analysis.toRead[s]
         Of(id) == CHOOSE r \in parts : r.id = id
     IN  [id \in {r.id : r \in parts} |->
            <<c.arrays[Of(id).arg][Of(id).lb], c.arrays[Of(id).arg][Of(id).hb]>>]]

\* The outcomes of the analysis.  The scheduler is done in some and in the
\* others the driver asks again.
Again(si) == info' = [info EXCEPT ![call.kernel] = si] /\ pc' = "regions"
Done(si)  == info' = [info EXCEPT ![call.kernel] = si] /\ pc' = "partition"

Single(si) == Len(si.real) = 1 /\ ~si.shifting

Outcome(si) ==
  \/ Single(si) /\ Done(FillSingle(si))
  \/ si.shifting /\ \E shifted \in {Shift(si)} :
       \/ ShiftEnds(shifted) /\ Done(FillShift(shifted))
       \/ ~ShiftEnds(shifted) /\ Again(NextShift(shifted))
  \/ /\ ~Single(si) /\ ~si.shifting
     /\ \/ Status(si.analysis) = "FAIL" /\ Again([si EXCEPT !.dim = @ + 1])
        \/ Status(si.analysis) = "MERGE" /\ Again(StartShifting(si))
        \/ /\ Status(si.analysis) = "SUCCESS"
           /\ Done(FillMulti([si EXCEPT !.partitionUnchanged = FALSE]))

WithValues(si, c) ==
  IF EnableIndirections
  THEN [si EXCEPT !.analysis = setIndirectionsValues(@, ReadValues(si, c)),
                  !.partitionUnchanged = indirectionMissing(si.analysis)]
  ELSE si

setIndirectionValues ==
  /\ pc = "values"
  /\ \/ ~SI.need /\ Done([SI EXCEPT !.partitionUnchanged = FALSE])
     \/ /\ SI.need /\ BeyondParts(SI) /\ \E s \in SubKernels(SI.analysis) : SI.analysis.toRead[s] # {}
        /\ pc' = "aborted" /\ UNCHANGED info
     \/ SI.need /\ \E si \in {WithValues(SI, call)} :
          \/ EnableIndirections /\ indirectionMissing(si.analysis) /\ Again(si)
          \/ /\ ~(EnableIndirections /\ indirectionMissing(si.analysis))
             /\ \E analysed \in {[si EXCEPT !.analysis = performAnalysis(@)]} : Outcome(analysed)
  /\ UNCHANGED <<call, calls>>

----------------------------------------------------------------------------
(* getPartition. *)

\* The assertion on granu_intervals: in the split dimension, a sub-kernel
\* ends before the size of the launch.
GranuIntervalsInRange(si) ==
  LET d == splitDimension(si)
  IN  \A i \in DOMAIN si.subkernels :
        LET nd == si.subkernels[i].nd
        IN  nd.size[d] > 0 => nd.offset[d] + nd.size[d] <= si.orig.size[d]

getPartition ==
  /\ pc = "partition"
  /\ info' = [info EXCEPT ![call.kernel].hasPartition = FALSE]
  /\ pc' = IF GranuIntervalsInRange(SI) THEN "idle" ELSE "aborted"
  /\ UNCHANGED <<call, calls>>

\* The application launches a kernel.
enqueueNDRangeKernel ==
  /\ pc = "idle"
  /\ calls < MaxCalls
  /\ \E c \in Calls : call' = c
  /\ pc' = "regions"
  /\ calls' = calls + 1
  /\ UNCHANGED info

Init ==
  /\ info = [k \in DOMAIN Kernels |-> NoInfo]
  /\ call = NoCall
  /\ pc = "idle"
  /\ calls = 0

Next == \/ enqueueNDRangeKernel
        \/ getIndirectionRegions \/ setIndirectionValues \/ getPartition

\* The driver goes on with a launch it has begun: each of its steps moves pc.
Progress == /\ pc \in {"regions", "values", "partition"}
            /\ pc' \in {"regions", "values", "partition", "idle", "aborted"} \ {pc}

Spec == Init /\ [][Next]_vars /\ WF_pc(Progress)

----------------------------------------------------------------------------
(* What the sub-kernels do. *)

HandedOut == pc = "idle" /\ call # NoCall

\* How a range is run for si: the sub-kernel without its device.
RunAs(si, nd) == [nd |-> nd, splitdim |-> splitDimension(si),
                  numgroups |-> NumGroups(si.orig, splitDimension(si))]
RunOf(sub) == [nd |-> sub.nd, splitdim |-> sub.splitdim, numgroups |-> sub.numgroups]

\* The functions of OpenCL and the values of an expression in work item wi.
Called(run, wi, f, d) == Transformed(f, d, run.nd, run.numgroups, run.splitdim, wi)
ValuesIn(run, wi, e, args, read) ==
  LET ocl(f, d) == Called(run, wi, f, d) IN Values(e, ocl, args, read)

\* The elements an access touches in work item wi, for launch c.
ReadIn(run, wi, c, indirection) ==
  {c.arrays[indirection.arg][e] : e \in ValuesIn(run, wi, indirection.expr, c.args, <<>>)}

Touched(c, access, run, wi) ==
  LET indirections == Kernels[c.kernel].indirections
      read == [no \in DOMAIN indirections |-> ReadIn(run, wi, c, indirections[no])]
      Passes(g) == \A v \in ValuesIn(run, wi, g.expr, c.args, read) :
                     Compares(g.pred, Called(run, wi, g.func, g.dim), v)
  IN  IF \A i \in DOMAIN access.guards : Passes(access.guards[i])
      THEN ValuesIn(run, wi, access.expr, c.args, read) ELSE {}

AccessedIn(c, a, kind, run, wi) ==
  LET accesses == Kernels[c.kernel].args[a][kind]
  IN  UNION {Touched(c, accesses[i], run, wi) : i \in DOMAIN accesses}
Accessed(a, kind, sub, wi) == AccessedIn(call, a, kind, RunOf(sub), wi)

SubKernelsOfCall == DOMAIN SI.subkernels
RunBy(i) == WorkItems(SI.subkernels[i].nd)
ArgsOfCall == DOMAIN Kernels[call.kernel].args

----------------------------------------------------------------------------
TypeOK ==
  /\ pc \in {"idle", "regions", "values", "partition", "aborted"}
  /\ calls \in 0 .. MaxCalls
  /\ call \in Calls \cup {NoCall}
  /\ \A k \in DOMAIN Kernels : info[k] # NoInfo =>
       /\ info[k].dim \in 0 .. info[k].nd.work_dim
       /\ Len(info[k].order) = info[k].nd.work_dim
       /\ info[k].need \in BOOLEAN /\ info[k].shifting \in BOOLEAN
       /\ \A i \in DOMAIN info[k].real : info[k].real[i].share \in 0 .. Unit

(* Every work item of a launch is run by a sub-kernel handed out for it,   *)
(* and by one only unless the sub-kernels were widened.                    *)
EveryWorkItemRuns ==
  HandedOut =>
    /\ WorkItems(call.nd) = UNION {RunBy(i) : i \in SubKernelsOfCall}
    /\ \A i, j \in SubKernelsOfCall :
         i # j /\ RunBy(i) \cap RunBy(j) # {} =>
           \E k \in SubKernelsOfCall : SI.subkernels[k].nd # SI.required[k]

(* A work item cannot tell that it runs in a sub-kernel: every work-item   *)
(* function, as ClTransform rewrites it, has the value it would have had   *)
(* in the kernel the application launched, in whichever dimension the      *)
(* launch was split, when the sub-kernel is widened and when it was handed *)
(* out for an earlier launch.                                              *)
SplitIsTransparent ==
  HandedOut =>
    \A i \in SubKernelsOfCall : \A wi \in RunBy(i), func \in Functions, d \in 0 .. 2 :
      Called(RunOf(SI.subkernels[i]), wi, func, d) = Builtin(func, d, call.nd, wi)

(* Every element a work item stores to is in the written region of some    *)
(* device, and each device that has it there runs all the work items       *)
(* storing to it: the copies recorded as valid hold what the kernel        *)
(* computes.  What a work item accumulates is in the region its device     *)
(* contributes to the reduction.                                           *)
EveryResultIsKept ==
  HandedOut =>
    \A a \in ArgsOfCall :
      LET Stored(i, wi) == Accessed(a, "store", SI.subkernels[i], wi)
          Keeps(e) == {j \in SubKernelsOfCall : Includes(SI.data[j][a].written, e)}
      IN  /\ \A i \in SubKernelsOfCall : \A wi \in RunBy(i) : \A e \in Stored(i, wi) :
               /\ Keeps(e) # {}
               /\ \A j \in Keeps(e) : wi \in RunBy(j)
          /\ \A i \in SubKernelsOfCall, r \in Reductions : \A wi \in RunBy(i) :
               \A e \in Accessed(a, r, SI.subkernels[i], wi) :
                 \/ Includes(SI.data[i][a].accumulated[r], e)
                 \/ Includes(SI.data[i][a].written, e)

\* When no device is shifted, and when the or-regions are found: an unknown one is
\* handed out as empty, since whether it was found is decided from the flag of the
\* stored region (ArgumentAnalysis.cpp:558).
Unwidened(si) == \A i \in DOMAIN si.subkernels : si.subkernels[i].nd = si.required[i]
OrBoundsFound(an) == \A a \in Arguments(an) : BoundsComputed(an, a, "or")

(* A device receives everything its sub-kernel reads, and the elements the *)
(* sub-kernel writes: of those it may write only a part.                   *)
RequiredCoversAccesses ==
  HandedOut =>
    \A i \in SubKernelsOfCall, a \in ArgsOfCall :
      /\ \A wi \in RunBy(i) : \A e \in Accessed(a, "load", SI.subkernels[i], wi) :
           Includes(SI.data[i][a].required, e)
      /\ \A e \in SI.data[i][a].written.elements : Includes(SI.data[i][a].required, e)

\* The regions kept for the kernel are those just found for this launch.
JustAnalysed ==
  \/ pc = "partition" /\ SI.need
  \/ pc = "regions" /\ SI # NoInfo /\ SI.hasPartition /\ SI.shifting /\ ~SI.partitionUnchanged

(* The regions the analysis has found for the parts of a launch, those     *)
(* known, hold all that the work items of the parts access.                *)
AnalysisIsSound ==
  JustAnalysed =>
    \A a \in ArgsOfCall, kind \in Kinds, s \in SubKernels(SI.analysis) :
      SI.analysis.regions[a][kind][s].known =>
        \A wi \in WorkItems(SI.analysis.subs[s]) :
          AccessedIn(call, a, kind, RunAs(SI, SI.analysis.subs[s]), wi) \subseteq
            Region(SI.analysis, a, kind, s)

\* The adaptation has left out a device asked for.
Dropped(si) == Len(si.required) < Len(si.req)

(* The program ends nowhere but in the shift of a kernel, of which a device *)
(* was left out or which is then cut into fewer parts than it has devices: *)
(* the vectors read by device are long enough for every other launch, new  *)
(* or like an earlier one, whatever dimension it is split in, and the      *)
(* assertion of getPartition holds of what is handed out, shifts included. *)
AbortsOnlyInShifts ==
  pc = "aborted" => SI.shifting /\ (Dropped(SI) \/ BeyondParts(SI))

\* What it takes: launches that begin at zero.
ZeroOffsets == \A c \in Calls : \A d \in DOMAIN c.nd.offset : c.nd.offset[d] = 0

(* The driver's loop ends: a launch is eventually handed out, unless the   *)
(* program ends.                                                           *)
LoopEnds == pc = "regions" ~> pc \in {"idle", "aborted"}

=============================================================================
