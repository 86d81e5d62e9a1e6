# Verification of libsplitCL

libsplitCL takes the place of the OpenCL library of an application written for
one device, and runs its kernels on several. Each kernel is split into
subkernels, one per device; each buffer has one copy on the host and one on each
device; the library decides, from a static analysis of the kernels, which bytes
must be where before a subkernel runs. This directory holds TLA+ specifications
of its control, the configurations that model-check them with TLC, and theorems
whose proofs TLAPS checks.

Paths below are relative to the root of the repository; `Driver.cpp` and other
files without a directory are in `libsplit/src`.

## 1. The system

| Part | State | Operations | Where |
|---|---|---|---|
| Coherence core | host copy, device copies, `hostValidData`, `devicesValidData[d]`, `mMaxUsedSize`, `map_entries` | read, write, copy, map, unmap, transfers of a launch, directory updates | `BufferManager`, `Driver`, `Handle/MemoryHandle` |
| Device queues | list or ring of commands, `lastEvent`, `running`, the OpenCL queue, events | enqueue, finish, worker loop, destructor, `wait`, `setSubmitted` | `Queue/`, `EventFactory` |
| Interval lists | sorted list of disjoint intervals, flag `undefined` | add, remove, union, difference, intersection, total | `LibKernelExpr/src/ListInterval.cpp`, `Interval.cpp` |
| Scheduler base | per kernel: partition, regions, indirections, profiling | `getPartition`, `setIndirectionValues`, granularity to work groups, merge and shift of partitions | `Scheduler/Scheduler.cpp` |
| Schedulers | granularities, iteration counters, phases | Env, BadBroyden, Broyden, FixedPoint, Sample; MKStatic, MKGR, MKGR2 | `Scheduler/` |
| Kernel analysis | per argument: read, written and atomically updated regions as index expressions | evaluation on a sub-NDRange, indirections, guards | `LibKernelExpr/` |
| Handles | reference counts, kernel arguments, programs and their binaries | retain, release, set argument, build | `Handle/`, `Utils/Retainable.h` |
| Dispatch | none of its own | the interposed OpenCL functions | `Dispatch/` |
| Compiler passes | LLVM and Clang data | analysis of kernels, source transformations | `AnalysisPass/`, `ClTransform/`, `ClInline/` |
| Utilities | options, timeline, logs, small linear algebra | | `Options.cpp`, `Utils/` |

How they interact. The application thread runs every API call: dispatch ->
handles or `Driver` -> `BufferManager` and `Scheduler` -> queues. One worker
thread per device takes commands from its queue and submits them to an OpenCL
queue, which executes them in order. The two meet at the queue and at the
`Event` of each command. The directories are changed by the application thread
when it *enqueues*; the copies change when the OpenCL queue *executes*. Transfers
read and write the one host copy of a handle, which all queues share.

What is hard, and what correctness means:

* **Coherence under asynchrony.** Whatever the pace of the devices, a subkernel,
  a read, a mapping and the evaluation of an indirection must see what the
  program order of the application says. Directories run ahead of the copies;
  the code waits for queues at some points only.
* **Nothing lost.** After any sequence of legal calls, defined contents are valid
  somewhere; the code asserts this when it needs them.
* **Queues.** Each command is executed once, in order, through wrap-around and a
  full ring; `finish` returns, and only when all is done; the destructor neither
  loses commands nor hangs; nobody waits for an event OpenCL has not made.
* **Interval lists.** They must be sets: a wrong bound is silent and shows up as a
  wrong transfer.
* **The analysis of a kernel.** A device receives and returns what the analysis says
  its subkernel touches: bounds that miss one element of one work item, through a
  guard that does not hold or an inverted interval, corrupt a buffer in silence.
* **Partition arithmetic.** The subkernels run every work item of the NDRange, after
  rounding to work groups, merging and shifting; an element that several devices
  write is kept from one that has run all the work items writing it.
* **The scheduler's loop.** It ends, and what it keeps from one launch to the next is
  used only where it still applies.
* **Reductions.** What several devices add to one element must be counted once
  each, over the contents from before the launch, which the host has to have
  although no device asked for them.
* **Measures.** The load balancers compute partitions from times of past launches. The
  times must belong to the partitions they are attributed to, and whatever comes out,
  null, negative or rounded away, must still be a partition.
* **Life cycle.** Each handle is destroyed once, after its last reference; queued
  commands hold raw pointers that must not outlive what they point to.

## 2. The modules

| Module | What it is |
|---|---|
| `SequentialMemory` | abstract: the memory of one device executing the calls in order |
| `SplitMemory` | the coherence core with its queues, directories and devices, and its refinement mapping to `SequentialMemory` |
| `MCSplitMemory` | instances of `SplitMemory` for TLC: launches, a specification without copies and mappings |
| `SplitMemory_proofs` | theorems about `SplitMemory` |
| `Reductions`, `MCReductions` | launches with atomic arguments and the reductions on the host; launches for TLC |
| `Reductions_proofs` | theorems about `Reductions` |
| `InOrderQueue` | abstract: what a device queue promises |
| `DeviceQueue` | what the two queue classes share: application thread, worker, events, OpenCL queue |
| `DeviceLFQueue` | with the lock-free ring between the threads |
| `DevicePthreadQueue` | with the list, lock and condition between the threads |
| `MCDeviceQueue` | a queue of either class, and the refinement mapping to `InOrderQueue` |
| `DeviceQueue_proofs` | theorems about the two classes, from where the commands are according to counters |
| `IntervalSet` | abstract: two sets of positions |
| `IntervalList` | the algorithms of `ListInterval` on lists of intervals |
| `IntervalList_proofs` | theorems about the lists |
| `IndexExpr` | the bounds of an index expression on a subkernel, and guards |
| `ConditionBuilder` | the guards the analysis pass records for an access |
| `NDRange` | launches, their parts, widening and shifting |
| `KernelSemantics` | what a work item computes, in the kernel as written and as `ClTransform` rewrites it |
| `WorkItem`, `MCWorkItem` | an access from its analysis to its execution by a work item; kernels for TLC |
| `KernelAnalysis` | the analysis of a kernel for a partition: indirections, regions, status |
| `Scheduler`, `MCScheduler` | from a launch to subkernels and their regions; kernels and launches for TLC |
| `Scheduler_proofs` | theorems about `Scheduler`, and the lemmas about widening and shifting they need |
| `Granularity` | descriptors of partitions, rounded to work groups |
| `Granularity_proofs` | lemmas about the rounding and the cutting of a launch, for both families of theorems on top |
| `MultiKernelSolver` | the linear program of MKGR and MKGR2: numbering, matrix, constraints |
| `Balancing`, `MCBalancing` | the schedulers: which partition from which measures; partitions for TLC |
| `Balancing_proofs` | theorems about the schedulers and the matrix of `MultiKernelSolver` |
| `ReferenceCounting` | abstract: objects that live as long as they are referred to |
| `Retainable` | the counter of a handle, its loops, and destructors that release the parent |
| `Handles`, `MCHandles` | contexts, buffers, programs and kernels, with what queued commands point to |
| `Handles_proofs` | theorems about `Retainable` and `Handles` |

They fit together: `DeviceLFQueue` and `DevicePthreadQueue` implement
`InOrderQueue`, which is how `SplitMemory`, `Reductions` and `Handles` represent a
device's queue;
`IntervalList` implements `IntervalSet`, which is how `SplitMemory` represents
regions; `SplitMemory` implements `SequentialMemory`, which is what the
application was written for. The launches `SplitMemory` takes as given are what
`Scheduler` hands out: `EveryResultIsKept` of run scheduler is the first two
conditions of `WellFormed`, and `RequiredCoversAccesses` says that the regions read are
complete. Both are theorems, the former for launches without widened subkernels. `Scheduler` evaluates accesses with `IndexExpr` through
`KernelAnalysis`, and `WorkItem` checks that evaluation, access by access, against
`KernelSemantics`. `Scheduler` and `Balancing` share `Granularity` and `NDRange`: the
former lets a scheduler ask for any partition, the latter says which ones each asks for.
`Retainable`, and with it `Handles`, implements `ReferenceCounting`.

`DeviceQueue`, `WorkItem`, `Scheduler`, `Balancing` and `Handles` state a type invariant
each, which holds in their runs; the configurations spend their checks on the others.

### SplitMemory

`hostData`, `devData`, `hostValid`, `devValid`, `maxUsed` and `mapEntries` are
the fields of `MemoryHandle` and `BufferManager`, with a cell for a byte and a set
of cells for a `ListInterval`. `queue[d]` holds the commands of device `d` that
have been enqueued and not executed; `Device(d)` executes the head of one.
`call` is where the application thread is in an API call and the locals it still
needs, and `call.wait` the queues it waits for with `DeviceQueue::finish`. An API
call that waits is two actions, up to the wait and from it (`Read`,
`ReadReturn`); one that does not is one action (`WriteDelayed`).
`user` is the memory behind the pointer of the call in progress. `gold` is
a history variable: the contents of a single device that executes the calls in
program order.

A kernel launch is a record: per device, the read and written regions that the
scheduler computed and, unknown to the library, what is really written. The
constant `Kernels` is any set of launches that satisfies `WellFormed`, what the
scheduler guarantees: every cell written is in some device's written region, and a
device with a cell in its region runs everything that writes the cell. Regions of
two devices may share cells: when the scheduler has widened subkernels they do
(`Scheduler.cpp:660-681` prevents it for one kernel only), and both copies are valid. A
subkernel whose inputs are not those of the program order writes `NoVal`, a value the
program never stores, and so does one in a cell outside its region, where it has
run a part of the writers only: what is wrong shows up wherever it goes.

A `queue` of `SplitMemory` is FIFO with independent devices; blocking flags of
the API do not appear because the code ignores them. The application is legal: it
reads what is defined, and leaves alone what it has mapped as OpenCL demands.

### Reductions

One buffer of typed elements, written by the application and by launches that update it
atomically (sum, maximum, minimum), store flags in it (or) or store values. `Start`
is the driver up to the transfers to the host (`computeTransfers`), `Enqueue` the
transfers to the devices, the subkernels, the transfers of each copy into `tmp` and the
directories, and `Reduce` what follows the barrier: it combines the copies and frees
`tmp`. What is read from memory that nothing has written is any value
(`junk`). `gold` is what one device would compute, element by element, modulo 2^w.
An or-reduced element is known to hold 0 or 1 only, as the pass demands of a kernel it
calls so. Kernels without atomics are in `SplitMemory`, and are here so that atomics
meet directories of every kind.

### DeviceQueue, DeviceLFQueue, DevicePthreadQueue

One application thread (the library serves one), one worker, and the OpenCL queue.
Every access of a thread to an index or a slot that the other may change is a step
of its own; sections under the same lock are one step. `Event::wait` is `EnterWait`, `WakeUp`,
`EndWait`: the condition wait gives the mutex back, the wait for OpenCL does
not. Memory is sequentially consistent: the indices of the ring are `volatile`, the
slot is separated from the index by a full barrier on the producer's side
(`LockFreeQueue.cpp:21`), and `running` is read again in each iteration, around
calls of functions of other translation units.

### IntervalList

The lists are sequences of `[lb, hb]` records. The loops of `ListInterval::remove` that
look for the index of each bound are "the first index at which the condition
fails"; the rest follows the branches of the code.

### IndexExpr, ConditionBuilder, KernelSemantics, WorkItem

`IndexExpr` evaluates an expression as `computeBounds` does: a pair of bounds, or
"not computed". An expression is the sequence of its nodes. `ConditionBuilder` is the
part of the pass that decides which branches guard an access (the iterated
post-dominance frontier of its block), with which truth (`isReachable`), and brings
a comparison to the form "work-item function, predicate, integer".
`KernelSemantics` is the reference: the values an expression takes in a work item.

`WorkItem` has an access of a kernel go through all of it. `Build` adds a node to
the index expression, `Enqueue` launches the kernel, `Split` takes one subkernel of a
split in two and computes the bounds, and `Start`, `Step` and `Finish` run its
work items through the control-flow graph of the kernel. Whenever one arrives at the
block of the access, its guards must hold and its index must be in the bounds.

### NDRange, KernelAnalysis, Scheduler

`info[k]` is the `SubKernelSchedInfo` that `kerID2InfoMap` keeps of kernel `k`, the
fields that decide anything; `call` is the launch in progress. The driver's
do-while loop (`Driver.cpp:362-433`) alternates `getIndirectionRegions` and
`setIndirectionValues` until the scheduler is done, then calls `getPartition`; `pc`
says which is next. The partition a scheduler asks for is any member of `Requests`: the
load-balancing schedulers differ only in which one. `SplitIsTransparent` is a property of
the subkernels that come out of it: it compares the work-item functions of
`KernelSemantics`, as written and as rewritten, in each of their work items. An action evaluates in one
step what the function does; its outcomes are `Outcome`'s disjuncts (a single device,
the status SUCCESS, FAIL or MERGE, a shift that ends or goes on).

A device's share of a launch, a double in the code, is an integer number of
`Unit`-ths. Buffers are counted in elements. `Kernels` gives each kernel's accesses as
the pass would describe them; `Touched` is what a work item of it does.

### Balancing, MultiKernelSolver

`info[k]` is again what is kept of kernel `k`; an action is one launch: the function of the
scheduler (`getInitialPartition`, `getNextPartition`) and the base class around it,
which rounds the request and remembers the launch. Times are abstracted: a partition
computed from times is any member of `Candidates` (FIXEDPOINT, the solver) or
`Steps` (the two BROYDENs, whose last share may be negative; they share one action body,
since they differ in the update of a matrix). What is kept of a time is the pair of
*solutions* of the solver under which its two kernels ran, and which device and
buffer it is attributed to. Kernel `k` writes a buffer of its own, one element per
`Unit`-th, and reads all buffers with `Halo[k]` elements around its part.

`MultiKernelSolver` has the numbers of rows and columns, the entries that
`updateGlpMatrix` writes, and the constraints `getD2HConstraint` and `getH2DConstraint`
derive from the partitions of two kernels. Shares are integers, so the tolerance EPSILON
of its comparisons is 0. The solver is whoever picks a member of `Solutions`.

### Retainable, Handles

A thread in `retain` or `release` is at the load, at the compare-and-swap or about to
run `delete`; `owners` is a history of who holds each reference. The destructor of a handle
with a parent goes on to release the parent, with the handle as owner. `Handles` adds what
the constructors, destructors and operations of the four classes do to real
OpenCL objects, arguments and queues. The application follows rules that OpenCL
does not state but this library needs: it keeps its context while it uses programs and
kernels (programs do not retain it), and reads what a launch wrote before it releases
the launch's handles (`clFinish` does nothing). One context, since a second ends the process.

### Operators named Mutant_

Beside some definitions stands a `Mutant_` operator: the same definition with a
mistake that a change to the code could make (a dropped wait, a missing
invalidation, an index that does not wrap). No specification uses them. With one
in the place of its original, the run it belongs to reports a violation: that
is how each property is known to say something of the code.

## 3. The runs

| Run | Configuration | Shows |
|---|---|---|
| cycle | `MCSplitMemory_cycle` | with the barrier of the multi-kernel schedulers after each launch, `SplitMemory` implements `SequentialMemory`; inputs of subkernels, values of indirections and every copy recorded as valid are right; nothing is lost and no assertion fails |
| delayed | `MCSplitMemory_delayed` | the refinement again, with option DELAYEDWRITE and a second, read-only handle with an undefined read region, of which `mMaxUsedSize` bytes are sent |
| mapping | `MCSplitMemory_mapping` | a mapping for reading shows the contents of the program order, and mappings for writing leave no outdated copy recorded as valid |
| reductions | `MCReductions_reductions` | what several devices add to, or fold into, the same elements is what one device would have computed; sums find their base on the host; no transfer is left when the memory of the reduction is freed |
| queues | `MCDeviceQueue_queues` | the lock-free queue and the one with a lock and condition both implement `InOrderQueue`, liveness included; events are waited for only once OpenCL has made them; the destructor waits for all commands and ends |
| intervals | `IntervalList` | every sequence of operations does to lists what it does to sets |
| access | `MCWorkItem_access` | guards hold whenever the access is executed; bounds contain every index, for conditions, early returns, loops and conjunctions and for every expression of up to five nodes |
| scheduler | `MCScheduler_scheduler` | subkernels run every work item, and no work item can tell that it runs in one; each result is kept by a device that computed it whole; each device is sent what it reads, regions just found holding what work items access; the loop ends; no assertion fails, and the program ends only in shifts that read vectors beyond their end |
| balancing | `MCBalancing_balancing` | whatever a scheduler asks for, the parts cover the launch, each once; FIXEDPOINT never divides the share of one device into the cost of another; the solver is given measures of one solution only, attributed to what had to be transferred; its matrix is well formed and charges transfers to the host as they were sampled |
| handles | `MCHandles_handles` | counts are the numbers of owners in every interleaving, a handle without owner is destroyed, once; no pointer that is still followed dangles; only programs built again leave real objects behind |

Runs that end in a violation, each a disagreement of the code with what a comment,
an assertion or the README of the repository says:

| Run | What happens |
|---|---|
| nobarrier | without the barrier (single-kernel schedulers, or CYCLELENGTH > 1) a transfer to the host of a later launch overwrites the host copy that a queued transfer of an earlier launch still has to send: `Driver.cpp:529` says no barrier is needed because the queues are in order, but the host copy is shared by the queues |
| border | in the else part of `a && b` the pass records that `a` is true, because it takes the truth of a condition from reachability (`ConditionBuilder.cpp:178`), and that `b` is false: where `a` is false the access is executed, and its region misses it |

More disagreements are in the models, behind a constant or as a property
that no run checks because it does not hold:

* Mappings for writing (`MapFlags` with `"W"` beside launches): what is stored through
  one is valid nowhere after the unmapping (`BufferManager.cpp:308`), a read of it fails an
  assertion (63-68), and `AssertionsHold` does not hold.
* Launches with a global offset (`OffsetCalls` of `MCScheduler`) fail the assertion on
  `granu_intervals` (`Scheduler.cpp:872`): `AbortsOnlyInShifts` does not hold.
* Sums without DELAYEDWRITE (`Spec` of `Reductions` with `DelayedWrite = {FALSE}`): a write
  leaves the host copy as it was, no device misses anything, and the sum is taken over a
  base the host does not have (`BufferManager.cpp:526`); `ResultsAreExact` does not
  hold. The option is off by default (`Options.cpp:38`), though its help says
  "enabled by default" (137).
* The rows for transfers *to* a device are copies of those for transfers to the host
  (`MultiKernelSolver.cpp:1136-1197`), while their samples are taken for what a device
  gains (`SchedulerMKGR2.cpp:538`): `H2DRowsChargeSampledShare` of `Balancing` does not hold.
* FIXEDPOINT looks up by place the costs it keeps by device, and divides the share of the
  place into them (`SchedulerFixedPoint.cpp:59-69`). When a device that is not the last is left
  without work groups, one of the costs is 0, the next share of its place is 0/0 and the others
  are 0 (`FixedPointFails`; what follows is not modelled). Otherwise the
  costs are those of the right devices, which nothing in the code checks (`SharesAreOfOneDevice`).
* A program built again overwrites its real programs without releasing them
  (`ProgramHandle.cpp:358-366`): the exception in `LeaksOnlyRebuilds`.
* `NeverExits` of `SplitMemory`: a read mapping of contents that are already on the
  host is not recorded (`BufferManager.cpp:254`), and its unmapping calls `exit`
  (295-298), in a library that is to be "completely transparent to the user"
  (`README.md:15`).
* `CreateFlags = {"use"}`: the contents of a handle created with
  CL_MEM_USE_HOST_PTR are valid nowhere (`MemoryHandle.cpp:107`), and
  `AssertionsHold` fails.
* `FreedKept = FALSE`: `unmap` reads `isWrite` from an entry it has erased
  (`BufferManager.cpp:301-303`); if that reads anything else, `AssertionsHold` fails. The
  runs take the memory of the entry to keep its contents for these two lines.
* `MarkersFindQueue`: the application enqueues the timeline's markers on an OpenCL
  queue that the worker may not have created yet (`DeviceQueue.cpp:62`).
* `SpuriousWakeup = TRUE`: `Event::wait` tests its flag once (`Event.h:34`); after a
  spurious wakeup it hands OpenCL an event that does not exist, and
  `WaitsForCreatedEvents` fails.
* `EnableIndirections = FALSE` (option ENABLEINDIR=0): the shift of a kernel whose
  subkernels overlap is never followed by another (`Scheduler.cpp:495`), and `LoopEnds` fails.
* Three devices and two work groups on a kernel whose subkernels overlap: the device
  that was dropped comes back with the request (`Scheduler.cpp:403`), and the vector of
  sub-ranges is read beyond its end (`OutOfSubRanges`, which ends in state `aborted`).
* In a shift the analysis is made for the shifted part and what is left on its sides, one to three
  parts, and resizes its vectors to their number (`KernelAnalysis.cpp:183-184`), while the scheduler
  indexes them by device (`Scheduler.cpp:500-503`, 544; `KernelAnalysis.cpp:252-255`). Whenever there
  are more devices than parts the vectors are read and written beyond their end: three devices
  and two parts, or two devices and a part widened to the whole launch. What that does is
  undefined; the model takes it to find nothing or to end the program (`BeyondParts`,
  `Reached`). `AbortsOnlyInShifts` says that no other launch comes to either of the two.
* A shift is done when, of each argument that *merges*, every element is written by some device
  alone (`Scheduler.cpp:652`; what has to be reached is kept for those arguments only, 800).
  Another argument of the kernel, whose regions overlap only once subkernels are widened, may
  then have elements in nobody's written region. With `TwoStores`,
  `TwoCalls` and `TwoRequests` of `MCScheduler` (and `Unit`, `NbDevices` = 6), `EveryResultIsKept` fails.
* The third part of a shifted partition, which stands for the devices behind the one shifted, is
  given the size `newHB - newLB`, one less than that of the part before it, and not its own
  (`Scheduler.cpp:239`): what a device writes alone is told from what other work items
  write, and elements written by a work item behind that part count as its own.
* `adaptGranudscr` corrects the share that reaches the whole in slot `i`, while the shares kept
  move to slot `idx` (`Scheduler.cpp:1359`). Once a device has been left out they are
  different slots, and shares of 0, 3/8 and 5/8 on four work groups become 2/4 and 3/4, where "the total
  granularity has to be equal to 1.0" (1345): `TotalIsWhole` of `Balancing` fails
  with `HalfCandidates` of `MCBalancing` and `Unit` = 8. No work group is run twice, for the last device
  gets what remains, but the solver is given shares that are not those that ran.
* An indirection whose guards exclude every work item is never computed
  (`KernelAnalysis.cpp:202`), and `LoopEnds` fails.
* An or-reduced argument with unknown bounds is taken for untouched
  (`ArgumentAnalysis.cpp:558`), and `EveryResultIsKept` fails.
* A comparison with a multiple of the id, such as `2 * id < 5`, is normalised with a
  truncated quotient (`ConditionBuilder.cpp:318`), and `GuardsAreNecessary` fails.
* A local id under a guard on the global id, and a loop with a step above one from a
  start that differs between work items, get bounds that are too small
  (`IndexExprOCL.cpp:303`, `IndexExprBuilder.cpp:585`): `BoundsCoverEveryAccess` fails.

Seen while modelling, and not in a model:

* MKGR handles the samples of transfers to a device as if they were transfers to the
  host (`SchedulerMKGR.cpp:413-442`); as it gives the solver no
  coefficients, they have no effect.
* `clReleaseCommandQueue` calls the real `clRetainCommandQueue`
  (`Dispatch/CommandQueue.cpp:45`).
* The test that options for multi-kernel schedulers come with a cycle length omits MKGR2
  (`Options.cpp:452`).
* `devId > pfNbDevices` lets one index too many through (`ContextHandle.cpp:227`).
* `ker2Dev2WrittenRegion` is emptied only for buffers this launch writes
  (`Driver.cpp:588-598`).
* `EventFactory` has MAXEVENTS events and recycles none.
* Sums, maxima and minima of CHAR and UCHAR buffers are skipped without a word (`Driver.cpp:1085-1088`,
  1184-1187, 1283-1286): the operands of the devices are never combined. `Reductions` models
  the other types.

### Bounds

* `SplitMemory`: two devices and two cells are the smallest where one device reads
  what the other writes (`Stencil`), a written region is larger than what is written
  (`Partial`), and a copy or mapping overlaps a region in part. The directories
  treat cells independently of each other, and devices alike except for the
  order in which they are scanned; two are enough for one to hold what another
  lacks, and for regions that share a cell (`Shifted`). `Value` has two values, so that
  old and new contents can differ. `MaxPending` is the only bound on counters: no new
  launch while more than that many commands are pending on a device. It is 0 with the
  barrier, where nothing is pending anyway, and 4 in run nobarrier.
* Reductions: two devices and two elements, so that regions are laid out in `tmp` at places
  other than their own; values modulo 4, so that sums overflow; operands differ between
  devices. Launches on one device, on both, on both with a region on one only, and plain
  stores alternate in any order, with no bound on their number.
* Queues: a ring of 4 slots holds 3 commands; 9 commands wrap it twice and fill
  it. With the list, 9 commands are far more than the 2 or 3 that the race of
  sleeping and waking needs.
* Interval lists: 6 positions allow three blocks, or two of which one can be cut
  in the middle; all 4096 pairs of sets are reached.
* Run access: six work items in groups of two, and a launch of two dimensions, split
  anywhere; expressions of `MaxNodes` = 5 nodes combine two operations, or an operation
  and a loop, which is where inverted bounds and wrong ends appear. Conditions are
  comparisons of each work-item function with each predicate, on either side, alone, in
  pairs and in the shapes of a structured program.
* Run scheduler: one to three devices, `Unit` = 12 so that halves, thirds and
  quarters are exact, launches of one to eight work items in one or two dimensions,
  with fewer groups than devices among them. `MaxCalls` = 2: what a kernel keeps is
  overwritten by its next launch, so two launches show every use of it. The launches
  of run access and of this one have no global offset (see above).
* Run balancing: three devices, the smallest number with one that is neither first nor last,
  for which the constraints are different; shares in twelfths and launches of 2 and 4 work
  groups, so that shares round to nothing and devices outnumber groups. Two kernels are a
  cycle; `MaxCount` = 9 launches are four cycles: two measured, two adopted, and the
  launch that asks the solver for the second time.
* Run handles: two threads, all classes of handles once; `MaxBuilds` = 2 has a program
  built again.

### Fairness

The queue specifications assume weak fairness of three things: the worker thread
(the operating system schedules it, and its sleep on `wakeupCond` is a
`pthread_cond_timedwait` of at most five seconds, so `Timeout` is one of its steps),
the OpenCL queue, and the application thread *inside* a call of the library.
Nothing obliges the application to make another call. `DestructorEnds` depends on
the timeout: the destructor wakes the worker without holding the lock
(`DevicePthreadQueue.cpp:38`), and the wakeup is lost when the worker is about to
sleep. `Scheduler` assumes `WF_pc(Progress)`: the driver's loop runs on the application
thread inside a call, which the operating system schedules; nothing obliges the
application to launch another kernel. `Handles` assumes weak fairness of each thread's steps
*inside* `retain` and `release`, and of each worker; the loops are lock-free (a
compare-and-swap fails only because another thread's has succeeded), and `UnownedAreDestroyed`
needs no more because threads hold finitely many references. `SplitMemory`, `Reductions`,
`WorkItem` and `Balancing` state safety only, and assume no fairness.

CHECK_DEADLOCK is FALSE only where the program ends: a destroyed queue, a call of
`exit` or a failed assertion or check; and for `Scheduler` and `Balancing`, where
`MaxCalls` and `MaxCount` bound the launches. `Handles` may stop for both reasons: the application may be done, and the
library may have called `exit`.

## 4. The proofs

`SplitMemory_proofs` proves, for any number of devices, handles, cells, values
and well-formed launches, under the assumptions on the constants that
`SplitMemory` names and what a theorem says besides:

* `TypeCorrect`: `Spec => []TypeOK`. One lemma per action; the work is in the
  queues (concatenation of transfers) and in the locals of the call.
* `DirectoriesLoseNothing`: if no handle is created with CL_MEM_USE_HOST_PTR,
  mappings are for reading and an erased map entry is still readable, then
  `Spec => [](NothingLost /\ AssertionsHold)`. The three hypotheses are exactly
  the disagreements listed above (handles in use by the host, mappings for writing,
  and the erased entry): without any of them the
  statement is false. The inductive invariant is
  `DirInv == NothingLost /\ AssertionsHold /\ NoWriteMapping`. `NothingLost` is
  what makes each step's assertion hold: what a call needs and the host lacks is
  defined, hence valid on a device. It is preserved by a launch because what the devices
  have written is validated after all the invalidations, and `WellFormed` has each cell
  that is written in the written region of some device. `NoWriteMapping` (no entry of
  `map_entries`, no mapping held and none being made is for writing)
  keeps `Unmap` from invalidating and `Store` from defining. Neither barriers nor
  the pace of the devices matter, so the theorem also covers the configurations
  whose contents are not coherent (run nobarrier).
* `SubKernelsAreInOrder`, `IndirectionsAreInOrder`, `ValidCopiesAreRight`,
  `MappedReadsAreInOrder`: with the same three hypotheses and a barrier after every
  launch (`BarrierAfterLaunch`: option CYCLELENGTH is 1 and the scheduler is one for several
  kernels), the four properties of contents that runs cycle, delayed and mapping check.
  Run nobarrier shows that the barrier cannot be dropped.
* `SplitMemoryRefines`: under the same conditions `Spec => ImplementsSequentialMemory`. A
  step of the library is a step of the memory of one device, or none; a read returns
  at the step that executes the last transfer it waits for.

The invariant under these five is `CohInv`. Contents lag behind the directories, so
most of it is about what a copy *will* hold (`CopiesInv`). A cell that `hostValidData` has is
right, or a transfer that will make it so is in some queue (`HostCopiesAgree`). A cell that
`devicesValidData[d]` has will be written by the subkernel in `d`'s queue, whole, or is
right once the transfers in that queue are done: `Delivered(d, c)` (`DevCopiesAgree`). Inputs of a
subkernel are what will be delivered (`InputsArrive`). `Shape` says how little can be queued: thanks
to the barrier nothing between two calls, and inside one only what that call has enqueued, a
transfer to a device and a subkernel or one transfer from a device. `UsedCovers`
is why `mMaxUsedSize` bytes are enough for a region that is unknown. `CallInv` has what each call
has found out, in particular that a device misses nothing that is valid somewhere.
`DirInv` is needed with it: a cell that is required and defined is on the host, or on
its way there.

`Reductions_proofs` proves, for any number of devices and elements, any operands and any
well-formed launches:

* `SumsFindTheirBase`: `Spec => []BaseIsOnHost`. The host never asks for the base of a sum;
  it is there because of what the directories cannot do. The inductive invariant is
  `IInv`: the types, `NothingLost` (defined elements are valid somewhere),
  `SharedIsOnHost` (an element valid on two devices is valid on the host, which with
  DELAYEDWRITE every operation preserves), `Prepared` (between the two halves of a
  launch, the region is valid somewhere, what goes to the devices is on the host, and so
  is the whole region of a sum) and `BaseIsOnHost`. With two devices in a sum, an element not on the host is
  missing on one of them, which brings it back.
* `FreedWhenRead`: with a barrier after every launch, `Spec => []NoTransferAfterFree`. Its
  invariant `QueueInv` says that queues are empty between calls, and that before it reduces
  the driver waits for all of them, and before it launches for those with transfers to the host.
* `ReductionsAreExact`: with a barrier after every launch,
  `Spec /\ []SumsAreDelayed => []ResultsAreExact`. `SumsAreDelayed` restricts sums that
  several devices share to option DELAYEDWRITE, as `Supported` does in run reductions; without
  it the statement is false (see the disagreements above). Two arguments meet. One is about data: what
  `Combined` makes of the copies is what one device computes (`CombinedIsWhole`),
  operation by operation. Maxima, minima and flags absorb what was there before, so the copies
  can be folded in any order; of a sum each copy holds the base once, up to a multiple of
  the modulus (`CopiesAddUp`), and the host takes it off again for all copies but one
  (`SumIsWhole`). An element is found in `tmp` by its rank in the region
  (`PlaceIsUnique`, `CopyIs`). The other is about time: `ExactInv` says what each copy
  holds when nothing is running (`Settled`), while transfers to the host are (`Bringing`), and
  after the launch, device by device: it has still to receive its inputs, to run, or to save its
  region, or it is through (`Running`, `Stage`). The contents from before the launch are
  the ones the host keeps (`Agrees(local, hostValid, g)`), and the base of a sum is among
  them by `SumsFindTheirBase`.

`DeviceQueue_proofs` proves the same of the two classes
of queues, for any number of commands and any size of the ring:

* `ListIsDrained`, `RingIsDrained`: `Spec => []DestroyedAfterAll`.
* `ListEventsExist`, `RingEventsExist`: `Spec => []WaitsForCreatedEvents`, if
  `SpuriousWakeup` is FALSE (with TRUE both are false: see the disagreements above).
* `ListKeepsOrder`, `RingKeepsOrder`: the initial states and steps of `InOrderQueue`, under the
  same condition and with the mapping of `MCDeviceQueue`; that calls of finish return is left to run queues.
* `SizeRaceIsBenign`: the answer of `LockFreeQueue::Size`, computed from two readings of an
  index that moves, is right about emptiness, and `Dequeue` never fails.

The commands are numbered, so everything in flight is an interval of numbers: `CountInv`
says that `completed`, `Len(stream)`, `Taken`, `Handed` and `issued` are in this
order and that the stream is 1, 2, 3... The list is then exactly the numbers from `Taken` to
`Handed` (`ListInv`), and so are the slots of the ring from `idxR` on, modulo its size
(`RingInv`), which also has what each thread knows in the middle of an operation: that there is
still room, that the slot is written, that the ring was seen not to be empty. Both refinements go
through one more instance of `InOrderQueue`, on intervals of numbers (`Counted`), so that the
steps the classes share are proved once.

`Balancing_proofs` proves, for any number of devices and any length of the cycle:

* `MatrixAlwaysWellFormed`: `Spec => []MatrixIsWellFormed`. It holds whatever was measured,
  so no invariant of the schedulers is needed: the run checks the same of the matrices they come to.
  A number within a block is one of digits `i`, `j`, `k` (`IndexDigits`), which it
  determines, and the numbers of two blocks are apart (`BlocksApart`): a row determines
  its constraint and a column its variable (`KernelRowsApart`, `OneCommRow`, `CommCols`),
  and no constraint has two terms for one variable (`KernelTermsApart`, `CommTermsApart`).
* `SamplesOfOneSolution`: `Spec => []TransfersAreOfOneSolution`. In an even cycle each kernel
  adopts the solution at its own launch, so the records of one cycle belong to two solutions:
  `OneSolutionEach` says which kernels have adopted, and that in an odd cycle, before a
  kernel is measured, what it kept of an earlier solution is dropped. A kernel whose number of
  work groups changes keeps the solution and computes its partition anew, which
  changes nothing about it (`Launched`).
* `PartitionsCover`, `SharesOfOneDevice`: `Spec => []PartitionCoversLaunch` and
  `Spec => SharesAreOfOneDevice`, if partitions set by the user name a device once and GRANUDSCR has
  a share of at least half of an even one (`OptionsArePartitions`). Nothing in the code checks
  either: of shares that all round to nothing `adaptGranudscr` would make up the one before the
  first. For what the schedulers ask it cannot happen. The invariant of the schedulers, `PartitionInv`,
  says of each launched kernel that its request is one (`Request`: FIXEDPOINT's change of the first
  shares and a negative last share of the BROYDENs included) and that its partition is `Parts` for the
  number of work groups of its last launch, which covers it (`Covered`). The second theorem needs that rounding
  keeps the devices in the order of the request: none then stands before its place
  (`NotBeforePlace`), and when there is a cost for each place looked up, each stands in its own
  (`InPlaces`, `OwnShares`).
* `SamplesMeasureTraffic`: `Spec => []SamplesAreTraffic`, under the same condition. The intervals
  that are compared cut the launch into what each device ran (`IntervalsCut`), so what a device
  sends is what it ran and another reads.
* `ConstraintsAreExact`: `Spec => []ConstraintsMeasureTraffic`, under the same condition. The property is
  about partitions that amount to the whole (`Whole`), because rounding may leave others (see
  `TotalIsWhole` among the disagreements). A constraint is a sum over the devices up to some place, of
  two partitions (`SumIs`, `StartIs`); its value is where two parts begin or end relative to each other
  (`MovedValues`), and the cases of the code are the ways two intervals can lie (`IntervalMinus`).
* `RowsChargeTraffic`: `Spec => []D2HRowsChargeSampledShare`, of the same partitions. The rows of left
  and right hold the terms of exactly two constraints (`RowIs`), whose sum is computed by
  induction over the devices before (`RowSum`, `ChargedIs`): how far each end of the part moves
  (`EndsMove`). The intervals the sample was taken of are those of the shares, but for the last
  part, which may be shorter (`IntervalsAreShares`): hence "no less", and "exactly" for the others.

`Granularity_proofs` has what these and the theorems about `Scheduler` need of the partition
arithmetic. Shares that add up to the whole have one that is not below the mean (`NotBelowMean`),
which rounds to a work group (`SomeIsKept`).
The loop of `adaptGranudscr` is a fold (`AdaptIsChain`) with the invariant `KeepInv`:
the pieces kept so far are whole numbers of work groups, laid end to end (`LaidOut`), and once
the whole has been given out the last one is what remains, in whichever slot the
correction was written. Such a descriptor (`Parts`) is cut by `splitDim` into ranges
that meet end to end (`PartsAre`, `Covered`).

`Scheduler_proofs` proves, for any numbers of devices and launches, any kernels, indirections, options
of the shift and partitions asked for, under the assumptions that `Scheduler` names:
launches are what OpenCL accepts (`CallsAssumption`), requests name a device once, and have
no negative share but the last and one of at least half of an even one (`RequestsAssumption`:
`Request`, which is proved in `Balancing_proofs` of whatever the schedulers ask), and `Unit` is
a multiple of the numbers of work groups, so that shares are exact (`SharesAssumption`). ENABLEINDIR is
at its default, on (`Options.cpp:37`):

* `WorkItemsRun`: `Spec => []EveryWorkItemRuns`.
* `RunsAreTransparent`: `Spec => []SplitIsTransparent`, if launches have no global offset
  (`ZeroOffsets`): what `ClTransform` computes a group id from is relative to the launch.
* `AbortsAreOfShifts`: without global offsets, `Spec => []AbortsOnlyInShifts`. The invariant says
  that outside a shift the analysis is made for as many parts as there are devices (`NoneBeyond`), that
  parts which are handed out end within the launch, and of a program that has ended why (`EndsInShift`).
* `RequiredIsEnough`: `Spec /\ []AnalysisIsSound => []RequiredCoversAccesses`. `AnalysisIsSound` says of
  the regions *just found* for a launch that they hold what its work items access. The theorem is about the rest: regions
  kept from an earlier launch, gathered over several shifts, or found with indirections
  read for another partition are those of what runs. The hypothesis is checked by run scheduler, and access by access
  by run access; it is not proved, because it is about the bounds of expressions of any size.
* `ResultsAreKept`: `Spec /\ []AnalysisIsSound => [](Unwidened(SI) /\ OrBoundsFound(SI.analysis) =>
  EveryResultIsKept)`. When no subkernel handed out was widened, and the bounds of
  or-accesses were found, each result is kept by the device that computes it and by no other. Without either condition the
  statement is false of the code (the disagreements at `Scheduler.cpp:652`, 239 and
  `ArgumentAnalysis.cpp:558`). That a launch is not widened must be told from what is left of it: a
  device that is shifted never gets the part it was asked to run (`ShiftedDiffers`).

The invariant of the first three is `SchedulerInv`: the fields that have a meaning in every state (`Shape`), and one
predicate per phase of the driver's loop (`PhaseOf`): what the scheduler is asked (`Asking`), that it can be cut
(`Ready`), the parts, which begin with a work group and together are the launch (`Cut`), what has been shifted
so far (`Shifting`), what is analysed (`Analysing`), and, between launches, that what is kept of a kernel was right
for its last one (`Rest`). `SplitDivides` brings in the lemmas about rounding; `ShiftedWidens` shows of `getShiftedPartition`
that its parts are a widened one and what is left on its sides, and `CoversAll` that parts which are widened
still run everything. The two about data go through `CoverInv`, on top of it: what is kept is
the regions of the launch it was kept from (`RestCovers`), which a launch that reuses them equals in
kernel, size and arguments, or has no indirections (`SameLaunch`); while devices are shifted, the first ones
have what they access (`ShiftCovers`).

`Handles_proofs` proves, for any finite sets of threads and handles and any tree of height
one of parents:

* `CountsMatch`: `Spec => []CountsAreOwners`. A pending call owns the reference it
  is about to give or take, and between load and compare-and-swap the remembered value
  says nothing until the comparison succeeds. The invariant `IInv` adds who may be deleting
  (`DeletersAlone`), what pending calls hold (`RetainersHold`, `ReleasersHold`), and that a
  handle keeps its parent (`ChildrenHold`, `OwnersExist`).
* `CountingRefines`: `Spec => ImplementsReferenceCounting`, under the same invariant: each
  step of a loop is a step of `ReferenceCounting` or none.
* `PointersStayValid`: `Spec => []PointersAreValid`. `PInv` adds that what is
  queued has not been read (`QueuedAreUnread`) and that handles of launches not yet read
  have an owner who keeps them (`InFlightAreKept`).
* `OnlyRebuildsLeak`: `Spec => []LeaksOnlyRebuilds`. The invariant `RealsAreMade`: a living
  handle has the one real object its constructor has made, or as many programs as it was
  built times; the destructor releases one.

`IntervalList_proofs` proves, for any number of positions and lists of any length:

* `ListsStayNormalised`: `Spec => []BothNormalised`. The property is inductive by itself; what it
  takes is what each operation does (`AddIs`, `RemoveIs`, `UnionIs`, `DifferenceIs`), which is shown of
  all normalised lists, those of intermediate results included.
* `ListsImplementSets`: `Spec => ImplementsSets`, from the other half of the same lemmas: which
  positions the result covers.
* `IntersectionAlwaysExact` and `TotalAlwaysExact`: `Spec => []IntersectionIsExact` and
  `Spec => []TotalIsExact`.

Of an addition, `InsertIs` says that inserting keeps the order of the lower bounds, and `MergeIs`
what a step of the merge keeps when the next interval does not begin before the last merged
one. Of a removal, the two searches stop at the block, or the gap, in which the bound lies
(`LowerIndexIs`, `HigherIndexIs`, which need the early return of the code: without it the
lower search runs off the end). From that `RemoveInsideIs` and `RemoveAcrossIs` follow block by block:
each is out of what is removed, within it and deleted, or cut to what is left of it. Each
loop over a list is a fold with a chain of values (`MergeIsChain`, `UnionIsChain`, `CutIsChain`...).

Sums over sets of devices and chains of folds are handled by induction on sets: the
provers cannot instantiate a theorem that takes a predicate, but they can use that a set of naturals that
is not empty has a least element (`Least` in `Reductions_proofs`, `Granularity_proofs`, `SplitMemory_proofs` and `IntervalList_proofs`, from well-foundedness), from
which `Induction` follows for a *set* of naturals, and `FoldInduction` for a set of partial results.

Model-checked only:

* `GuardsAreNecessary`, `BoundsCoverEveryAccess` and `AnalysisIsSound`: they compare two evaluations of an expression of any
  size, node by node, which is induction over data, and beyond the prover.
* `EveryResultIsKept` of launches with widened subkernels: it holds of the kernels of run scheduler and is false in
  general, for the reasons under `ResultsAreKept`.
* The liveness of queues, handles and the scheduler (`DestructorEnds`, `UnownedAreDestroyed`,
  `LoopEnds`, and the fairness of `InOrderQueue`): liveness under fairness and
  ENABLED are beyond the prover.

## 5. Not modelled

* The arithmetic of load balancing (quasi-Newton steps, fixed point, regressions, the
  simplex method of GLPK): real numbers and an external solver. The models take any
  partition they may return.
* `SchedulerSample`: its constructor ends the process ("not implemented yet").
* The merge of the copies of two devices: `startMergeD2HTransfers` begins with
  `assert(false)` ("merge disabled").
* Queries (`clGetXInfo`), the choice of platform and devices, and the parsing of options:
  they change no state the rest depends on.
* The compiler passes apart from guards, loop counters and the rewritten work-item
  functions: they translate LLVM values and Clang trees. The index expressions and
  control-flow graphs they yield are inputs of the models.
* In expressions: float and double variants, casts, bitwise operators; a remainder of a
  negative dividend or by a negative divisor. Division is exact, as the code's
  reciprocal in doubles is for operands smaller than 49; so are the shares of
  devices.
* In run access: comparisons are normalised through additions and subtractions only; a
  disjunction is an early return; the else part of a short-circuit conjunction is run
  border. The kernels for which the list above says that a property fails are in
  none of the passing runs.
* In run scheduler: index arrays do not decrease with the index (the driver reads only the two
  ends of a region). They have room for what the last part of a shifted partition, whose size is
  wrong (`Scheduler.cpp:239`), reads behind the launch.
* What a vector holds beyond its end, after a shift with fewer parts than devices (see above).
* The special cases of the scheduler for the kernels box_sort and getMaxDerivIntel, and its
  profiling (timers and throughput points).
* Thread binding (hwloc), timeline, logs: no effect on the rest.
* Option NOMEMCPY, `BufferManager::fill` (no API entry reaches it).
* A second application thread: `enqueue` is a single-producer operation.

## 6. Plan

1. `Scheduler` composed with `SplitMemory` in place of `StartIndirection`, so that
   `WellFormed` is shown and no longer assumed; then with `Reductions`, whose
   `WellFormed` is `performDisjointTest`.
2. A condition on kernels, weaker than "no two regions overlap", under which `EveryResultIsKept` can
   be proved of launches that are shifted.
