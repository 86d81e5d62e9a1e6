---------------------------- MODULE SplitMemory ----------------------------
(***************************************************************************)
(* The coherence core of libsplitCL: what BufferManager, Driver and        *)
(* MemoryHandle do to keep one OpenCL buffer, seen by the application, in  *)
(* one host copy (mLocalBuffer) and one copy per device (mBuffers[d]).     *)
(*                                                                         *)
(* The application thread runs the API calls.  It computes with the two    *)
(* directories hostValidData and devicesValidData[d], enqueues commands on *)
(* the device queues and, at some points only, waits for queues to drain   *)
(* (DeviceQueue::finish).  Each device executes its own queue in order and *)
(* at its own pace: a transfer reads or writes the host copy when it is    *)
(* executed, not when it is enqueued.  Everything hard about this code is  *)
(* in the distance between the two.                                        *)
(*                                                                         *)
(* A region is a set of cells; module IntervalList shows that the class    *)
(* ListInterval, which represents regions in the code, implements sets.    *)
(***************************************************************************)
EXTENDS Integers, Sequences

CONSTANTS
    NbDevices,        \* number of devices selected by the user
    Mem,              \* the memory handles
    Size,             \* cells per memory handle
    ReadOnly,         \* the handles created with CL_MEM_READ_ONLY
    Value,            \* contents the application and the kernels store
    NoVal,            \* contents that nothing has defined
    CreateFlags,      \* how handles are created: subset of {"none", "alloc", "copy", "use"}
    MapFlags,         \* flags of clEnqueueMapBuffer: set of subsets of {"R", "W"}
    Kernels,          \* the kernel launches, as the scheduler describes them
    DelayedWrite,     \* option DELAYEDWRITE
    CycleBarrier,     \* TRUE for the schedulers MKSTATIC, MKGR and MKGR2
    CycleLength,      \* option CYCLELENGTH
    FreedKept,        \* TRUE: freed memory keeps its contents until it is reused
    MaxPending        \* bound: no new kernel with more pending commands

Dev     == 0 .. NbDevices - 1
Offset  == 0 .. Size - 1
Cell    == Mem \X Offset
Content == Value \cup {NoVal}

\* The cells of a request (handle, offset, size) of the API.
Region(m, off, cb) == {m} \X (off .. off + cb - 1)
Whole(m)           == {m} \X Offset

(***************************************************************************)
(* A kernel launch, as getPartition hands it to the driver: per device the *)
(* region read (rd) and written (wr) by its subkernel, the handles whose   *)
(* read or written region is undefined (urd, uwr), and, unknown to the     *)
(* library, the cells the subkernel really writes (aw).                    *)
(***************************************************************************)
Launch == [rd : [Dev -> SUBSET Cell], wr : [Dev -> SUBSET Cell],
           urd : [Dev -> SUBSET Mem], uwr : [Dev -> SUBSET Mem],
           aw : [Dev -> SUBSET Cell]]

WrittenRegion(k, d) == k.wr[d] \cup UNION {Whole(m) : m \in k.uwr[d]}

(***************************************************************************)
(* What the scheduler guarantees of a launch: a device whose written       *)
(* region has a cell runs everything that writes the cell, and each cell   *)
(* written is in the written region of some device (several devices may    *)
(* have a cell in their regions, when the scheduler has widened their      *)
(* subkernels); an undefined written region is also an undefined read      *)
(* region; and nothing writes a read-only handle.                          *)
(***************************************************************************)
WellFormed(k) ==
    /\ \A d, e \in Dev : k.aw[e] \cap WrittenRegion(k, d) \subseteq k.aw[d]
    /\ \A d \in Dev : /\ k.aw[d] \subseteq UNION {WrittenRegion(k, e) : e \in Dev}
                      /\ k.uwr[d] \subseteq k.urd[d]
                      /\ WrittenRegion(k, d) \cap (ReadOnly \X Offset) = {}

ASSUME DevicesAssumption == NbDevices \in Nat \ {0}
ASSUME SizeAssumption    == Size \in Nat \ {0} /\ ReadOnly \subseteq Mem
ASSUME ValueAssumption   == NoVal \notin Value
ASSUME FlagsAssumption   == /\ CreateFlags \subseteq {"none", "alloc", "copy", "use"}
                            /\ MapFlags \subseteq SUBSET {"R", "W"}
ASSUME KernelsAssumption == Kernels \subseteq Launch /\ \A k \in Kernels : WellFormed(k)
ASSUME OptionsAssumption == /\ DelayedWrite \in BOOLEAN
                            /\ CycleBarrier \in BOOLEAN
                            /\ FreedKept \in BOOLEAN
                            /\ CycleLength \in Nat \ {0}
                            /\ MaxPending \in Nat

VARIABLES
    hostData,     \* mLocalBuffer, cell by cell
    devData,      \* mBuffers[d], cell by cell
    hostValid,    \* hostValidData
    devValid,     \* devicesValidData[d]
    maxUsed,      \* mMaxUsedSize
    queue,        \* the commands enqueued and not yet executed, per device
    user,         \* the memory behind the user's pointer of the call in progress
    call,         \* where the application thread is, with the call's locals
    kerId,        \* count % cycleLength: the kernel of the cycle that comes next
    mapEntries,   \* map_entries
    appMaps,      \* the mappings the application holds
    gold          \* what a single device executing the calls in order would hold

vars == <<hostData, devData, hostValid, devValid, maxUsed, queue, user, call,
          kerId, mapEntries, appMaps, gold>>

-----------------------------------------------------------------------------
(* Functions on cells, and commands.                                       *)

\* f with the cells of S taken from g.
Overlay(f, S, g) == [c \in Cell |-> IF c \in S THEN g[c] ELSE f[c]]
Constantly(v)    == [c \in Cell |-> v]

AnyValid   == UNION {devValid[d] : d \in Dev}
Undefined  == {c \in Cell : gold[c] = NoVal}

\* The cells of S that are copied from device d: the code scans the devices in
\* order and removes from S what it has found.
FromDevice(d, S) == {c \in S \cap devValid[d] : \A e \in 0 .. d - 1 : c \notin devValid[e]}

\* A transfer, enqueued only when there is something to transfer.
Transfer(op, S) == IF S = {} THEN <<>> ELSE <<[op |-> op, cells |-> S]>>

\* DeviceQueue::finish on every device of D.
\* Mutant_ operators are not part of the model: each is a definition with the
\* mistake a change to the code could make, and some run must notice it.
Mutant_DrainedNoWait(D) == TRUE
Drained(D) == \A d \in D : queue[d] = <<>>

Idle       == [pc |-> "idle"]
Aborted(w) == [pc |-> "aborted", why |-> w]

\* The application does not touch what it has mapped for writing, nor writes
\* what it has mapped at all.
MappedCells   == UNION {Region(e.m, e.off, e.cb) : e \in appMaps}
WriteMapped   == UNION {Region(e.m, e.off, e.cb) : e \in {x \in appMaps : x.write}}
MayRead(S)    == S \cap WriteMapped = {}
MayWrite(S)   == S \cap MappedCells = {}
Requests      == {r \in [m : Mem, off : Offset, cb : 1 .. Size] : r.off + r.cb <= Size}
Cells(r)      == Region(r.m, r.off, r.cb)

-----------------------------------------------------------------------------
(* Creation of the memory handles.  With CL_MEM_COPY_HOST_PTR the contents *)
(* are copied to the host buffer, with CL_MEM_USE_HOST_PTR the user's      *)
(* memory is the host buffer; both define the contents.                    *)

InitWith(flags, v) ==
    LET defined == {m \in Mem : flags[m] \in {"copy", "use"}} \X Offset
        start   == Overlay(Constantly(NoVal), defined, Constantly(v))
    IN /\ hostData = start
       /\ devData = [d \in Dev |-> Constantly(NoVal)]
       /\ hostValid = {m \in Mem : flags[m] = "copy"} \X Offset
       /\ devValid = [d \in Dev |-> {}]
       /\ maxUsed = [m \in Mem |-> IF flags[m] = "none" THEN 1 ELSE Size]
       /\ queue = [d \in Dev |-> <<>>]
       /\ user = Constantly(NoVal)
       /\ call = Idle
       /\ kerId = 0
       /\ mapEntries = {}
       /\ appMaps = {}
       /\ gold = start

Init == \E flags \in [Mem -> CreateFlags], v \in Value : InitWith(flags, v)

-----------------------------------------------------------------------------
(* clEnqueueReadBuffer: BufferManager::read.                               *)

Read(r) ==
    LET S       == Cells(r)
        missing == S \ hostValid
    IN /\ call = Idle
       /\ MayRead(S)
       /\ S \cap Undefined = {}
       /\ user' = Overlay(user, S \cap hostValid, hostData)
       /\ IF missing \subseteq AnyValid
          THEN /\ queue' = [d \in Dev |-> queue[d] \o Transfer("toUser", FromDevice(d, missing))]
               /\ call' = [pc |-> "read", wait |-> Dev]
          ELSE /\ call' = Aborted("read")
               /\ UNCHANGED queue
       /\ UNCHANGED <<hostData, devData, hostValid, devValid, maxUsed, kerId,
                      mapEntries, appMaps, gold>>

ReadReturn ==
    /\ call.pc = "read"
    /\ Drained(call.wait)
    /\ call' = Idle
    /\ user' = Constantly(NoVal)
    /\ UNCHANGED <<hostData, devData, hostValid, devValid, maxUsed, queue, kerId,
                   mapEntries, appMaps, gold>>

(* clEnqueueWriteBuffer: BufferManager::write.                             *)

Mutant_RecordUseAdds(m, end)    == [maxUsed EXCEPT ![m] = @ + end]
Mutant_RecordUseForgets(m, end) == maxUsed
RecordUse(m, end) == [maxUsed EXCEPT ![m] = IF end > @ THEN end ELSE @]

\* Without DELAYEDWRITE every device is written from the user's memory.
WriteThrough(r, v) ==
    LET S == Cells(r)
    IN /\ call = Idle
       /\ ~ DelayedWrite
       /\ MayWrite(S)
       /\ maxUsed' = RecordUse(r.m, r.off + r.cb)
       /\ user' = Overlay(user, S, Constantly(v))
       /\ queue' = [d \in Dev |-> queue[d] \o Transfer("fromUser", S)]
       /\ hostValid' = hostValid \ S
       /\ devValid' = [d \in Dev |-> devValid[d] \cup S]
       /\ call' = [pc |-> "write", wait |-> Dev]
       /\ gold' = Overlay(gold, S, Constantly(v))
       /\ UNCHANGED <<hostData, devData, kerId, mapEntries, appMaps>>

WriteReturn ==
    /\ call.pc = "write"
    /\ Drained(call.wait)
    /\ call' = Idle
    /\ user' = Constantly(NoVal)
    /\ UNCHANGED <<hostData, devData, hostValid, devValid, maxUsed, queue, kerId,
                   mapEntries, appMaps, gold>>

\* With DELAYEDWRITE the data stay on the host until a kernel requires them.
WriteDelayed(r, v) ==
    LET S == Cells(r)
    IN /\ call = Idle
       /\ DelayedWrite
       /\ MayWrite(S)
       /\ maxUsed' = RecordUse(r.m, r.off + r.cb)
       /\ hostData' = Overlay(hostData, S, Constantly(v))
       /\ hostValid' = hostValid \cup S
       /\ devValid' = [d \in Dev |-> devValid[d] \ S]
       /\ gold' = Overlay(gold, S, Constantly(v))
       /\ UNCHANGED <<devData, queue, user, call, kerId, mapEntries, appMaps>>

(* clEnqueueCopyBuffer: BufferManager::copy, through the host buffers.     *)

\* What the cells of f become when r is copied to offset off of handle m.
Copied(f, r, m, off) ==
    [c \in Cell |-> IF c \in Region(m, off, r.cb) THEN f[<<r.m, c[2] - off + r.off>>] ELSE f[c]]

Copy(r, m, off) ==
    LET S       == Cells(r)
        missing == S \ hostValid
    IN /\ call = Idle
       /\ off + r.cb <= Size
       /\ S \cap Region(m, off, r.cb) = {}
       /\ MayRead(S) /\ MayWrite(Region(m, off, r.cb))
       /\ S \cap Undefined = {}
       /\ maxUsed' = RecordUse(m, off + r.cb)
       /\ IF missing \subseteq AnyValid
          THEN /\ queue' = [d \in Dev |-> queue[d] \o Transfer("d2h", FromDevice(d, missing))]
               /\ call' = [pc |-> "copy", wait |-> IF missing = {} THEN {} ELSE Dev,
                           src |-> r, m |-> m, off |-> off]
          ELSE /\ call' = Aborted("copy")
               /\ UNCHANGED queue
       /\ UNCHANGED <<hostData, devData, hostValid, devValid, user, kerId,
                      mapEntries, appMaps, gold>>

CopyReturn ==
    /\ call.pc = "copy"
    /\ Drained(call.wait)
    /\ LET dst == Region(call.m, call.off, call.src.cb)
       IN /\ hostData' = Copied(hostData, call.src, call.m, call.off)
          /\ hostValid' = hostValid \cup Cells(call.src) \cup dst
          /\ devValid' = [d \in Dev |-> devValid[d] \ dst]
          /\ gold' = Copied(gold, call.src, call.m, call.off)
    /\ call' = Idle
    /\ UNCHANGED <<devData, maxUsed, queue, user, kerId, mapEntries, appMaps>>

-----------------------------------------------------------------------------
(* clEnqueueMapBuffer and clEnqueueUnmapMemObject: BufferManager::map and  *)
(* unmap.  A mapping is known by its address, here (handle, offset).       *)

AddressMapped(m, off) == \E e \in mapEntries : e.m = m /\ e.off = off
Mapping(r, flags)     == [m |-> r.m, off |-> r.off, cb |-> r.cb, write |-> "W" \in flags]

Map(r, flags) ==
    LET S       == Cells(r)
        missing == IF "R" \in flags THEN S \ hostValid ELSE {}
        entry   == Mapping(r, flags)
    IN /\ call = Idle
       /\ IF "W" \in flags THEN MayWrite(S) ELSE MayRead(S)
       /\ entry \notin appMaps
       /\ \/ /\ AddressMapped(r.m, r.off)
             /\ call' = Aborted("map")
             /\ UNCHANGED <<queue, mapEntries, appMaps>>
          \/ \* Nothing to bring back: the address is returned at once.
             /\ ~ AddressMapped(r.m, r.off)
             /\ "R" \in flags /\ missing = {}
             /\ appMaps' = appMaps \cup {entry}
             /\ UNCHANGED <<queue, call, mapEntries>>
          \/ /\ ~ AddressMapped(r.m, r.off)
             /\ "R" \in flags /\ missing # {}
             /\ queue' = [d \in Dev |-> queue[d] \o Transfer("d2h", FromDevice(d, missing))]
             /\ call' = [pc |-> "map", wait |-> Dev, entry |-> entry]
             /\ UNCHANGED <<mapEntries, appMaps>>
          \/ /\ ~ AddressMapped(r.m, r.off)
             /\ "R" \notin flags
             /\ mapEntries' = mapEntries \cup {entry}
             /\ appMaps' = appMaps \cup {entry}
             /\ UNCHANGED <<queue, call>>
       /\ UNCHANGED <<hostData, devData, hostValid, devValid, maxUsed, user, kerId, gold>>

MapReturn ==
    /\ call.pc = "map"
    /\ Drained(call.wait)
    /\ mapEntries' = mapEntries \cup {call.entry}
    /\ appMaps' = appMaps \cup {call.entry}
    /\ call' = Idle
    /\ UNCHANGED <<hostData, devData, hostValid, devValid, maxUsed, queue, user, kerId, gold>>

\* The application stores through a pointer mapped for writing.
Store(e, v) ==
    /\ call = Idle
    /\ e.write
    /\ hostData' = Overlay(hostData, Cells(e), Constantly(v))
    /\ gold' = Overlay(gold, Cells(e), Constantly(v))
    /\ UNCHANGED <<devData, hostValid, devValid, maxUsed, queue, user, call,
                   kerId, mapEntries, appMaps>>

\* The devices' copies of what was mapped for writing are out of date.
Mutant_DevicesKept(x, write) == devValid
DevAfterUnmap(x, write) ==
    IF write THEN [d \in Dev |-> devValid[d] \ Cells(x)] ELSE devValid

\* isWrite is read after the entry has been erased, from memory that was freed.
IsWrite(x) == IF FreedKept THEN {x.write} ELSE BOOLEAN

Unmap(e) ==
    /\ call = Idle
    /\ appMaps' = appMaps \ {e}
    /\ \/ /\ ~ AddressMapped(e.m, e.off)
          /\ call' = Aborted("unmap")
          /\ UNCHANGED <<devValid, mapEntries>>
       \/ \E x \in mapEntries :
             /\ x.m = e.m /\ x.off = e.off
             /\ mapEntries' = mapEntries \ {x}
             /\ \E write \in IsWrite(x) : devValid' = DevAfterUnmap(x, write)
             /\ UNCHANGED call
    /\ UNCHANGED <<hostData, devData, hostValid, maxUsed, queue, user, kerId, gold>>

-----------------------------------------------------------------------------
(* clEnqueueNDRangeKernel: Driver::enqueueNDRangeKernel, for kernels whose *)
(* arguments are not updated atomically.  First the loop that brings back  *)
(* the cells the scheduler needs the values of, to evaluate indirections.  *)

InScheduler == call.pc \in {"idle", "schedule"}

StartIndirection(S) ==
    LET missing == S \ hostValid
    IN /\ InScheduler
       /\ MayRead(S)
       /\ S \cap Undefined = {}
       /\ IF missing \subseteq AnyValid
          THEN /\ queue' = [d \in Dev |-> queue[d] \o Transfer("d2h", FromDevice(d, missing))]
               /\ hostValid' = hostValid \cup missing
               /\ call' = [pc |-> "indirection", cells |-> S,
                           wait |-> {d \in Dev : FromDevice(d, missing) # {}}]
          ELSE /\ call' = Aborted("indirection")
               /\ UNCHANGED <<queue, hostValid>>
       /\ UNCHANGED <<hostData, devData, devValid, maxUsed, user, kerId, mapEntries,
                      appMaps, gold>>

\* The values are read from the host buffer and handed to the scheduler.
IndirectionRead ==
    /\ call.pc = "indirection"
    /\ Drained(call.wait)
    /\ call' = [pc |-> "schedule"]
    /\ UNCHANGED <<hostData, devData, hostValid, devValid, maxUsed, queue, user, kerId,
                   mapEntries, appMaps, gold>>

\* An undefined region stands for the part of the buffer that has been used, if
\* the kernels cannot write the buffer, for the whole buffer otherwise.
Unbounded(m)   == {m} \X (0 .. (IF m \in ReadOnly THEN maxUsed[m] ELSE Size) - 1)
ReadRegion(k, d) ==
    {c \in k.rd[d] : c[1] \notin k.urd[d]} \cup UNION {Unbounded(m) : m \in k.urd[d]}

\* "The data written have to be send to the device": a subkernel may leave part
\* of its written region as it was.
Mutant_RequiredReadsOnly(k, d) == ReadRegion(k, d)
Required(k, d) ==
    ReadRegion(k, d) \cup {c \in WrittenRegion(k, d) : c[1] \notin k.urd[d]}

Active(k)      == {d \in Dev : Required(k, d) # {}}
Missing(k, d)  == Required(k, d) \ devValid[d]
HostMissing(k) == (UNION {Missing(k, d) : d \in Dev}) \ hostValid

\* computeTransfers, then the transfers to the host.
StartKernel(k) ==
    LET d2h(d) == FromDevice(d, HostMissing(k))
        h2d    == [d \in Dev |-> Missing(k, d) \cap (hostValid \cup AnyValid)]
    IN /\ InScheduler
       /\ \A d \in Dev : MayWrite(Required(k, d)) /\ Len(queue[d]) <= MaxPending
       /\ queue' = [d \in Dev |-> queue[d] \o Transfer("d2h", d2h(d))]
       /\ hostValid' = hostValid \cup UNION {d2h(d) : d \in Dev}
       /\ call' = [pc |-> "kernel", k |-> k, h2d |-> h2d, wait |-> {d \in Dev : d2h(d) # {}}]
       /\ UNCHANGED <<hostData, devData, devValid, maxUsed, user, kerId, mapEntries,
                      appMaps, gold>>

\* What the subkernel of d reads when the program runs on a single device.
Inputs(k, d) ==
    Overlay(Constantly(NoVal), k.rd[d] \cup UNION {Whole(m) : m \in k.urd[d]}, gold)

SubKernel(k, d, v) ==
    IF d \in Active(k)
    THEN <<[op |-> "exec", cells |-> k.aw[d], whole |-> WrittenRegion(k, d),
            inputs |-> Inputs(k, d), val |-> v]>>
    ELSE <<>>

WrittenBy(k, D) == UNION {WrittenRegion(k, d) : d \in D}

\* Two passes: every other copy of what a device writes is invalidated, and
\* then what each device has written is valid there.
Mutant_HostAfterKept(k) == hostValid
HostAfter(k) == hostValid \ WrittenBy(k, Dev)
Mutant_DevAfterNoInvalidation(k, h2d) ==
    [d \in Dev |-> devValid[d] \cup h2d[d] \cup WrittenRegion(k, d)]
Mutant_DevAfterAllInvalidated(k, h2d) ==
    [d \in Dev |-> (devValid[d] \cup h2d[d]) \ WrittenBy(k, Dev)]
DevAfter(k, h2d) ==
    [d \in Dev |-> (((devValid[d] \cup h2d[d]) \ WrittenBy(k, Dev \ {d})) \cup WrittenRegion(k, d))]

EndsCycle == CycleBarrier /\ kerId = CycleLength - 1

\* The transfers to the devices and the subkernels.
LaunchKernel(v) ==
    /\ call.pc = "kernel"
    /\ Drained(call.wait)
    /\ LET k == call.k
       IN /\ queue' = [d \in Dev |-> queue[d] \o Transfer("h2d", call.h2d[d]) \o SubKernel(k, d, v)]
          /\ hostValid' = HostAfter(k)
          /\ devValid' = DevAfter(k, call.h2d)
          /\ gold' = Overlay(gold, UNION {k.aw[d] : d \in Dev}, Constantly(v))
    /\ call' = IF EndsCycle THEN [pc |-> "barrier", wait |-> Dev] ELSE Idle
    /\ kerId' = (kerId + 1) % CycleLength
    /\ UNCHANGED <<hostData, devData, maxUsed, user, mapEntries, appMaps>>

CycleEnd ==
    /\ call.pc = "barrier"
    /\ Drained(call.wait)
    /\ call' = Idle
    /\ UNCHANGED <<hostData, devData, hostValid, devValid, maxUsed, queue, user, kerId,
                   mapEntries, appMaps, gold>>

-----------------------------------------------------------------------------
(* The devices: each executes the commands of its queue in order.          *)

Runs(d, op) == queue[d] # <<>> /\ Head(queue[d]).op = op
Executed(d)     == /\ queue' = [queue EXCEPT ![d] = Tail(@)]
                   /\ UNCHANGED <<hostValid, devValid, maxUsed, call, kerId, mapEntries,
                                  appMaps, gold>>

\* CommandWrite on a region of the host buffer, or on the user's memory.
WriteToDevice(d) ==
    /\ \/ /\ Runs(d, "h2d")
          /\ devData' = [devData EXCEPT ![d] = Overlay(@, Head(queue[d]).cells, hostData)]
       \/ /\ Runs(d, "fromUser")
          /\ devData' = [devData EXCEPT ![d] = Overlay(@, Head(queue[d]).cells, user)]
    /\ Executed(d)
    /\ UNCHANGED <<hostData, user>>

\* CommandRead to the host buffer, or to the user's memory.
ReadFromDevice(d) ==
    /\ \/ /\ Runs(d, "d2h")
          /\ hostData' = Overlay(hostData, Head(queue[d]).cells, devData[d])
          /\ UNCHANGED user
       \/ /\ Runs(d, "toUser")
          /\ user' = Overlay(user, Head(queue[d]).cells, devData[d])
          /\ UNCHANGED hostData
    /\ Executed(d)
    /\ UNCHANGED devData

\* The inputs the program defines are what the device holds.
InputsAgree(d) ==
    \A c \in Cell : Head(queue[d]).inputs[c] # NoVal => devData[d][c] = Head(queue[d]).inputs[c]

\* CommandExec.  From other inputs a subkernel computes something else, and so
\* it does in a cell which it writes in part, other devices running the rest.
RunSubKernel(d) ==
    /\ Runs(d, "exec")
    /\ LET cmd == Head(queue[d])
           right == IF InputsAgree(d) THEN cmd.whole ELSE {}
       IN devData' = [devData EXCEPT ![d] =
                         Overlay(@, cmd.cells, Overlay(Constantly(NoVal), right, Constantly(cmd.val)))]
    /\ Executed(d)
    /\ UNCHANGED <<hostData, user>>

-----------------------------------------------------------------------------

Application ==
    \/ \E r \in Requests : \/ Read(r)
                           \/ \E v \in Value : WriteThrough(r, v) \/ WriteDelayed(r, v)
                           \/ \E m \in Mem, off \in Offset : Copy(r, m, off)
                           \/ \E flags \in MapFlags : Map(r, flags)
    \/ \E e \in appMaps : Unmap(e) \/ \E v \in Value : Store(e, v)
    \/ \E c \in Cell : StartIndirection({c})
    \/ \E k \in Kernels : StartKernel(k)

Return ==
    \/ ReadReturn \/ WriteReturn \/ CopyReturn \/ MapReturn
    \/ IndirectionRead \/ \E v \in Value : LaunchKernel(v)
    \/ CycleEnd

Device(d) == WriteToDevice(d) \/ ReadFromDevice(d) \/ RunSubKernel(d)

Next == Application \/ Return \/ \E d \in Dev : Device(d)

Spec == Init /\ [][Next]_vars
-----------------------------------------------------------------------------
(* Types.                                                                  *)

Command == [op : {"h2d", "d2h", "toUser", "fromUser"}, cells : SUBSET Cell]
              \cup [op : {"exec"}, cells : SUBSET Cell, whole : SUBSET Cell,
                     inputs : [Cell -> Content], val : Value]

Entry == [m : Mem, off : Offset, cb : 1 .. Size, write : BOOLEAN]
Call  == {Idle, [pc |-> "schedule"]}
            \cup [pc : {"aborted"}, why : {"read", "copy", "map", "unmap", "indirection"}]
            \cup [pc : {"read", "write", "barrier"}, wait : SUBSET Dev]
            \cup {x \in [pc : {"copy"}, wait : SUBSET Dev, src : Requests, m : Mem, off : Offset] :
                      x.off + x.src.cb <= Size}
            \cup [pc : {"map"}, wait : SUBSET Dev, entry : Entry]
            \cup [pc : {"indirection"}, cells : SUBSET Cell, wait : SUBSET Dev]
            \cup [pc : {"kernel"}, k : Kernels, h2d : [Dev -> SUBSET Cell], wait : SUBSET Dev]

TypeOK ==
    /\ hostData \in [Cell -> Content]
    /\ devData \in [Dev -> [Cell -> Content]]
    /\ hostValid \in SUBSET Cell
    /\ devValid \in [Dev -> SUBSET Cell]
    /\ maxUsed \in [Mem -> 1 .. Size]
    /\ queue \in [Dev -> Seq(Command)]
    /\ user \in [Cell -> Content]
    /\ call \in Call
    /\ kerId \in 0 .. CycleLength - 1
    /\ mapEntries \in SUBSET Entry
    /\ appMaps \in SUBSET Entry
    /\ gold \in [Cell -> Content]

-----------------------------------------------------------------------------
(* What the application relies on.                                         *)

\* A subkernel finds on its device, when the device gets to it, what the calls
\* made before it have stored, although the transfers to the device are not
\* waited for and other devices run ahead or behind (Driver.cpp:508-532).
SubKernelsSeeProgramOrder ==
    \A d \in Dev : Runs(d, "exec") => InputsAgree(d)

\* Contents that the program has defined are valid in the host copy or on some
\* device, whatever the sequence of calls: else no later call can find them.
NothingLost == \A c \in Cell \ Undefined : c \in hostValid \/ c \in AnyValid

\* Once the devices have caught up with an application thread that is between
\* two calls, every copy recorded as valid holds what the program has stored:
\* the directories, updated when commands are enqueued, were right.  What is
\* being written through a mapping counts again once it is unmapped.
ValidCopiesAgree ==
    call = Idle /\ Drained(Dev) =>
        /\ \A c \in hostValid \ WriteMapped : hostData[c] = gold[c]
        /\ \A d \in Dev : \A c \in devValid[d] \ WriteMapped : devData[d][c] = gold[c]

\* The values handed to the scheduler to evaluate an indirection are those the
\* program has stored (Driver.cpp:380-453).
IndirectionsSeeProgramOrder ==
    call.pc = "indirection" /\ Drained(call.wait) =>
        \A c \in call.cells : hostData[c] = gold[c]

\* What the application sees through a pointer mapped for reading is what the
\* program has stored (BufferManager.cpp:247-285), of what is not lost.
MappedReadsSeeProgramOrder ==
    call = Idle =>
        \A e \in appMaps : \/ e.write
                          \/ \A c \in Cells(e) \ Undefined :
                                 c \in hostValid \cup AnyValid => hostData[c] = gold[c]

\* The assertions of read, copy and computeIndirectionTransfers that the data a
\* call needs are valid somewhere (BufferManager.cpp:63-68, 211 and 405).
AssertionsHold == call.pc = "aborted" => call.why \in {"map", "unmap"}

\* The library does not end a program that maps and unmaps as OpenCL lets it
\* (BufferManager.cpp:241-244 and 295-298).
NeverExits == call.pc = "aborted" => call.why \notin {"map", "unmap"}

-----------------------------------------------------------------------------
(* What the devices together promise: the memory of one device.            *)

\* What the read in progress is about to return, once what it needs has come.
Reply == IF call.pc = "read" /\ Drained(call.wait) THEN user ELSE Constantly(NoVal)

SM == INSTANCE SequentialMemory WITH mem <- gold, reply <- Reply

\* The split memory implements the memory of a single device: no read ever
\* returns anything but what the program has stored.
ImplementsSequentialMemory == SM!Spec
=============================================================================
