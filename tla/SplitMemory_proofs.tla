------------------------- MODULE SplitMemory_proofs -------------------------
(* What holds of SplitMemory for every number of devices, every size and   *)
(* every set of launches that is well formed.                              *)
EXTENDS SplitMemory, SequenceTheorems, WellFoundedInduction, TLAPS

-----------------------------------------------------------------------------
(* The operators the actions are built from.                               *)

LEMMA OverlayType ==
    ASSUME NEW f \in [Cell -> Content], NEW S, NEW g \in [Cell -> Content]
    PROVE  Overlay(f, S, g) \in [Cell -> Content]
BY DEF Overlay

LEMMA ConstantlyType ==
    ASSUME NEW v \in Content
    PROVE  Constantly(v) \in [Cell -> Content]
BY DEF Constantly

LEMMA RegionInCells ==
    ASSUME NEW m \in Mem, NEW off \in Nat, NEW cb \in Nat, off + cb <= Size
    PROVE  Region(m, off, cb) \subseteq Cell
BY SizeAssumption DEF Region, Cell, Offset

LEMMA CellsInCells ==
    ASSUME NEW r \in Requests
    PROVE  Cells(r) \subseteq Cell
<1>1. r.m \in Mem /\ r.off \in Nat /\ r.cb \in Nat /\ r.off + r.cb <= Size
    BY SizeAssumption DEF Requests, Offset
<1>2. QED BY <1>1, RegionInCells DEF Cells

LEMMA TransferType ==
    ASSUME NEW op \in {"h2d", "d2h", "toUser", "fromUser"}, NEW S \in SUBSET Cell
    PROVE  Transfer(op, S) \in Seq(Command)
<1>1. [op |-> op, cells |-> S] \in Command
    BY DEF Command
<1>2. <<[op |-> op, cells |-> S]>> \in Seq(Command)
    BY <1>1
<1>3. <<>> \in Seq(Command)
    OBVIOUS
<1>4. QED BY <1>2, <1>3 DEF Transfer

\* A copy stays inside the cells.
LEMMA CopiedType ==
    ASSUME NEW f \in [Cell -> Content], NEW r \in Requests, NEW m \in Mem,
           NEW off \in Offset
    PROVE  Copied(f, r, m, off) \in [Cell -> Content]
<1>1. r.m \in Mem /\ r.off \in Nat /\ r.cb \in Nat /\ r.off + r.cb <= Size
    BY SizeAssumption DEF Requests, Offset
<1>2. ASSUME NEW c \in Cell, c \in Region(m, off, r.cb)
      PROVE  <<r.m, c[2] - off + r.off>> \in Cell
    <2>1. PICK o \in off .. off + r.cb - 1 : c = <<m, o>>
        BY <1>2 DEF Region
    <2>2. off \in Nat /\ o \in Nat /\ c[2] = o
        BY <2>1, <1>1, SizeAssumption DEF Offset
    <2>3. c[2] - off + r.off \in 0 .. Size - 1
        BY <2>1, <2>2, <1>1, SizeAssumption
    <2>4. QED BY <2>3, <1>1 DEF Cell, Offset
<1>3. QED BY <1>2 DEF Copied

\* The regions of a launch are sets of cells.
LEMMA LaunchRegions ==
    ASSUME NEW k \in Kernels, NEW d \in Dev, maxUsed \in [Mem -> 1 .. Size]
    PROVE  /\ Required(k, d) \subseteq Cell
           /\ WrittenRegion(k, d) \subseteq Cell
           /\ k.aw[d] \subseteq WrittenBy(k, Dev)
           /\ k.aw[d] \subseteq Cell
<1>1. k \in Launch /\ WellFormed(k)
    BY KernelsAssumption
<1>2. /\ k.rd[d] \subseteq Cell /\ k.wr[d] \subseteq Cell
      /\ k.urd[d] \subseteq Mem /\ k.uwr[d] \subseteq Mem
    BY <1>1 DEF Launch
<1>3. WrittenRegion(k, d) \subseteq Cell
    BY <1>2 DEF WrittenRegion, Whole, Cell
<1>4. ASSUME NEW m \in Mem PROVE Unbounded(m) \subseteq Cell
    BY SizeAssumption DEF Unbounded, Cell, Offset
<1>5. ReadRegion(k, d) \subseteq Cell
    BY <1>2, <1>4 DEF ReadRegion
<1>6. k.aw[d] \subseteq WrittenBy(k, Dev)
    BY <1>1 DEF WellFormed, WrittenBy
<1>7. k.aw[d] \subseteq Cell
    BY <1>1 DEF Launch
<1>8. QED BY <1>3, <1>5, <1>6, <1>7 DEF Required

-----------------------------------------------------------------------------
(* Type correctness.                                                       *)

\* What the program counter says of the locals of the call in progress.
LEMMA CallLocals ==
    ASSUME call \in Call
    PROVE  /\ call.pc = "copy" => /\ call.src \in Requests /\ call.m \in Mem
                                  /\ call.off \in Offset /\ call.off + call.src.cb <= Size
           /\ call.pc = "map" => call.entry \in Entry
           /\ call.pc = "kernel" => call.k \in Kernels /\ call.h2d \in [Dev -> SUBSET Cell]
BY DEF Call, Idle

\* Enqueueing one transfer on each device.
LEMMA EnqueueType ==
    ASSUME queue \in [Dev -> Seq(Command)], NEW op \in {"h2d", "d2h", "toUser", "fromUser"},
           NEW F \in [Dev -> SUBSET Cell]
    PROVE  [d \in Dev |-> queue[d] \o Transfer(op, F[d])] \in [Dev -> Seq(Command)]
<1>1. ASSUME NEW d \in Dev PROVE queue[d] \o Transfer(op, F[d]) \in Seq(Command)
    <2>1. queue[d] \in Seq(Command) /\ F[d] \in SUBSET Cell
        OBVIOUS
    <2>2. Transfer(op, F[d]) \in Seq(Command)
        BY <2>1, TransferType
    <2>3. QED BY <2>1, <2>2, ConcatProperties
<1>2. QED BY <1>1

LEMMA FromDeviceInCells ==
    ASSUME NEW d, NEW S \in SUBSET Cell
    PROVE  FromDevice(d, S) \in SUBSET Cell
BY DEF FromDevice

LEMMA RecordUseType ==
    ASSUME maxUsed \in [Mem -> 1 .. Size], NEW m \in Mem, NEW end \in 1 .. Size
    PROVE  RecordUse(m, end) \in [Mem -> 1 .. Size]
BY DEF RecordUse

LEMMA InitType == Init => TypeOK
<1> SUFFICES ASSUME NEW flags \in [Mem -> CreateFlags], NEW v \in Value, InitWith(flags, v)
             PROVE  TypeOK
    BY DEF Init
<1> DEFINE defined == {m \in Mem : flags[m] \in {"copy", "use"}} \X Offset
           start   == Overlay(Constantly(NoVal), defined, Constantly(v))
<1>1. Constantly(NoVal) \in [Cell -> Content] /\ Constantly(v) \in [Cell -> Content]
    BY ConstantlyType DEF Content
<1>2. start \in [Cell -> Content]
    BY <1>1, OverlayType
<1>3. hostData \in [Cell -> Content] /\ gold \in [Cell -> Content] /\ user \in [Cell -> Content]
    BY <1>1, <1>2 DEF InitWith
<1>4. devData \in [Dev -> [Cell -> Content]] /\ devValid \in [Dev -> SUBSET Cell]
    BY <1>1 DEF InitWith
<1>5. hostValid \in SUBSET Cell
    BY DEF InitWith, Cell
<1>6. maxUsed \in [Mem -> 1 .. Size]
    BY SizeAssumption DEF InitWith
<1>7. queue \in [Dev -> Seq(Command)]
    BY DEF InitWith
<1>8. call \in Call /\ mapEntries \in SUBSET Entry /\ appMaps \in SUBSET Entry
    BY DEF InitWith, Call
<1>9. kerId \in 0 .. CycleLength - 1
    BY OptionsAssumption DEF InitWith
<1>10. QED BY <1>3, <1>4, <1>5, <1>6, <1>7, <1>8, <1>9 DEF TypeOK

LEMMA RequestFields ==
    ASSUME NEW r \in Requests
    PROVE  /\ r.m \in Mem /\ r.off \in Offset /\ r.cb \in 1 .. Size
           /\ r.off + r.cb \in 1 .. Size
BY SizeAssumption DEF Requests, Offset

\* The values the application thread's state takes.
LEMMA CallStates ==
    /\ Idle \in Call
    /\ [pc |-> "schedule"] \in Call
    /\ \A w \in {"read", "copy", "map", "unmap", "indirection"} : Aborted(w) \in Call
    /\ \A pc \in {"read", "write", "barrier"} : [pc |-> pc, wait |-> Dev] \in Call
BY DEF Call, Aborted

LEMMA ReadType ==
    ASSUME TypeOK, NEW r \in Requests, Read(r)
    PROVE  TypeOK'
<1> DEFINE missing == Cells(r) \ hostValid
<1>1. missing \in SUBSET Cell
    BY CellsInCells
<1>2. user' \in [Cell -> Content]
    BY OverlayType DEF Read, TypeOK
<1>3. [d \in Dev |-> FromDevice(d, missing)] \in [Dev -> SUBSET Cell]
    BY <1>1, FromDeviceInCells
<1>4. [d \in Dev |-> queue[d] \o Transfer("toUser", FromDevice(d, missing))]
            \in [Dev -> Seq(Command)]
    BY <1>3, EnqueueType DEF TypeOK
<1>5. queue' \in [Dev -> Seq(Command)]
    BY <1>4 DEF Read, TypeOK
<1>6. call' \in Call
    BY CallStates DEF Read
<1>7. QED BY <1>2, <1>5, <1>6 DEF Read, TypeOK

LEMMA ReadReturnType ==
    ASSUME TypeOK, ReadReturn
    PROVE  TypeOK'
<1>1. user' \in [Cell -> Content]
    BY ConstantlyType DEF ReadReturn, Content
<1>2. QED BY <1>1, CallStates DEF ReadReturn, TypeOK

LEMMA WriteThroughType ==
    ASSUME TypeOK, NEW r \in Requests, NEW v \in Value, WriteThrough(r, v)
    PROVE  TypeOK'
<1> DEFINE S == Cells(r)
<1>1. S \in SUBSET Cell
    BY CellsInCells
<1>2. Constantly(v) \in [Cell -> Content]
    BY ConstantlyType DEF Content
<1>3. user' \in [Cell -> Content] /\ gold' \in [Cell -> Content]
    BY <1>2, OverlayType DEF WriteThrough, TypeOK
<1>4. [d \in Dev |-> S] \in [Dev -> SUBSET Cell]
    BY <1>1
<1>5. [d \in Dev |-> queue[d] \o Transfer("fromUser", S)] \in [Dev -> Seq(Command)]
    BY <1>4, EnqueueType DEF TypeOK
<1>6. queue' \in [Dev -> Seq(Command)]
    BY <1>5 DEF WriteThrough
<1>7. maxUsed' \in [Mem -> 1 .. Size]
    BY RequestFields, RecordUseType DEF WriteThrough, TypeOK
<1>8. hostValid' \in SUBSET Cell /\ devValid' \in [Dev -> SUBSET Cell]
    BY <1>1 DEF WriteThrough, TypeOK
<1>9. call' \in Call
    BY CallStates DEF WriteThrough
<1>10. QED BY <1>3, <1>6, <1>7, <1>8, <1>9 DEF WriteThrough, TypeOK

LEMMA WriteReturnType ==
    ASSUME TypeOK, WriteReturn
    PROVE  TypeOK'
<1>1. user' \in [Cell -> Content]
    BY ConstantlyType DEF WriteReturn, Content
<1>2. QED BY <1>1, CallStates DEF WriteReturn, TypeOK

LEMMA WriteDelayedType ==
    ASSUME TypeOK, NEW r \in Requests, NEW v \in Value, WriteDelayed(r, v)
    PROVE  TypeOK'
<1>1. Cells(r) \in SUBSET Cell
    BY CellsInCells
<1>2. Constantly(v) \in [Cell -> Content]
    BY ConstantlyType DEF Content
<1>3. hostData' \in [Cell -> Content] /\ gold' \in [Cell -> Content]
    BY <1>2, OverlayType DEF WriteDelayed, TypeOK
<1>4. maxUsed' \in [Mem -> 1 .. Size]
    BY RequestFields, RecordUseType DEF WriteDelayed, TypeOK
<1>5. hostValid' \in SUBSET Cell /\ devValid' \in [Dev -> SUBSET Cell]
    BY <1>1 DEF WriteDelayed, TypeOK
<1>6. QED BY <1>3, <1>4, <1>5 DEF WriteDelayed, TypeOK

LEMMA CopyType ==
    ASSUME TypeOK, NEW r \in Requests, NEW m \in Mem, NEW off \in Offset, Copy(r, m, off)
    PROVE  TypeOK'
<1> DEFINE missing == Cells(r) \ hostValid
<1>1. [d \in Dev |-> FromDevice(d, missing)] \in [Dev -> SUBSET Cell]
    BY CellsInCells, FromDeviceInCells
<1>2. [d \in Dev |-> queue[d] \o Transfer("d2h", FromDevice(d, missing))]
            \in [Dev -> Seq(Command)]
    BY <1>1, EnqueueType DEF TypeOK
<1>3. queue' \in [Dev -> Seq(Command)]
    BY <1>2 DEF Copy, TypeOK
<1>4. off + r.cb \in 1 .. Size
    BY RequestFields, SizeAssumption DEF Copy, Offset
<1>5. maxUsed' \in [Mem -> 1 .. Size]
    BY <1>4, RecordUseType DEF Copy, TypeOK
<1>6. ASSUME NEW W \in SUBSET Dev
      PROVE  [pc |-> "copy", wait |-> W, src |-> r, m |-> m, off |-> off] \in Call
    BY <1>4 DEF Call
<1>7. call' \in Call
    BY <1>6, CallStates DEF Copy
<1>8. QED BY <1>3, <1>5, <1>7 DEF Copy, TypeOK

LEMMA CopyReturnType ==
    ASSUME TypeOK, CopyReturn
    PROVE  TypeOK'
<1>1. /\ call.src \in Requests /\ call.m \in Mem /\ call.off \in Offset
      /\ call.off + call.src.cb <= Size
    BY CallLocals DEF CopyReturn, TypeOK
<1>2. Cells(call.src) \in SUBSET Cell
    BY <1>1, CellsInCells
<1>3. Region(call.m, call.off, call.src.cb) \in SUBSET Cell
    <2>1. call.off \in Nat /\ call.src.cb \in Nat
        BY <1>1, RequestFields, SizeAssumption DEF Offset
    <2>2. QED BY <1>1, <2>1, RegionInCells
<1>4. hostData' \in [Cell -> Content] /\ gold' \in [Cell -> Content]
    BY <1>1, CopiedType DEF CopyReturn, TypeOK
<1>5. hostValid' \in SUBSET Cell /\ devValid' \in [Dev -> SUBSET Cell]
    BY <1>2, <1>3 DEF CopyReturn, TypeOK
<1>6. QED BY <1>4, <1>5, CallStates DEF CopyReturn, TypeOK

LEMMA MapType ==
    ASSUME TypeOK, NEW r \in Requests, NEW flags \in MapFlags, Map(r, flags)
    PROVE  TypeOK'
<1> DEFINE missing == IF "R" \in flags THEN Cells(r) \ hostValid ELSE {}
           entry   == Mapping(r, flags)
<1>1. entry \in Entry
    BY RequestFields DEF Mapping, Entry
<1>2. missing \in SUBSET Cell
    BY CellsInCells
<1>3. [d \in Dev |-> FromDevice(d, missing)] \in [Dev -> SUBSET Cell]
    BY <1>2, FromDeviceInCells
<1>4. [d \in Dev |-> queue[d] \o Transfer("d2h", FromDevice(d, missing))]
            \in [Dev -> Seq(Command)]
    BY <1>3, EnqueueType DEF TypeOK
<1>5. queue' \in [Dev -> Seq(Command)]
    BY <1>4 DEF Map, TypeOK
<1>6. [pc |-> "map", wait |-> Dev, entry |-> entry] \in Call
    BY <1>1 DEF Call
<1>7. call' \in Call
    BY <1>6, CallStates DEF Map, TypeOK
<1>8. mapEntries' \in SUBSET Entry /\ appMaps' \in SUBSET Entry
    BY <1>1 DEF Map, TypeOK
<1>9. QED BY <1>5, <1>7, <1>8 DEF Map, TypeOK

LEMMA MapReturnType ==
    ASSUME TypeOK, MapReturn
    PROVE  TypeOK'
<1>1. call.entry \in Entry
    BY CallLocals DEF MapReturn, TypeOK
<1>2. QED BY <1>1, CallStates DEF MapReturn, TypeOK

LEMMA StoreType ==
    ASSUME TypeOK, NEW e \in appMaps, NEW v \in Value, Store(e, v)
    PROVE  TypeOK'
<1>1. Constantly(v) \in [Cell -> Content]
    BY ConstantlyType DEF Content
<1>2. hostData' \in [Cell -> Content] /\ gold' \in [Cell -> Content]
    BY <1>1, OverlayType DEF Store, TypeOK
<1>3. QED BY <1>2 DEF Store, TypeOK

LEMMA UnmapType ==
    ASSUME TypeOK, NEW e \in appMaps, Unmap(e)
    PROVE  TypeOK'
<1>1. appMaps' \in SUBSET Entry /\ mapEntries' \in SUBSET Entry
    BY DEF Unmap, DevAfterUnmap, IsWrite, TypeOK
<1>2. devValid' \in [Dev -> SUBSET Cell]
    BY DEF Unmap, DevAfterUnmap, IsWrite, TypeOK
<1>3. call' \in Call
    BY CallStates DEF Unmap, TypeOK
<1>4. QED BY <1>1, <1>2, <1>3 DEF Unmap, DevAfterUnmap, IsWrite, TypeOK

LEMMA StartIndirectionType ==
    ASSUME TypeOK, NEW c \in Cell, StartIndirection({c})
    PROVE  TypeOK'
<1> DEFINE missing == {c} \ hostValid
<1>1. [d \in Dev |-> FromDevice(d, missing)] \in [Dev -> SUBSET Cell]
    BY FromDeviceInCells
<1>2. [d \in Dev |-> queue[d] \o Transfer("d2h", FromDevice(d, missing))]
            \in [Dev -> Seq(Command)]
    BY <1>1, EnqueueType DEF TypeOK
<1>3. queue' \in [Dev -> Seq(Command)]
    BY <1>2 DEF StartIndirection, TypeOK
<1>4. [pc |-> "indirection", cells |-> {c},
       wait |-> {d \in Dev : FromDevice(d, missing) # {}}] \in Call
    BY DEF Call
<1>5. call' \in Call
    BY <1>4, CallStates DEF StartIndirection
<1>6. hostValid' \in SUBSET Cell
    BY DEF StartIndirection, TypeOK
<1>7. QED BY <1>3, <1>5, <1>6 DEF StartIndirection, TypeOK

LEMMA StartKernelType ==
    ASSUME TypeOK, NEW k \in Kernels, StartKernel(k)
    PROVE  TypeOK'
<1> DEFINE d2h == [d \in Dev |-> FromDevice(d, HostMissing(k))]
           h2d == [d \in Dev |-> Missing(k, d) \cap (hostValid \cup AnyValid)]
<1>1. ASSUME NEW d \in Dev PROVE Missing(k, d) \in SUBSET Cell
    BY LaunchRegions DEF Missing, TypeOK
<1>2. HostMissing(k) \in SUBSET Cell
    BY <1>1 DEF HostMissing
<1>3. d2h \in [Dev -> SUBSET Cell] /\ h2d \in [Dev -> SUBSET Cell]
    BY <1>1, <1>2, FromDeviceInCells
<1>4. [d \in Dev |-> queue[d] \o Transfer("d2h", d2h[d])] \in [Dev -> Seq(Command)]
    BY <1>3, EnqueueType DEF TypeOK
<1>5. queue' \in [Dev -> Seq(Command)]
    BY <1>4 DEF StartKernel
<1>6. [pc |-> "kernel", k |-> k, h2d |-> h2d,
       wait |-> {d \in Dev : FromDevice(d, HostMissing(k)) # {}}] \in Call
    BY <1>3 DEF Call
<1>7. call' \in Call
    BY <1>6 DEF StartKernel
<1>8. hostValid' \in SUBSET Cell
    BY <1>3 DEF StartKernel, TypeOK
<1>9. QED BY <1>5, <1>7, <1>8 DEF StartKernel, TypeOK

LEMMA SubKernelType ==
    ASSUME TypeOK, NEW k \in Kernels, NEW d \in Dev, NEW v \in Value
    PROVE  SubKernel(k, d, v) \in Seq(Command)
<1>1. k.aw[d] \in SUBSET Cell /\ WrittenRegion(k, d) \in SUBSET Cell
    BY LaunchRegions DEF TypeOK
<1>2. Inputs(k, d) \in [Cell -> Content]
    <2>1. Constantly(NoVal) \in [Cell -> Content]
        BY ConstantlyType DEF Content
    <2>2. QED BY <2>1, OverlayType DEF Inputs, TypeOK
<1> DEFINE exec == [op |-> "exec", cells |-> k.aw[d], whole |-> WrittenRegion(k, d),
                    inputs |-> Inputs(k, d), val |-> v]
<1>3. exec \in Command
    BY <1>1, <1>2 DEF Command
<1>4. <<exec>> \in Seq(Command)
    BY <1>3
<1>5. <<>> \in Seq(Command)
    OBVIOUS
<1>6. QED BY <1>4, <1>5 DEF SubKernel

LEMMA LaunchKernelType ==
    ASSUME TypeOK, NEW v \in Value, LaunchKernel(v)
    PROVE  TypeOK'
<1> DEFINE k == call.k
           Q(d) == queue[d] \o Transfer("h2d", call.h2d[d]) \o SubKernel(k, d, v)
<1>1. k \in Kernels /\ call.h2d \in [Dev -> SUBSET Cell]
    BY CallLocals DEF LaunchKernel, TypeOK
<1>2. ASSUME NEW d \in Dev PROVE Q(d) \in Seq(Command)
    <2>1. queue[d] \in Seq(Command)
        BY DEF TypeOK
    <2>2. Transfer("h2d", call.h2d[d]) \in Seq(Command)
        BY <1>1, TransferType
    <2>3. SubKernel(k, d, v) \in Seq(Command)
        BY <1>1, SubKernelType
    <2>4. queue[d] \o Transfer("h2d", call.h2d[d]) \in Seq(Command)
        BY <2>1, <2>2, ConcatProperties
    <2>5. QED BY <2>3, <2>4, ConcatProperties
<1>3. queue' = [d \in Dev |-> Q(d)]
    BY DEF LaunchKernel
<1>4. queue' \in [Dev -> Seq(Command)]
    BY <1>2, <1>3
<1>5. \A d \in Dev : WrittenRegion(k, d) \in SUBSET Cell
    BY <1>1, LaunchRegions DEF TypeOK
<1>6. hostValid' \in SUBSET Cell
    BY DEF LaunchKernel, HostAfter, TypeOK
<1>7. devValid' = DevAfter(k, call.h2d)
    BY DEF LaunchKernel
<1>8. devValid' \in [Dev -> SUBSET Cell]
    BY <1>1, <1>5, <1>7 DEF DevAfter, TypeOK
<1>9. gold' \in [Cell -> Content]
    <2>1. Constantly(v) \in [Cell -> Content]
        BY ConstantlyType DEF Content
    <2>2. QED BY <2>1, OverlayType DEF LaunchKernel, TypeOK
<1>10. call' \in Call
    BY CallStates DEF LaunchKernel
<1>11. kerId' \in 0 .. CycleLength - 1
    BY OptionsAssumption DEF LaunchKernel, TypeOK
<1>12. QED BY <1>4, <1>6, <1>8, <1>9, <1>10, <1>11 DEF LaunchKernel, TypeOK

\* A device takes a command from its queue.
LEMMA ExecutedType ==
    ASSUME TypeOK, NEW d \in Dev, queue[d] # <<>>, Executed(d),
           hostData' \in [Cell -> Content], user' \in [Cell -> Content],
           devData' \in [Dev -> [Cell -> Content]]
    PROVE  TypeOK'
<1>1. Tail(queue[d]) \in Seq(Command)
    BY HeadTailProperties DEF TypeOK
<1>2. queue' \in [Dev -> Seq(Command)]
    BY <1>1 DEF Executed, TypeOK
<1>3. QED BY <1>2 DEF Executed, TypeOK

LEMMA HeadType ==
    ASSUME TypeOK, NEW d \in Dev, queue[d] # <<>>
    PROVE  Head(queue[d]) \in Command
BY HeadTailProperties DEF TypeOK

LEMMA DeviceType ==
    ASSUME TypeOK, NEW d \in Dev, Device(d)
    PROVE  TypeOK'
<1>1. CASE WriteToDevice(d)
    <2>1. queue[d] # <<>> /\ Executed(d)
        BY <1>1 DEF WriteToDevice, Runs
    <2>2. /\ Overlay(devData[d], Head(queue[d]).cells, hostData) \in [Cell -> Content]
          /\ Overlay(devData[d], Head(queue[d]).cells, user) \in [Cell -> Content]
        BY OverlayType DEF TypeOK
    <2>3. devData' \in [Dev -> [Cell -> Content]]
        BY <1>1, <2>2 DEF WriteToDevice, TypeOK
    <2>4. hostData' \in [Cell -> Content] /\ user' \in [Cell -> Content]
        BY <1>1 DEF WriteToDevice, TypeOK
    <2>5. QED BY <2>1, <2>3, <2>4, ExecutedType
<1>2. CASE ReadFromDevice(d)
    <2>1. queue[d] # <<>> /\ Executed(d)
        BY <1>2 DEF ReadFromDevice, Runs
    <2>2. /\ Overlay(hostData, Head(queue[d]).cells, devData[d]) \in [Cell -> Content]
          /\ Overlay(user, Head(queue[d]).cells, devData[d]) \in [Cell -> Content]
        BY OverlayType DEF TypeOK
    <2>3. hostData' \in [Cell -> Content] /\ user' \in [Cell -> Content]
        BY <1>2, <2>2 DEF ReadFromDevice, TypeOK
    <2>4. devData' \in [Dev -> [Cell -> Content]]
        BY <1>2 DEF ReadFromDevice, TypeOK
    <2>5. QED BY <2>1, <2>3, <2>4, ExecutedType
<1>3. CASE RunSubKernel(d)
    <2> DEFINE cmd == Head(queue[d])
               right == IF InputsAgree(d) THEN cmd.whole ELSE {}
               result == Overlay(Constantly(NoVal), right, Constantly(cmd.val))
    <2>1. queue[d] # <<>> /\ cmd.op = "exec" /\ Executed(d)
        BY <1>3 DEF RunSubKernel, Runs
    <2>2. cmd.val \in Value
        BY <2>1, HeadType DEF Command
    <2>3. result \in [Cell -> Content]
        BY <2>2, ConstantlyType, OverlayType DEF Content
    <2>4. Overlay(devData[d], cmd.cells, result) \in [Cell -> Content]
        BY <2>3, OverlayType DEF TypeOK
    <2>5. devData' = [devData EXCEPT ![d] = Overlay(devData[d], cmd.cells, result)]
        BY <1>3 DEF RunSubKernel, TypeOK
    <2>6. devData' \in [Dev -> [Cell -> Content]]
        BY <2>4, <2>5 DEF TypeOK
    <2>7. hostData' \in [Cell -> Content] /\ user' \in [Cell -> Content]
        BY <1>3 DEF RunSubKernel, TypeOK
    <2>8. QED BY <2>1, <2>6, <2>7, ExecutedType
<1>4. QED BY <1>1, <1>2, <1>3 DEF Device

LEMMA StepType == TypeOK /\ [Next]_vars => TypeOK'
<1> SUFFICES ASSUME TypeOK, [Next]_vars
             PROVE  TypeOK'
    OBVIOUS
<1>1. CASE Application
    BY <1>1, ReadType, WriteThroughType, WriteDelayedType, CopyType, MapType, UnmapType,
       StoreType, StartIndirectionType, StartKernelType
    DEF Application
<1>2. CASE Return
    <2>1. CASE IndirectionRead \/ CycleEnd
        BY <2>1, CallStates DEF IndirectionRead, CycleEnd, TypeOK
    <2>2. QED BY <1>2, <2>1, ReadReturnType, WriteReturnType, CopyReturnType, MapReturnType,
                 LaunchKernelType DEF Return
<1>3. CASE \E d \in Dev : Device(d)
    BY <1>3, DeviceType
<1>4. CASE UNCHANGED vars
    BY <1>4 DEF vars, TypeOK
<1>5. QED BY <1>1, <1>2, <1>3, <1>4 DEF Next

\* Every variable keeps its type: the regions stay inside the buffers, whatever
\* is read, written, copied, mapped or launched.
THEOREM TypeCorrect == Spec => []TypeOK
<1>1. QED BY InitType, StepType, PTL DEF Spec

-----------------------------------------------------------------------------
(* The directories lose nothing, when no handle is created with            *)
(* CL_MEM_USE_HOST_PTR and mappings are for reading only: what the others  *)
(* store is recorded as valid nowhere; and unmap, which reads an entry     *)
(* after erasing it, finds it as it was.  The bookkeeping of directories   *)
(* does not depend on the devices' pace, hence not on any barrier.         *)

OnlyCopiedContents == "use" \notin CreateFlags
OnlyReadMappings   == MapFlags \subseteq {{"R"}}

NoWriteMapping ==
    /\ \A e \in appMaps \cup mapEntries : ~ e.write
    /\ call.pc = "map" => ~ call.entry.write

DirInv == NothingLost /\ AssertionsHold /\ NoWriteMapping

LEMMA DevNonEmpty == 0 \in Dev
BY DevicesAssumption DEF Dev

LEMMA InitDir ==
    ASSUME OnlyCopiedContents, Init
    PROVE  DirInv
<1> PICK flags \in [Mem -> CreateFlags], v \in Value : InitWith(flags, v)
    BY DEF Init
<1>1. ASSUME NEW c \in Cell, gold[c] # NoVal
      PROVE  c \in hostValid
    <2>1. c \in {m \in Mem : flags[m] \in {"copy", "use"}} \X Offset
        BY <1>1 DEF InitWith, Overlay, Constantly
    <2>2. QED BY <2>1 DEF InitWith, OnlyCopiedContents
<1>2. NothingLost
    BY <1>1 DEF NothingLost, Undefined
<1>3. QED BY <1>2 DEF InitWith, Idle, DirInv, AssertionsHold, NoWriteMapping

\* Where every defined content is valid somewhere, a call that needs defined
\* cells finds them.
LEMMA NeededIsValid ==
    ASSUME NothingLost, NEW S \in SUBSET Cell, S \cap Undefined = {}
    PROVE  S \ hostValid \subseteq AnyValid
BY DEF NothingLost

\* A step that keeps the contents, and every cell that is valid somewhere so.
LEMMA StillNothingLost ==
    ASSUME NothingLost, gold' = gold,
           \A c \in Cell : c \in hostValid \/ c \in AnyValid
                            => c \in hostValid' \/ c \in AnyValid'
    PROVE  NothingLost'
BY DEF NothingLost, Undefined

LEMMA ReadDir ==
    ASSUME TypeOK, DirInv, NEW r \in Requests, Read(r)
    PROVE  DirInv'
<1>1. Cells(r) \ hostValid \subseteq AnyValid
    BY CellsInCells, NeededIsValid DEF Read, DirInv
<1>2. call' = [pc |-> "read", wait |-> Dev]
    BY <1>1 DEF Read
<1>3. NothingLost'
    BY StillNothingLost DEF Read, DirInv, AnyValid
<1>4. QED BY <1>2, <1>3 DEF Read, DirInv, AssertionsHold, NoWriteMapping

LEMMA WriteThroughDir ==
    ASSUME TypeOK, DirInv, NEW r \in Requests, NEW v \in Value, WriteThrough(r, v)
    PROVE  DirInv'
<1>1. \A d \in Dev : devValid'[d] = devValid[d] \cup Cells(r)
    BY DEF WriteThrough
<1>2. \A c \in Cell : c \notin Cells(r) => gold'[c] = gold[c]
    BY DEF WriteThrough, Overlay
<1>3. ASSUME NEW c \in Cell, gold'[c] # NoVal
      PROVE  c \in hostValid' \/ c \in AnyValid'
    <2>1. CASE c \in Cells(r)
        BY <1>1, <2>1, DevNonEmpty DEF AnyValid
    <2>2. CASE c \notin Cells(r)
        BY <1>1, <1>2, <1>3, <2>2 DEF WriteThrough, DirInv, NothingLost, Undefined, AnyValid
    <2>3. QED BY <2>1, <2>2
<1>4. NothingLost'
    BY <1>3 DEF NothingLost, Undefined
<1>5. QED BY <1>4 DEF WriteThrough, DirInv, AssertionsHold, NoWriteMapping

LEMMA WriteDelayedDir ==
    ASSUME TypeOK, DirInv, NEW r \in Requests, NEW v \in Value, WriteDelayed(r, v)
    PROVE  DirInv'
<1>1. \A c \in Cell : c \notin Cells(r) => gold'[c] = gold[c]
    BY DEF WriteDelayed, Overlay
<1>2. \A d \in Dev : devValid'[d] = devValid[d] \ Cells(r)
    BY DEF WriteDelayed
<1>3. ASSUME NEW c \in Cell, gold'[c] # NoVal
      PROVE  c \in hostValid' \/ c \in AnyValid'
    BY <1>1, <1>2, <1>3 DEF WriteDelayed, DirInv, NothingLost, Undefined, AnyValid
<1>4. NothingLost'
    BY <1>3 DEF NothingLost, Undefined
<1>5. QED BY <1>4 DEF WriteDelayed, DirInv, AssertionsHold, NoWriteMapping

LEMMA CopyDir ==
    ASSUME TypeOK, DirInv, NEW r \in Requests, NEW m \in Mem, NEW off \in Offset, Copy(r, m, off)
    PROVE  DirInv'
<1>1. Cells(r) \ hostValid \subseteq AnyValid
    BY CellsInCells, NeededIsValid DEF Copy, DirInv
<1>2. call'.pc = "copy"
    BY <1>1 DEF Copy
<1>3. NothingLost'
    BY StillNothingLost DEF Copy, DirInv, AnyValid
<1>4. QED BY <1>2, <1>3 DEF Copy, DirInv, AssertionsHold, NoWriteMapping

LEMMA CopyReturnDir ==
    ASSUME TypeOK, DirInv, CopyReturn
    PROVE  DirInv'
<1> DEFINE dst == Region(call.m, call.off, call.src.cb)
<1>1. \A c \in Cell : c \notin dst => gold'[c] = gold[c]
    BY DEF CopyReturn, Copied
<1>2. /\ hostValid' = hostValid \cup Cells(call.src) \cup dst
      /\ \A d \in Dev : devValid'[d] = devValid[d] \ dst
    BY DEF CopyReturn
<1>3. ASSUME NEW c \in Cell, gold'[c] # NoVal
      PROVE  c \in hostValid' \/ c \in AnyValid'
    BY <1>1, <1>2, <1>3 DEF DirInv, NothingLost, Undefined, AnyValid
<1>4. NothingLost'
    BY <1>3 DEF NothingLost, Undefined
<1>5. QED BY <1>4 DEF CopyReturn, Idle, DirInv, AssertionsHold, NoWriteMapping

LEMMA MapDir ==
    ASSUME TypeOK, DirInv, OnlyReadMappings, NEW r \in Requests, NEW flags \in MapFlags, Map(r, flags)
    PROVE  DirInv'
<1>1. flags = {"R"}
    BY DEF OnlyReadMappings
<1>2. "W" \notin flags
    BY <1>1
<1>3. ~ Mapping(r, flags).write
    BY <1>2 DEF Mapping
<1>4. NothingLost'
    BY StillNothingLost DEF Map, DirInv, AnyValid
<1>5. \/ call' = Aborted("map") /\ UNCHANGED <<mapEntries, appMaps>>
      \/ call' = Idle /\ mapEntries' \subseteq mapEntries \cup {Mapping(r, flags)}
                     /\ appMaps' = appMaps \cup {Mapping(r, flags)}
      \/ /\ call' = [pc |-> "map", wait |-> Dev, entry |-> Mapping(r, flags)]
         /\ UNCHANGED <<mapEntries, appMaps>>
    BY Zenon DEF Map
<1>6. AssertionsHold'
    BY <1>5 DEF Idle, Aborted, AssertionsHold
<1>7. NoWriteMapping'
    BY <1>3, <1>5 DEF Idle, Aborted, DirInv, NoWriteMapping
<1>8. QED BY <1>4, <1>6, <1>7 DEF DirInv

LEMMA UnmapDir ==
    ASSUME TypeOK, DirInv, FreedKept, NEW e \in appMaps, Unmap(e)
    PROVE  DirInv'
<1>1. devValid' = devValid
    BY DEF Unmap, DevAfterUnmap, IsWrite, DirInv, NoWriteMapping
<1>2. NothingLost'
    BY <1>1, StillNothingLost DEF Unmap, DevAfterUnmap, IsWrite, DirInv, AnyValid
<1>3. AssertionsHold'
    BY DEF Unmap, DevAfterUnmap, IsWrite, Idle, Aborted, DirInv, AssertionsHold
<1>4. NoWriteMapping'
    BY DEF Unmap, DevAfterUnmap, IsWrite, Idle, Aborted, DirInv, NoWriteMapping
<1>5. QED BY <1>2, <1>3, <1>4 DEF DirInv

LEMMA StartIndirectionDir ==
    ASSUME TypeOK, DirInv, NEW c \in Cell, StartIndirection({c})
    PROVE  DirInv'
<1>1. {c} \ hostValid \subseteq AnyValid
    BY NeededIsValid DEF StartIndirection, DirInv
<1>2. call'.pc = "indirection"
    BY <1>1 DEF StartIndirection
<1>3. NothingLost'
    BY <1>1, StillNothingLost DEF StartIndirection, DirInv, AnyValid
<1>4. QED BY <1>2, <1>3 DEF StartIndirection, DirInv, AssertionsHold, NoWriteMapping

LEMMA StartKernelDir ==
    ASSUME TypeOK, DirInv, NEW k \in Kernels, StartKernel(k)
    PROVE  DirInv'
<1>1. call'.pc = "kernel"
    BY DEF StartKernel
<1>2. NothingLost'
    BY StillNothingLost DEF StartKernel, DirInv, AnyValid
<1>3. QED BY <1>1, <1>2 DEF StartKernel, DirInv, AssertionsHold, NoWriteMapping

\* What the devices write is valid where it is written; the rest is not touched.
LEMMA LaunchKernelDir ==
    ASSUME TypeOK, DirInv, NEW v \in Value, LaunchKernel(v)
    PROVE  DirInv'
<1> DEFINE k == call.k
<1>1. k \in Kernels
    BY CallLocals DEF LaunchKernel, TypeOK
<1>2. hostValid' = HostAfter(k) /\ devValid' = DevAfter(k, call.h2d)
    BY DEF LaunchKernel
<1>3. ASSUME NEW c \in Cell, gold'[c] # NoVal
      PROVE  c \in hostValid' \/ c \in AnyValid'
    <2>1. CASE c \in WrittenBy(k, Dev)
        <3>1. PICK d \in Dev : c \in WrittenRegion(k, d)
            BY <2>1 DEF WrittenBy
        <3>2. c \in devValid'[d]
            BY <1>2, <3>1 DEF DevAfter
        <3>3. QED BY <3>2 DEF AnyValid
    <2>2. CASE c \notin WrittenBy(k, Dev)
        <3>1. \A d \in Dev : k.aw[d] \subseteq WrittenBy(k, Dev)
            BY <1>1, LaunchRegions DEF TypeOK
        <3>2. gold'[c] = gold[c]
            BY <2>2, <3>1 DEF LaunchKernel, Overlay
        <3>3. c \in hostValid \/ c \in AnyValid
            BY <1>3, <3>2 DEF DirInv, NothingLost, Undefined
        <3>4. CASE c \in hostValid
            BY <1>2, <2>2, <3>4 DEF HostAfter
        <3>5. CASE c \in AnyValid
            <4>1. PICK d \in Dev : c \in devValid[d]
                BY <3>5 DEF AnyValid
            <4>2. c \notin WrittenBy(k, Dev \ {d})
                BY <2>2 DEF WrittenBy
            <4>3. c \in devValid'[d]
                BY <1>2, <4>1, <4>2 DEF DevAfter
            <4>4. QED BY <4>3 DEF AnyValid
        <3>6. QED BY <3>3, <3>4, <3>5
    <2>3. QED BY <2>1, <2>2
<1>4. NothingLost'
    BY <1>3 DEF NothingLost, Undefined
<1>5. AssertionsHold' /\ NoWriteMapping'
    BY DEF LaunchKernel, Idle, DirInv, AssertionsHold, NoWriteMapping
<1>6. QED BY <1>4, <1>5 DEF DirInv

LEMMA StepDir ==
    ASSUME TypeOK, DirInv, OnlyReadMappings, FreedKept, [Next]_vars
    PROVE  DirInv'
<1>1. CASE \E e \in appMaps, v \in Value : Store(e, v)
    BY <1>1 DEF Store, DirInv, NoWriteMapping
<1>2. CASE Application
    BY <1>1, <1>2, ReadDir, WriteThroughDir, WriteDelayedDir, CopyDir, MapDir, UnmapDir,
       StartIndirectionDir, StartKernelDir
    DEF Application
<1>3. CASE Return
    <2>1. ASSUME ReadReturn \/ WriteReturn \/ IndirectionRead \/ CycleEnd
          PROVE  DirInv'
        <3>1. UNCHANGED <<gold, hostValid, devValid, appMaps, mapEntries>>
              /\ call'.pc \in {"idle", "schedule"}
            BY <2>1 DEF ReadReturn, WriteReturn, IndirectionRead, CycleEnd, Idle
        <3>2. NothingLost'
            BY <3>1, StillNothingLost DEF DirInv, AnyValid
        <3>3. QED BY <3>1, <3>2 DEF DirInv, AssertionsHold, NoWriteMapping
    <2>2. ASSUME MapReturn
          PROVE  DirInv'
        <3>1. NothingLost'
            BY <2>2, StillNothingLost DEF MapReturn, DirInv, AnyValid
        <3>2. QED BY <2>2, <3>1 DEF MapReturn, Idle, DirInv, AssertionsHold, NoWriteMapping
    <2>3. QED BY <1>3, <2>1, <2>2, CopyReturnDir, LaunchKernelDir DEF Return
<1>4. CASE UNCHANGED vars \/ \E d \in Dev : Device(d)
    <2>1. UNCHANGED <<gold, hostValid, devValid, appMaps, mapEntries, call>>
        BY <1>4 DEF vars, Device, WriteToDevice, ReadFromDevice, RunSubKernel, Executed
    <2>2. NothingLost'
        BY <2>1, StillNothingLost DEF DirInv, AnyValid
    <2>3. QED BY <2>1, <2>2 DEF DirInv, AssertionsHold, NoWriteMapping
<1>5. QED BY <1>2, <1>3, <1>4 DEF Next

\* No sequence of reads, writes, copies, read mappings and launches leaves
\* contents the program has defined valid nowhere, and so the assertions of
\* BufferManager that what a call needs is valid somewhere never fail
\* (BufferManager.cpp:63-68, 211 and 405).
THEOREM DirectoriesLoseNothing ==
    ASSUME OnlyCopiedContents, OnlyReadMappings, FreedKept
    PROVE  Spec => [](NothingLost /\ AssertionsHold)
<1>1. Init => DirInv
    BY InitDir
<1>2. TypeOK /\ DirInv /\ [Next]_vars => DirInv'
    BY StepDir
<1>3. DirInv => NothingLost /\ AssertionsHold
    BY DEF DirInv
<1>4. QED BY <1>1, <1>2, <1>3, TypeCorrect, PTL DEF Spec

-----------------------------------------------------------------------------
(* Contents, with the barrier of the multi-kernel schedulers after every   *)
(* launch: the queues are empty between calls, and each call knows what it *)
(* has left in them.  CohInv says, for every command that may be in a      *)
(* queue, what the copies will hold once it has been executed.             *)

BarrierAfterLaunch == CycleBarrier /\ CycleLength = 1

\* The cells that the first command of a queue moves, if it is a transfer op,
\* and the subkernels in the queue.
Moved(q, op) == IF q # <<>> /\ Head(q).op = op THEN Head(q).cells ELSE {}
Execs(q)     == {x \in {q[i] : i \in DOMAIN q} : x.op = "exec"}

First(d)         == Head(queue[d])
InTransit(d, op) == Moved(queue[d], op)
Launched(d)      == Execs(queue[d])
ToHost(c)        == \E d \in Dev : c \in InTransit(d, "d2h")
ToUser(c)        == \E d \in Dev : c \in InTransit(d, "toUser")

\* What cell c of device d holds once the transfers to d have been executed.
Delivered(d, c) == IF c \in InTransit(d, "h2d") THEN hostData[c]
                   ELSE IF c \in InTransit(d, "fromUser") THEN user[c]
                   ELSE devData[d][c]

\* The commands a queue may begin with while the application thread is at pc.
OpsOf(pc) ==
    {op \in {"toUser"}      : pc = "read"} \cup {op \in {"fromUser"} : pc = "write"}
    \cup {op \in {"d2h"}         : pc \in {"copy", "map", "indirection", "kernel"}}
    \cup {op \in {"h2d", "exec"} : pc = "barrier"}

QueueShape(d) ==
    LET q == queue[d] IN
    \/ q = <<>>
    \/ /\ d \in call.wait /\ Head(q).op \in OpsOf(call.pc)
       /\ \/ Head(q).op # "h2d" /\ q = <<Head(q)>>
          \/ Head(q).op = "h2d" /\ q = <<Head(q), q[2]>> /\ q[2].op = "exec"

Shape == \A d \in Dev : QueueShape(d)

\* The host has cell c, or will when the transfers to it are done.
OnHost(c) == hostData[c] = gold[c] \/ ToHost(c)

\* The directories are right, in advance of the commands that make them so: a
\* cell valid on a device is one that its subkernel will write, the device having
\* run everything that writes it, or one that the transfers leave there.
HostCopiesAgree == \A c \in hostValid : OnHost(c)

DevCopiesAgree ==
    \A d \in Dev : \A c \in devValid[d] :
        \/ \E x \in Launched(d) : c \in x.cells /\ c \in x.whole /\ x.val = gold[c]
        \/ (\A x \in Launched(d) : c \notin x.cells) /\ Delivered(d, c) = gold[c]

\* When a subkernel gets to run its inputs are there.
InputsArrive ==
    \A d \in Dev : \A x \in Launched(d) : \A c \in Cell :
        /\ x.inputs[c] # NoVal => Delivered(d, c) = x.inputs[c]
        /\ c \in x.cells => gold[c] # NoVal

\* Transfers from a device move valid cells, and the user's memory holds what
\* the program stores.
TransfersAreRight ==
    \A d \in Dev : /\ InTransit(d, "d2h") \subseteq devValid[d]
                   /\ InTransit(d, "toUser") \subseteq devValid[d]
                   /\ \A c \in InTransit(d, "fromUser") : user[c] = gold[c]

\* What the program has not defined no copy defines: a device that lacks such a
\* cell, valid nowhere, agrees with the program all the same.
UndefinedUntouched ==
    \A c \in Undefined : hostData[c] = NoVal /\ \A d \in Dev : devData[d][c] = NoVal

\* What a subkernel reads of an unbounded read-only buffer has been transferred.
UsedCovers ==
    \A m \in ReadOnly, o \in Offset : gold[<<m, o>>] # NoVal => o < maxUsed[m]

MappedAgree == \A e \in appMaps : \A c \in (Cell \ Undefined) \cap Cells(e) : hostData[c] = gold[c]

CopiesInv == HostCopiesAgree /\ DevCopiesAgree /\ InputsArrive /\ TransfersAreRight
                /\ UndefinedUntouched /\ MappedAgree

\* What the call in progress has found out.
ReadInv ==
    \E S \in SUBSET (Cell \ Undefined) :
        /\ S # {}
        /\ \A c \in S : user[c] = gold[c] \/ ToUser(c)
        /\ \A c \in Cell \ S : user[c] = NoVal /\ ~ ToUser(c)

CopyInv ==
    /\ Cells(call.src) \subseteq Cell \ Undefined
    /\ \A c \in Cells(call.src) : OnHost(c)
    /\ Region(call.m, call.off, call.src.cb) \cap MappedCells = {}
    /\ call.off + call.src.cb <= maxUsed[call.m]

MapInv == \A c \in (Cell \ Undefined) \cap Cells(call.entry) : OnHost(c)

KernelInv ==
    \A d \in Dev : /\ call.h2d[d] = Missing(call.k, d) \cap (hostValid \cup AnyValid)
                   /\ call.h2d[d] \subseteq hostValid
                   /\ MayWrite(Required(call.k, d))

CallInv ==
    /\ call.pc \notin {"read", "write"} => user = Constantly(NoVal)
    /\ call.pc = "read" => ReadInv
    /\ call.pc = "copy" => CopyInv
    /\ call.pc = "map" => MapInv
    /\ call.pc = "indirection" => call.cells \subseteq hostValid
    /\ call.pc = "kernel" => KernelInv

CohInv == Shape /\ CopiesInv /\ UsedCovers /\ CallInv

\* Queues of no command, of one, and of a transfer before a subkernel.
LEMMA NoCommand == (\A op : Moved(<<>>, op) = {}) /\ Execs(<<>>) = {}
BY DEF Moved, Execs

LEMMA OneCommand ==
    ASSUME NEW x
    PROVE  /\ \A op : Moved(<<x>>, op) = IF x.op = op THEN x.cells ELSE {}
           /\ Execs(<<x>>) = IF x.op = "exec" THEN {x} ELSE {}
           /\ <<x>> # <<>> /\ Head(<<x>>) = x /\ Tail(<<x>>) = <<>>
<1>1. <<x>> # <<>> /\ Head(<<x>>) = x /\ Tail(<<x>>) = <<>>
    OBVIOUS
<1>2. \A op : Moved(<<x>>, op) = IF x.op = op THEN x.cells ELSE {}
    BY <1>1 DEF Moved
<1>3. DOMAIN <<x>> = {1} /\ <<x>>[1] = x
    OBVIOUS
<1>4. Execs(<<x>>) = IF x.op = "exec" THEN {x} ELSE {}
    BY <1>3 DEF Execs
<1>5. QED BY <1>1, <1>2, <1>4

LEMMA TwoCommands ==
    ASSUME NEW x, NEW y, x.op = "h2d", y.op = "exec"
    PROVE  /\ \A op : Moved(<<x, y>>, op) = IF op = "h2d" THEN x.cells ELSE {}
           /\ Execs(<<x, y>>) = {y}
           /\ <<x, y>> # <<>> /\ Head(<<x, y>>) = x /\ Tail(<<x, y>>) = <<y>>
           /\ <<x, y>>[2] = y
<1>1. <<x, y>> # <<>> /\ Head(<<x, y>>) = x /\ Tail(<<x, y>>) = <<y>>
    OBVIOUS
<1>2. \A op : Moved(<<x, y>>, op) = IF op = "h2d" THEN x.cells ELSE {}
    BY <1>1 DEF Moved
<1>3. DOMAIN <<x, y>> = {1, 2} /\ <<x, y>>[1] = x /\ <<x, y>>[2] = y
    OBVIOUS
<1>4. Execs(<<x, y>>) = {y}
    BY <1>3 DEF Execs
<1>5. QED BY <1>1, <1>2, <1>3, <1>4

LEMMA EmptyConcat ==
    ASSUME NEW T, NEW s \in Seq(T)
    PROVE  <<>> \o s = s
BY ConcatEmptySeq

LEMMA PairConcat ==
    ASSUME NEW x, NEW y
    PROVE  <<x>> \o <<y>> = <<x, y>>
<1> DEFINE T == {x, y}
           s == <<x>>
           t == <<y>>
           u == <<x, y>>
           w == <<x>> \o <<y>>
<1>1. x \in T /\ y \in T
    OBVIOUS
<1> HIDE DEF T
<1>2. s \in Seq(T) /\ t \in Seq(T) /\ u \in Seq(T)
    BY <1>1
<1>3. /\ w \in Seq(T) /\ Len(w) = Len(s) + Len(t)
      /\ \A i \in 1 .. Len(s) + Len(t) : w[i] = IF i <= Len(s) THEN s[i] ELSE t[i - Len(s)]
    BY <1>2, ConcatProperties, Zenon
<1>4. /\ Len(s) = 1 /\ Len(t) = 1 /\ Len(u) = 2
      /\ s[1] = x /\ t[1] = y /\ u[1] = x /\ u[2] = y
    OBVIOUS
<1> HIDE DEF s, t, u, w
<1>5. Len(w) = 2 /\ w[1] = x /\ w[2] = y
    BY <1>3, <1>4
<1>6. w = u
    BY <1>2, <1>3, <1>4, <1>5, SeqEqual
<1>7. QED BY <1>6 DEF w, u

\* What a single transfer does to an empty queue.
LEMMA Enqueued ==
    ASSUME NEW op \in {"h2d", "d2h", "toUser", "fromUser"}, NEW S \in SUBSET Cell
    PROVE  LET q == <<>> \o Transfer(op, S)
           IN  /\ \A o : Moved(q, o) = IF o = op THEN S ELSE {}
               /\ Execs(q) = {}
               /\ S = {} => q = <<>>
               /\ S # {} => q # <<>> /\ Head(q).op = op /\ q = <<Head(q)>>
<1> DEFINE x == [op |-> op, cells |-> S]
<1>1. <<>> \o Transfer(op, S) = Transfer(op, S)
    BY TransferType, EmptyConcat
<1>2. CASE S = {}
    BY <1>1, <1>2, NoCommand DEF Transfer
<1>3. CASE S # {}
    <2>1. <<>> \o Transfer(op, S) = <<x>>
        BY <1>1, <1>3 DEF Transfer
    <2>2. x.op = op /\ x.cells = S
        OBVIOUS
    <2> HIDE DEF x
    <2>3. QED BY <1>3, <2>1, <2>2, OneCommand
<1>4. QED BY <1>2, <1>3

\* A queue that has been emptied.
LEMMA EmptyQueue ==
    ASSUME NEW d, queue[d] = <<>>
    PROVE  /\ \A op : InTransit(d, op) = {}
           /\ Launched(d) = {}
           /\ \A c : Delivered(d, c) = devData[d][c]
BY NoCommand DEF InTransit, Launched, Delivered

LEMMA NothingInTransit ==
    ASSUME \A d \in Dev : queue[d] = <<>>
    PROVE  \A c : ~ ToHost(c) /\ ~ ToUser(c)
BY EmptyQueue DEF ToHost, ToUser

LEMMA QueuesEmpty ==
    ASSUME Shape, OpsOf(call.pc) = {} \/ Drained(call.wait), NEW d \in Dev
    PROVE  queue[d] = <<>>
BY DEF Shape, QueueShape, Drained

LEMMA AtRest ==
    ASSUME CopiesInv, \A d \in Dev : queue[d] = <<>>
    PROVE  /\ \A c \in hostValid : hostData[c] = gold[c]
           /\ \A d \in Dev : \A c \in devValid[d] : devData[d][c] = gold[c]
<1>1. \A c \in hostValid : hostData[c] = gold[c]
    BY NothingInTransit DEF CopiesInv, HostCopiesAgree, OnHost
<1>2. \A d \in Dev : \A c \in devValid[d] : devData[d][c] = gold[c]
    BY EmptyQueue DEF CopiesInv, DevCopiesAgree
<1>3. QED BY <1>1, <1>2

\* The first of the devices where a cell is valid.
LEMMA Least ==
    ASSUME NEW T \in SUBSET Nat, T # {}
    PROVE  \E n \in T : \A m \in T : n <= m
<1> DEFINE R == OpToRel(<, Nat)
<1>1. IsWellFoundedOn(R, Nat)
    BY NatLessThanWellFounded
<1>2. \A x, y \in Nat : <<x, y>> \in R <=> x < y
    BY DEF OpToRel
<1> HIDE DEF R
<1>3. PICK x \in T : \A y \in T : ~ (<<y, x>> \in R)
    BY <1>1, WFMin
<1>4. ASSUME NEW y \in T PROVE x <= y
    <2>1. x \in Nat /\ y \in Nat
        OBVIOUS
    <2>2. ~ (y < x)
        BY <1>2, <1>3, <2>1
    <2>3. QED BY <2>1, <2>2
<1>5. QED BY <1>3, <1>4

LEMMA FoundOnce ==
    ASSUME NEW S \in SUBSET Cell, NEW c \in S \cap AnyValid
    PROVE  \E d \in Dev : c \in FromDevice(d, S)
<1> DEFINE T == {d \in Dev : c \in devValid[d]}
<1>1. T \in SUBSET Nat /\ T # {}
    BY DevicesAssumption DEF AnyValid, Dev
<1>2. PICK n \in T : \A m \in T : n <= m
    BY <1>1, Least
<1>3. ASSUME NEW e \in 0 .. n - 1 PROVE c \notin devValid[e]
    <2>1. e \in Dev /\ e < n
        BY <1>1, DevicesAssumption DEF Dev
    <2>2. QED BY <1>1, <1>2, <2>1
<1>4. QED BY <1>2, <1>3 DEF FromDevice

LEMMA FromDeviceValid ==
    ASSUME NEW d, NEW S
    PROVE  FromDevice(d, S) \subseteq S \cap devValid[d]
BY DEF FromDevice

-----------------------------------------------------------------------------
(* Calls that have cells of S brought to the host, or to the user.         *)

LEMMA Fetch ==
    ASSUME TypeOK, CopiesInv, \A d \in Dev : queue[d] = <<>>,
           NEW op \in {"d2h", "toUser"}, NEW S \in SUBSET Cell,
           queue' = [d \in Dev |-> queue[d] \o Transfer(op, FromDevice(d, S))],
           UNCHANGED <<hostData, devData, devValid, gold, appMaps>>,
           IF op = "d2h" THEN hostValid' \subseteq hostValid \cup (S \cap AnyValid)
                         ELSE hostValid' = hostValid,
           op \in OpsOf(call'.pc),
           \A d \in Dev : FromDevice(d, S) # {} => d \in call'.wait
    PROVE  /\ Shape' /\ CopiesInv'
           /\ op = "d2h" => \A c \in S \cap AnyValid : ToHost(c)'
           /\ op = "toUser" => \A c : ToUser(c)' <=> c \in S \cap AnyValid
<1>1. ASSUME NEW d \in Dev
      PROVE  /\ \A o : InTransit(d, o)' = IF o = op THEN FromDevice(d, S) ELSE {}
             /\ Launched(d)' = {}
             /\ QueueShape(d)'
    <2> DEFINE q == <<>> \o Transfer(op, FromDevice(d, S))
    <2>1. queue'[d] = q
        OBVIOUS
    <2>2. FromDevice(d, S) \in SUBSET Cell
        BY FromDeviceInCells
    <2>3. /\ \A o : Moved(q, o) = IF o = op THEN FromDevice(d, S) ELSE {}
          /\ Execs(q) = {}
          /\ FromDevice(d, S) = {} => q = <<>>
          /\ FromDevice(d, S) # {} => q # <<>> /\ Head(q).op = op /\ q = <<Head(q)>>
        BY <2>2, Enqueued
    <2> HIDE DEF q
    <2>4. QED BY <2>1, <2>3 DEF InTransit, Launched, QueueShape
<1>2. Shape'
    BY <1>1 DEF Shape
<1>3. /\ op = "d2h" => \A c \in S \cap AnyValid : ToHost(c)'
      /\ op = "toUser" => \A c : ToUser(c)' <=> c \in S \cap AnyValid
    <2>1. ASSUME NEW c \in S \cap AnyValid PROVE \E d \in Dev : c \in FromDevice(d, S)
        BY FoundOnce
    <2>2. ASSUME NEW c, NEW d \in Dev, c \in FromDevice(d, S) PROVE c \in S \cap AnyValid
        BY <2>2, FromDeviceValid DEF AnyValid
    <2>3. QED BY <1>1, <2>1, <2>2 DEF ToHost, ToUser
<1>4. /\ \A c \in hostValid : hostData[c] = gold[c]
      /\ \A d \in Dev : \A c \in devValid[d] : devData[d][c] = gold[c]
    BY AtRest
<1>5. HostCopiesAgree'
    BY <1>3, <1>4 DEF HostCopiesAgree, OnHost
<1>6. DevCopiesAgree'
    <2>1. ASSUME NEW d \in Dev, NEW c PROVE Delivered(d, c)' = devData[d][c]
        BY <1>1 DEF Delivered
    <2>2. QED BY <1>1, <1>4, <2>1 DEF DevCopiesAgree
<1>7. InputsArrive'
    BY <1>1 DEF InputsArrive
<1>8. TransfersAreRight'
    <2>1. ASSUME NEW d \in Dev PROVE FromDevice(d, S) \subseteq devValid'[d]
        BY FromDeviceValid
    <2>2. QED BY <1>1, <2>1 DEF TransfersAreRight
<1>9. UndefinedUntouched' /\ MappedAgree'
    BY DEF CopiesInv, UndefinedUntouched, MappedAgree, Undefined
<1>10. QED BY <1>2, <1>3, <1>5, <1>6, <1>7, <1>8, <1>9 DEF CopiesInv

LEMMA ReadCoh ==
    ASSUME TypeOK, DirInv, CohInv, NEW r \in Requests, Read(r)
    PROVE  CohInv'
<1> DEFINE missing == Cells(r) \ hostValid
<1>1. missing \subseteq AnyValid /\ missing \in SUBSET Cell /\ Cells(r) \in SUBSET (Cell \ Undefined)
    BY CellsInCells, NeededIsValid DEF Read, DirInv
<1>2. /\ call = Idle
      /\ user' = Overlay(user, Cells(r) \cap hostValid, hostData)
      /\ queue' = [d \in Dev |-> queue[d] \o Transfer("toUser", FromDevice(d, missing))]
      /\ call' = [pc |-> "read", wait |-> Dev]
      /\ UNCHANGED <<hostData, devData, hostValid, devValid, maxUsed, gold, appMaps>>
    BY <1>1 DEF Read
<1>3. \A d \in Dev : queue[d] = <<>>
    BY <1>2, QueuesEmpty DEF CohInv, OpsOf, Idle
<1>4. Shape' /\ CopiesInv' /\ \A c : ToUser(c)' <=> c \in missing \cap AnyValid
    <2>1. "toUser" \in OpsOf(call'.pc) /\ call'.wait = Dev
        BY <1>2 DEF OpsOf
    <2>2. QED BY <1>1, <1>2, <1>3, <2>1, Fetch DEF CohInv
<1>5. \A c \in hostValid : hostData[c] = gold[c]
    BY <1>3, AtRest DEF CohInv
<1>6. ReadInv'
    <2>1. Cells(r) # {}
        <3>1. r.off \in r.off .. r.off + r.cb - 1
            BY RequestFields, SizeAssumption DEF Offset
        <3>2. <<r.m, r.off>> \in Cells(r)
            BY <3>1 DEF Cells, Region
        <3>3. QED BY <3>2
    <2>2. \A c \in Cells(r) : user'[c] = gold'[c] \/ ToUser(c)'
        BY <1>1, <1>2, <1>4, <1>5 DEF Overlay
    <2>3. \A c \in Cell \ Cells(r) : user'[c] = NoVal /\ ~ ToUser(c)'
        BY <1>2, <1>4 DEF Overlay, CohInv, CallInv, Idle, Constantly
    <2>4. Cells(r) \in SUBSET (Cell \ Undefined')
        BY <1>1, <1>2 DEF Undefined
    <2> HIDE DEF missing
    <2>5. QED BY <2>1, <2>2, <2>3, <2>4 DEF ReadInv
<1>7. CallInv'
    BY <1>2, <1>6 DEF CallInv
<1>8. UsedCovers'
    BY <1>2 DEF CohInv, UsedCovers
<1>9. QED BY <1>4, <1>7, <1>8 DEF CohInv

LEMMA CopyCoh ==
    ASSUME TypeOK, DirInv, CohInv, NEW r \in Requests, NEW m \in Mem, NEW off \in Offset,
           Copy(r, m, off)
    PROVE  CohInv'
<1> DEFINE missing == Cells(r) \ hostValid
<1>1. missing \subseteq AnyValid /\ missing \in SUBSET Cell /\ Cells(r) \in SUBSET (Cell \ Undefined)
    BY CellsInCells, NeededIsValid DEF Copy, DirInv
<1>2. /\ call = Idle
      /\ queue' = [d \in Dev |-> queue[d] \o Transfer("d2h", FromDevice(d, missing))]
      /\ call' = [pc |-> "copy", wait |-> IF missing = {} THEN {} ELSE Dev,
                  src |-> r, m |-> m, off |-> off]
      /\ maxUsed' = RecordUse(m, off + r.cb)
      /\ MayWrite(Region(m, off, r.cb))
      /\ off + r.cb <= Size
      /\ UNCHANGED <<hostData, devData, hostValid, devValid, user, gold, appMaps>>
    BY <1>1 DEF Copy
<1>3. \A d \in Dev : queue[d] = <<>>
    BY <1>2, QueuesEmpty DEF CohInv, OpsOf, Idle
<1>4. Shape' /\ CopiesInv' /\ \A c \in missing \cap AnyValid : ToHost(c)'
    <2>1. "d2h" \in OpsOf(call'.pc)
        BY <1>2 DEF OpsOf
    <2>2. ASSUME NEW d \in Dev, FromDevice(d, missing) # {} PROVE d \in call'.wait
        <3>1. missing # {}
            BY <2>2, FromDeviceValid
        <3>2. QED BY <1>2, <3>1
    <2>3. QED BY <1>1, <1>2, <1>3, <2>1, <2>2, Fetch DEF CohInv
<1>5. \A c \in hostValid : hostData[c] = gold[c]
    BY <1>3, AtRest DEF CohInv
<1>6. /\ maxUsed'[m] >= off + r.cb
      /\ \A n \in Mem : maxUsed'[n] >= maxUsed[n]
    <2>1. off + r.cb \in Int /\ \A n \in Mem : maxUsed[n] \in Int
        BY RequestFields, SizeAssumption DEF TypeOK, Offset
    <2>2. QED BY <1>2, <2>1 DEF RecordUse, TypeOK
<1>7. CopyInv'
    <2>1. call'.src = r /\ call'.m = m /\ call'.off = off
        BY <1>2
    <2>2. \A c \in Cells(r) : OnHost(c)'
        BY <1>1, <1>2, <1>4, <1>5 DEF OnHost
    <2>3. Cells(r) \subseteq Cell \ Undefined'
        BY <1>1, <1>2 DEF Undefined
    <2>4. Region(m, off, r.cb) \cap MappedCells' = {}
        BY <1>2 DEF MayWrite, MappedCells
    <2> HIDE DEF missing
    <2>5. QED BY <1>6, <2>1, <2>2, <2>3, <2>4 DEF CopyInv
<1>8. CallInv'
    BY <1>2, <1>7 DEF CallInv, CohInv, Idle
<1>9. UsedCovers'
    <2>1. \A n \in Mem : maxUsed[n] \in Int /\ maxUsed'[n] \in Int
        BY CopyType DEF TypeOK
    <2>2. \A o \in Offset : o \in Int
        BY SizeAssumption DEF Offset
    <2>3. QED BY <1>2, <1>6, <2>1, <2>2, SizeAssumption DEF CohInv, UsedCovers
<1>10. QED BY <1>4, <1>8, <1>9 DEF CohInv

LEMMA MapCoh ==
    ASSUME TypeOK, DirInv, CohInv, OnlyReadMappings, NEW r \in Requests, NEW flags \in MapFlags,
           Map(r, flags)
    PROVE  CohInv'
<1> DEFINE missing == Cells(r) \ hostValid
           entry   == Mapping(r, flags)
<1>1. flags = {"R"}
    BY DEF OnlyReadMappings
<1>2. "R" \in flags /\ "W" \notin flags
    BY <1>1
<1>3. /\ call = Idle
      /\ UNCHANGED <<hostData, devData, hostValid, devValid, maxUsed, user, gold>>
    BY DEF Map
<1>4. \A d \in Dev : queue[d] = <<>>
    BY <1>3, QueuesEmpty DEF CohInv, OpsOf, Idle
<1>5. \A c \in hostValid : hostData[c] = gold[c]
    BY <1>4, AtRest DEF CohInv
<1>6. Cells(entry) = Cells(r)
    BY DEF Mapping, Cells
<1>7. UsedCovers'
    BY <1>3 DEF CohInv, UsedCovers
<1>8. CASE UNCHANGED <<queue, appMaps>> /\ call' \in {Idle, Aborted("map")}
    <2>1. CopiesInv' /\ Shape'
        BY <1>3, <1>8, <1>4
        DEF CohInv, CopiesInv, Shape, QueueShape, HostCopiesAgree, DevCopiesAgree, InputsArrive,
            TransfersAreRight, UndefinedUntouched, MappedAgree, OnHost, ToHost, Delivered,
            InTransit, Launched, Undefined
    <2>2. CallInv'
        BY <1>3, <1>8 DEF CohInv, CallInv, Idle, Aborted
    <2>3. QED BY <2>1, <2>2, <1>7 DEF CohInv
<1>9. CASE missing = {} /\ UNCHANGED <<queue, call>> /\ appMaps' = appMaps \cup {entry}
    <2>1. MappedAgree'
        BY <1>3, <1>5, <1>6, <1>9 DEF CohInv, CopiesInv, MappedAgree, Undefined
    <2>2. CopiesInv' /\ Shape'
        BY <1>3, <1>9, <1>4, <2>1
        DEF CohInv, CopiesInv, Shape, QueueShape, HostCopiesAgree, DevCopiesAgree, InputsArrive,
            TransfersAreRight, UndefinedUntouched, OnHost, ToHost, Delivered,
            InTransit, Launched, Undefined
    <2>3. CallInv'
        BY <1>3, <1>9 DEF CohInv, CallInv, Idle
    <2>4. QED BY <2>2, <2>3, <1>7 DEF CohInv
<1>10. CASE /\ missing # {}
            /\ queue' = [d \in Dev |-> queue[d] \o Transfer("d2h", FromDevice(d, missing))]
            /\ call' = [pc |-> "map", wait |-> Dev, entry |-> entry]
            /\ UNCHANGED appMaps
    <2>1. missing \in SUBSET Cell
        BY CellsInCells
    <2>2. "d2h" \in OpsOf(call'.pc) /\ call'.wait = Dev /\ call'.entry = entry
        BY <1>10 DEF OpsOf
    <2>3. Shape' /\ CopiesInv' /\ \A c \in missing \cap AnyValid : ToHost(c)'
        BY <1>3, <1>4, <1>10, <2>1, <2>2, Fetch DEF CohInv
    <2>4. ASSUME NEW c \in Cell \ Undefined, c \in Cells(r) PROVE OnHost(c)'
        <3>1. c \in hostValid \/ c \in AnyValid
            BY DEF DirInv, NothingLost
        <3>2. QED BY <1>3, <1>5, <2>3, <2>4, <3>1 DEF OnHost
    <2>5. MapInv'
        BY <1>3, <1>6, <2>2, <2>4 DEF MapInv, Undefined
    <2>6. CallInv'
        BY <1>3, <1>10, <2>5 DEF CallInv, CohInv, Idle
    <2>7. QED BY <2>3, <2>6, <1>7 DEF CohInv
<1>11. \/ UNCHANGED <<queue, appMaps>> /\ call' \in {Idle, Aborted("map")}
       \/ missing = {} /\ UNCHANGED <<queue, call>> /\ appMaps' = appMaps \cup {entry}
       \/ /\ missing # {}
          /\ queue' = [d \in Dev |-> queue[d] \o Transfer("d2h", FromDevice(d, missing))]
          /\ call' = [pc |-> "map", wait |-> Dev, entry |-> entry]
          /\ UNCHANGED appMaps
    BY <1>2, Zenon DEF Map
<1>12. QED BY <1>8, <1>9, <1>10, <1>11

LEMMA StartIndirectionCoh ==
    ASSUME TypeOK, DirInv, CohInv, NEW c \in Cell, StartIndirection({c})
    PROVE  CohInv'
<1> DEFINE missing == {c} \ hostValid
<1>1. missing \subseteq AnyValid /\ missing \in SUBSET Cell
    BY NeededIsValid DEF StartIndirection, DirInv
<1>2. /\ InScheduler
      /\ queue' = [d \in Dev |-> queue[d] \o Transfer("d2h", FromDevice(d, missing))]
      /\ hostValid' = hostValid \cup missing
      /\ call' = [pc |-> "indirection", cells |-> {c},
                  wait |-> {d \in Dev : FromDevice(d, missing) # {}}]
      /\ UNCHANGED <<hostData, devData, devValid, maxUsed, user, gold, appMaps>>
    BY <1>1 DEF StartIndirection
<1>3. OpsOf(call.pc) = {} /\ call.pc \notin {"read", "write"}
    BY <1>2 DEF InScheduler, OpsOf
<1>4. \A d \in Dev : queue[d] = <<>>
    BY <1>3, QueuesEmpty DEF CohInv
<1>5. /\ "d2h" \in OpsOf(call'.pc) /\ call'.cells = {c}
      /\ call'.wait = {d \in Dev : FromDevice(d, missing) # {}}
    BY <1>2 DEF OpsOf
<1>6. hostValid' \subseteq hostValid \cup (missing \cap AnyValid)
    BY <1>1, <1>2
<1>7. Shape' /\ CopiesInv'
    BY <1>1, <1>2, <1>4, <1>5, <1>6, Fetch DEF CohInv
<1>8. CallInv'
    BY <1>2, <1>3, <1>5 DEF CallInv, CohInv
<1>9. UsedCovers'
    BY <1>2 DEF CohInv, UsedCovers
<1>10. QED BY <1>7, <1>8, <1>9 DEF CohInv

LEMMA StartKernelCoh ==
    ASSUME TypeOK, DirInv, CohInv, NEW k \in Kernels, StartKernel(k)
    PROVE  CohInv'
<1> DEFINE S      == HostMissing(k)
           h2d(d) == Missing(k, d) \cap (hostValid \cup AnyValid)
<1>1. S \in SUBSET Cell
    BY LaunchRegions DEF HostMissing, Missing, TypeOK
<1>2. /\ InScheduler
      /\ \A d \in Dev : MayWrite(Required(k, d))
      /\ queue' = [d \in Dev |-> queue[d] \o Transfer("d2h", FromDevice(d, S))]
      /\ hostValid' = hostValid \cup UNION {FromDevice(d, S) : d \in Dev}
      /\ call' = [pc |-> "kernel", k |-> k, h2d |-> [d \in Dev |-> h2d(d)],
                  wait |-> {d \in Dev : FromDevice(d, S) # {}}]
      /\ UNCHANGED <<hostData, devData, devValid, maxUsed, user, gold, appMaps>>
    BY DEF StartKernel
<1>3. OpsOf(call.pc) = {} /\ call.pc \notin {"read", "write"}
    BY <1>2 DEF InScheduler, OpsOf
<1>4. \A d \in Dev : queue[d] = <<>>
    BY <1>3, QueuesEmpty DEF CohInv
<1>5. /\ "d2h" \in OpsOf(call'.pc) /\ call'.pc = "kernel" /\ call'.k = k
      /\ call'.wait = {d \in Dev : FromDevice(d, S) # {}}
      /\ \A d \in Dev : call'.h2d[d] = h2d(d)
    BY <1>2 DEF OpsOf
<1>6. UNION {FromDevice(d, S) : d \in Dev} = S \cap AnyValid
    <2>1. ASSUME NEW c \in S \cap AnyValid PROVE \E d \in Dev : c \in FromDevice(d, S)
        BY <1>1, FoundOnce
    <2>2. ASSUME NEW c, NEW d \in Dev, c \in FromDevice(d, S) PROVE c \in S \cap AnyValid
        BY <2>2, FromDeviceValid DEF AnyValid
    <2> HIDE DEF S
    <2>3. QED BY <2>1, <2>2
<1>7. hostValid' = hostValid \cup (S \cap AnyValid)
    BY <1>2, <1>6
<1>8. Shape' /\ CopiesInv'
    <2> HIDE DEF S, h2d
    <2>1. QED BY <1>1, <1>2, <1>4, <1>5, <1>7, Fetch DEF CohInv
<1>9. KernelInv'
    <2>1. ASSUME NEW d \in Dev
          PROVE  /\ h2d(d) = Missing(k, d)' \cap (hostValid' \cup AnyValid')
                 /\ h2d(d) \subseteq hostValid'
                 /\ MayWrite(Required(k, d))'
        <3>1. Required(k, d)' = Required(k, d) /\ Missing(k, d)' = Missing(k, d)
            BY <1>2 DEF Required, Missing, ReadRegion, Unbounded
        <3>2. AnyValid' = AnyValid /\ MappedCells' = MappedCells
            BY <1>2 DEF AnyValid, MappedCells
        <3>3. Missing(k, d) \ hostValid \subseteq S
            BY DEF HostMissing
        <3> HIDE DEF S
        <3>4. QED BY <1>2, <1>7, <3>1, <3>2, <3>3 DEF MayWrite
    <2> HIDE DEF h2d
    <2>2. QED BY <1>5, <2>1 DEF KernelInv
<1>10. CallInv'
    BY <1>2, <1>3, <1>5, <1>9 DEF CallInv, CohInv
<1>11. UsedCovers'
    BY <1>2 DEF CohInv, UsedCovers
<1>12. QED BY <1>8, <1>10, <1>11 DEF CohInv

-----------------------------------------------------------------------------
(* Steps that leave the queues empty.                                      *)

LEMMA Rest ==
    ASSUME \A d \in Dev : queue'[d] = <<>>,
           \A c \in hostValid' : hostData'[c] = gold'[c],
           \A d \in Dev : \A c \in devValid'[d] : devData'[d][c] = gold'[c],
           UndefinedUntouched', MappedAgree'
    PROVE  Shape' /\ CopiesInv'
<1>1. ASSUME NEW d \in Dev
      PROVE  /\ \A op : InTransit(d, op)' = {}
             /\ Launched(d)' = {}
             /\ \A c : Delivered(d, c)' = devData'[d][c]
    BY NoCommand DEF InTransit, Launched, Delivered
<1>2. HostCopiesAgree' /\ DevCopiesAgree' /\ InputsArrive' /\ TransfersAreRight'
    BY <1>1 DEF HostCopiesAgree, DevCopiesAgree, InputsArrive, TransfersAreRight, OnHost
<1>3. QED BY <1>2 DEF Shape, QueueShape, CopiesInv

LEMMA ReturnCoh ==
    ASSUME CohInv, OpsOf(call.pc) = {} \/ Drained(call.wait),
           UNCHANGED <<hostData, devData, hostValid, maxUsed, queue, gold>>,
           \A d \in Dev : devValid'[d] \subseteq devValid[d],
           call' \in {Idle, [pc |-> "schedule"], Aborted("unmap")}, user' = Constantly(NoVal),
           MappedAgree'
    PROVE  CohInv'
<1>1. \A d \in Dev : queue[d] = <<>>
    BY QueuesEmpty DEF CohInv
<1>2. Shape' /\ CopiesInv'
    <2>1. /\ \A c \in hostValid' : hostData'[c] = gold'[c]
          /\ \A d \in Dev : \A c \in devValid'[d] : devData'[d][c] = gold'[c]
        BY <1>1, AtRest DEF CohInv
    <2>2. UndefinedUntouched'
        BY DEF CohInv, CopiesInv, UndefinedUntouched, Undefined
    <2>3. QED BY <1>1, <2>1, <2>2, Rest
<1>3. CallInv'
    BY DEF CallInv, Idle, Aborted
<1>4. UsedCovers'
    BY DEF CohInv, UsedCovers
<1>5. QED BY <1>2, <1>3, <1>4 DEF CohInv

LEMMA UnmapCoh ==
    ASSUME DirInv, CohInv, FreedKept, NEW e \in appMaps, Unmap(e)
    PROVE  CohInv'
<1>1. /\ call = Idle /\ call' \in {Idle, Aborted("unmap")} /\ appMaps' \subseteq appMaps
      /\ UNCHANGED <<hostData, devData, hostValid, devValid, maxUsed, queue, user, gold>>
    BY DEF Unmap, DevAfterUnmap, IsWrite, DirInv, NoWriteMapping
<1>2. MappedAgree'
    BY <1>1 DEF CohInv, CopiesInv, MappedAgree, Undefined
<1>3. user' = Constantly(NoVal) /\ OpsOf(call.pc) = {}
    BY <1>1 DEF CohInv, CallInv, Idle, OpsOf
<1>4. QED BY <1>1, <1>2, <1>3, ReturnCoh

LEMMA MapReturnCoh ==
    ASSUME TypeOK, CohInv, MapReturn
    PROVE  CohInv'
<1>1. /\ call.pc = "map" /\ Drained(call.wait) /\ appMaps' = appMaps \cup {call.entry}
      /\ call' = Idle
      /\ UNCHANGED <<hostData, devData, hostValid, devValid, maxUsed, queue, user, gold>>
    BY DEF MapReturn
<1>2. \A c \in (Cell \ Undefined) \cap Cells(call.entry) : hostData[c] = gold[c]
    BY <1>1, QueuesEmpty, NothingInTransit DEF CohInv, CallInv, MapInv, OnHost
<1>3. MappedAgree'
    BY <1>1, <1>2 DEF CohInv, CopiesInv, MappedAgree, Undefined
<1>4. user' = Constantly(NoVal)
    BY <1>1 DEF CohInv, CallInv
<1>5. QED BY <1>1, <1>3, <1>4, ReturnCoh

LEMMA OtherReturnsCoh ==
    ASSUME CohInv, ReadReturn \/ WriteReturn \/ IndirectionRead \/ CycleEnd
    PROVE  CohInv'
<1>1. /\ Drained(call.wait) /\ call' \in {Idle, [pc |-> "schedule"]}
      /\ UNCHANGED <<hostData, devData, hostValid, devValid, maxUsed, queue, appMaps, gold>>
    BY DEF ReadReturn, WriteReturn, IndirectionRead, CycleEnd
<1>2. user' = Constantly(NoVal)
    BY DEF ReadReturn, WriteReturn, IndirectionRead, CycleEnd, CohInv, CallInv
<1>3. MappedAgree'
    BY <1>1 DEF CohInv, CopiesInv, MappedAgree, Undefined
<1>4. QED BY <1>1, <1>2, <1>3, ReturnCoh

\* What nothing is mapped of may be overwritten.
LEMMA MappedKept ==
    ASSUME MappedAgree, NEW S, S \cap MappedCells = {}, UNCHANGED appMaps,
           \A c \in Cell \ S : hostData'[c] = hostData[c] /\ gold'[c] = gold[c]
    PROVE  MappedAgree'
<1>1. ASSUME NEW e \in appMaps PROVE Cells(e) \cap S = {}
    BY DEF MappedCells, Cells
<1>2. QED BY <1>1 DEF MappedAgree, Undefined

LEMMA RecordUseCovers ==
    ASSUME TypeOK, UsedCovers, NEW r \in Requests, maxUsed' = RecordUse(r.m, r.off + r.cb),
           \A c \in Cell \ Cells(r) : gold'[c] = gold[c]
    PROVE  UsedCovers'
<1>1. /\ r.m \in Mem /\ r.off \in Int /\ r.cb \in Int /\ r.off + r.cb \in Int
      /\ \A n \in Mem : maxUsed[n] \in Int
    BY RequestFields, SizeAssumption DEF TypeOK, Offset
<1>2. ASSUME NEW m \in ReadOnly, NEW o \in Offset, gold'[<<m, o>>] # NoVal
      PROVE  o < maxUsed'[m]
    <2>1. m \in Mem /\ o \in Int /\ <<m, o>> \in Cell
        BY SizeAssumption DEF Offset, Cell
    <2>2. CASE <<m, o>> \in Cells(r)
        <3>1. m = r.m /\ o <= r.off + r.cb - 1
            BY <2>1, <2>2, <1>1 DEF Cells, Region
        <3>2. maxUsed'[m] >= r.off + r.cb
            BY <1>1, <3>1 DEF RecordUse, TypeOK
        <3>3. maxUsed'[m] \in Int
            BY <1>1, <2>1 DEF RecordUse, TypeOK
        <3>4. QED BY <1>1, <2>1, <3>1, <3>2, <3>3
    <2>3. CASE <<m, o>> \notin Cells(r)
        <3>1. o < maxUsed[m]
            BY <1>2, <2>1, <2>3 DEF UsedCovers
        <3>2. maxUsed'[m] >= maxUsed[m] /\ maxUsed'[m] \in Int
            BY <1>1, <2>1 DEF RecordUse, TypeOK
        <3>3. QED BY <1>1, <2>1, <3>1, <3>2
    <2>4. QED BY <2>2, <2>3
<1>3. QED BY <1>2 DEF UsedCovers

LEMMA WriteDelayedCoh ==
    ASSUME TypeOK, CohInv, NEW r \in Requests, NEW v \in Value, WriteDelayed(r, v)
    PROVE  CohInv'
<1> DEFINE S == Cells(r)
<1>1. /\ call = Idle /\ MayWrite(S)
      /\ maxUsed' = RecordUse(r.m, r.off + r.cb)
      /\ hostData' = Overlay(hostData, S, Constantly(v))
      /\ hostValid' = hostValid \cup S
      /\ devValid' = [d \in Dev |-> devValid[d] \ S]
      /\ gold' = Overlay(gold, S, Constantly(v))
      /\ UNCHANGED <<devData, queue, user, call, appMaps>>
    BY DEF WriteDelayed
<1>2. \A d \in Dev : queue[d] = <<>>
    BY <1>1, QueuesEmpty DEF CohInv, OpsOf, Idle
<1>3. /\ \A c \in hostValid : hostData[c] = gold[c]
      /\ \A d \in Dev : \A c \in devValid[d] : devData[d][c] = gold[c]
    BY <1>2, AtRest DEF CohInv
<1>4. \A c \in Cell : IF c \in S THEN hostData'[c] = v /\ gold'[c] = v
                      ELSE hostData'[c] = hostData[c] /\ gold'[c] = gold[c]
    BY <1>1 DEF Overlay, Constantly
<1> HIDE DEF S
<1>5. hostValid \subseteq Cell /\ (\A d \in Dev : devValid[d] \subseteq Cell) /\ S \subseteq Cell
    BY CellsInCells DEF TypeOK, S
<1>6. UndefinedUntouched'
    BY <1>1, <1>4, ValueAssumption DEF CohInv, CopiesInv, UndefinedUntouched, Undefined
<1>7. MappedAgree'
    BY <1>1, <1>4, MappedKept DEF CohInv, CopiesInv, MayWrite
<1>8. Shape' /\ CopiesInv'
    BY <1>1, <1>2, <1>3, <1>4, <1>5, <1>6, <1>7, Rest
<1>9. CallInv'
    BY <1>1 DEF CohInv, CallInv, Idle
<1>10. UsedCovers'
    BY <1>1, <1>4, RecordUseCovers DEF CohInv, S
<1>11. QED BY <1>8, <1>9, <1>10 DEF CohInv

\* Every cell copied to comes from a cell copied from.
LEMMA CopySource ==
    ASSUME NEW r \in Requests, NEW m \in Mem, NEW off \in Offset, off + r.cb <= Size,
           NEW c \in Region(m, off, r.cb)
    PROVE  c \in Cell /\ <<r.m, c[2] - off + r.off>> \in Cells(r)
<1>1. PICK o \in off .. off + r.cb - 1 : c = <<m, o>>
    BY DEF Region
<1>2. /\ off \in Nat /\ r.off \in Nat /\ r.cb \in Nat /\ Size \in Nat /\ r.m \in Mem
      /\ o \in Int /\ c[2] = o
    BY <1>1, RequestFields, SizeAssumption DEF Offset
<1>3. o - off + r.off \in r.off .. r.off + r.cb - 1 /\ o \in 0 .. Size - 1
    BY <1>1, <1>2
<1>4. QED BY <1>1, <1>2, <1>3 DEF Cells, Region, Cell, Offset

LEMMA CopyReturnCoh ==
    ASSUME TypeOK, CohInv, CopyReturn
    PROVE  CohInv'
<1> DEFINE src == Cells(call.src)
           dst == Region(call.m, call.off, call.src.cb)
           from(c) == <<call.src.m, c[2] - call.off + call.src.off>>
<1>1. /\ call.pc = "copy" /\ Drained(call.wait) /\ call' = Idle
      /\ hostData' = Copied(hostData, call.src, call.m, call.off)
      /\ hostValid' = hostValid \cup src \cup dst
      /\ devValid' = [d \in Dev |-> devValid[d] \ dst]
      /\ gold' = Copied(gold, call.src, call.m, call.off)
      /\ UNCHANGED <<devData, maxUsed, queue, user, appMaps>>
    BY DEF CopyReturn
<1>2. /\ call.src \in Requests /\ call.m \in Mem /\ call.off \in Offset
      /\ call.off + call.src.cb <= Size
    BY <1>1, CallLocals DEF TypeOK
<1>3. \A d \in Dev : queue[d] = <<>>
    BY <1>1, QueuesEmpty DEF CohInv
<1>4. /\ \A c \in hostValid : hostData[c] = gold[c]
      /\ \A d \in Dev : \A c \in devValid[d] : devData[d][c] = gold[c]
    BY <1>3, AtRest DEF CohInv
<1>5. CopyInv
    BY <1>1 DEF CohInv, CallInv
<1>6. \A c \in src : hostData[c] = gold[c] /\ gold[c] # NoVal /\ c \in Cell
    BY <1>3, <1>5, NothingInTransit DEF CopyInv, OnHost, Undefined
<1>7. ASSUME NEW c \in dst PROVE from(c) \in src /\ c \in Cell
    BY <1>2, CopySource
<1>8. \A c \in Cell : IF c \in dst THEN hostData'[c] = hostData[from(c)] /\ gold'[c] = gold[from(c)]
                      ELSE hostData'[c] = hostData[c] /\ gold'[c] = gold[c]
    BY <1>1 DEF Copied
<1> HIDE DEF src, dst, from
<1>9. hostValid \subseteq Cell /\ \A d \in Dev : devValid[d] \subseteq Cell
    BY DEF TypeOK
<1>10. \A c \in dst : hostData'[c] = gold'[c] /\ gold'[c] # NoVal
    BY <1>6, <1>7, <1>8
<1>11. UndefinedUntouched'
    BY <1>1, <1>8, <1>10 DEF CohInv, CopiesInv, UndefinedUntouched, Undefined
<1>12. MappedAgree'
    BY <1>1, <1>5, <1>8, MappedKept DEF CohInv, CopiesInv, CopyInv, dst
<1>13. Shape' /\ CopiesInv'
    <2>1. \A c \in hostValid' : hostData'[c] = gold'[c]
        BY <1>1, <1>4, <1>6, <1>8, <1>9, <1>10
    <2>2. \A d \in Dev : \A c \in devValid'[d] : devData'[d][c] = gold'[c]
        BY <1>1, <1>4, <1>8, <1>9
    <2>3. QED BY <1>1, <1>3, <1>11, <1>12, <2>1, <2>2, Rest
<1>14. CallInv'
    BY <1>1 DEF CohInv, CallInv, Idle
<1>15. UsedCovers'
    <2>1. ASSUME NEW m \in ReadOnly, NEW o \in Offset, gold'[<<m, o>>] # NoVal
          PROVE  o < maxUsed'[m]
        <3>1. m \in Mem /\ o \in Int /\ <<m, o>> \in Cell /\ maxUsed[m] \in Int
            BY SizeAssumption DEF Offset, Cell, TypeOK
        <3>2. CASE <<m, o>> \in dst
            <4>1. m = call.m /\ o <= call.off + call.src.cb - 1
                BY <3>1, <3>2 DEF Region, dst
            <4>2. call.off + call.src.cb \in Int
                BY <1>2, RequestFields, SizeAssumption DEF Offset
            <4>3. call.off + call.src.cb <= maxUsed[m] /\ maxUsed' = maxUsed
                BY <1>1, <1>5, <4>1 DEF CopyInv
            <4> DEFINE end == call.off + call.src.cb
            <4>4. end \in Int
                BY <4>2
            <4>5. end <= maxUsed[m]
                BY <4>3
            <4>6. o <= end - 1
                <5>1. call.off \in Int /\ call.src.cb \in Int
                    BY <1>2, RequestFields, SizeAssumption DEF Offset
                <5>2. QED BY <4>1, <5>1
            <4> HIDE DEF end
            <4>7. QED BY <3>1, <4>3, <4>4, <4>5, <4>6
        <3>3. CASE <<m, o>> \notin dst
            BY <1>1, <1>8, <2>1, <3>1, <3>3 DEF CohInv, UsedCovers
        <3>4. QED BY <3>2, <3>3
    <2>2. QED BY <2>1 DEF UsedCovers
<1>16. QED BY <1>13, <1>14, <1>15 DEF CohInv

LEMMA WriteThroughCoh ==
    ASSUME TypeOK, CohInv, NEW r \in Requests, NEW v \in Value, WriteThrough(r, v)
    PROVE  CohInv'
<1> DEFINE S == Cells(r)
<1>1. /\ call = Idle /\ MayWrite(S)
      /\ maxUsed' = RecordUse(r.m, r.off + r.cb)
      /\ user' = Overlay(user, S, Constantly(v))
      /\ queue' = [d \in Dev |-> queue[d] \o Transfer("fromUser", S)]
      /\ hostValid' = hostValid \ S
      /\ devValid' = [d \in Dev |-> devValid[d] \cup S]
      /\ call' = [pc |-> "write", wait |-> Dev]
      /\ gold' = Overlay(gold, S, Constantly(v))
      /\ UNCHANGED <<hostData, devData, appMaps>>
    BY DEF WriteThrough
<1>2. \A d \in Dev : queue[d] = <<>>
    BY <1>1, QueuesEmpty DEF CohInv, OpsOf, Idle
<1>3. /\ \A c \in hostValid : hostData[c] = gold[c]
      /\ \A d \in Dev : \A c \in devValid[d] : devData[d][c] = gold[c]
    BY <1>2, AtRest DEF CohInv
<1>4. \A c \in Cell : IF c \in S THEN user'[c] = v /\ gold'[c] = v ELSE gold'[c] = gold[c]
    BY <1>1 DEF Overlay, Constantly
<1>5. hostValid \subseteq Cell /\ (\A d \in Dev : devValid[d] \subseteq Cell) /\ S \in SUBSET Cell
    BY CellsInCells DEF TypeOK
<1>6. UsedCovers'
    BY <1>1, <1>4, RecordUseCovers DEF CohInv
<1> HIDE DEF S
<1>7. ASSUME NEW d \in Dev
      PROVE  /\ \A o : InTransit(d, o)' = IF o = "fromUser" THEN S ELSE {}
             /\ Launched(d)' = {}
             /\ QueueShape(d)'
    <2> DEFINE q == <<>> \o Transfer("fromUser", S)
    <2>1. queue'[d] = q
        BY <1>1, <1>2
    <2>2. /\ \A o : Moved(q, o) = IF o = "fromUser" THEN S ELSE {}
          /\ Execs(q) = {}
          /\ S = {} => q = <<>>
          /\ S # {} => q # <<>> /\ Head(q).op = "fromUser" /\ q = <<Head(q)>>
        BY <1>5, Enqueued
    <2> HIDE DEF q
    <2>3. "fromUser" \in OpsOf(call'.pc) /\ call'.wait = Dev
        BY <1>1 DEF OpsOf
    <2>4. QED BY <2>1, <2>2, <2>3 DEF InTransit, Launched, QueueShape
<1>8. ASSUME NEW d \in Dev, NEW c
      PROVE  Delivered(d, c)' = IF c \in S THEN user'[c] ELSE devData[d][c]
    BY <1>1, <1>7 DEF Delivered
<1>9. HostCopiesAgree'
    BY <1>1, <1>3, <1>4, <1>5 DEF HostCopiesAgree, OnHost
<1>10. DevCopiesAgree'
    <2>1. ASSUME NEW d \in Dev, NEW c \in devValid'[d] PROVE Delivered(d, c)' = gold'[c]
        BY <1>1, <1>3, <1>4, <1>5, <1>8
    <2>2. QED BY <1>7, <2>1 DEF DevCopiesAgree
<1>11. InputsArrive' /\ TransfersAreRight'
    BY <1>4, <1>5, <1>7 DEF InputsArrive, TransfersAreRight
<1>12. UndefinedUntouched'
    BY <1>1, <1>4, ValueAssumption DEF CohInv, CopiesInv, UndefinedUntouched, Undefined
<1>13. MappedAgree'
    BY <1>1, <1>4, MappedKept DEF CohInv, CopiesInv, MayWrite
<1>14. Shape' /\ CallInv'
    BY <1>1, <1>7 DEF Shape, CallInv
<1>15. QED BY <1>6, <1>9, <1>10, <1>11, <1>12, <1>13, <1>14 DEF CohInv, CopiesInv

-----------------------------------------------------------------------------
(* Launches.                                                               *)

\* What a subkernel writes is required on its device, and so are the contents
\* which the program defines of what it reads.
LEMMA RequiredCovers ==
    ASSUME TypeOK, UsedCovers, NEW k \in Kernels, NEW d \in Dev
    PROVE  /\ WrittenRegion(k, d) \subseteq Required(k, d)
           /\ \A c \in Cell : Inputs(k, d)[c] # NoVal =>
                  c \in Required(k, d) /\ Inputs(k, d)[c] = gold[c]
<1>1. k \in Launch /\ WellFormed(k)
    BY KernelsAssumption
<1>2. ASSUME NEW m \in k.urd[d], NEW c \in Whole(m), c[1] \in ReadOnly => c[2] < maxUsed[m]
      PROVE  c \in Required(k, d)
    <2>1. c[1] = m /\ c[2] \in Int /\ c[2] \in 0 .. Size - 1 /\ c = <<m, c[2]>>
        BY SizeAssumption DEF Whole, Offset
    <2>2. m \in Mem /\ (m \in ReadOnly => maxUsed[m] \in Int)
        BY <1>1 DEF Launch, TypeOK
    <2>3. m \in ReadOnly => c[2] \in 0 .. maxUsed[m] - 1
        BY <1>2, <2>1, <2>2
    <2>4. c \in Unbounded(m)
        BY <2>1, <2>3 DEF Unbounded
    <2>5. QED BY <2>4 DEF Required, ReadRegion
<1>3. ASSUME NEW c \in WrittenRegion(k, d) PROVE c \in Required(k, d)
    <2>1. CASE c[1] \in k.urd[d]
        <3>0. c \in Cell
            BY LaunchRegions DEF TypeOK
        <3>1. c = <<c[1], c[2]>> /\ c[1] \in Mem /\ c[2] \in Offset
            BY <3>0 DEF Cell
        <3>2. c[1] \notin ReadOnly
            BY <1>1, <3>1 DEF WellFormed
        <3>3. c \in Whole(c[1])
            BY <3>1 DEF Whole
        <3>4. QED BY <1>2, <2>1, <3>2, <3>3
    <2>2. CASE c[1] \notin k.urd[d]
        BY <2>2 DEF Required
    <2>3. QED BY <2>1, <2>2
<1>4. ASSUME NEW c \in Cell, Inputs(k, d)[c] # NoVal
      PROVE  c \in Required(k, d) /\ Inputs(k, d)[c] = gold[c]
    <2>1. c \in k.rd[d] \cup UNION {Whole(m) : m \in k.urd[d]} /\ Inputs(k, d)[c] = gold[c]
        BY <1>4 DEF Inputs, Overlay, Constantly
    <2>2. c = <<c[1], c[2]>> /\ c[1] \in Mem /\ c[2] \in Offset
        BY DEF Cell
    <2>3. CASE c[1] \in k.urd[d]
        <3>1. c[1] \in ReadOnly => c[2] < maxUsed[c[1]]
            BY <1>4, <2>1, <2>2 DEF UsedCovers
        <3>2. c \in Whole(c[1])
            BY <2>2 DEF Whole
        <3>3. QED BY <1>2, <2>1, <2>3, <3>1, <3>2
    <2>4. CASE c[1] \notin k.urd[d]
        <3>1. \A m \in k.urd[d] : c \notin Whole(m)
            BY <2>4 DEF Whole
        <3>2. QED BY <2>1, <2>4, <3>1 DEF Required, ReadRegion
    <2>5. QED BY <2>1, <2>3, <2>4
<1>5. QED BY <1>3, <1>4

\* What a launch leaves in an empty queue.
LEMMA Launching ==
    ASSUME TypeOK, NEW k \in Kernels, NEW d \in Dev, NEW v \in Value, NEW S \in SUBSET Cell,
           S # {} => d \in Active(k), NEW q,
           q = <<>> \o Transfer("h2d", S) \o SubKernel(k, d, v)
    PROVE  /\ Moved(q, "h2d") = S
           /\ \A o \in {"d2h", "toUser", "fromUser"} : Moved(q, o) = {}
           /\ Execs(q) = IF d \in Active(k) THEN {SubKernel(k, d, v)[1]} ELSE {}
           /\ q # <<>> => /\ Head(q).op \in {"h2d", "exec"}
                          /\ Head(q).op = "exec" => q = <<Head(q)>>
                          /\ Head(q).op = "h2d" => q = <<Head(q), q[2]>> /\ q[2].op = "exec"
<1> DEFINE x == [op |-> "h2d", cells |-> S]
           y == [op |-> "exec", cells |-> k.aw[d], whole |-> WrittenRegion(k, d),
                 inputs |-> Inputs(k, d), val |-> v]
<1>1. x.op = "h2d" /\ x.cells = S /\ y.op = "exec"
    OBVIOUS
<1>2. <<>> \o Transfer("h2d", S) = Transfer("h2d", S)
    BY TransferType, EmptyConcat
<1>3. SubKernel(k, d, v) = IF d \in Active(k) THEN <<y>> ELSE <<>>
    BY DEF SubKernel
<1>4. Transfer("h2d", S) = IF S = {} THEN <<>> ELSE <<x>>
    BY DEF Transfer
<1> HIDE DEF x, y
<1>5. <<y>> \in Seq({y}) /\ <<>> \in Seq({y}) /\ <<y>>[1] = y
    OBVIOUS
<1>6. CASE d \notin Active(k)
    <2>1. q = <<>>
        BY <1>2, <1>3, <1>4, <1>5, <1>6, EmptyConcat
    <2>2. QED BY <1>6, <2>1, NoCommand
<1>7. CASE d \in Active(k) /\ S = {}
    <2>1. q = <<y>>
        BY <1>2, <1>3, <1>4, <1>5, <1>7, EmptyConcat
    <2>2. QED BY <1>1, <1>3, <1>5, <1>7, <2>1, OneCommand
<1>8. CASE d \in Active(k) /\ S # {}
    <2>1. q = <<x, y>>
        <3>1. <<x>> \o <<y>> = <<x, y>>
            BY PairConcat
        <3>2. q = <<x>> \o <<y>>
            BY <1>2, <1>3, <1>4, <1>8
        <3>3. QED BY <3>1, <3>2
    <2>2. /\ \A o : Moved(q, o) = IF o = "h2d" THEN S ELSE {}
          /\ Execs(q) = {y} /\ Head(q) = x /\ q[2] = y
        <3>1. /\ \A o : Moved(<<x, y>>, o) = IF o = "h2d" THEN x.cells ELSE {}
              /\ Execs(<<x, y>>) = {y}
              /\ Head(<<x, y>>) = x /\ <<x, y>>[2] = y
            BY <1>1, TwoCommands, Zenon
        <3>2. QED BY <1>1, <2>1, <3>1, Zenon
    <2>3. q = <<Head(q), q[2]>>
        BY <2>1, <2>2
    <2>4. QED BY <1>1, <1>3, <1>5, <1>8, <2>2, <2>3
<1>9. QED BY <1>6, <1>7, <1>8

LEMMA LaunchKernelCoh ==
    ASSUME TypeOK, DirInv, CohInv, BarrierAfterLaunch, NEW v \in Value, LaunchKernel(v)
    PROVE  CohInv'
<1> DEFINE k == call.k
           h2d(d) == call.h2d[d]
           written == UNION {k.aw[d] : d \in Dev}
           x(d) == SubKernel(k, d, v)[1]
<1>1. k \in Kernels /\ \A d \in Dev : h2d(d) \in SUBSET Cell
    BY CallLocals DEF LaunchKernel, TypeOK
<1>2. WellFormed(k)
    BY <1>1, KernelsAssumption
<1>3. \A d \in Dev : queue[d] = <<>>
    BY QueuesEmpty DEF CohInv, LaunchKernel
<1>4. /\ \A c \in hostValid : hostData[c] = gold[c]
      /\ \A d \in Dev : \A c \in devValid[d] : devData[d][c] = gold[c]
    BY <1>3, AtRest DEF CohInv
<1>5. KernelInv /\ user = Constantly(NoVal)
    BY DEF CohInv, CallInv, LaunchKernel
<1>6. /\ queue' = [d \in Dev |-> queue[d] \o Transfer("h2d", h2d(d)) \o SubKernel(k, d, v)]
      /\ hostValid' = HostAfter(k)
      /\ devValid' = DevAfter(k, call.h2d)
      /\ gold' = Overlay(gold, written, Constantly(v))
      /\ UNCHANGED <<hostData, devData, maxUsed, user, appMaps>>
    BY DEF LaunchKernel
<1>7. call' = [pc |-> "barrier", wait |-> Dev]
    BY DEF LaunchKernel, EndsCycle, BarrierAfterLaunch, TypeOK
<1>8. \A d \in Dev : /\ WrittenRegion(k, d) \subseteq Required(k, d)
                     /\ k.aw[d] \subseteq WrittenBy(k, Dev) /\ k.aw[d] \subseteq Cell
                     /\ Required(k, d) \subseteq Cell
    BY <1>1, RequiredCovers, LaunchRegions DEF CohInv, TypeOK
<1>9. \A d \in Dev : /\ h2d(d) = Missing(k, d) \cap (hostValid \cup AnyValid)
                     /\ h2d(d) \subseteq hostValid
                     /\ MayWrite(Required(k, d))
    BY <1>5 DEF KernelInv
<1>10. \A c \in Cell : IF c \in written THEN gold'[c] = v ELSE gold'[c] = gold[c]
    BY <1>6 DEF Overlay, Constantly
<1>11. ASSUME NEW c \in written PROVE c \in WrittenBy(k, Dev) /\ c \in Cell
    BY <1>8
<1>12. hostValid \subseteq Cell /\ \A d \in Dev : devValid[d] \subseteq Cell
    BY DEF TypeOK
\* What the queues hold.
<1>13. ASSUME NEW d \in Dev
       PROVE  /\ InTransit(d, "h2d")' = h2d(d)
              /\ \A o \in {"d2h", "toUser", "fromUser"} : InTransit(d, o)' = {}
              /\ Launched(d)' = IF d \in Active(k) THEN {x(d)} ELSE {}
              /\ QueueShape(d)'
    <2> DEFINE q == <<>> \o Transfer("h2d", h2d(d)) \o SubKernel(k, d, v)
    <2>1. queue'[d] = q
        BY <1>3, <1>6
    <2>2. h2d(d) # {} => d \in Active(k)
        BY <1>9 DEF Missing, Active
    <2>3. /\ Moved(q, "h2d") = h2d(d)
          /\ \A o \in {"d2h", "toUser", "fromUser"} : Moved(q, o) = {}
          /\ Execs(q) = IF d \in Active(k) THEN {x(d)} ELSE {}
          /\ q # <<>> => /\ Head(q).op \in {"h2d", "exec"}
                         /\ Head(q).op = "exec" => q = <<Head(q)>>
                         /\ Head(q).op = "h2d" => q = <<Head(q), q[2]>> /\ q[2].op = "exec"
        BY <1>1, <2>2, Launching
    <2>4. {"h2d", "exec"} \subseteq OpsOf(call'.pc) /\ call'.wait = Dev
        BY <1>7 DEF OpsOf
    <2> HIDE DEF q, x, k, h2d
    <2>5. QueueShape(d)'
        BY <2>1, <2>3, <2>4 DEF QueueShape
    <2>6. QED BY <2>1, <2>3, <2>5 DEF InTransit, Launched
<1>14. \A d \in Dev : d \in Active(k) =>
           /\ x(d).cells = k.aw[d] /\ x(d).whole = WrittenRegion(k, d)
           /\ x(d).inputs = Inputs(k, d) /\ x(d).val = v
    BY DEF SubKernel
<1> HIDE DEF x, h2d, written
<1>15. ASSUME NEW d \in Dev, NEW c
       PROVE  Delivered(d, c)' = IF c \in h2d(d) THEN hostData[c] ELSE devData[d][c]
    BY <1>6, <1>13 DEF Delivered
\* What is required of a device is delivered there before its subkernel runs.
<1>16. ASSUME NEW d \in Dev, NEW c \in Required(k, d)
       PROVE  Delivered(d, c)' = gold[c]
    <2>1. CASE c \in devValid[d]
        BY <1>4, <1>9, <1>15, <2>1 DEF Missing
    <2>2. CASE c \in h2d(d)
        BY <1>4, <1>9, <1>15, <2>2
    <2>3. CASE c \notin devValid[d] /\ c \notin h2d(d)
        <3>1. c \in Cell /\ c \notin hostValid /\ c \notin AnyValid
            BY <1>8, <1>9, <2>3 DEF Missing
        <3>2. c \in Undefined
            BY <3>1 DEF DirInv, NothingLost
        <3>3. QED BY <1>15, <2>3, <3>2 DEF CohInv, CopiesInv, UndefinedUntouched, Undefined
    <2>4. QED BY <2>1, <2>2, <2>3
<1>17. HostCopiesAgree'
    BY <1>4, <1>6, <1>10, <1>11, <1>12 DEF HostCopiesAgree, OnHost, HostAfter
<1>18. DevCopiesAgree'
    <2> SUFFICES ASSUME NEW d \in Dev, NEW c \in devValid'[d]
                 PROVE  \/ \E y \in Launched(d)' : c \in y.cells /\ c \in y.whole /\ y.val = gold'[c]
                        \/ /\ \A y \in Launched(d)' : c \notin y.cells
                           /\ Delivered(d, c)' = gold'[c]
        BY DEF DevCopiesAgree
    <2>1. CASE c \in WrittenRegion(k, d)
        <3>1. c \in Required(k, d) /\ d \in Active(k) /\ c \in Cell
            BY <1>8, <2>1 DEF Active
        <3>2. CASE c \in written
            <4>1. c \in k.aw[d]
                BY <1>2, <2>1, <3>2 DEF WellFormed, written
            <4>2. QED BY <1>10, <1>13, <1>14, <2>1, <3>1, <3>2, <4>1
        <3>3. CASE c \notin written
            <4>1. c \notin k.aw[d]
                BY <3>3 DEF written
            <4>2. Delivered(d, c)' = gold'[c]
                BY <1>10, <1>16, <3>1, <3>3
            <4>3. QED BY <1>13, <1>14, <3>1, <4>1, <4>2
        <3>4. QED BY <3>2, <3>3
    <2>2. CASE c \notin WrittenRegion(k, d)
        <3>1. (c \in devValid[d] \/ c \in h2d(d)) /\ c \notin WrittenBy(k, Dev)
            BY <1>6, <2>2 DEF DevAfter, WrittenBy, h2d
        <3>2. c \in Cell /\ c \notin written
            BY <1>11, <1>12, <1>9, <3>1
        <3>3. c \notin k.aw[d]
            BY <3>2 DEF written
        <3>4. Delivered(d, c)' = gold'[c]
            BY <1>4, <1>9, <1>10, <1>15, <3>1, <3>2 DEF Missing
        <3>5. QED BY <1>13, <1>14, <3>3, <3>4
    <2>3. QED BY <2>1, <2>2
<1>19. InputsArrive'
    <2> SUFFICES ASSUME NEW d \in Dev, d \in Active(k), NEW c \in Cell
                 PROVE  /\ x(d).inputs[c] # NoVal => Delivered(d, c)' = x(d).inputs[c]
                        /\ c \in x(d).cells => gold'[c] # NoVal
        BY <1>13 DEF InputsArrive
    <2>1. x(d).inputs[c] # NoVal => c \in Required(k, d) /\ x(d).inputs[c] = gold[c]
        BY <1>1, <1>14, RequiredCovers DEF CohInv
    <2>2. c \in x(d).cells => c \in written
        BY <1>14 DEF written
    <2>3. QED BY <1>10, <1>16, <2>1, <2>2, ValueAssumption
<1>20. TransfersAreRight'
    BY <1>13 DEF TransfersAreRight
<1>21. UndefinedUntouched'
    BY <1>6, <1>10, ValueAssumption DEF CohInv, CopiesInv, UndefinedUntouched, Undefined
<1>22. MappedAgree'
    <2>1. written \cap MappedCells = {}
        BY <1>8, <1>9, <1>11 DEF WrittenBy, MayWrite
    <2>2. QED BY <1>6, <1>10, <2>1, MappedKept DEF CohInv, CopiesInv
<1>23. UsedCovers'
    <2>1. ASSUME NEW m \in ReadOnly, NEW o \in Offset PROVE <<m, o>> \in Cell \ written
        <3>1. <<m, o>> \in ReadOnly \X Offset /\ <<m, o>> \in Cell
            BY SizeAssumption DEF Cell
        <3>2. <<m, o>> \notin WrittenBy(k, Dev)
            BY <1>2, <3>1 DEF WellFormed, WrittenBy
        <3>3. QED BY <1>11, <3>1, <3>2
    <2>2. QED BY <1>6, <1>10, <2>1 DEF CohInv, UsedCovers
<1>24. CallInv'
    BY <1>5, <1>6, <1>7 DEF CallInv
<1>25. Shape'
    BY <1>13 DEF Shape
<1>26. QED BY <1>17, <1>18, <1>19, <1>20, <1>21, <1>22, <1>23, <1>24, <1>25 DEF CohInv, CopiesInv

-----------------------------------------------------------------------------
(* The devices.                                                            *)

\* Only some commands are in the queues during a call.
LEMMA Phase ==
    ASSUME Shape, NEW d \in Dev
    PROVE  /\ \A op \in {"h2d", "d2h", "toUser", "fromUser"} :
                  op \notin OpsOf(call.pc) => InTransit(d, op) = {}
           /\ "exec" \notin OpsOf(call.pc) => Launched(d) = {}
<1> DEFINE q == queue[d]
           h == Head(queue[d])
           y == queue[d][2]
<1>1. QueueShape(d)
    BY DEF Shape
<1>2. CASE q = <<>>
    BY <1>2, EmptyQueue
<1>3. CASE h.op \in OpsOf(call.pc) /\ h.op # "h2d" /\ q = <<h>>
    <2> HIDE DEF h, q
    <2>1. /\ \A op : Moved(q, op) = IF h.op = op THEN h.cells ELSE {}
          /\ Execs(q) = IF h.op = "exec" THEN {h} ELSE {}
        BY <1>3, OneCommand, Zenon
    <2>2. QED BY <1>3, <2>1 DEF InTransit, Launched, q
<1>4. CASE h.op \in OpsOf(call.pc) /\ h.op = "h2d" /\ q = <<h, y>> /\ y.op = "exec"
    <2>1. "exec" \in OpsOf(call.pc)
        BY <1>4 DEF OpsOf
    <2> HIDE DEF h, q, y
    <2>2. \A op : Moved(q, op) = IF op = "h2d" THEN h.cells ELSE {}
        BY <1>4, TwoCommands, Zenon
    <2>3. QED BY <1>4, <2>1, <2>2 DEF InTransit, q
<1>5. QED BY <1>1, <1>2, <1>3, <1>4 DEF QueueShape

\* A device executes the first command of its queue.
LEMMA Popped ==
    ASSUME Shape, NEW d \in Dev, queue \in [Dev -> Seq(Command)], queue[d] # <<>>, Executed(d)
    PROVE  /\ First(d).op \in OpsOf(call.pc)
           /\ \A op \in {"h2d", "d2h", "toUser", "fromUser"} :
                  /\ InTransit(d, op) = IF First(d).op = op THEN First(d).cells ELSE {}
                  /\ InTransit(d, op)' = {}
           /\ Launched(d)' = IF First(d).op = "h2d" THEN Launched(d) ELSE {}
           /\ First(d).op = "exec" => Launched(d) = {First(d)}
           /\ First(d).op \notin {"exec", "h2d"} => Launched(d) = {}
           /\ \A e \in Dev \ {d} : /\ \A op : InTransit(e, op)' = InTransit(e, op)
                                   /\ Launched(e)' = Launched(e)
           /\ Shape'
<1> DEFINE h == First(d)
           y == queue[d][2]
<1> HIDE DEF h
<1>1. QueueShape(d)
    BY DEF Shape
<1>2. d \in call.wait /\ h.op \in OpsOf(call.pc)
    BY <1>1 DEF QueueShape, h, First
<1>3. queue'[d] = Tail(queue[d]) /\ call' = call /\ \A e \in Dev \ {d} : queue'[e] = queue[e]
    BY DEF Executed
<1>4. \A e \in Dev \ {d} : /\ \A op : InTransit(e, op)' = InTransit(e, op)
                           /\ Launched(e)' = Launched(e)
                           /\ QueueShape(e)'
    BY <1>3 DEF InTransit, Launched, Shape, QueueShape
<1>5. CASE h.op # "h2d" /\ queue[d] = <<h>>
    <2>1. /\ \A op : Moved(<<h>>, op) = IF h.op = op THEN h.cells ELSE {}
          /\ Execs(<<h>>) = IF h.op = "exec" THEN {h} ELSE {}
          /\ Tail(<<h>>) = <<>>
        BY OneCommand, Zenon
    <2>2. queue'[d] = <<>>
        BY <1>3, <1>5, <2>1, Zenon
    <2>3. /\ \A op : InTransit(d, op) = IF h.op = op THEN h.cells ELSE {}
          /\ Launched(d) = IF h.op = "exec" THEN {h} ELSE {}
        BY <1>5, <2>1, Zenon DEF InTransit, Launched
    <2>4. (\A op : InTransit(d, op)' = {}) /\ Launched(d)' = {} /\ QueueShape(d)'
        BY <2>2, NoCommand DEF InTransit, Launched, QueueShape
    <2>5. Shape'
        BY <1>4, <2>4 DEF Shape
    <2>6. QED BY <1>2, <1>4, <1>5, <2>3, <2>4, <2>5 DEF h
<1>6. CASE h.op = "h2d" /\ queue[d] = <<h, y>> /\ y.op = "exec"
    <2> HIDE DEF y
    <2>1. /\ \A op : Moved(<<h, y>>, op) = IF op = "h2d" THEN h.cells ELSE {}
          /\ Execs(<<h, y>>) = {y}
          /\ Tail(<<h, y>>) = <<y>>
        <3>1. h.op = "h2d" /\ y.op = "exec"
            BY <1>6
        <3>2. QED BY <3>1, TwoCommands, Zenon
    <2>2. /\ \A op : Moved(<<y>>, op) = IF y.op = op THEN y.cells ELSE {}
          /\ Execs(<<y>>) = IF y.op = "exec" THEN {y} ELSE {}
          /\ <<y>> # <<>> /\ Head(<<y>>) = y
        BY OneCommand, Zenon
    <2>3. queue'[d] = <<y>>
        BY <1>3, <1>6, <2>1, Zenon
    <2>4. /\ \A op : InTransit(d, op) = IF op = "h2d" THEN h.cells ELSE {}
          /\ Launched(d) = {y}
        BY <1>6, <2>1, Zenon DEF InTransit, Launched
    <2>5. /\ \A op : InTransit(d, op)' = IF y.op = op THEN y.cells ELSE {}
          /\ Launched(d)' = {y}
        BY <1>6, <2>2, <2>3, Zenon DEF InTransit, Launched
    <2>6. y.op \in OpsOf(call.pc) /\ "h2d" # y.op
        BY <1>2, <1>6 DEF OpsOf
    <2>7. Head(queue'[d]) = y /\ queue'[d] = <<Head(queue'[d])>>
        BY <2>2, <2>3, Zenon
    <2>8. QueueShape(d)'
        BY <1>2, <1>3, <2>6, <2>7 DEF QueueShape
    <2>9. Shape'
        BY <1>4, <2>8 DEF Shape
    <2>10. QED BY <1>2, <1>4, <1>6, <2>4, <2>5, <2>9 DEF h
<1>7. \/ h.op # "h2d" /\ queue[d] = <<h>>
      \/ h.op = "h2d" /\ queue[d] = <<h, y>> /\ y.op = "exec"
    BY <1>1 DEF QueueShape, h, First
<1>8. QED BY <1>5, <1>6, <1>7

\* What a call has found out stays true while the devices work for it.
LEMMA CallKept ==
    ASSUME CallInv, UNCHANGED <<hostValid, devValid, maxUsed, call, appMaps, gold>>,
           \A c \in Cell : OnHost(c) => OnHost(c)',
           call.pc = "read" => ReadInv',
           call.pc # "read" => user' = user
    PROVE  CallInv'
<1>1. CopyInv => CopyInv'
    BY DEF CopyInv, Undefined, MappedCells
<1>2. MapInv => MapInv'
    BY DEF MapInv, Undefined
<1>3. KernelInv => KernelInv'
    BY DEF KernelInv, Missing, Required, ReadRegion, Unbounded, AnyValid, MayWrite, MappedCells
<1>4. QED BY <1>1, <1>2, <1>3 DEF CallInv

LEMMA ReadFromDeviceCoh ==
    ASSUME TypeOK, CohInv, NEW d \in Dev, ReadFromDevice(d)
    PROVE  CohInv'
<1> DEFINE h == First(d)
<1>1. queue[d] # <<>> /\ Executed(d) /\ h.op \in {"d2h", "toUser"} /\ UNCHANGED devData
      /\ UNCHANGED <<hostValid, devValid, maxUsed, call, appMaps, gold>>
    BY DEF ReadFromDevice, Executed, Runs, First
<1>2. /\ h.op \in OpsOf(call.pc)
      /\ \A op \in {"h2d", "d2h", "toUser", "fromUser"} :
            /\ InTransit(d, op) = IF h.op = op THEN h.cells ELSE {}
            /\ InTransit(d, op)' = {}
      /\ \A e \in Dev \ {d} : /\ \A op : InTransit(e, op)' = InTransit(e, op)
                              /\ Launched(e)' = Launched(e)
      /\ Launched(d)' = {} /\ Shape'
    BY <1>1, Popped DEF CohInv, TypeOK
<1>3. \A e \in Dev : /\ InTransit(e, "h2d") = {} /\ InTransit(e, "fromUser") = {}
                     /\ Launched(e) = {}
    BY <1>1, <1>2, Phase DEF CohInv, OpsOf
<1>4. ASSUME NEW e \in Dev PROVE \A c \in devValid[e] : devData[e][c] = gold[c]
    BY <1>3 DEF CohInv, CopiesInv, DevCopiesAgree, Delivered
<1>5. \A c \in h.cells : devData[d][c] = gold[c]
    BY <1>1, <1>2, <1>4 DEF CohInv, CopiesInv, TransfersAreRight
<1>6. \A c \in Cell : IF h.op = "d2h" /\ c \in h.cells THEN hostData'[c] = devData[d][c]
                      ELSE hostData'[c] = hostData[c]
    BY <1>1 DEF ReadFromDevice, Runs, Overlay, First
<1>7. \A c \in Cell : OnHost(c) => OnHost(c)'
    <2>1. ASSUME NEW c \in Cell, hostData[c] = gold[c] PROVE hostData'[c] = gold'[c]
        BY <1>1, <1>5, <1>6, <2>1
    <2>2. ASSUME NEW c \in Cell, NEW e \in Dev, c \in InTransit(e, "d2h")
          PROVE  hostData'[c] = gold'[c] \/ ToHost(c)'
        BY <1>1, <1>2, <1>5, <1>6, <2>2 DEF ToHost
    <2>3. QED BY <2>1, <2>2 DEF OnHost, ToHost
<1>8. HostCopiesAgree'
    BY <1>1, <1>7 DEF TypeOK, CohInv, CopiesInv, HostCopiesAgree
<1>9. DevCopiesAgree' /\ InputsArrive'
    <2>1. ASSUME NEW e \in Dev
          PROVE  Launched(e)' = {} /\ \A c : Delivered(e, c)' = devData[e][c]
        BY <1>1, <1>2, <1>3 DEF Delivered
    <2>2. QED BY <1>1, <1>4, <2>1 DEF DevCopiesAgree, InputsArrive
<1>10. TransfersAreRight'
    <2>1. ASSUME NEW e \in Dev
          PROVE  /\ InTransit(e, "d2h")' \subseteq InTransit(e, "d2h")
                 /\ InTransit(e, "toUser")' \subseteq InTransit(e, "toUser")
                 /\ InTransit(e, "fromUser")' = {}
        BY <1>2, <1>3
    <2>2. QED BY <1>1, <2>1 DEF CohInv, CopiesInv, TransfersAreRight
<1>11. UndefinedUntouched' /\ MappedAgree'
    <2>1. UndefinedUntouched'
        BY <1>1, <1>6 DEF CohInv, CopiesInv, UndefinedUntouched, Undefined
    <2>2. ASSUME NEW c \in Cell, hostData[c] = gold[c] PROVE hostData'[c] = gold'[c]
        BY <1>1, <1>5, <1>6, <2>2
    <2>3. QED BY <1>1, <2>1, <2>2 DEF CohInv, CopiesInv, MappedAgree, Undefined
<1>12. UsedCovers'
    BY <1>1 DEF CohInv, UsedCovers
<1>13. CASE h.op = "d2h"
    <2>1. call.pc # "read" /\ user' = user
        BY <1>1, <1>2, <1>13 DEF OpsOf, ReadFromDevice, Runs, First
    <2>2. QED
        BY <1>1, <1>2, <1>7, <1>8, <1>9, <1>10, <1>11, <1>12, <2>1, CallKept DEF CohInv, CopiesInv
<1>14. CASE h.op = "toUser"
    <2>1. call.pc = "read" /\ user' = Overlay(user, h.cells, devData[d])
        BY <1>1, <1>2, <1>14 DEF OpsOf, ReadFromDevice, Runs, First
    <2>2. PICK S \in SUBSET (Cell \ Undefined) :
              /\ S # {}
              /\ \A c \in S : user[c] = gold[c] \/ ToUser(c)
              /\ \A c \in Cell \ S : user[c] = NoVal /\ ~ ToUser(c)
        BY <2>1 DEF CohInv, CallInv, ReadInv
    <2>3. \A c \in Cell : IF c \in h.cells THEN user'[c] = gold[c] ELSE user'[c] = user[c]
        BY <2>1, <1>5 DEF Overlay
    <2>4. \A c : (ToUser(c)' => ToUser(c)) /\ (ToUser(c) => ToUser(c)' \/ c \in h.cells)
        BY <1>1, <1>2, <1>14 DEF ToUser
    <2>5. \A c \in h.cells : ToUser(c)
        BY <1>2, <1>14 DEF ToUser
    <2> HIDE DEF h
    <2>6. \A c \in S : user'[c] = gold'[c] \/ ToUser(c)'
        BY <1>1, <2>2, <2>3, <2>4
    <2>7. \A c \in Cell \ S : user'[c] = NoVal /\ ~ ToUser(c)'
        BY <2>2, <2>3, <2>4, <2>5
    <2>8. ReadInv'
        BY <1>1, <2>2, <2>6, <2>7 DEF ReadInv, Undefined
    <2>9. QED
        BY <1>1, <1>2, <1>7, <1>8, <1>9, <1>10, <1>11, <1>12, <2>1, <2>8, CallKept
        DEF CohInv, CopiesInv
<1>15. QED BY <1>1, <1>13, <1>14

\* A device step that leaves the host and the user alone, and changes what the
\* device holds only as the commands left in its queue need it.
LEMMA DeviceCoh ==
    ASSUME TypeOK, CohInv, NEW d \in Dev, queue[d] # <<>>, Executed(d),
           First(d).op \in {"h2d", "fromUser", "exec"},
           UNCHANGED <<hostData, user>>, \A e \in Dev \ {d} : devData'[e] = devData[e],
           \A c \in devValid[d] :
               \/ \E x \in Launched(d)' : c \in x.cells /\ c \in x.whole /\ x.val = gold[c]
               \/ (\A x \in Launched(d)' : c \notin x.cells) /\ devData'[d][c] = gold[c],
           \A x \in Launched(d)' : \A c \in Cell : x.inputs[c] # NoVal => devData'[d][c] = x.inputs[c],
           \A c \in Undefined : devData'[d][c] = NoVal
    PROVE  CohInv'
<1>1. UNCHANGED <<hostValid, devValid, maxUsed, call, appMaps, gold>>
    BY DEF Executed
<1>2. /\ First(d).op \in OpsOf(call.pc)
      /\ \A op \in {"h2d", "d2h", "toUser", "fromUser"} : InTransit(d, op)' = {}
      /\ \A e \in Dev \ {d} : /\ \A op : InTransit(e, op)' = InTransit(e, op)
                              /\ Launched(e)' = Launched(e)
      /\ First(d).op = "h2d" => Launched(d)' = Launched(d)
      /\ First(d).op # "h2d" => Launched(d)' = {}
      /\ Shape'
    BY Popped DEF CohInv, TypeOK
<1>3. \A c : Delivered(d, c)' = devData'[d][c]
    BY <1>2 DEF Delivered
<1>4. \A e \in Dev \ {d} : \A c : Delivered(e, c)' = Delivered(e, c)
    BY <1>2 DEF Delivered
<1>5. \A e \in Dev : InTransit(e, "d2h") = {} /\ InTransit(e, "toUser") = {}
    BY <1>2, Phase DEF CohInv, OpsOf
<1>6. \A c : OnHost(c) => OnHost(c)'
    BY <1>1, <1>5 DEF OnHost, ToHost
<1>7. HostCopiesAgree'
    BY <1>1, <1>6 DEF CohInv, CopiesInv, HostCopiesAgree
<1>8. DevCopiesAgree'
    <2>1. ASSUME NEW c \in devValid'[d]
          PROVE  \/ \E x \in Launched(d)' : c \in x.cells /\ c \in x.whole /\ x.val = gold'[c]
                 \/ (\A x \in Launched(d)' : c \notin x.cells) /\ Delivered(d, c)' = gold'[c]
        BY <1>1, <1>3
    <2>2. ASSUME NEW e \in Dev \ {d}, NEW c \in devValid'[e]
          PROVE  \/ \E x \in Launched(e)' : c \in x.cells /\ c \in x.whole /\ x.val = gold'[c]
                 \/ (\A x \in Launched(e)' : c \notin x.cells) /\ Delivered(e, c)' = gold'[c]
        BY <1>1, <1>2, <1>4 DEF CohInv, CopiesInv, DevCopiesAgree
    <2>3. QED BY <2>1, <2>2 DEF DevCopiesAgree
<1>9. InputsArrive'
    <2>1. ASSUME NEW x \in Launched(d)', NEW c \in Cell
          PROVE  /\ x.inputs[c] # NoVal => Delivered(d, c)' = x.inputs[c]
                 /\ c \in x.cells => gold'[c] # NoVal
        BY <1>1, <1>2, <1>3 DEF CohInv, CopiesInv, InputsArrive
    <2>2. ASSUME NEW e \in Dev \ {d}, NEW x \in Launched(e)', NEW c \in Cell
          PROVE  /\ x.inputs[c] # NoVal => Delivered(e, c)' = x.inputs[c]
                 /\ c \in x.cells => gold'[c] # NoVal
        BY <1>1, <1>2, <1>4 DEF CohInv, CopiesInv, InputsArrive
    <2>3. QED BY <2>1, <2>2 DEF InputsArrive
<1>10. TransfersAreRight'
    <2>1. \A e \in Dev : /\ InTransit(e, "d2h")' = {} /\ InTransit(e, "toUser")' = {}
                         /\ InTransit(e, "fromUser")' \subseteq InTransit(e, "fromUser")
        BY <1>2, <1>5
    <2>2. QED BY <1>1, <2>1 DEF CohInv, CopiesInv, TransfersAreRight
<1>11. UndefinedUntouched' /\ MappedAgree' /\ UsedCovers'
    BY <1>1 DEF CohInv, CopiesInv, UndefinedUntouched, MappedAgree, UsedCovers, Undefined
<1>12. CallInv'
    <2>1. call.pc # "read"
        BY <1>2 DEF OpsOf
    <2>2. QED BY <1>1, <1>6, <2>1, CallKept DEF CohInv
<1>13. QED BY <1>2, <1>7, <1>8, <1>9, <1>10, <1>11, <1>12 DEF CohInv, CopiesInv

LEMMA WriteToDeviceCoh ==
    ASSUME TypeOK, CohInv, NEW d \in Dev, WriteToDevice(d)
    PROVE  CohInv'
<1> DEFINE h == First(d)
<1>1. /\ queue[d] # <<>> /\ Executed(d) /\ h.op \in {"h2d", "fromUser"}
      /\ UNCHANGED <<hostData, user>>
      /\ devData' = [devData EXCEPT ![d] =
                        Overlay(@, h.cells, IF h.op = "h2d" THEN hostData ELSE user)]
    BY DEF WriteToDevice, Runs, First
<1>2. /\ \A op \in {"h2d", "d2h", "toUser", "fromUser"} :
             InTransit(d, op) = IF h.op = op THEN h.cells ELSE {}
      /\ h.op \in OpsOf(call.pc)
      /\ Launched(d)' = Launched(d)
    BY <1>1, Popped DEF CohInv, TypeOK
<1> HIDE DEF h
<1>3. \A e \in Dev \ {d} : devData'[e] = devData[e]
    BY <1>1 DEF TypeOK
<1>4. \A c \in Cell : devData'[d][c] = Delivered(d, c)
    <2>1. \A c \in Cell : devData'[d][c] = IF c \in h.cells
                                           THEN (IF h.op = "h2d" THEN hostData[c] ELSE user[c])
                                           ELSE devData[d][c]
        BY <1>1 DEF TypeOK, Overlay
    <2>2. QED BY <1>1, <1>2, <2>1 DEF Delivered
<1>5. \A c \in devValid[d] :
          \/ \E x \in Launched(d)' : c \in x.cells /\ c \in x.whole /\ x.val = gold[c]
          \/ (\A x \in Launched(d)' : c \notin x.cells) /\ devData'[d][c] = gold[c]
    BY <1>2, <1>4 DEF CohInv, CopiesInv, DevCopiesAgree, TypeOK
<1>6. \A x \in Launched(d)' : \A c \in Cell :
          x.inputs[c] # NoVal => devData'[d][c] = x.inputs[c]
    BY <1>2, <1>4 DEF CohInv, CopiesInv, InputsArrive
<1>7. \A c \in Undefined : devData'[d][c] = NoVal
    <2>1. \A c \in InTransit(d, "fromUser") : user[c] = gold[c]
        BY DEF CohInv, CopiesInv, TransfersAreRight
    <2>2. QED BY <1>4, <2>1 DEF Delivered, CohInv, CopiesInv, UndefinedUntouched, Undefined
<1>8. QED BY <1>1, <1>3, <1>5, <1>6, <1>7, DeviceCoh DEF h

LEMMA RunSubKernelCoh ==
    ASSUME TypeOK, CohInv, NEW d \in Dev, RunSubKernel(d)
    PROVE  CohInv'
<1> DEFINE h == First(d)
<1>1. /\ queue[d] # <<>> /\ Executed(d) /\ h.op = "exec"
      /\ UNCHANGED <<hostData, user>>
    BY DEF RunSubKernel, Runs, First
<1>2. /\ \A op \in {"h2d", "d2h", "toUser", "fromUser"} : InTransit(d, op) = {}
      /\ Launched(d) = {h} /\ Launched(d)' = {}
    BY <1>1, Popped DEF CohInv, TypeOK
<1>3. \A c : Delivered(d, c) = devData[d][c]
    BY <1>2 DEF Delivered
<1>4. InputsAgree(d)
    BY <1>2, <1>3 DEF InputsAgree, CohInv, CopiesInv, InputsArrive, First
<1>5. devData' = [devData EXCEPT ![d] = Overlay(@, h.cells,
                     Overlay(Constantly(NoVal), h.whole, Constantly(h.val)))]
    BY <1>4 DEF RunSubKernel, First
<1> HIDE DEF h
<1>6. \A e \in Dev \ {d} : devData'[e] = devData[e]
    BY <1>5 DEF TypeOK
<1>7. \A c \in Cell : devData'[d][c] = IF c \in h.cells
                                       THEN (IF c \in h.whole THEN h.val ELSE NoVal)
                                       ELSE devData[d][c]
    BY <1>5 DEF TypeOK, Overlay, Constantly
<1>8. \A c \in devValid[d] : devData'[d][c] = gold[c]
    BY <1>2, <1>3, <1>7 DEF CohInv, CopiesInv, DevCopiesAgree, TypeOK
<1>9. \A c \in Undefined : devData'[d][c] = NoVal
    BY <1>2, <1>7 DEF CohInv, CopiesInv, InputsArrive, UndefinedUntouched, Undefined
<1>10. First(d).op \in {"h2d", "fromUser", "exec"}
    BY <1>1 DEF h
<1>11. QED BY <1>1, <1>2, <1>6, <1>8, <1>9, <1>10, DeviceCoh

LEMMA InitCoh ==
    ASSUME OnlyCopiedContents, Init
    PROVE  CohInv
<1> PICK flags \in [Mem -> CreateFlags], v \in Value : InitWith(flags, v)
    BY DEF Init
<1> DEFINE start == Overlay(Constantly(NoVal),
                            {m \in Mem : flags[m] \in {"copy", "use"}} \X Offset, Constantly(v))
<1>1. /\ hostData = start /\ gold = start /\ devData = [d \in Dev |-> Constantly(NoVal)]
      /\ hostValid = {m \in Mem : flags[m] = "copy"} \X Offset
      /\ devValid = [d \in Dev |-> {}] /\ queue = [d \in Dev |-> <<>>]
      /\ maxUsed = [m \in Mem |-> IF flags[m] = "none" THEN 1 ELSE Size]
      /\ user = Constantly(NoVal) /\ call = Idle /\ appMaps = {}
    BY DEF InitWith
<1>2. \A d \in Dev : queue[d] = <<>>
    BY <1>1
<1>3. \A c \in Cell : c \notin {m \in Mem : flags[m] \in {"copy", "use"}} \X Offset => start[c] = NoVal
    BY DEF Overlay, Constantly
<1> HIDE DEF start
<1>4. Shape
    BY <1>2 DEF Shape, QueueShape
<1>5. HostCopiesAgree /\ DevCopiesAgree /\ MappedAgree
    BY <1>1 DEF HostCopiesAgree, OnHost, DevCopiesAgree, MappedAgree
<1>6. InputsArrive /\ TransfersAreRight
    BY <1>2, EmptyQueue DEF InputsArrive, TransfersAreRight
<1>7. UndefinedUntouched
    BY <1>1 DEF UndefinedUntouched, Undefined, Constantly
<1>8. UsedCovers
    <2>1. ASSUME NEW m \in ReadOnly, NEW o \in Offset, gold[<<m, o>>] # NoVal
          PROVE  o < maxUsed[m]
        <3>1. m \in Mem /\ <<m, o>> \in Cell /\ o \in Int /\ o < Size
            BY SizeAssumption DEF Cell, Offset
        <3>2. flags[m] \in {"copy", "use"}
            BY <1>1, <1>3, <2>1, <3>1
        <3>3. maxUsed[m] = Size
            BY <1>1, <3>1, <3>2
        <3>4. QED BY <3>1, <3>3
    <2>2. QED BY <2>1 DEF UsedCovers
<1>9. CallInv
    BY <1>1 DEF CallInv, Idle
<1>10. QED BY <1>4, <1>5, <1>6, <1>7, <1>8, <1>9 DEF CohInv, CopiesInv

LEMMA StepCoh ==
    ASSUME TypeOK, DirInv, CohInv, OnlyReadMappings, FreedKept, BarrierAfterLaunch, [Next]_vars
    PROVE  CohInv'
<1>1. CASE \E e \in appMaps, v \in Value : Store(e, v)
    BY <1>1 DEF Store, DirInv, NoWriteMapping
<1>2. CASE Application
    BY <1>1, <1>2, ReadCoh, WriteThroughCoh, WriteDelayedCoh, CopyCoh, MapCoh, UnmapCoh,
       StartIndirectionCoh, StartKernelCoh
    DEF Application
<1>3. CASE Return
    BY <1>3, OtherReturnsCoh, CopyReturnCoh, MapReturnCoh, LaunchKernelCoh DEF Return
<1>4. CASE \E d \in Dev : Device(d)
    BY <1>4, WriteToDeviceCoh, ReadFromDeviceCoh, RunSubKernelCoh DEF Device
<1>5. CASE UNCHANGED vars
    <2>1. /\ Shape' /\ UsedCovers' /\ HostCopiesAgree' /\ DevCopiesAgree' /\ InputsArrive'
          /\ TransfersAreRight' /\ UndefinedUntouched' /\ MappedAgree'
        BY <1>5
        DEF vars, CohInv, CopiesInv, Shape, QueueShape, HostCopiesAgree, DevCopiesAgree,
            InputsArrive, TransfersAreRight, UndefinedUntouched, UsedCovers, MappedAgree,
            OnHost, ToHost, Delivered, Launched, InTransit, Undefined
    <2>2. ReadInv => ReadInv'
        BY <1>5 DEF vars, ReadInv, Undefined, ToUser, InTransit
    <2>3. \A c : OnHost(c) => OnHost(c)'
        BY <1>5 DEF vars, OnHost, ToHost, InTransit
    <2>4. CallInv'
        <3>1. CallInv /\ (call.pc = "read" => ReadInv)
            BY DEF CohInv, CallInv
        <3>2. UNCHANGED <<hostValid, devValid, maxUsed, call, appMaps, gold, user>>
            BY <1>5 DEF vars
        <3>3. QED BY <2>2, <2>3, <3>1, <3>2, CallKept
    <2>5. QED BY <2>1, <2>4 DEF CohInv, CopiesInv
<1>6. QED BY <1>2, <1>3, <1>4, <1>5 DEF Next

\* What CohInv says of the states the properties are about.
LEMMA CohSeesProgramOrder ==
    ASSUME TypeOK, CohInv
    PROVE  /\ SubKernelsSeeProgramOrder /\ IndirectionsSeeProgramOrder
           /\ ValidCopiesAgree /\ MappedReadsSeeProgramOrder
<1>1. SubKernelsSeeProgramOrder
    <2> SUFFICES ASSUME NEW d \in Dev, Runs(d, "exec") PROVE InputsAgree(d)
        BY DEF SubKernelsSeeProgramOrder
    <2> DEFINE h == First(d)
    <2>1. queue[d] = <<h>> /\ h.op = "exec"
        BY DEF Runs, First, CohInv, Shape, QueueShape
    <2> HIDE DEF h
    <2>2. /\ Execs(<<h>>) = {h}
          /\ \A op \in {"h2d", "fromUser"} : Moved(<<h>>, op) = {}
        BY <2>1, OneCommand
    <2>3. Launched(d) = {h} /\ \A op \in {"h2d", "fromUser"} : InTransit(d, op) = {}
        BY <2>1, <2>2, Zenon DEF Launched, InTransit
    <2>4. \A c : Delivered(d, c) = devData[d][c]
        BY <2>3 DEF Delivered
    <2>5. \A c \in Cell : h.inputs[c] # NoVal => devData[d][c] = h.inputs[c]
        BY <2>3, <2>4 DEF CohInv, CopiesInv, InputsArrive
    <2>6. QED BY <2>5 DEF InputsAgree, h, First
<1>2. IndirectionsSeeProgramOrder
    <2>1. ASSUME call.pc = "indirection", Drained(call.wait)
          PROVE  \A c \in call.cells : hostData[c] = gold[c]
        BY <2>1, QueuesEmpty, AtRest DEF CohInv, CallInv
    <2>2. QED BY <2>1 DEF IndirectionsSeeProgramOrder
<1>3. ValidCopiesAgree
    BY AtRest DEF ValidCopiesAgree, CohInv, Drained
<1>4. MappedReadsSeeProgramOrder
    <2>1. hostValid \cup AnyValid \subseteq Cell
        BY DEF TypeOK, AnyValid
    <2>2. QED BY <2>1 DEF MappedReadsSeeProgramOrder, CohInv, CopiesInv, MappedAgree
<1>5. QED BY <1>1, <1>2, <1>3, <1>4

LEMMA AlwaysCoherent ==
    ASSUME OnlyCopiedContents, OnlyReadMappings, FreedKept, BarrierAfterLaunch
    PROVE  Spec => [](TypeOK /\ CohInv)
<1>1. Init => DirInv /\ CohInv
    BY InitDir, InitCoh
<1>2. TypeOK /\ DirInv /\ CohInv /\ [Next]_vars => DirInv' /\ CohInv'
    BY StepDir, StepCoh
<1>3. QED BY <1>1, <1>2, TypeCorrect, PTL DEF Spec

\* With a barrier after every launch, each subkernel finds the contents its
\* place in the program gives it: the transfers that bring them to the host
\* have been waited for (Driver.cpp:508-520), those to its device precede it in
\* the queue, and nothing overwrites the host copy in between.
THEOREM SubKernelsAreInOrder ==
    ASSUME OnlyCopiedContents, OnlyReadMappings, FreedKept, BarrierAfterLaunch
    PROVE  Spec => []SubKernelsSeeProgramOrder
<1>1. TypeOK /\ CohInv => SubKernelsSeeProgramOrder
    BY CohSeesProgramOrder
<1>2. QED BY <1>1, AlwaysCoherent, PTL

\* Under the same conditions, the scheduler evaluates indirections on what the
\* program has stored (Driver.cpp:380-453).
THEOREM IndirectionsAreInOrder ==
    ASSUME OnlyCopiedContents, OnlyReadMappings, FreedKept, BarrierAfterLaunch
    PROVE  Spec => []IndirectionsSeeProgramOrder
<1>1. TypeOK /\ CohInv => IndirectionsSeeProgramOrder
    BY CohSeesProgramOrder
<1>2. QED BY <1>1, AlwaysCoherent, PTL

\* Under the same conditions, a copy that hostValidData or devicesValidData[d]
\* records as valid holds, between two calls and once the devices are through,
\* what the program has stored.
THEOREM ValidCopiesAreRight ==
    ASSUME OnlyCopiedContents, OnlyReadMappings, FreedKept, BarrierAfterLaunch
    PROVE  Spec => []ValidCopiesAgree
<1>1. TypeOK /\ CohInv => ValidCopiesAgree
    BY CohSeesProgramOrder
<1>2. QED BY <1>1, AlwaysCoherent, PTL

\* Under the same conditions, a mapping for reading shows what the program has
\* stored for as long as the application holds it (BufferManager.cpp:247-285).
THEOREM MappedReadsAreInOrder ==
    ASSUME OnlyCopiedContents, OnlyReadMappings, FreedKept, BarrierAfterLaunch
    PROVE  Spec => []MappedReadsSeeProgramOrder
<1>1. TypeOK /\ CohInv => MappedReadsSeeProgramOrder
    BY CohSeesProgramOrder
<1>2. QED BY <1>1, AlwaysCoherent, PTL

-----------------------------------------------------------------------------
(* The memory of a single device.                                          *)

LEMMA NothingToReturn ==
    ASSUME call.pc # "read" \/ ~ Drained(call.wait)
    PROVE  Reply = Constantly(NoVal)
BY DEF Reply

\* A read whose devices are through has what the program has stored.
ReadDone  == call.pc = "read" /\ Drained(call.wait)
ReadExact ==
    \E S \in SUBSET Cell : /\ S # {} /\ \A c \in S : gold[c] # NoVal
                           /\ Reply = [c \in Cell |-> IF c \in S THEN gold[c] ELSE NoVal]

LEMMA ReadIsExact == TypeOK /\ CohInv /\ ReadDone => ReadExact
<1> SUFFICES ASSUME TypeOK, CohInv, ReadDone PROVE ReadExact
    OBVIOUS
<1>1. PICK S \in SUBSET (Cell \ Undefined) :
          /\ S # {}
          /\ \A c \in S : user[c] = gold[c] \/ ToUser(c)
          /\ \A c \in Cell \ S : user[c] = NoVal /\ ~ ToUser(c)
    BY DEF ReadDone, CohInv, CallInv, ReadInv
<1>2. \A c : ~ ToUser(c)
    BY QueuesEmpty, NothingInTransit DEF ReadDone, CohInv
<1>3. user = [c \in Cell |-> IF c \in S THEN gold[c] ELSE NoVal]
    BY <1>1, <1>2 DEF TypeOK
<1>4. S \in SUBSET Cell /\ \A c \in S : gold[c] # NoVal
    BY DEF Undefined
<1>5. QED BY <1>1, <1>3, <1>4 DEF ReadExact, ReadDone, Reply

LEMMA ReadIsExactNext == TypeOK' /\ CohInv' /\ ReadDone' => ReadExact'
BY ReadIsExact, PTL

\* The step after which nothing is missing is the one that reads.
LEMMA ReadRefines ==
    ASSUME TypeOK', CohInv', gold' = gold, Reply = Constantly(NoVal)
    PROVE  SM!Next \/ UNCHANGED <<gold, Reply>>
<1>1. CASE call'.pc # "read" \/ ~ Drained(call.wait)'
    BY <1>1 DEF Reply, Constantly
<1>2. CASE call'.pc = "read" /\ Drained(call.wait)'
    <2>1. PICK S \in SUBSET Cell :
              /\ S # {} /\ \A c \in S : gold'[c] # NoVal
              /\ Reply' = [c \in Cell |-> IF c \in S THEN gold'[c] ELSE NoVal]
        BY <1>2, ReadIsExactNext DEF ReadDone, ReadExact
    <2>2. SM!Read(S)
        BY <2>1 DEF SM!Read, SM!NoReply, Constantly
    <2>3. QED BY <2>2 DEF SM!Next
<1>3. QED BY <1>1, <1>2

LEMMA UpdateRefines ==
    ASSUME NEW S \in SUBSET Cell, NEW v \in Value, gold' = Overlay(gold, S, Constantly(v)),
           UNCHANGED Reply
    PROVE  SM!Next
<1>1. SM!Update(S, v)
    BY DEF SM!Update, Overlay, Constantly
<1>2. QED BY <1>1 DEF SM!Next

LEMMA CopyRefines ==
    ASSUME TypeOK, CopyReturn
    PROVE  SM!Next
<1> DEFINE dst == Region(call.m, call.off, call.src.cb)
<1>1. /\ call.src \in Requests /\ call.m \in Mem /\ call.off \in Offset
      /\ call.off + call.src.cb <= Size
    BY CallLocals DEF CopyReturn, TypeOK
<1>2. gold' = Copied(gold, call.src, call.m, call.off) /\ call.pc = "copy" /\ call' = Idle
    BY DEF CopyReturn
<1>3. ASSUME NEW c \in dst
      PROVE  c \in Cell /\ <<call.src.m, c[2] - call.off + call.src.off>> \in Cell
    BY <1>1, CopySource, CellsInCells
<1>4. dst \in SUBSET Cell
    BY <1>3
<1>5. gold' \in [Cell -> {gold[c] : c \in Cell}] /\ \A c \in Cell \ dst : gold'[c] = gold[c]
    BY <1>2, <1>3 DEF Copied
<1>6. UNCHANGED Reply
    BY <1>2 DEF Reply, Idle
<1> HIDE DEF dst
<1>7. SM!CopyTo(dst)
    BY <1>5, <1>6 DEF SM!CopyTo
<1>8. QED BY <1>4, <1>7 DEF SM!Next

\* Nothing but the return of the call happens once its devices are through.
LEMMA ReadEnds ==
    ASSUME TypeOK, CohInv, call.pc = "read", Drained(call.wait), Next
    PROVE  ReadReturn
<1>1. call # Idle /\ ~ InScheduler
    BY DEF Idle, InScheduler
<1>2. ~ Application
    BY ZenonT(40), <1>1 DEF Application, Read, WriteThrough, WriteDelayed, Copy, Map, Unmap, Store,
       StartIndirection, StartKernel
<1>3. ASSUME NEW d \in Dev PROVE ~ Device(d)
    <2>1. queue[d] = <<>>
        BY QueuesEmpty DEF CohInv
    <2>2. QED BY <2>1 DEF Device, WriteToDevice, ReadFromDevice, RunSubKernel, Runs
<1>4. ~ (WriteReturn \/ CopyReturn \/ MapReturn \/ IndirectionRead \/ CycleEnd
            \/ \E v \in Value : LaunchKernel(v))
    BY DEF WriteReturn, CopyReturn, MapReturn, IndirectionRead, CycleEnd, LaunchKernel
<1>5. QED BY <1>2, <1>3, <1>4 DEF Next, Return

LEMMA StepRefines ==
    ASSUME TypeOK, DirInv, CohInv, TypeOK', CohInv', BarrierAfterLaunch, [Next]_vars
    PROVE  [SM!Next]_<<gold, Reply>>
<1>1. CASE UNCHANGED vars
    BY <1>1 DEF vars, Reply, Drained
<1>2. CASE Next /\ call.pc = "read" /\ Drained(call.wait)
    <2>1. ReadReturn
        BY <1>2, ReadEnds
    <2>2. gold' = gold /\ call' = Idle
        BY <2>1 DEF ReadReturn
    <2>3. SM!Return
        BY <2>2 DEF SM!Return, SM!NoReply, Reply, Idle, Constantly
    <2>4. QED BY <2>3 DEF SM!Next
<1>3. CASE Next /\ (call.pc # "read" \/ ~ Drained(call.wait))
    <2>1. Reply = Constantly(NoVal)
        BY <1>3, NothingToReturn
    <2>2. CASE gold' = gold
        BY <2>1, <2>2, ReadRefines
    <2>3. ASSUME NEW r \in Requests, NEW v \in Value, WriteThrough(r, v) \/ WriteDelayed(r, v)
          PROVE  SM!Next
        <3>1. gold' = Overlay(gold, Cells(r), Constantly(v)) /\ call'.pc \in {"idle", "write"}
            BY <2>3 DEF WriteThrough, WriteDelayed, Idle
        <3>2. Reply' = Constantly(NoVal)
            BY <3>1 DEF Reply, Constantly
        <3>3. Cells(r) \in SUBSET Cell
            BY CellsInCells
        <3>4. QED BY <2>1, <3>1, <3>2, <3>3, UpdateRefines
    <2>4. ASSUME NEW v \in Value, LaunchKernel(v)
          PROVE  SM!Next
        <3> DEFINE S == UNION {call.k.aw[d] : d \in Dev}
        <3>0. call.k \in Kernels
            BY <2>4, CallLocals DEF LaunchKernel, TypeOK
        <3>1. S \in SUBSET Cell
            <4>1. maxUsed \in [Mem -> 1 .. Size]
                BY DEF TypeOK
            <4>2. \A d \in Dev : call.k.aw[d] \subseteq Cell
                BY <3>0, <4>1, LaunchRegions
            <4>3. QED BY <4>2
        <3>2. gold' = Overlay(gold, S, Constantly(v)) /\ call'.pc \in {"idle", "barrier"}
            BY <2>4 DEF LaunchKernel, Idle
        <3>3. Reply' = Constantly(NoVal)
            BY <3>2 DEF Reply, Constantly
        <3> HIDE DEF S
        <3>4. QED BY <2>1, <3>1, <3>2, <3>3, UpdateRefines
    <2>5. CASE \E e \in appMaps, v \in Value : Store(e, v)
        BY <2>5 DEF Store, DirInv, NoWriteMapping
    <2>6. CASE Application
        BY ZenonT(40), <2>2, <2>3, <2>5, <2>6
        DEF Application, Read, Copy, Map, Unmap, StartIndirection, StartKernel
    <2>7. CASE Return
        BY <2>2, <2>4, <2>7, CopyRefines
        DEF Return, ReadReturn, WriteReturn, MapReturn, IndirectionRead, CycleEnd
    <2>8. CASE \E d \in Dev : Device(d)
        BY <2>2, <2>8 DEF Device, WriteToDevice, ReadFromDevice, RunSubKernel, Executed
    <2>9. QED BY <1>3, <2>6, <2>7, <2>8 DEF Next
<1>4. QED BY <1>1, <1>2, <1>3

LEMMA InitRefines == TypeOK /\ Init => SM!Init
<1> SUFFICES ASSUME TypeOK, Init PROVE SM!Init
    OBVIOUS
<1>1. call = Idle
    BY DEF Init, InitWith
<1>2. Reply = Constantly(NoVal)
    BY <1>1 DEF Reply, Idle
<1>3. QED BY <1>2 DEF TypeOK, SM!Init, SM!NoReply, Constantly, Content

\* Under the same conditions the library implements the memory of one device
\* that executes the calls in their order: every step of the application, of a
\* call in progress or of a device is a step of that memory or none, and what a
\* read returns is what the memory holds when the last transfer it needs is done.
THEOREM SplitMemoryRefines ==
    ASSUME OnlyCopiedContents, OnlyReadMappings, FreedKept, BarrierAfterLaunch
    PROVE  Spec => ImplementsSequentialMemory
<1>1. Init => TypeOK /\ DirInv /\ CohInv /\ SM!Init
    BY InitType, InitDir, InitCoh, InitRefines
<1>2. TypeOK /\ DirInv /\ CohInv /\ [Next]_vars => TypeOK' /\ DirInv' /\ CohInv'
    BY StepType, StepDir, StepCoh
<1>3. /\ TypeOK /\ DirInv /\ CohInv /\ TypeOK' /\ CohInv' /\ [Next]_vars
      => [SM!Next]_<<gold, Reply>>
    BY StepRefines
<1>4. QED BY <1>1, <1>2, <1>3, PTL DEF Spec, ImplementsSequentialMemory, SM!Spec
=============================================================================
