----------------------------- MODULE Reductions -----------------------------
(***************************************************************************)
(* Kernels that update a buffer atomically, or store a flag in it, from    *)
(* every device.  Each device works on a copy of its own; the driver then  *)
(* brings the copies of the region into memory of their own (tmp) and      *)
(* combines them on the host, next to the copy the host had before the     *)
(* launch: for a sum, local += (tmp_1 + ... + tmp_n) - n * local.          *)
(*                                                                         *)
(* Two things are hard.  The host copy must hold the contents from before  *)
(* the launch although no device may have asked for them, and the copies   *)
(* must have arrived when they are combined and then freed.                *)
(*                                                                         *)
(* The module follows one buffer of typed elements; module SplitMemory has *)
(* the rest of the API and the kernels without atomics.                    *)
(***************************************************************************)
EXTENDS Integers, Sequences, FiniteSets, FiniteSetsExt

CONSTANTS
    NbDevices,        \* number of devices selected by the user
    Size,             \* elements of the buffer
    Modulus,          \* 2^w, for elements of w bits
    NoVal,            \* contents that nothing has defined
    Kernels,          \* the launches, with what the analysis says of them
    Inputs,           \* the values the application writes
    DelayedWrite,     \* the settings of option DELAYEDWRITE to look at
    CycleBarrier,     \* TRUE for the schedulers MKSTATIC, MKGR and MKGR2
    CycleLength       \* option CYCLELENGTH

Dev  == 0 .. NbDevices - 1
Elem == 0 .. Size - 1
Val  == 0 .. Modulus - 1
Ops  == {"sum", "max", "min", "or", "store"}

(***************************************************************************)
(* A launch: the devices that get a subkernel, the operation, per device   *)
(* the region the analysis has found, the elements the subkernel really    *)
(* updates, and the operand it updates them with.                          *)
(***************************************************************************)
Launch == [devs : SUBSET Dev, op : Ops, reg : [Dev -> SUBSET Elem],
           upd : [Dev -> SUBSET Elem], val : [Dev -> Val]]

\* The devices with something to transfer.
Active(k) == {d \in k.devs : k.reg[d] # {}}

\* With a single subkernel the regions of the atomics are written regions
\* like any other (fillSubkernelInfoSingle).
Reducing(k) == k.op # "store" /\ Cardinality(k.devs) > 1

\* performDisjointTest: no two written regions share an element.  An atomic
\* region is one region, the same for every device that has it.
WellFormed(k) ==
    /\ \A d \in Dev : /\ k.upd[d] \subseteq k.reg[d]
                      /\ d \notin k.devs => k.reg[d] = {}
    /\ \A d, e \in Dev : d # e =>
          IF Reducing(k) THEN k.reg[d] = k.reg[e] \/ k.reg[d] = {} \/ k.reg[e] = {}
                         ELSE k.reg[d] \cap k.reg[e] = {}

ASSUME DevicesAssumption == NbDevices \in Nat \ {0}
ASSUME SizeAssumption    == Size \in Nat \ {0}
ASSUME ValuesAssumption  == Modulus \in Nat \ {0} /\ NoVal \notin Val /\ Inputs \subseteq Val
ASSUME KernelsAssumption == Kernels \subseteq Launch /\ \A k \in Kernels : WellFormed(k)
ASSUME OptionsAssumption == /\ DelayedWrite \subseteq BOOLEAN
                            /\ CycleBarrier \in BOOLEAN
                            /\ CycleLength \in Nat \ {0}

VARIABLES
    delayed,      \* the option DELAYEDWRITE of this run of the program
    local,        \* mLocalBuffer
    dev,          \* mBuffers[d]
    hostValid,    \* hostValidData
    devValid,     \* devicesValidData[d]
    queue,        \* the commands of each device, not executed yet
    tmp,          \* the memory the copies are read into, NoVal until they are
    call,         \* where the application thread is
    kerId,        \* the kernel of the cycle that comes next
    gold          \* what one device executing the calls in order would hold

vars == <<delayed, local, dev, hostValid, devValid, queue, tmp, call, kerId, gold>>

Contents  == [Elem -> Val \cup {NoVal}]
AnyValid  == UNION {devValid[d] : d \in Dev}
Undefined == {c \in Elem : gold[c] = NoVal}
Constantly(v)    == [c \in Elem |-> v]
Overlay(f, S, g) == [c \in Elem |-> IF c \in S THEN g[c] ELSE f[c]]

Command(op, S) == IF S = {} THEN <<>> ELSE <<[op |-> op, cells |-> S]>>
Drained(D)     == \A d \in D : queue[d] = <<>>
Idle           == [pc |-> "idle"]

-----------------------------------------------------------------------------
(* The operations, on elements of w bits.                                  *)

\* What an update with operand x leaves where there was a.
Updated(op, a, x) ==
    CASE op = "sum"          -> (a + x) % Modulus
      [] op = "max"          -> IF x > a THEN x ELSE a
      [] op = "min"          -> IF x < a THEN x ELSE a
      [] op \in {"or", "store"} -> x

\* An operation that stores a flag only ever finds and stores 0 or 1.
FlagsOnly(k, f) ==
    k.op = "or" => \A d \in Dev : k.val[d] = 1 /\ \A c \in k.reg[d] : f[c] \in {0, 1}

\* The subkernel of d on the contents f.
SubKernel(k, d, f) ==
    [c \in Elem |-> IF c \in k.upd[d] THEN Updated(k.op, f[c], k.val[d]) ELSE f[c]]

\* The launch on a single device: the updates of all subkernels, in any order.
Whole(k, f) ==
    [c \in Elem |-> IF \A d \in Dev : c \notin k.upd[d] THEN f[c]
                    ELSE FoldSet(LAMBDA d, a : SubKernel(k, d, [f EXCEPT ![c] = a])[c],
                                 f[c], k.devs)]

-----------------------------------------------------------------------------
(* The application writes (BufferManager::write).                          *)

Init ==
    /\ delayed \in DelayedWrite
    /\ local = Constantly(NoVal)
    /\ dev = [d \in Dev |-> Constantly(NoVal)]
    /\ hostValid = {}
    /\ devValid = [d \in Dev |-> {}]
    /\ queue = [d \in Dev |-> <<>>]
    /\ tmp = [d \in Dev |-> Constantly(NoVal)]
    /\ call = Idle
    /\ kerId = 0
    /\ gold = Constantly(NoVal)

WriteDelayed(S, v) ==
    /\ call = Idle
    /\ delayed
    /\ local' = Overlay(local, S, Constantly(v))
    /\ gold' = Overlay(gold, S, Constantly(v))
    /\ hostValid' = hostValid \cup S
    /\ devValid' = [d \in Dev |-> devValid[d] \ S]
    /\ UNCHANGED <<delayed, dev, queue, tmp, call, kerId>>

\* Each device is written from the user's memory, and waited for; the host copy
\* is left as it was.
WriteThrough(S, v) ==
    /\ call = Idle
    /\ ~ delayed
    /\ Drained(Dev)
    /\ dev' = [d \in Dev |-> Overlay(dev[d], S, Constantly(v))]
    /\ gold' = Overlay(gold, S, Constantly(v))
    /\ hostValid' = hostValid \ S
    /\ devValid' = [d \in Dev |-> devValid[d] \cup S]
    /\ UNCHANGED <<delayed, local, queue, tmp, call, kerId>>

-----------------------------------------------------------------------------
(* computeTransfers.  The requests are examined one by one against the     *)
(* directories as they are before the launch.                              *)

DeviceMissing(k, d) == k.reg[d] \ devValid[d]

\* The regions the reduction reads on the host: those of sums, minima and maxima.
HostRequired(k) ==
    IF Reducing(k) /\ k.op # "or" THEN UNION {k.reg[d] : d \in Dev} ELSE {}

\* A device that misses nothing is passed over, whatever the host requires.
HostMissing(k, d) ==
    IF DeviceMissing(k, d) = {} THEN {}
    ELSE (DeviceMissing(k, d) \cup HostRequired(k)) \ hostValid

\* What the request of d brings back from d2: the other devices are scanned in order.
Brought(k, d, d2) ==
    {c \in HostMissing(k, d) \cap devValid[d2] :
        d2 # d /\ \A e \in Dev : e < d2 /\ e # d => c \notin devValid[e]}

Mutant_OwnRequestOnly(k, d2) == UNION {Brought(k, d, d2) : d \in {e \in Active(k) : e < d2}}
D2H(k, d2) == UNION {Brought(k, d, d2) : d \in Active(k)}

\* "Do not send to the device data that is not valid on the host."
H2D(k, d) ==
    {c \in DeviceMissing(k, d) :
        c \in HostMissing(k, d) => \E d2 \in Dev : c \in Brought(k, d, d2)}

\* The scheduler's partition, the transfers to the host, and the wait for them.
Start(k) ==
    /\ call = Idle
    /\ \A d \in Dev : k.reg[d] \cap Undefined = {}
    /\ FlagsOnly(k, gold)
    /\ queue' = [d \in Dev |-> queue[d] \o Command("d2h", D2H(k, d))]
    /\ hostValid' = hostValid \cup UNION {D2H(k, d) : d \in Dev}
    /\ call' = [pc |-> "d2h", k |-> k, h2d |-> [d \in Dev |-> H2D(k, d)],
                wait |-> {d \in Dev : D2H(k, d) # {}}]
    /\ UNCHANGED <<delayed, local, dev, devValid, tmp, kerId, gold>>

-----------------------------------------------------------------------------
(* The subkernels, behind the transfers to the devices and before the      *)
(* transfers of the results into tmp.                                      *)

Exec(k, d) == IF d \in Active(k) THEN <<[op |-> "exec", k |-> k]>> ELSE <<>>

ToTmp(k, d) == IF Reducing(k) THEN Command("toTmp", k.reg[d]) ELSE <<>>

\* enqueueSubKernels: the directories, for a region that is simply written.
AfterWritten(k, valid, d) ==
    IF Reducing(k) THEN valid
    ELSE (valid \ UNION {k.reg[e] : e \in Dev \ {d}}) \cup k.reg[d]

HostAfterWritten(k) ==
    IF Reducing(k) THEN hostValid ELSE hostValid \ UNION {k.reg[d] : d \in Dev}

\* The driver waits for the devices at the end of a cycle of kernels only.
Mutant_NeverWaits == {}
Barrier == IF CycleBarrier /\ kerId = CycleLength - 1 THEN Dev ELSE {}

Enqueue ==
    LET k == call.k
    IN /\ call.pc = "d2h"
       /\ Drained(call.wait)
       /\ queue' = [d \in Dev |-> queue[d] \o Command("h2d", call.h2d[d])
                                           \o Exec(k, d) \o ToTmp(k, d)]
       /\ devValid' = [d \in Dev |-> AfterWritten(k, devValid[d] \cup call.h2d[d], d)]
       /\ hostValid' = HostAfterWritten(k)
       /\ call' = [pc |-> "reduce", k |-> k, wait |-> Barrier]
       /\ kerId' = (kerId + 1) % CycleLength
       /\ gold' = Whole(k, gold)
       /\ UNCHANGED <<delayed, local, dev, tmp>>

-----------------------------------------------------------------------------
(* The reductions.  The copies are laid out one element after the other in *)
(* the order of the region: element number i of the first device's region  *)
(* is combined with element number i of the others.                        *)

First(D)       == CHOOSE d \in D : \A e \in D : d <= e
Rank(S, c)     == Cardinality({e \in S : e < c})
InTmp(k, d, c) == \* the element of d's region that has the place of c in the first's
    CHOOSE e \in k.reg[d] : Rank(k.reg[d], e) = Rank(k.reg[First(Active(k))], c)

\* What has not arrived, or lies beyond the memory allocated, is any value.
Copy(k, d, c, junk) ==
    IF Cardinality(k.reg[d]) <= Rank(k.reg[First(Active(k))], c) THEN junk
    ELSE IF tmp[d][InTmp(k, d, c)] = NoVal THEN junk ELSE tmp[d][InTmp(k, d, c)]

\* The base, read where nothing may have been written, is any value too.
Base(c, junk) == IF local[c] = NoVal THEN junk ELSE local[c]

Mutant_SumForgetsBase(k, c, junk) ==
    MapThenSumSet(LAMBDA d : Copy(k, d, c, junk), Active(k)) % Modulus
SumOfCopies(k, c, junk) ==
    (MapThenSumSet(LAMBDA d : Copy(k, d, c, junk), Active(k))
       - (Cardinality(Active(k)) - 1) * Base(c, junk)) % Modulus

\* The maximum, the minimum and the disjunction replace what the host had.
MaxOfCopies(k, c, junk) == Max({Copy(k, d, c, junk) : d \in Active(k)})
MinOfCopies(k, c, junk) == Min({Copy(k, d, c, junk) : d \in Active(k)})
OrOfCopies(k, c, junk)  == IF \E d \in Active(k) : Copy(k, d, c, junk) = 1 THEN 1 ELSE 0

Combined(k, c, junk) ==
    CASE k.op = "sum" -> SumOfCopies(k, c, junk)
      [] k.op = "max" -> MaxOfCopies(k, c, junk)
      [] k.op = "min" -> MinOfCopies(k, c, junk)
      [] k.op = "or"  -> OrOfCopies(k, c, junk)

\* The region of regVec[0].
Reduced(k) ==
    UNION {k.reg[d] : d \in {f \in Active(k) : Reducing(k) /\ \A e \in Active(k) : f <= e}}

\* The devices' copies are partial results: the host has the only one.
AfterReduction(k, valid) == valid \ Reduced(k)

Reduce ==
    LET k == call.k
    IN /\ call.pc = "reduce"
       /\ Drained(call.wait)
       /\ \E junk \in Val :
             local' = [c \in Elem |-> IF c \in Reduced(k) THEN Combined(k, c, junk) ELSE local[c]]
       /\ hostValid' = hostValid \cup Reduced(k)
       /\ devValid' = [d \in Dev |-> AfterReduction(k, devValid[d])]
       /\ tmp' = [d \in Dev |-> Constantly(NoVal)]
       /\ call' = Idle
       /\ UNCHANGED <<delayed, dev, queue, kerId, gold>>

-----------------------------------------------------------------------------
(* A device executes the command at the head of its queue.                 *)

Execute(d) ==
    LET cmd == Head(queue[d])
    IN /\ queue[d] # <<>>
       /\ queue' = [queue EXCEPT ![d] = Tail(@)]
       /\ \/ cmd.op = "d2h" /\ local' = Overlay(local, cmd.cells, dev[d])
                            /\ UNCHANGED <<dev, tmp>>
          \/ cmd.op = "h2d" /\ dev' = [dev EXCEPT ![d] = Overlay(@, cmd.cells, local)]
                            /\ UNCHANGED <<local, tmp>>
          \/ cmd.op = "exec" /\ dev' = [dev EXCEPT ![d] = SubKernel(cmd.k, d, @)]
                             /\ UNCHANGED <<local, tmp>>
          \/ cmd.op = "toTmp" /\ tmp' = [tmp EXCEPT ![d] = Overlay(@, cmd.cells, dev[d])]
                              /\ UNCHANGED <<local, dev>>
       /\ UNCHANGED <<delayed, hostValid, devValid, call, kerId, gold>>

Next ==
    \/ \E S \in (SUBSET Elem) \ {{}}, v \in Inputs : WriteDelayed(S, v)
    \/ \E S \in (SUBSET Elem) \ {{}}, v \in Inputs : WriteThrough(S, v)
    \/ \E k \in Kernels : Start(k)
    \/ Enqueue
    \/ Reduce
    \/ \E d \in Dev : Execute(d)

Spec == Init /\ [][Next]_vars

-----------------------------------------------------------------------------
TypeOK ==
    /\ delayed \in DelayedWrite
    /\ local \in Contents
    /\ dev \in [Dev -> Contents]
    /\ hostValid \subseteq Elem
    /\ devValid \in [Dev -> SUBSET Elem]
    /\ tmp \in [Dev -> Contents]
    /\ kerId \in 0 .. CycleLength - 1
    /\ gold \in Contents

\* The copies the directories call valid hold what a single device would have
\* computed: every update of every subkernel has been counted, and once.
ResultsAreExact ==
    call = Idle =>
        /\ \A c \in hostValid : local[c] = gold[c]
        /\ \A d \in Dev : queue[d] = <<>> =>
              \A c \in devValid[d] : dev[d][c] = gold[c]

\* The formula of the sum takes the contents from before the launch away from
\* each copy but one: the host has them, though it did not ask for them.
BaseIsOnHost ==
    delayed /\ call.pc = "reduce" /\ call.k.op = "sum" /\ (\E d, e \in Active(call.k) : d # e)
        => Reduced(call.k) \subseteq hostValid

\* The memory the results are read into is freed when the call returns: no
\* device has such a read left to do.
NoTransferAfterFree ==
    call = Idle => \A d \in Dev : \A i \in DOMAIN queue[d] : queue[d][i].op # "toTmp"

\* An element that two devices may use is on the host as well.
SharedIsOnHost == delayed => \A d, e \in Dev : d # e => devValid[d] \cap devValid[e] \subseteq hostValid
=============================================================================
