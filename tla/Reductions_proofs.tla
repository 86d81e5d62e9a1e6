------------------------- MODULE Reductions_proofs -------------------------
(* What holds of Reductions for every number of devices, every size and     *)
(* every set of launches that is well formed: with delayed writes, a sum    *)
(* finds the contents from before the launch on the host; with a barrier    *)
(* after every launch, the memory of the copies is not freed too early, and *)
(* what the driver combines is what a single device would have computed.    *)
EXTENDS Reductions, FiniteSetTheorems, SequenceTheorems, WellFoundedInduction, TLAPS

ValidSomewhere(c) == c \in hostValid \/ \E d \in Dev : c \in devValid[d]

\* The directories and the locals of the call are what they look like.
DirType ==
    /\ delayed \in BOOLEAN
    /\ hostValid \subseteq Elem
    /\ devValid \in [Dev -> SUBSET Elem]
    /\ call.pc \in {"idle", "d2h", "reduce"}
    /\ call.pc # "idle" => call.k \in Kernels
    /\ call.pc = "d2h" => call.h2d \in [Dev -> SUBSET Elem]

\* What has been defined is valid in some copy.
NothingLost == \A c \in Elem : gold[c] # NoVal => ValidSomewhere(c)

\* Between the transfers to the host and the subkernels: the buffer is where the
\* launch needs it, and what goes to the devices is on the host.
Prepared ==
    call.pc = "d2h" =>
        /\ \A d \in Dev : \A c \in call.k.reg[d] : ValidSomewhere(c)
        /\ \A d \in Dev : /\ call.h2d[d] \subseteq call.k.reg[d]
                          /\ call.h2d[d] \subseteq hostValid
        /\ delayed /\ Reducing(call.k) /\ call.k.op = "sum"
              /\ (\E d, e \in Active(call.k) : d # e)
           => \A d \in Dev : call.k.reg[d] \subseteq hostValid

IInv == DirType /\ NothingLost /\ SharedIsOnHost /\ Prepared /\ BaseIsOnHost

-----------------------------------------------------------------------------
(* The launches.                                                           *)

LEMMA LaunchFields ==
    ASSUME NEW k \in Kernels
    PROVE  /\ k.devs \subseteq Dev /\ k.op \in Ops
           /\ \A d \in Dev : k.reg[d] \subseteq Elem /\ k.upd[d] \subseteq k.reg[d]
           /\ Active(k) \subseteq Dev
           /\ ~ Reducing(k) => \A d, e \in Dev : d # e => k.reg[d] \cap k.reg[e] = {}
           /\ Reducing(k) => \A d, e \in Dev : d # e =>
                 k.reg[d] = k.reg[e] \/ k.reg[d] = {} \/ k.reg[e] = {}
BY KernelsAssumption DEF Launch, WellFormed, Active

\* A launch that is not combined on the host has nothing to combine.
LEMMA ReducedInRegions ==
    ASSUME NEW k \in Kernels
    PROVE  /\ \A c \in Reduced(k) : \E d \in Dev : c \in k.reg[d]
           /\ Reduced(k) \subseteq Elem
BY LaunchFields DEF Reduced

LEMMA InitInv == Init => IInv
<1> SUFFICES ASSUME Init PROVE IInv
    OBVIOUS
<1>1. DirType
    BY OptionsAssumption DEF Init, DirType, Idle
<1>2. NothingLost /\ SharedIsOnHost
    BY DEF Init, NothingLost, SharedIsOnHost, Constantly
<1>3. Prepared /\ BaseIsOnHost
    BY DEF Init, Idle, Prepared, BaseIsOnHost
<1>4. QED BY <1>1, <1>2, <1>3 DEF IInv

-----------------------------------------------------------------------------
(* The writes of the application.                                          *)

LEMMA WriteDelayedInv ==
    ASSUME IInv, NEW S \in SUBSET Elem, NEW v, WriteDelayed(S, v)
    PROVE  IInv'
<1> USE DEF IInv, WriteDelayed
<1>1. DirType'
    BY DEF DirType
<1>2. NothingLost'
    BY DEF NothingLost, ValidSomewhere, Overlay, Constantly, DirType
<1>3. SharedIsOnHost'
    BY DEF SharedIsOnHost, DirType
<1>4. Prepared' /\ BaseIsOnHost'
    BY DEF Idle, Prepared, BaseIsOnHost
<1>5. QED BY <1>1, <1>2, <1>3, <1>4

LEMMA WriteThroughInv ==
    ASSUME IInv, NEW S \in SUBSET Elem, NEW v, WriteThrough(S, v)
    PROVE  IInv'
<1> USE DEF IInv, WriteThrough
<1>1. DirType'
    BY DEF DirType
<1>2. NothingLost'
    <2>1. 0 \in Dev
        BY DevicesAssumption DEF Dev
    <2>2. \A c \in S : ValidSomewhere(c)'
        BY <2>1 DEF ValidSomewhere
    <2>3. \A c \in Elem \ S : gold'[c] = gold[c] /\ (ValidSomewhere(c) => ValidSomewhere(c)')
        BY DEF ValidSomewhere, Overlay
    <2>4. QED BY <2>2, <2>3 DEF NothingLost
<1>3. SharedIsOnHost'
    BY DEF SharedIsOnHost
<1>4. Prepared' /\ BaseIsOnHost'
    BY DEF Idle, Prepared, BaseIsOnHost
<1>5. QED BY <1>1, <1>2, <1>3, <1>4

-----------------------------------------------------------------------------
(* computeTransfers.                                                       *)

\* The first device of those that have a cell: the scan always ends on one.
LEMMA BroughtBack ==
    ASSUME DirType, NEW k \in Kernels, NEW d \in Dev, NEW d2 \in Dev, d2 # d,
           NEW c \in HostMissing(k, d), c \in devValid[d2],
           \A e \in Dev : c \in devValid[e] => e = d2
    PROVE  c \in Brought(k, d, d2)
BY DEF Brought, Dev

LEMMA StartInv ==
    ASSUME IInv, NEW k \in Kernels, Start(k)
    PROVE  IInv'
<1> USE DEF IInv
<1>0. /\ hostValid' = hostValid \cup UNION {D2H(k, d) : d \in Dev}
      /\ call' = [pc |-> "d2h", k |-> k, h2d |-> [d \in Dev |-> H2D(k, d)],
                  wait |-> {d \in Dev : D2H(k, d) # {}}]
      /\ UNCHANGED <<delayed, devValid, gold>>
    BY DEF Start
<1>1. call'.pc = "d2h" /\ call'.k = k /\ call'.h2d = [d \in Dev |-> H2D(k, d)]
    BY <1>0
<1>2. \A d, d2 \in Dev : Brought(k, d, d2) \subseteq devValid[d2]
    BY DEF Brought
<1>3. DirType'
    <2>1. \A d \in Dev : D2H(k, d) \subseteq Elem
        BY <1>2, LaunchFields DEF D2H, DirType
    <2>2. \A d \in Dev : H2D(k, d) \subseteq Elem
        BY LaunchFields DEF H2D, DeviceMissing
    <2>3. QED BY <1>0, <1>1, <2>1, <2>2 DEF DirType
<1>4. NothingLost'
    BY <1>0 DEF NothingLost, ValidSomewhere
<1>5. SharedIsOnHost'
    BY <1>0 DEF SharedIsOnHost
<1>6. BaseIsOnHost'
    BY <1>1 DEF BaseIsOnHost
<1>7. \A d \in Dev : \A c \in k.reg[d] : ValidSomewhere(c)
    <2> SUFFICES ASSUME NEW d \in Dev, NEW c \in k.reg[d] PROVE ValidSomewhere(c)
        OBVIOUS
    <2>1. c \in Elem
        BY LaunchFields
    <2>2. c \notin Undefined
        BY DEF Start
    <2>3. gold[c] # NoVal
        BY <2>1, <2>2 DEF Undefined
    <2>4. QED BY <2>1, <2>3 DEF NothingLost
<1>8. Prepared'
    <2>1. \A d \in Dev : \A c \in k.reg[d] : ValidSomewhere(c)'
        BY <1>0, <1>7 DEF ValidSomewhere
    <2>2. \A d \in Dev : H2D(k, d) \subseteq k.reg[d]
        BY DEF H2D, DeviceMissing
    <2>3. ASSUME NEW d \in Dev, NEW c \in H2D(k, d) PROVE c \in hostValid'
        <3>1. c \in DeviceMissing(k, d)
            BY <2>3 DEF H2D
        <3>2. CASE c \in HostMissing(k, d)
            <4>1. PICK d2 \in Dev : c \in Brought(k, d, d2)
                BY <2>3, <3>2 DEF H2D
            <4>2. d \in Active(k)
                BY <3>1, LaunchFields, KernelsAssumption DEF Active, DeviceMissing, WellFormed
            <4>3. c \in D2H(k, d2)
                BY <4>1, <4>2 DEF D2H
            <4>4. QED BY <4>3, <1>0
        <3>3. CASE c \notin HostMissing(k, d)
            BY <3>1, <3>3, <1>0 DEF HostMissing
        <3>4. QED BY <3>2, <3>3
    <2>4. ASSUME delayed, Reducing(k), k.op = "sum", NEW d \in Active(k), NEW e \in Active(k),
                 d # e, NEW f \in Dev, NEW c \in k.reg[f]
          PROVE  c \in hostValid'
        <3>1. CASE c \in hostValid
            BY <3>1, <1>0
        <3>2. CASE c \notin hostValid
            <4>1. PICK g \in Dev : c \in devValid[g]
                BY <1>7, <3>2 DEF ValidSomewhere
            <4>2. \A h \in Dev : c \in devValid[h] => h = g
                BY <4>1, <3>2, <2>4 DEF SharedIsOnHost
            <4>3. PICK a \in Active(k) : a # g
                BY <2>4
            <4>4. a \in Dev /\ c \in k.reg[a]
                BY <4>3, <2>4, LaunchFields DEF Active
            <4>5. c \in HostMissing(k, a)
                BY <4>2, <4>3, <4>4, <3>2 DEF HostMissing, DeviceMissing
            <4>6. c \in Brought(k, a, g)
                BY <4>1, <4>2, <4>3, <4>4, <4>5, BroughtBack
            <4>7. c \in D2H(k, g)
                BY <4>6, <4>3 DEF D2H
            <4>8. QED BY <4>7, <1>0
        <3>3. QED BY <3>1, <3>2
    <2>5. QED BY <1>0, <1>1, <2>1, <2>2, <2>3, <2>4 DEF Prepared
<1>9. QED BY <1>3, <1>4, <1>5, <1>6, <1>8

-----------------------------------------------------------------------------
(* The subkernels and the reduction.                                       *)

LEMMA EnqueueInv ==
    ASSUME IInv, Enqueue
    PROVE  IInv'
<1> DEFINE k == call.k
           sent(d) == devValid[d] \cup call.h2d[d]
<1> USE DEF IInv
<1>0. /\ call.pc = "d2h" /\ k \in Kernels /\ call.h2d \in [Dev -> SUBSET Elem]
      /\ devValid' = [d \in Dev |-> AfterWritten(k, sent(d), d)]
      /\ hostValid' = HostAfterWritten(k)
      /\ call' = [pc |-> "reduce", k |-> k, wait |-> Barrier]
      /\ delayed' = delayed /\ gold' = Whole(k, gold)
    BY DEF Enqueue, DirType
<1>1. /\ \A d \in Dev : \A c \in k.reg[d] : ValidSomewhere(c)
      /\ \A d \in Dev : call.h2d[d] \subseteq k.reg[d] /\ call.h2d[d] \subseteq hostValid
    BY <1>0 DEF Prepared
<1>2. call'.pc = "reduce" /\ call'.k = k
    BY <1>0
<1>3. DirType'
    <2>1. \A d \in Dev : AfterWritten(k, sent(d), d) \subseteq Elem
        BY <1>0, LaunchFields DEF AfterWritten, DirType
    <2>2. HostAfterWritten(k) \subseteq Elem
        BY DEF HostAfterWritten, DirType
    <2>3. QED BY <1>0, <1>2, <2>1, <2>2 DEF DirType
<1>4. \A c \in Elem : ValidSomewhere(c) => ValidSomewhere(c)'
    <2> SUFFICES ASSUME NEW c \in Elem, ValidSomewhere(c) PROVE ValidSomewhere(c)'
        OBVIOUS
    <2>1. CASE Reducing(k)
        BY <1>0, <2>1 DEF ValidSomewhere, AfterWritten, HostAfterWritten
    <2>2. CASE ~ Reducing(k) /\ \E d \in Dev : c \in k.reg[d]
        BY <1>0, <2>2 DEF ValidSomewhere, AfterWritten
    <2>3. CASE ~ Reducing(k) /\ \A d \in Dev : c \notin k.reg[d]
        BY <1>0, <2>3 DEF ValidSomewhere, AfterWritten, HostAfterWritten
    <2>4. QED BY <2>1, <2>2, <2>3
<1>5. NothingLost'
    <2> SUFFICES ASSUME NEW c \in Elem, gold'[c] # NoVal PROVE ValidSomewhere(c)'
        BY DEF NothingLost
    <2>1. CASE \E d \in Dev : c \in k.upd[d]
        BY <2>1, <1>0, <1>1, <1>4, LaunchFields
    <2>2. CASE \A d \in Dev : c \notin k.upd[d]
        <3>1. gold'[c] = gold[c]
            BY <2>2, <1>0 DEF Whole
        <3>2. QED BY <3>1, <1>4 DEF NothingLost
    <2>3. QED BY <2>1, <2>2
<1>6. SharedIsOnHost'
    <2> SUFFICES ASSUME delayed, NEW d \in Dev, NEW e \in Dev, d # e,
                        NEW c \in devValid'[d], c \in devValid'[e]
                 PROVE  c \in hostValid'
        BY <1>0 DEF SharedIsOnHost
    <2>1. CASE Reducing(k)
        <3>1. c \in sent(d) /\ c \in sent(e) /\ hostValid' = hostValid
            BY <1>0, <2>1 DEF AfterWritten, HostAfterWritten
        <3>2. QED BY <3>1, <1>1 DEF SharedIsOnHost
    <2>2. CASE ~ Reducing(k)
        <3>1. devValid'[d] = (sent(d) \ UNION {k.reg[f] : f \in Dev \ {d}}) \cup k.reg[d]
            BY <1>0, <2>2 DEF AfterWritten
        <3>2. devValid'[e] = (sent(e) \ UNION {k.reg[f] : f \in Dev \ {e}}) \cup k.reg[e]
            BY <1>0, <2>2 DEF AfterWritten
        <3>3. k.reg[d] \cap k.reg[e] = {}
            BY <1>0, <2>2, LaunchFields
        <3>4. c \notin k.reg[d] /\ c \notin k.reg[e]
            BY <3>1, <3>2, <3>3
        <3>5. \A f \in Dev : c \notin k.reg[f]
            BY <3>1, <3>2, <3>4
        <3>6. c \in devValid[d] /\ c \in devValid[e]
            BY <3>1, <3>2, <3>5, <1>1
        <3>7. c \in hostValid
            BY <3>6 DEF SharedIsOnHost
        <3>8. QED BY <3>7, <3>5, <1>0, <2>2 DEF HostAfterWritten
    <2>3. QED BY <2>1, <2>2
<1>7. Prepared'
    BY <1>2 DEF Prepared
<1>8. BaseIsOnHost'
    <2> SUFFICES ASSUME delayed, k.op = "sum", \E d, e \in Active(k) : d # e,
                        NEW c \in Reduced(k)
                 PROVE  c \in hostValid'
        BY <1>0, <1>2 DEF BaseIsOnHost
    <2>1. Reducing(k)
        BY DEF Reduced
    <2>2. PICK d \in Dev : c \in k.reg[d]
        BY <1>0, ReducedInRegions
    <2>3. c \in hostValid
        BY <1>0, <2>1, <2>2 DEF Prepared
    <2>4. QED BY <1>0, <2>1, <2>3 DEF HostAfterWritten
<1>9. QED BY <1>3, <1>5, <1>6, <1>7, <1>8

LEMMA ReduceInv ==
    ASSUME IInv, Reduce
    PROVE  IInv'
<1> USE DEF IInv
<1>0. /\ call.k \in Kernels
      /\ hostValid' = hostValid \cup Reduced(call.k)
      /\ devValid' = [d \in Dev |-> devValid[d] \ Reduced(call.k)]
      /\ call' = Idle /\ delayed' = delayed /\ gold' = gold
    BY DEF Reduce, AfterReduction, DirType
<1>1. DirType'
    BY <1>0, ReducedInRegions DEF DirType, Idle
<1>2. NothingLost'
    BY <1>0 DEF NothingLost, ValidSomewhere
<1>3. SharedIsOnHost'
    BY <1>0 DEF SharedIsOnHost
<1>4. Prepared' /\ BaseIsOnHost'
    BY <1>0 DEF Idle, Prepared, BaseIsOnHost
<1>5. QED BY <1>1, <1>2, <1>3, <1>4

-----------------------------------------------------------------------------
(* The devices' steps leave the directories and the call alone.            *)

LEMMA StepInv == IInv /\ [Next]_vars => IInv'
<1> SUFFICES ASSUME IInv, [Next]_vars PROVE IInv'
    OBVIOUS
<1>1. CASE UNCHANGED <<delayed, hostValid, devValid, call, gold>>
    BY <1>1 DEF IInv, DirType, NothingLost, ValidSomewhere, SharedIsOnHost, Prepared,
                BaseIsOnHost
<1>2. CASE \E S \in (SUBSET Elem) \ {{}}, v \in Inputs : WriteDelayed(S, v)
    BY <1>2, WriteDelayedInv
<1>3. CASE \E S \in (SUBSET Elem) \ {{}}, v \in Inputs : WriteThrough(S, v)
    BY <1>3, WriteThroughInv
<1>4. CASE \E k \in Kernels : Start(k)
    BY <1>4, StartInv
<1>5. CASE Enqueue
    BY <1>5, EnqueueInv
<1>6. CASE Reduce
    BY <1>6, ReduceInv
<1>7. CASE \E d \in Dev : Execute(d)
    BY <1>7, <1>1 DEF Execute
<1>8. CASE UNCHANGED vars
    BY <1>8, <1>1 DEF vars
<1>9. QED BY <1>2, <1>3, <1>4, <1>5, <1>6, <1>7, <1>8 DEF Next

\* With delayed writes, whatever the application writes and launches, the host
\* has the contents from before the launch when the copies of a sum are added
\* up (Driver.cpp, doReduction), although computeTransfers passes over a device
\* that misses nothing.
THEOREM SumsFindTheirBase == Spec => []BaseIsOnHost
<1>1. IInv => BaseIsOnHost
    BY DEF IInv
<1>2. QED BY InitInv, StepInv, <1>1, PTL DEF Spec

-----------------------------------------------------------------------------
(* The memory the copies are read into.                                    *)

\* The driver waits for all devices after every launch: a scheduler of several
\* kernels, and option CYCLELENGTH at 1.
BarrierAfterLaunch == CycleBarrier /\ CycleLength = 1

\* Between two calls the devices are through.  While the driver waits for the
\* transfers to the host, the devices it does not wait for have none; then it
\* waits for all of them.
QueueInv ==
    /\ kerId = 0
    /\ call.pc = "idle" => Drained(Dev)
    /\ call.pc = "d2h" => Drained(Dev \ call.wait)
    /\ call.pc = "reduce" => call.wait = Dev

LEMMA QueueStep ==
    ASSUME BarrierAfterLaunch, DirType, QueueInv, [Next]_vars
    PROVE  QueueInv'
<1> USE DEF QueueInv, Drained
<1>1. ASSUME NEW S \in SUBSET Elem, NEW v, WriteDelayed(S, v) \/ WriteThrough(S, v) PROVE QueueInv'
    BY <1>1 DEF WriteDelayed, WriteThrough
<1>2. ASSUME NEW k \in Kernels, Start(k) PROVE QueueInv'
    <2>1. call.pc = "idle" /\ kerId' = kerId
        BY <1>2 DEF Start, Idle
    <2>2. call'.pc = "d2h" /\ call'.wait = {d \in Dev : D2H(k, d) # {}}
        BY <1>2 DEF Start
    <2>3. ASSUME NEW d \in Dev, D2H(k, d) = {} PROVE queue'[d] = <<>>
        <3>1. queue'[d] = queue[d] \o <<>>
            BY <1>2, <2>3 DEF Start, Command
        <3>2. queue[d] = <<>>
            BY <2>1
        <3>3. QED BY <3>1, <3>2
    <2>4. QED BY <2>1, <2>2, <2>3
<1>3. CASE Enqueue
    <2>1. kerId' = 0
        BY <1>3 DEF Enqueue, BarrierAfterLaunch
    <2>2. Barrier = Dev
        BY DEF Barrier, BarrierAfterLaunch
    <2>3. call'.pc = "reduce" /\ call'.wait = Dev
        BY <1>3, <2>2 DEF Enqueue
    <2>4. QED BY <2>1, <2>3
<1>4. CASE Reduce
    BY <1>4 DEF Reduce, Idle
<1>5. ASSUME NEW d \in Dev, Execute(d) PROVE QueueInv'
    <2>1. /\ queue[d] # <<>> /\ queue' = [queue EXCEPT ![d] = Tail(@)]
          /\ call' = call /\ kerId' = kerId
        BY <1>5 DEF Execute
    <2>2. \A e \in Dev : queue[e] = <<>> => queue'[e] = <<>>
        BY <2>1
    <2>3. QED BY <2>1, <2>2
<1>6. CASE UNCHANGED vars
    BY <1>6 DEF vars
<1>7. QED BY <1>1, <1>2, <1>3, <1>4, <1>5, <1>6 DEF Next

\* With a barrier after every launch, the memory the copies of a region are read
\* into is freed (Driver.cpp:560-569, 1122) only when every device has done its reads.
THEOREM FreedWhenRead ==
    ASSUME BarrierAfterLaunch
    PROVE  Spec => []NoTransferAfterFree
<1>1. Init => QueueInv
    BY OptionsAssumption DEF Init, QueueInv, Drained, Idle
<1>2. IInv /\ QueueInv /\ [Next]_vars => QueueInv'
    BY QueueStep DEF IInv
<1>3. QueueInv => NoTransferAfterFree
    BY DEF QueueInv, NoTransferAfterFree, Drained, Idle
<1>4. QED BY InitInv, StepInv, <1>1, <1>2, <1>3, PTL DEF Spec

-----------------------------------------------------------------------------
(* Folds over finite sets, which are recursive functions: what holds of the *)
(* result for every order in which the elements may be taken.              *)

\* A set of numbers has a least one.
LEMMA Least ==
    ASSUME NEW T \in SUBSET Nat, T # {}
    PROVE  \E n \in T : \A m \in T : n <= m
<1> DEFINE R == OpToRel(<, Nat)
<1>1. IsWellFoundedOn(R, Nat)
    BY NatLessThanWellFounded
<1>2. \A x, y \in Nat : <<x, y>> \in R <=> x < y
    BY DEF OpToRel
<1> HIDE DEF R
<1>3. PICK x \in T : \A y \in T : ~ (<<y, x>> \in R)
    BY <1>1, WFMin
<1>4. ASSUME NEW y \in T PROVE x <= y
    <2>1. x \in Nat /\ y \in Nat
        OBVIOUS
    <2>2. ~ (y < x)
        BY <1>2, <1>3, <2>1
    <2>3. QED BY <2>1, <2>2
<1>5. QED BY <1>3, <1>4

\* Induction, over a set rather than over a predicate.
LEMMA Induction ==
    ASSUME NEW P \in SUBSET Nat, 0 \in P, \A n \in P : n + 1 \in P
    PROVE  P = Nat
<1> SUFFICES ASSUME Nat \ P # {} PROVE FALSE
    OBVIOUS
<1>1. PICK n \in Nat \ P : \A m \in Nat \ P : n <= m
    BY Least
<1>2. n # 0 /\ n - 1 \in Nat /\ n - 1 \notin P
    BY <1>1
<1>3. QED BY <1>1, <1>2

\* The sets one element smaller.
LEMMA OneLess ==
    ASSUME NEW S, IsFiniteSet(S), NEW s \in SUBSET S
    PROVE  /\ IsFiniteSet(s) /\ Cardinality(s) \in Nat
           /\ Cardinality(s) = 0 <=> s = {}
           /\ \A x \in s : Cardinality(s \ {x}) = Cardinality(s) - 1
BY FS_Subset, FS_CardinalityType, FS_EmptySet, FS_RemoveElement

\* The result for a set is made of an element and of the result for the others.
Combines(it, S, V, G) ==
    \A s \in (SUBSET S) \ {{}} :
       \E x \in s : it[s \ {x}] \in V => it[s] = G[<<x, it[s \ {x}]>>]

\* Whatever element comes next, the result stays in Q: then it is there in the end.
LEMMA FoldInduction ==
    ASSUME NEW S, IsFiniteSet(S), NEW V, NEW G, NEW it,
           NEW Q \in SUBSET ((SUBSET S) \X V), <<{}, it[{}]>> \in Q,
           Combines(it, S, V, G),
           \A s \in (SUBSET S) \ {{}} : \A x \in s : \A v \in V :
              <<s \ {x}, v>> \in Q => <<s, G[<<x, v>>]>> \in Q
    PROVE  <<S, it[S]>> \in Q
<1> DEFINE P == {n \in Nat : \A s \in SUBSET S : Cardinality(s) = n => <<s, it[s]>> \in Q}
<1>1. 0 \in P
    BY OneLess
<1>2. ASSUME NEW n \in P PROVE n + 1 \in P
    <2> SUFFICES ASSUME NEW s \in SUBSET S, Cardinality(s) = n + 1 PROVE <<s, it[s]>> \in Q
        OBVIOUS
    <2>1. s # {}
        BY OneLess
    <2>2. PICK x \in s : it[s \ {x}] \in V => it[s] = G[<<x, it[s \ {x}]>>]
        BY <2>1 DEF Combines
    <2>3. Cardinality(s \ {x}) = n
        BY OneLess
    <2>4. <<s \ {x}, it[s \ {x}]>> \in Q
        BY <2>3, <1>2
    <2>5. it[s \ {x}] \in V
        BY <2>4
    <2>6. QED BY <2>1, <2>2, <2>4, <2>5
<1>3. P = Nat
    <2> HIDE DEF P
    <2>1. P \in SUBSET Nat
        BY DEF P
    <2>2. QED BY <1>1, <1>2, <2>1, Induction
<1>4. QED BY <1>3, OneLess

\* A function that combines the elements of a set one by one.
Folds(it, S, base, G) ==
    it = [s \in SUBSET S |-> IF s = {} THEN base
            ELSE G[<<CHOOSE x \in s : TRUE, it[s \ {CHOOSE x \in s : TRUE}]>>]]

\* There is one, whatever has to be combined.
LEMMA FoldExists ==
    ASSUME NEW S, IsFiniteSet(S), NEW V, NEW base \in V, NEW G \in [S \X V -> V]
    PROVE  \E it \in [SUBSET S -> V] : Folds(it, S, base, G)
<1> DEFINE pick(s) == CHOOSE x \in s : TRUE
           Step(it, s) == IF s = {} THEN base ELSE G[<<pick(s), it[s \ {pick(s)}]>>]
           Good(it, n) == \A s \in SUBSET S : Cardinality(s) <= n => it[s] = Step(it, s)
           P == {n \in Nat : \E it \in [SUBSET S -> V] : Good(it, n)}
<1>1. \A s \in (SUBSET S) \ {{}} : pick(s) \in s /\ s \ {pick(s)} \in SUBSET S
    OBVIOUS
<1>2. \A s \in SUBSET S : IsFiniteSet(s) /\ Cardinality(s) \in Nat
    BY OneLess
<1>3. \A s \in (SUBSET S) \ {{}} : Cardinality(s \ {pick(s)}) = Cardinality(s) - 1
    BY <1>1, OneLess
<1>4. \A it \in [SUBSET S -> V], s \in SUBSET S : Step(it, s) \in V
    BY <1>1
<1>5. 0 \in P
    <2> DEFINE it0 == [s \in SUBSET S |-> base]
    <2>1. \A s \in SUBSET S : Cardinality(s) <= 0 => s = {}
        BY OneLess
    <2>2. it0 \in [SUBSET S -> V] /\ Good(it0, 0)
        BY <2>1
    <2>3. QED BY <2>2
<1>6. ASSUME NEW n \in P PROVE n + 1 \in P
    <2>1. PICK it \in [SUBSET S -> V] : Good(it, n)
        BY <1>6
    <2> DEFINE next == [s \in SUBSET S |-> IF Cardinality(s) <= n THEN it[s] ELSE Step(it, s)]
    <2>2. next \in [SUBSET S -> V]
        BY <1>4
    <2>3. ASSUME NEW s \in SUBSET S, Cardinality(s) <= n + 1 PROVE next[s] = Step(next, s)
        <3>1. next[s] = Step(it, s)
            BY <2>1
        <3>2. s # {} => next[s \ {pick(s)}] = it[s \ {pick(s)}]
            BY <1>1, <1>2, <1>3, <2>3
        <3> HIDE DEF next
        <3>3. QED BY <3>1, <3>2
    <2>4. n + 1 \in Nat
        OBVIOUS
    <2> HIDE DEF next, Step
    <2>5. Good(next, n + 1)
        BY <2>3
    <2> HIDE DEF Good
    <2>6. QED BY <2>2, <2>4, <2>5
<1>7. P = Nat
    <2> HIDE DEF P
    <2>1. P \in SUBSET Nat
        BY DEF P
    <2>2. QED BY <1>5, <1>6, <2>1, Induction
<1>8. Cardinality(S) \in P
    BY <1>2, <1>7
<1>9. PICK it \in [SUBSET S -> V] : Good(it, Cardinality(S))
    <2> HIDE DEF Good
    <2>1. QED BY <1>8
<1>10. \A s \in SUBSET S : it[s] = Step(it, s)
    BY <1>2, <1>9, FS_Subset
<1>11. it = [s \in SUBSET S |-> Step(it, s)]
    <2> HIDE DEF Step
    <2>1. QED BY <1>10
<1>12. QED BY <1>11 DEF Folds

\* When the order does not matter, any element may come first.
Commutes(G, S, V) == \A x, y \in S : \A v \in V : G[<<x, G[<<y, v>>]>>] = G[<<y, G[<<x, v>>]>>]

AnyFirst(it, S, base, G) ==
    /\ it[{}] = base
    /\ \A s \in SUBSET S : \A x \in s : it[s] = G[<<x, it[s \ {x}]>>]

LEMMA FoldAny ==
    ASSUME NEW S, IsFiniteSet(S), NEW V, NEW base \in V, NEW G \in [S \X V -> V],
           Commutes(G, S, V),
           NEW it \in [SUBSET S -> V], Folds(it, S, base, G)
    PROVE  AnyFirst(it, S, base, G)
<1> DEFINE P == {n \in Nat : \A s \in SUBSET S : Cardinality(s) = n =>
                                \A x \in s : it[s] = G[<<x, it[s \ {x}]>>]}
<1>1. \A s \in SUBSET S : Cardinality(s) \in Nat
    BY OneLess
<1>2. it[{}] = base
    BY DEF Folds
<1>3. 0 \in P
    BY OneLess
<1>4. ASSUME NEW n \in P PROVE n + 1 \in P
    <2> SUFFICES ASSUME NEW s \in SUBSET S, Cardinality(s) = n + 1, NEW x \in s
                 PROVE  it[s] = G[<<x, it[s \ {x}]>>]
        OBVIOUS
    <2>1. PICK y \in s : it[s] = G[<<y, it[s \ {y}]>>]
        <3> DEFINE y0 == CHOOSE z \in s : TRUE
        <3>1. y0 \in s
            OBVIOUS
        <3>2. it[s] = G[<<y0, it[s \ {y0}]>>]
            BY DEF Folds
        <3> HIDE DEF y0
        <3>3. QED BY <3>1, <3>2
    <2>2. CASE x = y
        BY <2>1, <2>2
    <2>3. CASE x # y
        <3> DEFINE r == (s \ {x}) \ {y}
        <3>0. n \in Nat
            OBVIOUS
        <3>1. Cardinality(s \ {x}) = n /\ Cardinality(s \ {y}) = n
            <4>1. Cardinality(s \ {x}) = Cardinality(s) - 1 /\ Cardinality(s \ {y}) = Cardinality(s) - 1
                BY OneLess, Zenon
            <4>2. QED BY <3>0, <4>1
        <3>2. r = (s \ {y}) \ {x} /\ r \in SUBSET S
            OBVIOUS
        <3>3. it[s \ {x}] = G[<<y, it[r]>>]
            BY <3>1, <2>3, <1>4
        <3>4. it[s \ {y}] = G[<<x, it[r]>>]
            <4>1. x \in s \ {y} /\ s \ {y} \in SUBSET S
                BY <2>3
            <4>2. it[s \ {y}] = G[<<x, it[(s \ {y}) \ {x}]>>]
                BY <3>1, <4>1, <1>4
            <4>3. QED BY <3>2, <4>2
        <3> HIDE DEF r
        <3>5. it[r] \in V /\ x \in S /\ y \in S
            BY <3>2
        <3>6. QED BY <2>1, <3>3, <3>4, <3>5 DEF Commutes
    <2>4. QED BY <2>2, <2>3
<1>5. P = Nat
    <2> HIDE DEF P
    <2>1. P \in SUBSET Nat
        BY DEF P
    <2>2. QED BY <1>3, <1>4, <2>1, Induction
<1>6. QED BY <1>1, <1>2, <1>5 DEF AnyFirst

-----------------------------------------------------------------------------
(* The updates of a launch on a single device.                             *)

LEMMA DevFinite == IsFiniteSet(Dev)
BY DevicesAssumption, FS_Interval DEF Dev

LEMMA LaunchTypes ==
    ASSUME NEW k \in Kernels
    PROVE  /\ k.op \in Ops /\ k.devs \subseteq Dev
           /\ \A d \in Dev : /\ k.val[d] \in Val
                             /\ k.reg[d] \subseteq Elem /\ k.upd[d] \subseteq k.reg[d]
                             /\ k.reg[d] # {} => d \in k.devs
BY KernelsAssumption DEF Launch, WellFormed

LEMMA UpdatedTypes ==
    ASSUME NEW op \in Ops, NEW a \in Val, NEW x \in Val
    PROVE  Updated(op, a, x) \in Val
<1>1. (a + x) % Modulus \in Val
    BY ValuesAssumption DEF Val
<1>2. QED BY <1>1 DEF Updated, Ops

\* What the update of d leaves in c.
Step(k, c) == [p \in k.devs \X Val |->
    IF c \in k.upd[p[1]] THEN Updated(k.op, p[2], k.val[p[1]]) ELSE p[2]]

LEMMA StepTypes ==
    ASSUME NEW k \in Kernels, NEW c \in Elem
    PROVE  Step(k, c) \in [k.devs \X Val -> Val]
<1>1. \A p \in k.devs \X Val : Updated(k.op, p[2], k.val[p[1]]) \in Val
    BY LaunchTypes, UpdatedTypes
<1>2. QED BY <1>1 DEF Step

\* The launch on a single device performs the updates one by one.
LEMMA WholeIsFold ==
    ASSUME NEW k \in Kernels, NEW g \in Contents, NEW c \in Elem, g[c] \in Val,
           NEW d \in Dev, c \in k.upd[d]
    PROVE  \E it : /\ it[{}] = g[c] /\ Whole(k, g)[c] = it[k.devs]
                   /\ Combines(it, k.devs, Val, Step(k, c))
<1> DEFINE pick(s) == CHOOSE x \in s : TRUE
           body(x, a) == SubKernel(k, x, [g EXCEPT ![c] = a])[c]
           Raw(it) == it = [s \in SUBSET k.devs |-> IF s = {} THEN g[c]
                                     ELSE body(pick(s), it[s \ {pick(s)}])]
<1>0. IsFiniteSet(k.devs)
    BY DevFinite, LaunchTypes, FS_Subset
<1>1. \A x \in k.devs, a \in Val : body(x, a) = Step(k, c)[<<x, a>>]
    BY LaunchTypes DEF Step, SubKernel, Contents
<1>2. PICK it \in [SUBSET k.devs -> Val] : Folds(it, k.devs, g[c], Step(k, c))
    BY <1>0, StepTypes, FoldExists
<1>3. \A s \in (SUBSET k.devs) \ {{}} : pick(s) \in s /\ s \ {pick(s)} \in SUBSET k.devs
    OBVIOUS
<1>4. Raw(it)
    <2>1. \A s \in (SUBSET k.devs) \ {{}} :
             body(pick(s), it[s \ {pick(s)}]) = Step(k, c)[<<pick(s), it[s \ {pick(s)}]>>]
        <3> HIDE DEF body, pick
        <3>1. QED BY <1>1, <1>2, <1>3
    <2>2. \A s \in SUBSET k.devs : it[s] = IF s = {} THEN g[c]
                     ELSE Step(k, c)[<<pick(s), it[s \ {pick(s)}]>>]
        BY <1>2 DEF Folds
    <2> HIDE DEF body, pick
    <2>3. \A s \in SUBSET k.devs : it[s] = IF s = {} THEN g[c]
                     ELSE body(pick(s), it[s \ {pick(s)}])
        BY <2>1, <2>2
    <2>4. QED BY <2>3, <1>2
<1> DEFINE chosen == CHOOSE f : Raw(f)
<1>5. Raw(chosen)
    <2> HIDE DEF Raw
    <2>1. QED BY <1>4
<1>6. Whole(k, g)[c] = chosen[k.devs]
    BY DEF Whole, FoldSet, MapThenFoldSet
<1> HIDE DEF chosen
<1>7. chosen[{}] = g[c]
    BY <1>5
<1>8. ASSUME NEW s \in (SUBSET k.devs) \ {{}}, chosen[s \ {pick(s)}] \in Val
      PROVE  chosen[s] = Step(k, c)[<<pick(s), chosen[s \ {pick(s)}]>>]
    <2>1. chosen[s] = body(pick(s), chosen[s \ {pick(s)}])
        <3> HIDE DEF body, pick
        <3>1. QED BY <1>5
    <2> HIDE DEF body, pick
    <2>2. QED BY <1>1, <1>3, <1>8, <2>1
<1>9. Combines(chosen, k.devs, Val, Step(k, c))
    <2> HIDE DEF pick
    <2>1. QED BY <1>3, <1>8 DEF Combines
<1>10. QED BY <1>6, <1>7, <1>9

\* What every update keeps holds of the whole launch.
LEMMA WholeInduction ==
    ASSUME NEW k \in Kernels, NEW g \in Contents, NEW c \in Elem, g[c] \in Val,
           NEW d \in Dev, c \in k.upd[d],
           NEW Q \in SUBSET ((SUBSET k.devs) \X Val), <<{}, g[c]>> \in Q,
           \A s \in (SUBSET k.devs) \ {{}} : \A x \in s : \A v \in Val :
              <<s \ {x}, v>> \in Q => <<s, Step(k, c)[<<x, v>>]>> \in Q
    PROVE  <<k.devs, Whole(k, g)[c]>> \in Q
<1>1. IsFiniteSet(k.devs)
    BY DevFinite, LaunchTypes, FS_Subset
<1>2. PICK it : /\ it[{}] = g[c] /\ Whole(k, g)[c] = it[k.devs]
                /\ Combines(it, k.devs, Val, Step(k, c))
    BY WholeIsFold
<1>3. <<k.devs, it[k.devs]>> \in Q
    BY <1>1, <1>2, FoldInduction
<1>4. QED BY <1>2, <1>3

LEMMA StepIs ==
    ASSUME NEW k \in Kernels, NEW c, NEW x \in k.devs, NEW v \in Val
    PROVE  Step(k, c)[<<x, v>>] = IF c \in k.upd[x] THEN Updated(k.op, v, k.val[x]) ELSE v
BY DEF Step

\* Contents that are defined stay so.
LEMMA WholeTypes ==
    ASSUME NEW k \in Kernels, NEW g \in Contents,
           \A d \in Dev : \A c \in k.reg[d] : g[c] \in Val
    PROVE  Whole(k, g) \in Contents
<1>1. ASSUME NEW c \in Elem, NEW d \in Dev, c \in k.upd[d] PROVE Whole(k, g)[c] \in Val
    <2> DEFINE Q == (SUBSET k.devs) \X Val
    <2>1. g[c] \in Val
        BY <1>1, LaunchTypes
    <2>2. \A s \in (SUBSET k.devs) \ {{}} : \A x \in s : \A v \in Val :
             <<s \ {x}, v>> \in Q => <<s, Step(k, c)[<<x, v>>]>> \in Q
        BY StepTypes
    <2>3. <<{}, g[c]>> \in Q
        BY <2>1
    <2>4. <<k.devs, Whole(k, g)[c]>> \in Q
        <3> HIDE DEF Q
        <3>1. Q \in SUBSET ((SUBSET k.devs) \X Val)
            BY DEF Q
        <3>2. QED BY <1>1, <2>1, <2>2, <2>3, <3>1, WholeInduction
    <2>5. QED BY <2>4
<1>2. ASSUME NEW c \in Elem, \A d \in Dev : c \notin k.upd[d] PROVE Whole(k, g)[c] = g[c]
    BY <1>2 DEF Whole
<1>3. \A c \in Elem : Whole(k, g)[c] \in Val \cup {NoVal}
    BY <1>1, <1>2 DEF Contents
<1>4. Whole(k, g) = [c \in Elem |-> Whole(k, g)[c]]
    BY DEF Whole
<1>5. QED BY <1>3, <1>4 DEF Contents

\* An element that one subkernel updates.
LEMMA WholeSingle ==
    ASSUME NEW k \in Kernels, NEW g \in Contents, NEW c \in Elem, g[c] \in Val,
           NEW d \in Dev, c \in k.upd[d], \A e \in Dev : c \in k.upd[e] => e = d
    PROVE  Whole(k, g)[c] = Updated(k.op, g[c], k.val[d])
<1> DEFINE one == Updated(k.op, g[c], k.val[d])
           Q == {p \in (SUBSET k.devs) \X Val : p[2] = IF d \in p[1] THEN one ELSE g[c]}
<1>1. one \in Val
    BY LaunchTypes, UpdatedTypes
<1>2. <<{}, g[c]>> \in Q
    OBVIOUS
<1>3. ASSUME NEW s \in (SUBSET k.devs) \ {{}}, NEW x \in s, NEW v \in Val, <<s \ {x}, v>> \in Q
      PROVE  <<s, Step(k, c)[<<x, v>>]>> \in Q
    <2>1. x \in k.devs /\ x \in Dev
        BY LaunchTypes
    <2>2. CASE x = d
        BY <1>1, <1>3, <2>1, <2>2, StepIs
    <2>3. CASE x # d
        <3>1. Step(k, c)[<<x, v>>] = v
            BY <2>1, <2>3, StepIs
        <3>2. v = IF d \in s THEN one ELSE g[c]
            BY <1>3, <2>3
        <3> HIDE DEF one
        <3>3. QED BY <3>1, <3>2
    <2>4. QED BY <2>2, <2>3
<1>4. <<k.devs, Whole(k, g)[c]>> \in Q
    <2> HIDE DEF Q
    <2>1. Q \in SUBSET ((SUBSET k.devs) \X Val)
        BY DEF Q
    <2>2. QED BY <1>2, <1>3, <2>1, WholeInduction
<1>5. d \in k.devs
    BY LaunchTypes
<1>6. QED BY <1>4, <1>5

\* The largest of the operands of s and of what was there.
Largest(k, c, a, s, w) ==
    /\ w >= a
    /\ \A e \in s : c \in k.upd[e] => w >= k.val[e]
    /\ w = a \/ \E e \in s : c \in k.upd[e] /\ w = k.val[e]

LEMMA WholeMax ==
    ASSUME NEW k \in Kernels, NEW g \in Contents, NEW c \in Elem, g[c] \in Val, k.op = "max",
           NEW d \in Dev, c \in k.upd[d]
    PROVE  Whole(k, g)[c] \in Val /\ Largest(k, c, g[c], k.devs, Whole(k, g)[c])
<1> DEFINE Q == {p \in (SUBSET k.devs) \X Val : Largest(k, c, g[c], p[1], p[2])}
<1>0. Val \subseteq Int
    BY DEF Val
<1>1. <<{}, g[c]>> \in Q
    <2>1. g[c] \in Int
        BY <1>0
    <2>2. g[c] >= g[c]
        BY <2>1
    <2>3. Largest(k, c, g[c], {}, g[c])
        BY <2>2 DEF Largest
    <2>4. QED BY <2>3
<1>2. ASSUME NEW s \in (SUBSET k.devs) \ {{}}, NEW x \in s, NEW v \in Val, <<s \ {x}, v>> \in Q
      PROVE  <<s, Step(k, c)[<<x, v>>]>> \in Q
    <2> DEFINE w == IF c \in k.upd[x] /\ k.val[x] > v THEN k.val[x] ELSE v
    <2>1. x \in k.devs /\ x \in Dev /\ k.val[x] \in Val
        BY LaunchTypes
    <2>2. \A e \in s : k.val[e] \in Int
        BY <1>0, LaunchTypes
    <2>3. Step(k, c)[<<x, v>>] = w
        <3>1. Updated(k.op, v, k.val[x]) = IF k.val[x] > v THEN k.val[x] ELSE v
            BY DEF Updated
        <3>2. QED BY <2>1, <3>1, StepIs
    <2>4. Largest(k, c, g[c], s \ {x}, v)
        BY <1>2
    <2>5. v \in Int /\ g[c] \in Int /\ k.val[x] \in Int
        BY <1>0, <2>1
    <2>6. Largest(k, c, g[c], s, w)
        BY <2>2, <2>4, <2>5 DEF Largest
    <2>7. w \in Val
        BY <2>1
    <2> HIDE DEF w
    <2>8. QED BY <2>3, <2>6, <2>7
<1>3. <<k.devs, Whole(k, g)[c]>> \in Q
    <2> HIDE DEF Q
    <2>1. Q \in SUBSET ((SUBSET k.devs) \X Val)
        BY DEF Q
    <2>2. QED BY <1>1, <1>2, <2>1, WholeInduction
<1>4. QED BY <1>3

\* The smallest.
Smallest(k, c, a, s, w) ==
    /\ w <= a
    /\ \A e \in s : c \in k.upd[e] => w <= k.val[e]
    /\ w = a \/ \E e \in s : c \in k.upd[e] /\ w = k.val[e]

LEMMA WholeMin ==
    ASSUME NEW k \in Kernels, NEW g \in Contents, NEW c \in Elem, g[c] \in Val, k.op = "min",
           NEW d \in Dev, c \in k.upd[d]
    PROVE  Whole(k, g)[c] \in Val /\ Smallest(k, c, g[c], k.devs, Whole(k, g)[c])
<1> DEFINE Q == {p \in (SUBSET k.devs) \X Val : Smallest(k, c, g[c], p[1], p[2])}
<1>0. Val \subseteq Int
    BY DEF Val
<1>1. <<{}, g[c]>> \in Q
    <2>1. g[c] \in Int
        BY <1>0
    <2>2. g[c] <= g[c]
        BY <2>1
    <2>3. Smallest(k, c, g[c], {}, g[c])
        BY <2>2 DEF Smallest
    <2>4. QED BY <2>3
<1>2. ASSUME NEW s \in (SUBSET k.devs) \ {{}}, NEW x \in s, NEW v \in Val, <<s \ {x}, v>> \in Q
      PROVE  <<s, Step(k, c)[<<x, v>>]>> \in Q
    <2> DEFINE w == IF c \in k.upd[x] /\ k.val[x] < v THEN k.val[x] ELSE v
    <2>1. x \in k.devs /\ x \in Dev /\ k.val[x] \in Val
        BY LaunchTypes
    <2>2. \A e \in s : k.val[e] \in Int
        BY <1>0, LaunchTypes
    <2>3. Step(k, c)[<<x, v>>] = w
        <3>1. Updated(k.op, v, k.val[x]) = IF k.val[x] < v THEN k.val[x] ELSE v
            BY DEF Updated
        <3>2. QED BY <2>1, <3>1, StepIs
    <2>4. Smallest(k, c, g[c], s \ {x}, v)
        BY <1>2
    <2>5. v \in Int /\ g[c] \in Int /\ k.val[x] \in Int
        BY <1>0, <2>1
    <2>6. Smallest(k, c, g[c], s, w)
        BY <2>2, <2>4, <2>5 DEF Smallest
    <2>7. w \in Val
        BY <2>1
    <2> HIDE DEF w
    <2>8. QED BY <2>3, <2>6, <2>7
<1>3. <<k.devs, Whole(k, g)[c]>> \in Q
    <2> HIDE DEF Q
    <2>1. Q \in SUBSET ((SUBSET k.devs) \X Val)
        BY DEF Q
    <2>2. QED BY <1>1, <1>2, <2>1, WholeInduction
<1>4. QED BY <1>3

\* A flag that some subkernel stores is there.
LEMMA WholeOr ==
    ASSUME NEW k \in Kernels, NEW g \in Contents, NEW c \in Elem, g[c] \in Val, k.op = "or",
           \A e \in Dev : k.val[e] = 1, NEW d \in Dev, c \in k.upd[d]
    PROVE  Whole(k, g)[c] = 1
<1> DEFINE Q == {p \in (SUBSET k.devs) \X Val : (\E e \in p[1] : c \in k.upd[e]) => p[2] = 1}
<1>1. <<{}, g[c]>> \in Q
    OBVIOUS
<1>2. ASSUME NEW s \in (SUBSET k.devs) \ {{}}, NEW x \in s, NEW v \in Val, <<s \ {x}, v>> \in Q
      PROVE  <<s, Step(k, c)[<<x, v>>]>> \in Q
    <2>1. x \in k.devs /\ x \in Dev /\ 1 \in Val
        BY LaunchTypes
    <2>2. Step(k, c)[<<x, v>>] = IF c \in k.upd[x] THEN 1 ELSE v
        BY <2>1, StepIs DEF Updated
    <2>3. QED BY <1>2, <2>1, <2>2
<1>3. <<k.devs, Whole(k, g)[c]>> \in Q
    <2> HIDE DEF Q
    <2>1. Q \in SUBSET ((SUBSET k.devs) \X Val)
        BY DEF Q
    <2>2. QED BY <1>1, <1>2, <2>1, WholeInduction
<1>4. d \in k.devs
    BY LaunchTypes
<1>5. QED BY <1>3, <1>4

-----------------------------------------------------------------------------
(* Sums, and what is left of them in elements of w bits.                   *)

LEMMA Distributes == \A m, n, q \in Int : m * (n + q) = m * n + m * q
OBVIOUS

\* Quotients and remainders, with a divisor that is not a number for the provers.
LEMMA ModSplit ==
    ASSUME NEW M \in Nat \ {0}, NEW x \in Int
    PROVE  /\ x % M \in 0 .. M - 1
           /\ \E q \in Int : x = M * q + (x % M)
<1>1. x % M \in 0 .. M - 1 /\ x \div M \in Int
    OBVIOUS
<1>2. x = M * (x \div M) + (x % M)
    OBVIOUS
<1>3. QED BY <1>1, <1>2

LEMMA OneRemainder ==
    ASSUME NEW M \in Nat \ {0}, NEW p \in Int, NEW q \in Int, NEW r \in 0 .. M - 1, NEW s \in 0 .. M - 1,
           M * p + r = M * q + s
    PROVE  r = s
<1>1. \A n \in Int : n >= 1 => M * n >= M
    OBVIOUS
<1>2. M * p + M * (q - p) = M * q /\ M * q + M * (p - q) = M * p
    BY Distributes
<1>3. p - q \in Int /\ q - p \in Int /\ M * p \in Int /\ M * q \in Int /\ M * (p - q) \in Int
      /\ M * (q - p) \in Int
    OBVIOUS
<1>4. ~ (p - q >= 1)
    BY <1>1, <1>2, <1>3
<1>5. ~ (q - p >= 1)
    BY <1>1, <1>2, <1>3
<1>6. p = q
    BY <1>4, <1>5
<1>7. QED BY <1>3, <1>6

LEMMA ModShift ==
    ASSUME NEW M \in Nat \ {0}, NEW x \in Int, NEW q \in Int
    PROVE  (M * q + x) % M = x % M
<1> DEFINE y == M * q + x
<1>1. M * q \in Int /\ y \in Int
    OBVIOUS
<1> HIDE DEF y
<1>2. PICK a \in Int : x = M * a + (x % M)
    BY ModSplit
<1>3. PICK b \in Int : y = M * b + (y % M)
    BY <1>1, ModSplit
<1>4. x % M \in 0 .. M - 1 /\ y % M \in 0 .. M - 1
    BY <1>1, ModSplit
<1>5. M * (q + a) = M * q + M * a
    BY Distributes
<1>6. M * (q + a) + (x % M) = M * b + (y % M)
    <2>1. M * q \in Int /\ M * a \in Int /\ x % M \in Int
        BY <1>4
    <2>2. y = M * q + x
        BY DEF y
    <2>3. QED BY <1>2, <1>3, <1>5, <2>1, <2>2
<1>7. x % M = y % M
    <2>1. q + a \in Int
        OBVIOUS
    <2>2. QED BY <1>4, <1>6, <2>1, OneRemainder
<1>8. QED BY <1>7 DEF y

LEMMA ModTwice ==
    ASSUME NEW M \in Nat \ {0}, NEW x \in Int, NEW y \in Int
    PROVE  ((x % M) + y) % M = (x + y) % M
<1> DEFINE r == x % M
<1>1. PICK q \in Int : x = M * q + r
    BY ModSplit
<1>2. r \in Int
    BY ModSplit
<1> HIDE DEF r
<1>3. M * q \in Int /\ r + y \in Int
    BY <1>2
<1>4. M * q + (r + y) = x + y
    BY <1>1, <1>2, <1>3
<1>5. (M * q + (r + y)) % M = (r + y) % M
    BY <1>3, ModShift
<1>6. QED BY <1>4, <1>5 DEF r

LEMMA ModSmall ==
    ASSUME NEW M \in Nat \ {0}, NEW x \in 0 .. M - 1
    PROVE  x % M = x
OBVIOUS

\* The total of a function over a set, whatever element comes first.
Totals(T, S, w) ==
    /\ T \in [SUBSET S -> Nat] /\ T[{}] = 0
    /\ \A s \in SUBSET S : \A x \in s : T[s] = w[x] + T[s \ {x}]

\* There is one.
LEMMA TotalExists ==
    ASSUME NEW S, IsFiniteSet(S), NEW w \in [S -> Nat]
    PROVE  \E T : Totals(T, S, w)
<1> DEFINE G == [p \in S \X Nat |-> w[p[1]] + p[2]]
<1>1. \A x \in S, v \in Nat : G[<<x, v>>] = w[x] + v /\ w[x] + v \in Nat
    OBVIOUS
<1>2. G \in [S \X Nat -> Nat]
    OBVIOUS
<1> HIDE DEF G
<1>3. Commutes(G, S, Nat)
    BY <1>1 DEF Commutes
<1>4. PICK it \in [SUBSET S -> Nat] : Folds(it, S, 0, G)
    BY <1>2, FoldExists
<1>5. AnyFirst(it, S, 0, G)
    BY <1>2, <1>3, <1>4, FoldAny
<1>6. \A s \in SUBSET S : \A x \in s : it[s] = w[x] + it[s \ {x}]
    BY <1>1, <1>5 DEF AnyFirst
<1>7. QED BY <1>5, <1>6 DEF Totals, AnyFirst

LEMMA NothingTotal ==
    ASSUME NEW S, IsFiniteSet(S), NEW w \in [S -> Nat], NEW T, Totals(T, S, w),
           NEW A \in SUBSET S, \A x \in A : w[x] = 0
    PROVE  T[A] = 0
<1> DEFINE G == [p \in A \X Nat |-> p[2]]
           Q == {p \in (SUBSET A) \X Nat : p[2] = 0}
<1>1. IsFiniteSet(A)
    BY FS_Subset
<1>2. Combines(T, A, Nat, G)
    <2> SUFFICES ASSUME NEW s \in (SUBSET A) \ {{}}
                 PROVE  \E x \in s : T[s \ {x}] \in Nat => T[s] = G[<<x, T[s \ {x}]>>]
        BY DEF Combines
    <2>1. PICK x \in s : TRUE
        OBVIOUS
    <2>2. s \in SUBSET S /\ s \ {x} \in SUBSET S /\ w[x] = 0
        OBVIOUS
    <2>3. T[s] = w[x] + T[s \ {x}] /\ T[s \ {x}] \in Nat
        BY <2>2 DEF Totals
    <2>4. T[s] = T[s \ {x}]
        BY <2>2, <2>3
    <2>5. G[<<x, T[s \ {x}]>>] = T[s \ {x}]
        BY <2>3
    <2> HIDE DEF G
    <2>6. QED BY <2>4, <2>5
<1>3. <<{}, T[{}]>> \in Q
    BY DEF Totals
<1>4. \A s \in (SUBSET A) \ {{}} : \A x \in s : \A v \in Nat :
         <<s \ {x}, v>> \in Q => <<s, G[<<x, v>>]>> \in Q
    OBVIOUS
<1>5. <<A, T[A]>> \in Q
    <2> HIDE DEF Q, G
    <2>1. Q \in SUBSET ((SUBSET A) \X Nat)
        BY DEF Q
    <2>2. QED BY <1>1, <1>2, <1>3, <1>4, <2>1, FoldInduction
<1>6. QED BY <1>5

\* What d adds to c.
Adds(k, c) == [d \in Dev |-> IF c \in k.upd[d] THEN k.val[d] ELSE 0]

\* On a single device, everything is added to what was there.
LEMMA WholeSum ==
    ASSUME NEW k \in Kernels, NEW g \in Contents, NEW c \in Elem, g[c] \in Val, k.op = "sum",
           NEW T, Totals(T, Dev, Adds(k, c))
    PROVE  Whole(k, g)[c] = (g[c] + T[Active(k)]) % Modulus
<1> DEFINE A == Active(k)
<1>0. /\ Val \subseteq Nat /\ Modulus \in Nat \ {0} /\ IsFiniteSet(Dev)
      /\ Adds(k, c) \in [Dev -> Nat] /\ A \in SUBSET Dev
      /\ \A d \in Dev : c \in k.upd[d] => d \in A
    BY ValuesAssumption, DevFinite, LaunchTypes DEF Val, Active, Adds
<1>1. CASE \A d \in Dev : c \notin k.upd[d]
    <2>1. Whole(k, g)[c] = g[c]
        BY <1>1 DEF Whole
    <2>2. \A x \in A : Adds(k, c)[x] = 0
        BY <1>0, <1>1 DEF Adds
    <2>3. T[A] = 0
        BY <1>0, <2>2, NothingTotal
    <2>4. g[c] % Modulus = g[c]
        BY <1>0, ModSmall DEF Val
    <2>5. g[c] \in Nat
        BY <1>0
    <2>6. QED BY <2>1, <2>3, <2>4, <2>5
<1>2. CASE \E d \in Dev : c \in k.upd[d]
    <2>0. PICK d \in Dev : c \in k.upd[d]
        BY <1>2
    <2> DEFINE Q == {p \in (SUBSET k.devs) \X Val : p[2] = (g[c] + T[p[1] \cap A]) % Modulus}
    <2>1. <<{}, g[c]>> \in Q
        <3>1. {} \cap A = {} /\ T[{}] = 0
            BY DEF Totals
        <3>2. (g[c] + 0) % Modulus = g[c]
            BY <1>0, ModSmall DEF Val
        <3>3. g[c] = (g[c] + T[{} \cap A]) % Modulus
            BY <3>1, <3>2
        <3>4. QED BY <3>3
    <2>2. ASSUME NEW s \in (SUBSET k.devs) \ {{}}, NEW x \in s, NEW v \in Val, <<s \ {x}, v>> \in Q
          PROVE  <<s, Step(k, c)[<<x, v>>]>> \in Q
        <3> DEFINE r == (s \ {x}) \cap A
        <3>1. x \in k.devs /\ x \in Dev /\ k.val[x] \in Val /\ s \in SUBSET Dev /\ r \in SUBSET Dev
            BY LaunchTypes
        <3>2. v = (g[c] + T[r]) % Modulus
            BY <2>2
        <3>3. T[r] \in Nat
            BY <3>1 DEF Totals
        <3>4. Step(k, c)[<<x, v>>] \in Val
            BY <3>1, StepTypes
        <3>5. CASE c \in k.upd[x]
            <4>1. x \in s \cap A /\ (s \cap A) \ {x} = r /\ s \cap A \in SUBSET Dev
                BY <1>0, <3>1, <3>5
            <4>2. Adds(k, c)[x] = k.val[x]
                BY <3>1, <3>5 DEF Adds
            <4> HIDE DEF r
            <4>3. T[s \cap A] = k.val[x] + T[r]
                BY <4>1, <4>2 DEF Totals
            <4>4. Step(k, c)[<<x, v>>] = (v + k.val[x]) % Modulus
                BY <3>1, <3>5, StepIs DEF Updated
            <4>5. k.val[x] \in Int /\ g[c] \in Int /\ g[c] + T[r] \in Int
                <5>1. k.val[x] \in Nat /\ g[c] \in Nat
                    BY <1>0, <3>1
                <5>2. QED BY <3>3, <5>1
            <4>6. (v + k.val[x]) % Modulus = ((g[c] + T[r]) + k.val[x]) % Modulus
                BY <1>0, <3>2, <4>5, ModTwice
            <4>7. (g[c] + T[r]) + k.val[x] = g[c] + T[s \cap A]
                BY <3>3, <4>3, <4>5
            <4>8. Step(k, c)[<<x, v>>] = (g[c] + T[s \cap A]) % Modulus
                BY <4>4, <4>6, <4>7
            <4>9. QED BY <3>4, <4>8
        <3>6. CASE c \notin k.upd[x]
            <4>1. Step(k, c)[<<x, v>>] = v
                BY <3>1, <3>6, StepIs
            <4>2. T[s \cap A] = T[r]
                <5>1. CASE x \in A
                    <6>1. x \in s \cap A /\ (s \cap A) \ {x} = r /\ s \cap A \in SUBSET Dev
                        BY <1>0, <5>1
                    <6>2. Adds(k, c)[x] = 0
                        BY <3>1, <3>6 DEF Adds
                    <6> HIDE DEF r
                    <6>3. T[s \cap A] = 0 + T[r]
                        BY <6>1, <6>2 DEF Totals
                    <6>4. QED BY <6>3, <3>3
                <5>2. CASE x \notin A
                    <6>1. s \cap A = r
                        BY <5>2
                    <6>2. QED BY <6>1
                <5>3. QED BY <5>1, <5>2
            <4> HIDE DEF r
            <4>3. Step(k, c)[<<x, v>>] = (g[c] + T[s \cap A]) % Modulus
                BY <3>2, <4>1, <4>2
            <4>4. QED BY <3>4, <4>3
        <3>7. QED BY <3>5, <3>6
    <2>3. <<k.devs, Whole(k, g)[c]>> \in Q
        <3> HIDE DEF Q
        <3>1. Q \in SUBSET ((SUBSET k.devs) \X Val)
            BY DEF Q
        <3>2. QED BY <2>0, <2>1, <2>2, <3>1, WholeInduction
    <2>4. k.devs \cap A = A
        BY DEF Active
    <2>5. Whole(k, g)[c] = (g[c] + T[k.devs \cap A]) % Modulus
        BY <2>3
    <2>6. QED BY <2>4, <2>5
<1>3. QED BY <1>1, <1>2

-----------------------------------------------------------------------------
(* The reduction on the host: where the copies of an element are.          *)

\* regVec[0] is the region of the first active device.
LEMMA FirstActive ==
    ASSUME NEW k \in Kernels, Active(k) # {}
    PROVE  First(Active(k)) \in Active(k) /\ \A e \in Active(k) : First(Active(k)) <= e
<1>1. Active(k) \in SUBSET Nat
    BY LaunchFields DEF Dev
<1>2. \E d \in Active(k) : \A e \in Active(k) : d <= e
    BY <1>1, Least
<1>3. QED BY <1>2 DEF First

\* All regions of an atomic launch are the one that is combined.
LEMMA OneRegion ==
    ASSUME NEW k \in Kernels, Reducing(k), NEW d \in Active(k)
    PROVE  /\ k.reg[d] = k.reg[First(Active(k))]
           /\ Reduced(k) = k.reg[d]
<1> DEFINE A == Active(k)
           f == First(A)
<1>1. f \in A /\ \A e \in A : f <= e
    BY FirstActive
<1> HIDE DEF f
<1>2. A \subseteq Dev /\ \A a \in A : k.reg[a] # {}
    BY LaunchFields DEF Active
<1>3. \A a, b \in A : k.reg[a] = k.reg[b]
    BY <1>2, LaunchFields
<1>4. {a \in A : Reducing(k) /\ \A e \in A : a <= e} = {f}
    <2>1. \A a \in A : a \in Nat
        BY <1>2 DEF Dev
    <2>2. ASSUME NEW a \in A, \A e \in A : a <= e PROVE a = f
        BY <1>1, <2>1, <2>2
    <2>3. QED BY <1>1, <2>2
<1>5. Reduced(k) = k.reg[f]
    BY <1>4 DEF Reduced
<1>6. QED BY <1>1, <1>3, <1>5 DEF f

\* An element is found in a region by its place.
LEMMA PlaceIsUnique ==
    ASSUME NEW R \in SUBSET Elem, NEW c \in R, NEW e \in R
    PROVE  /\ Rank(R, c) < Cardinality(R)
           /\ Rank(R, e) = Rank(R, c) => e = c
<1>1. \A x \in R : x \in Int
    BY DEF Elem
<1>2. IsFiniteSet(R)
    <2>1. IsFiniteSet(Elem)
        BY SizeAssumption, FS_Interval DEF Elem
    <2>2. QED BY <2>1, FS_Subset
<1>3. \A x, y \in R : x < y => Rank(R, x) < Rank(R, y)
    <2> SUFFICES ASSUME NEW x \in R, NEW y \in R, x < y PROVE Rank(R, x) < Rank(R, y)
        OBVIOUS
    <2> DEFINE X == {z \in R : z < x}
               Y == {z \in R : z < y}
    <2>1. X \subseteq Y /\ x \in Y /\ x \notin X /\ Y \subseteq R
        BY <1>1
    <2>2. IsFiniteSet(Y) /\ Cardinality(X) <= Cardinality(Y) /\ Cardinality(X) # Cardinality(Y)
        <3> HIDE DEF X, Y
        <3>1. QED BY <1>2, <2>1, FS_Subset
    <2>3. IsFiniteSet(X) /\ Cardinality(X) \in Nat /\ Cardinality(Y) \in Nat
        <3> HIDE DEF X, Y
        <3>1. QED BY <2>1, <2>2, FS_Subset, FS_CardinalityType
    <2> HIDE DEF X, Y
    <2>4. Cardinality(X) < Cardinality(Y)
        BY <2>2, <2>3
    <2>5. QED BY <2>4 DEF X, Y, Rank
<1>4. \A x \in R : Rank(R, x) \in Nat /\ Rank(R, x) < Cardinality(R)
    <2> SUFFICES ASSUME NEW x \in R PROVE Rank(R, x) \in Nat /\ Rank(R, x) < Cardinality(R)
        OBVIOUS
    <2> DEFINE X == {z \in R : z < x}
    <2>1. X \subseteq R /\ x \notin X
        BY <1>1
    <2> HIDE DEF X
    <2>2. IsFiniteSet(X) /\ Cardinality(X) <= Cardinality(R) /\ Cardinality(X) # Cardinality(R)
        BY <1>2, <2>1, FS_Subset
    <2>3. Cardinality(X) \in Nat /\ Cardinality(R) \in Nat
        BY <1>2, <2>2, FS_CardinalityType
    <2>4. QED BY <2>2, <2>3 DEF X, Rank
<1>5. Rank(R, e) = Rank(R, c) => e = c
    <2>1. e < c => Rank(R, e) < Rank(R, c)
        BY <1>3
    <2>2. c < e => Rank(R, c) < Rank(R, e)
        BY <1>3
    <2>3. Rank(R, e) \in Nat /\ Rank(R, c) \in Nat
        BY <1>4
    <2>4. QED BY <1>1, <2>1, <2>2, <2>3
<1>6. QED BY <1>4, <1>5

\* The copy of an element is the one of the same element.
LEMMA CopyIs ==
    ASSUME NEW k \in Kernels, Reducing(k), NEW d \in Active(k), NEW c \in Reduced(k), NEW junk,
           tmp[d][c] \in Val
    PROVE  Copy(k, d, c, junk) = tmp[d][c]
<1> DEFINE R == k.reg[d]
<1>1. k.reg[First(Active(k))] = R /\ c \in R /\ R \in SUBSET Elem
    BY OneRegion, LaunchFields
<1>2. InTmp(k, d, c) = c
    <2>1. \A e \in R : Rank(R, e) = Rank(R, c) => e = c
        BY <1>1, PlaceIsUnique
    <2>2. InTmp(k, d, c) = CHOOSE e \in R : Rank(R, e) = Rank(R, c)
        BY <1>1 DEF InTmp
    <2>3. QED BY <1>1, <2>1, <2>2
<1>3. ~ (Cardinality(R) <= Rank(R, c))
    <2>1. Rank(R, c) < Cardinality(R)
        BY <1>1, PlaceIsUnique
    <2>2. IsFiniteSet(R) /\ IsFiniteSet({e \in R : e < c})
        <3>1. IsFiniteSet(Elem)
            BY SizeAssumption, FS_Interval DEF Elem
        <3>2. {e \in R : e < c} \subseteq Elem
            BY <1>1
        <3>3. QED BY <1>1, <3>1, <3>2, FS_Subset
    <2>3. Rank(R, c) \in Nat /\ Cardinality(R) \in Nat
        BY <2>2, FS_CardinalityType DEF Rank
    <2>4. QED BY <2>1, <2>3
<1>4. tmp[d][c] # NoVal
    BY ValuesAssumption
<1>5. QED BY <1>1, <1>2, <1>3, <1>4 DEF Copy

-----------------------------------------------------------------------------
(* What is combined is what a single device would have computed.           *)

\* A launch may be made on the contents g.
Suits(k, g) ==
    /\ g \in Contents /\ FlagsOnly(k, g)
    /\ \A d \in Dev : \A c \in k.reg[d] : g[c] \in Val

LEMMA SubKernelTypes ==
    ASSUME NEW k \in Kernels, NEW g, Suits(k, g), NEW d \in Dev, NEW c \in k.reg[d]
    PROVE  /\ SubKernel(k, d, g)[c] =
                 IF c \in k.upd[d] THEN Updated(k.op, g[c], k.val[d]) ELSE g[c]
           /\ SubKernel(k, d, g)[c] \in Val /\ g[c] \in Val /\ c \in Elem /\ k.val[d] \in Val
<1>1. c \in Elem /\ g[c] \in Val /\ k.val[d] \in Val /\ k.op \in Ops
    BY LaunchTypes DEF Suits
<1>2. SubKernel(k, d, g)[c] = IF c \in k.upd[d] THEN Updated(k.op, g[c], k.val[d]) ELSE g[c]
    BY <1>1 DEF SubKernel
<1>3. QED BY <1>1, <1>2, UpdatedTypes

\* What each device has of c.
Have(k, g, c) == \A d \in Active(k) : tmp[d][c] = SubKernel(k, d, g)[c]

LEMMA Copies ==
    ASSUME NEW k \in Kernels, Reducing(k), NEW g, Suits(k, g), NEW c \in Reduced(k), Have(k, g, c)
    PROVE  /\ c \in Elem /\ g[c] \in Val /\ Active(k) # {} /\ Active(k) \subseteq Dev
           /\ \A d \in Dev : c \in k.upd[d] => d \in Active(k)
           /\ \A d \in Active(k) : /\ c \in k.reg[d] /\ k.val[d] \in Val
                                   /\ SubKernel(k, d, g)[c] \in Val
                                   /\ SubKernel(k, d, g)[c] =
                                        IF c \in k.upd[d] THEN Updated(k.op, g[c], k.val[d]) ELSE g[c]
                                   /\ \A junk : Copy(k, d, c, junk) = SubKernel(k, d, g)[c]
<1>1. PICK d0 \in Active(k) : c \in k.reg[d0]
    BY DEF Reduced
<1>2. Active(k) \subseteq Dev /\ \A d \in Dev : c \in k.upd[d] => d \in Active(k)
    BY LaunchTypes DEF Active
<1>3. c \in Elem /\ g[c] \in Val
    BY <1>1, <1>2, SubKernelTypes
<1>4. ASSUME NEW d \in Active(k)
      PROVE  /\ c \in k.reg[d] /\ k.val[d] \in Val
             /\ SubKernel(k, d, g)[c] \in Val
             /\ SubKernel(k, d, g)[c] = IF c \in k.upd[d] THEN Updated(k.op, g[c], k.val[d]) ELSE g[c]
             /\ \A junk : Copy(k, d, c, junk) = SubKernel(k, d, g)[c]
    <2>1. c \in k.reg[d] /\ d \in Dev
        BY <1>2, OneRegion
    <2>2. SubKernel(k, d, g)[c] \in Val /\ k.val[d] \in Val
          /\ SubKernel(k, d, g)[c] = IF c \in k.upd[d] THEN Updated(k.op, g[c], k.val[d]) ELSE g[c]
        BY <2>1, SubKernelTypes
    <2>3. tmp[d][c] = SubKernel(k, d, g)[c]
        BY DEF Have
    <2>4. \A junk : Copy(k, d, c, junk) = SubKernel(k, d, g)[c]
        BY <2>2, <2>3, CopyIs
    <2>5. QED BY <2>1, <2>2, <2>4
<1>5. QED BY <1>1, <1>2, <1>3, <1>4

\* The largest copy is the largest operand, or what was there.
LEMMA MaxIsWhole ==
    ASSUME NEW k \in Kernels, Reducing(k), NEW g, Suits(k, g), NEW c \in Reduced(k), Have(k, g, c),
           k.op = "max", NEW junk
    PROVE  MaxOfCopies(k, c, junk) = Whole(k, g)[c]
<1> DEFINE A == Active(k)
           sub(d) == SubKernel(k, d, g)[c]
           w == Whole(k, g)[c]
           S == {Copy(k, d, c, junk) : d \in A}
<1>1. /\ c \in Elem /\ g[c] \in Int /\ A # {} /\ A \subseteq Dev
      /\ \A d \in Dev : c \in k.upd[d] => d \in A
    BY Copies DEF Val
<1>2. ASSUME NEW d \in A
      PROVE  /\ Copy(k, d, c, junk) = sub(d) /\ k.val[d] \in Int
             /\ sub(d) = IF c \in k.upd[d] /\ k.val[d] > g[c] THEN k.val[d] ELSE g[c]
    <2>1. k.val[d] \in Int
        BY Copies DEF Val
    <2>2. Copy(k, d, c, junk) = sub(d)
        BY Copies
    <2>3. sub(d) = IF c \in k.upd[d] THEN Updated(k.op, g[c], k.val[d]) ELSE g[c]
        BY Copies
    <2>4. Updated(k.op, g[c], k.val[d]) = IF k.val[d] > g[c] THEN k.val[d] ELSE g[c]
        BY DEF Updated
    <2>5. QED BY <2>1, <2>2, <2>3, <2>4
<1>3. /\ w \in Int /\ w >= g[c] /\ \A e \in A : c \in k.upd[e] => w >= k.val[e]
      /\ w = g[c] \/ \E e \in A : c \in k.upd[e] /\ w = k.val[e]
    <2>1. CASE \E d \in Dev : c \in k.upd[d]
        <3>1. w \in Val /\ Largest(k, c, g[c], k.devs, w)
            <4>1. g \in Contents /\ g[c] \in Val
                BY Copies DEF Suits
            <4>2. QED BY <1>1, <2>1, <4>1, WholeMax
        <3>2. A \subseteq k.devs /\ k.devs \subseteq Dev
            BY LaunchTypes DEF Active
        <3>3. QED BY <1>1, <3>1, <3>2 DEF Largest, Val
    <2>2. CASE \A d \in Dev : c \notin k.upd[d]
        <3>1. w = g[c]
            BY <1>1, <2>2 DEF Whole
        <3> HIDE DEF w
        <3>2. QED BY <1>1, <2>2, <3>1
    <2>3. QED BY <2>1, <2>2
<1> HIDE DEF w, sub
<1>4. \A x \in S : x \in Int /\ w >= x
    BY <1>1, <1>2, <1>3
<1>5. w \in S
    <2>1. CASE \E e \in A : c \in k.upd[e] /\ w = k.val[e]
        <3>1. PICK e \in A : c \in k.upd[e] /\ w = k.val[e]
            BY <2>1
        <3>2. sub(e) = w
            BY <1>1, <1>2, <1>3, <3>1
        <3>3. QED BY <1>2, <3>2
    <2>2. CASE w = g[c]
        <3>1. PICK e \in A : TRUE
            BY <1>1
        <3>2. sub(e) = w
            BY <1>1, <1>2, <1>3, <2>2
        <3>3. QED BY <1>2, <3>2
    <2>3. QED BY <1>3, <2>1, <2>2
<1>6. \A x \in S : (\A y \in S : x >= y) => x = w
    BY <1>3, <1>4, <1>5
<1>7. Max(S) = w
    <2> HIDE DEF S
    <2>1. QED BY <1>4, <1>5, <1>6 DEF Max
<1>8. QED BY <1>7 DEF MaxOfCopies, w

\* The smallest copy likewise.
LEMMA MinIsWhole ==
    ASSUME NEW k \in Kernels, Reducing(k), NEW g, Suits(k, g), NEW c \in Reduced(k), Have(k, g, c),
           k.op = "min", NEW junk
    PROVE  MinOfCopies(k, c, junk) = Whole(k, g)[c]
<1> DEFINE A == Active(k)
           sub(d) == SubKernel(k, d, g)[c]
           w == Whole(k, g)[c]
           S == {Copy(k, d, c, junk) : d \in A}
<1>1. /\ c \in Elem /\ g[c] \in Int /\ A # {} /\ A \subseteq Dev
      /\ \A d \in Dev : c \in k.upd[d] => d \in A
    BY Copies DEF Val
<1>2. ASSUME NEW d \in A
      PROVE  /\ Copy(k, d, c, junk) = sub(d) /\ k.val[d] \in Int
             /\ sub(d) = IF c \in k.upd[d] /\ k.val[d] < g[c] THEN k.val[d] ELSE g[c]
    <2>1. k.val[d] \in Int
        BY Copies DEF Val
    <2>2. Copy(k, d, c, junk) = sub(d)
        BY Copies
    <2>3. sub(d) = IF c \in k.upd[d] THEN Updated(k.op, g[c], k.val[d]) ELSE g[c]
        BY Copies
    <2>4. Updated(k.op, g[c], k.val[d]) = IF k.val[d] < g[c] THEN k.val[d] ELSE g[c]
        BY DEF Updated
    <2>5. QED BY <2>1, <2>2, <2>3, <2>4
<1>3. /\ w \in Int /\ w <= g[c] /\ \A e \in A : c \in k.upd[e] => w <= k.val[e]
      /\ w = g[c] \/ \E e \in A : c \in k.upd[e] /\ w = k.val[e]
    <2>1. CASE \E d \in Dev : c \in k.upd[d]
        <3>1. w \in Val /\ Smallest(k, c, g[c], k.devs, w)
            <4>1. g \in Contents /\ g[c] \in Val
                BY Copies DEF Suits
            <4>2. QED BY <1>1, <2>1, <4>1, WholeMin
        <3>2. A \subseteq k.devs /\ k.devs \subseteq Dev
            BY LaunchTypes DEF Active
        <3>3. QED BY <1>1, <3>1, <3>2 DEF Smallest, Val
    <2>2. CASE \A d \in Dev : c \notin k.upd[d]
        <3>1. w = g[c]
            BY <1>1, <2>2 DEF Whole
        <3> HIDE DEF w
        <3>2. QED BY <1>1, <2>2, <3>1
    <2>3. QED BY <2>1, <2>2
<1> HIDE DEF w, sub
<1>4. \A x \in S : x \in Int /\ w <= x
    BY <1>1, <1>2, <1>3
<1>5. w \in S
    <2>1. CASE \E e \in A : c \in k.upd[e] /\ w = k.val[e]
        <3>1. PICK e \in A : c \in k.upd[e] /\ w = k.val[e]
            BY <2>1
        <3>2. sub(e) = w
            BY <1>1, <1>2, <1>3, <3>1
        <3>3. QED BY <1>2, <3>2
    <2>2. CASE w = g[c]
        <3>1. PICK e \in A : TRUE
            BY <1>1
        <3>2. sub(e) = w
            BY <1>1, <1>2, <1>3, <2>2
        <3>3. QED BY <1>2, <3>2
    <2>3. QED BY <1>3, <2>1, <2>2
<1>6. \A x \in S : (\A y \in S : x <= y) => x = w
    BY <1>3, <1>4, <1>5
<1>7. Min(S) = w
    <2> HIDE DEF S
    <2>1. QED BY <1>4, <1>5, <1>6 DEF Min
<1>8. QED BY <1>7 DEF MinOfCopies, w

\* A device that has stored the flag has 1, the others have what was there.
LEMMA OrIsWhole ==
    ASSUME NEW k \in Kernels, Reducing(k), NEW g, Suits(k, g), NEW c \in Reduced(k), Have(k, g, c),
           k.op = "or", NEW junk
    PROVE  OrOfCopies(k, c, junk) = Whole(k, g)[c]
<1>1. /\ c \in Elem /\ Active(k) # {} /\ g[c] \in Val /\ g \in Contents
      /\ \A d \in Dev : c \in k.upd[d] => d \in Active(k)
    BY Copies DEF Suits
<1>2. g[c] \in {0, 1} /\ \A d \in Dev : k.val[d] = 1
    <2>1. PICK d \in Active(k) : c \in k.reg[d]
        BY <1>1, Copies
    <2>2. d \in Dev
        BY <1>1, LaunchFields
    <2>3. \A e \in Dev : k.val[e] = 1 /\ \A b \in k.reg[e] : g[b] \in {0, 1}
        BY DEF Suits, FlagsOnly
    <2>4. QED BY <2>1, <2>2, <2>3
<1>3. \A d \in Active(k) : Copy(k, d, c, junk) = IF c \in k.upd[d] THEN 1 ELSE g[c]
    <2> SUFFICES ASSUME NEW d \in Active(k)
                 PROVE  Copy(k, d, c, junk) = IF c \in k.upd[d] THEN 1 ELSE g[c]
        OBVIOUS
    <2>1. Copy(k, d, c, junk) = SubKernel(k, d, g)[c] /\ d \in Dev
          /\ SubKernel(k, d, g)[c] = IF c \in k.upd[d] THEN Updated(k.op, g[c], k.val[d]) ELSE g[c]
        BY Copies
    <2>2. Updated(k.op, g[c], k.val[d]) = 1
        BY <1>2, <2>1 DEF Updated
    <2>3. QED BY <2>1, <2>2
<1>4. CASE \E d \in Dev : c \in k.upd[d]
    <2>1. Whole(k, g)[c] = 1
        BY <1>1, <1>2, <1>4, WholeOr
    <2>2. \E d \in Active(k) : Copy(k, d, c, junk) = 1
        BY <1>1, <1>3, <1>4
    <2>3. QED BY <2>1, <2>2 DEF OrOfCopies
<1>5. CASE \A d \in Dev : c \notin k.upd[d]
    <2>1. Whole(k, g)[c] = g[c]
        BY <1>1, <1>5 DEF Whole
    <2>2. \A d \in Active(k) : Copy(k, d, c, junk) = g[c]
        BY <1>3, <1>5, LaunchFields
    <2>3. QED BY <1>1, <1>2, <2>1, <2>2 DEF OrOfCopies
<1>6. QED BY <1>4, <1>5

\* Adding the value of one more element.
Adding(A, cp) == [p \in A \X Int |-> cp[p[1]] + p[2]]

\* The sum adds the copies one by one.
LEMMA SumIsFold ==
    ASSUME NEW k \in Kernels, NEW c, NEW junk, NEW cp \in [Active(k) -> Nat],
           \A d \in Active(k) : Copy(k, d, c, junk) = cp[d]
    PROVE  \E it : /\ it[{}] = 0
                   /\ SumOfCopies(k, c, junk) =
                         (it[Active(k)] - (Cardinality(Active(k)) - 1) * Base(c, junk)) % Modulus
                   /\ Combines(it, Active(k), Int, Adding(Active(k), cp))
<1> DEFINE A == Active(k)
           G == [p \in A \X Int |-> cp[p[1]] + p[2]]
           pick(s) == CHOOSE x \in s : TRUE
           Raw(it) == it = [s \in SUBSET A |-> IF s = {} THEN 0
                                     ELSE Copy(k, pick(s), c, junk) + it[s \ {pick(s)}]]
           chosen == CHOOSE f : Raw(f)
<1>0. IsFiniteSet(A)
    BY DevFinite, LaunchFields, FS_Subset
<1>1. \A s \in (SUBSET A) \ {{}} : pick(s) \in s /\ s \ {pick(s)} \in SUBSET A
    OBVIOUS
<1>2. Raw(chosen)
    <2>1. G \in [A \X Int -> Int] /\ 0 \in Int
        OBVIOUS
    <2>2. \A x \in A, v \in Int : G[<<x, v>>] = Copy(k, x, c, junk) + v
        OBVIOUS
    <2> HIDE DEF G
    <2>3. PICK it \in [SUBSET A -> Int] : Folds(it, A, 0, G)
        BY <1>0, <2>1, FoldExists
    <2>4. \A s \in SUBSET A : it[s] = IF s = {} THEN 0 ELSE G[<<pick(s), it[s \ {pick(s)}]>>]
        BY <2>3 DEF Folds
    <2> HIDE DEF pick, A
    <2>5. \A s \in SUBSET A : it[s] = IF s = {} THEN 0
                                      ELSE Copy(k, pick(s), c, junk) + it[s \ {pick(s)}]
        BY <1>1, <2>2, <2>3, <2>4
    <2>6. Raw(it)
        BY <2>3, <2>5
    <2> HIDE DEF Raw
    <2>7. QED BY <2>6
<1>3. MapThenSumSet(LAMBDA d : Copy(k, d, c, junk), A) = chosen[A]
    BY DEF MapThenSumSet, MapThenFoldSet
<1> DEFINE n == Cardinality(A)
           base == Base(c, junk)
<1> HIDE DEF chosen, n, base
<1>6. SumOfCopies(k, c, junk) = (chosen[A] - (n - 1) * base) % Modulus
    BY <1>3 DEF SumOfCopies, n, base
<1>4. chosen[{}] = 0
    BY <1>2
<1>5. Combines(chosen, A, Int, G)
    <2> SUFFICES ASSUME NEW s \in (SUBSET A) \ {{}}
                 PROVE  \E x \in s : chosen[s \ {x}] \in Int => chosen[s] = G[<<x, chosen[s \ {x}]>>]
        BY DEF Combines
    <2>1. \A x \in A, v \in Int : G[<<x, v>>] = cp[x] + v
        OBVIOUS
    <2>2. chosen[s] = Copy(k, pick(s), c, junk) + chosen[s \ {pick(s)}]
        <3> HIDE DEF pick
        <3>1. QED BY <1>2
    <2>3. pick(s) \in s /\ pick(s) \in A
        BY <1>1
    <2> HIDE DEF pick, G, A
    <2>4. chosen[s \ {pick(s)}] \in Int => chosen[s] = G[<<pick(s), chosen[s \ {pick(s)}]>>]
        BY <2>1, <2>2, <2>3 DEF A
    <2>5. QED BY <2>3, <2>4
<1>7. Adding(A, cp) = G
    BY DEF Adding
<1> HIDE DEF G
<1>8. QED BY <1>4, <1>5, <1>6, <1>7 DEF n, base

\* Every copy is what was there, and what its device has added, but for the carry.
AreCopies(k, c, b, cp) ==
    \A d \in Active(k) : cp[d] = (b + Adds(k, c)[d]) % Modulus \/ cp[d] = b + Adds(k, c)[d]

AddUp(A, b, T, v) ==
    /\ IsFiniteSet(A) /\ Cardinality(A) \in Nat /\ T[A] \in Nat /\ v \in Int
    /\ \E q \in Int : v = (T[A] + Cardinality(A) * b) + Modulus * q

LEMMA CopiesAddUp ==
    ASSUME NEW k \in Kernels, NEW c, NEW b \in Nat,
           NEW T, Totals(T, Dev, Adds(k, c)), NEW cp \in [Active(k) -> Nat],
           AreCopies(k, c, b, cp),
           NEW it, it[{}] = 0,
           Combines(it, Active(k), Int, Adding(Active(k), cp))
    PROVE  AddUp(Active(k), b, T, it[Active(k)])
<1> DEFINE A == Active(k)
           w == Adds(k, c)
           G == [p \in A \X Int |-> cp[p[1]] + p[2]]
           Sum(s, v) == \E q \in Int : v = (T[s] + Cardinality(s) * b) + Modulus * q
           Q == {p \in (SUBSET A) \X Int : Sum(p[1], p[2])}
<1>0. /\ IsFiniteSet(A) /\ A \in SUBSET Dev /\ Modulus \in Nat \ {0} /\ w \in [Dev -> Nat]
      /\ Cardinality(A) \in Nat /\ \A s \in SUBSET A : T[s] \in Nat
    <2>1. A \in SUBSET Dev /\ w \in [Dev -> Nat] /\ Modulus \in Nat \ {0}
        BY ValuesAssumption, LaunchTypes DEF Active, Adds, Val
    <2>2. IsFiniteSet(A)
        BY <2>1, DevFinite, FS_Subset
    <2>3. QED BY <2>1, <2>2, FS_CardinalityType DEF Totals
<1>1. <<{}, it[{}]>> \in Q
    <2>1. Cardinality({}) = 0 /\ T[{}] = 0
        BY FS_EmptySet DEF Totals
    <2>2. 0 = (0 + 0 * b) + Modulus * 0
        BY <1>0
    <2>3. Sum({}, it[{}])
        BY <2>1, <2>2
    <2>4. {} \in SUBSET A /\ it[{}] \in Int
        OBVIOUS
    <2> HIDE DEF Sum, A
    <2>5. QED BY <2>3, <2>4
<1>2. ASSUME NEW s \in (SUBSET A) \ {{}}, NEW x \in s, NEW v \in Int, <<s \ {x}, v>> \in Q
      PROVE  <<s, G[<<x, v>>]>> \in Q
    <2> DEFINE r == s \ {x}
               n == Cardinality(r)
    <2>1. PICK q \in Int : v = (T[r] + n * b) + Modulus * q
        BY <1>2
    <2>2. x \in A /\ x \in Dev /\ s \in SUBSET Dev /\ r \in SUBSET A /\ w[x] \in Nat /\ cp[x] \in Nat
        BY <1>0
    <2>3. T[s] = w[x] + T[r] /\ T[r] \in Nat /\ T[s] \in Nat
        BY <1>0, <2>2 DEF Totals
    <2>4. Cardinality(s) = n + 1 /\ n \in Nat
        BY <1>0, OneLess
    <2>5. PICK m \in Int : cp[x] = (b + w[x]) + Modulus * m
        <3>1. CASE cp[x] = b + w[x]
            <4>1. b + w[x] = (b + w[x]) + Modulus * 0
                BY <1>0, <2>2
            <4>2. QED BY <3>1, <4>1
        <3>2. CASE cp[x] = (b + w[x]) % Modulus
            <4> DEFINE y == b + w[x]
            <4>1. y \in Int
                BY <2>2
            <4> HIDE DEF y
            <4>2. PICK a \in Int : y = Modulus * a + (y % Modulus)
                BY <1>0, <4>1, ModSplit
            <4>3. Modulus * (0 - a) = 0 - Modulus * a
                BY <1>0
            <4>4. y % Modulus \in Int /\ Modulus * a \in Int
                BY <1>0, <4>1
            <4>5. y % Modulus = y + Modulus * (0 - a) /\ 0 - a \in Int
                BY <4>1, <4>2, <4>3, <4>4
            <4>6. QED BY <3>2, <4>5 DEF y
        <3>3. cp[x] = b + w[x] \/ cp[x] = (b + w[x]) % Modulus
            BY <2>2 DEF AreCopies
        <3>4. CASE cp[x] = b + w[x]
            BY <3>1, <3>4
        <3>5. CASE cp[x] = (b + w[x]) % Modulus
            BY <3>2, <3>5
        <3>6. QED BY <3>3, <3>4, <3>5
    <2>6. G[<<x, v>>] = cp[x] + v /\ G[<<x, v>>] \in Int
        BY <2>2
    <2> HIDE DEF r, n, w, G
    <2>7. (n + 1) * b = n * b + b /\ n * b \in Int /\ Modulus * (m + q) = Modulus * m + Modulus * q
          /\ Modulus * m \in Int /\ Modulus * q \in Int
        <3>1. Modulus \in Int /\ n \in Int /\ b \in Int /\ 1 \in Int
            BY <1>0, <2>4
        <3>2. Modulus * (m + q) = Modulus * m + Modulus * q
            BY <3>1, Distributes
        <3>3. b * (n + 1) = b * n + b * 1
            BY <3>1, Distributes
        <3>4. b * (n + 1) = (n + 1) * b /\ b * n = n * b /\ b * 1 = b
            BY <3>1
        <3>5. n * b \in Int /\ Modulus * m \in Int /\ Modulus * q \in Int
            BY <3>1
        <3>6. QED BY <3>2, <3>3, <3>4, <3>5
    <2>8. cp[x] + v = (T[s] + (n + 1) * b) + Modulus * (m + q)
        <3> DEFINE Y == n * b
                   X1 == Modulus * m
                   X2 == Modulus * q
        <3>1. /\ v = (T[r] + Y) + X2 /\ cp[x] = (b + w[x]) + X1
              /\ (n + 1) * b = Y + b /\ Modulus * (m + q) = X1 + X2
              /\ Y \in Int /\ X1 \in Int /\ X2 \in Int
            BY <2>1, <2>5, <2>7
        <3> HIDE DEF Y, X1, X2
        <3>2. (T[s] + (n + 1) * b) + Modulus * (m + q) = ((w[x] + T[r]) + (Y + b)) + (X1 + X2)
            BY <2>3, <3>1
        <3>3. cp[x] + v = ((b + w[x]) + X1) + ((T[r] + Y) + X2)
            BY <3>1
        <3>4. QED BY <2>2, <2>3, <3>1, <3>2, <3>3
    <2>9. Sum(s, G[<<x, v>>])
        <3>1. m + q \in Int
            OBVIOUS
        <3>2. G[<<x, v>>] = (T[s] + Cardinality(s) * b) + Modulus * (m + q)
            BY <2>4, <2>6, <2>8
        <3>3. QED BY <3>1, <3>2
    <2> HIDE DEF Sum
    <2>10. QED BY <2>6, <2>9
<1>3. <<A, it[A]>> \in Q
    <2> HIDE DEF Q
    <2>1. Q \in SUBSET ((SUBSET A) \X Int)
        BY DEF Q
    <2>2. Combines(it, A, Int, G)
        BY DEF Adding
    <2> HIDE DEF G, A
    <2>3. QED BY <1>0, <1>1, <1>2, <2>1, <2>2, FoldInduction
<1>4. QED BY <1>0, <1>3 DEF AddUp

\* The copies added up, less what was there before the launch for all but one.
LEMMA SumIsWhole ==
    ASSUME NEW k \in Kernels, Reducing(k), NEW g, Suits(k, g), NEW c \in Reduced(k), Have(k, g, c),
           k.op = "sum", NEW junk \in Val, local \in Contents,
           (\E d, e \in Active(k) : d # e) => local[c] = g[c]
    PROVE  SumOfCopies(k, c, junk) = Whole(k, g)[c]
<1> DEFINE A == Active(k)
           n == Cardinality(A)
           b == g[c]
           cp == [d \in A |-> SubKernel(k, d, g)[c]]
           base == Base(c, junk)
<1>0. /\ c \in Elem /\ b \in Val /\ b \in Nat /\ A # {} /\ A \subseteq Dev /\ g \in Contents
      /\ Val \subseteq Nat /\ Modulus \in Nat \ {0}
    BY ValuesAssumption, Copies DEF Val, Suits
<1>1. \A d \in A : /\ Copy(k, d, c, junk) = cp[d] /\ cp[d] \in Nat
                   /\ cp[d] = (b + Adds(k, c)[d]) % Modulus \/ cp[d] = b + Adds(k, c)[d]
    <2> SUFFICES ASSUME NEW d \in A
                 PROVE  /\ Copy(k, d, c, junk) = cp[d] /\ cp[d] \in Nat
                        /\ cp[d] = (b + Adds(k, c)[d]) % Modulus \/ cp[d] = b + Adds(k, c)[d]
        OBVIOUS
    <2>1. cp[d] = SubKernel(k, d, g)[c] /\ d \in Dev
        BY <1>0
    <2>2. Copy(k, d, c, junk) = SubKernel(k, d, g)[c] /\ SubKernel(k, d, g)[c] \in Val
        BY Copies
    <2>3. SubKernel(k, d, g)[c] = IF c \in k.upd[d] THEN Updated(k.op, g[c], k.val[d]) ELSE g[c]
        BY Copies
    <2>4. Updated(k.op, g[c], k.val[d]) = (b + k.val[d]) % Modulus
        BY DEF Updated
    <2>5. Adds(k, c)[d] = IF c \in k.upd[d] THEN k.val[d] ELSE 0
        BY <2>1 DEF Adds
    <2> HIDE DEF cp
    <2>6. CASE c \in k.upd[d]
        BY <1>0, <2>1, <2>2, <2>3, <2>4, <2>5, <2>6
    <2>7. CASE c \notin k.upd[d]
        BY <1>0, <2>1, <2>2, <2>3, <2>5, <2>7
    <2>8. QED BY <2>6, <2>7
<1>2. cp \in [A -> Nat]
    BY <1>1
<1>3. PICK T : Totals(T, Dev, Adds(k, c))
    <2>1. Adds(k, c) \in [Dev -> Nat]
        BY <1>0, LaunchTypes DEF Adds
    <2>2. QED BY <2>1, DevFinite, TotalExists
<1>4. Whole(k, g)[c] = (b + T[A]) % Modulus
    BY <1>0, <1>3, WholeSum
<1> HIDE DEF cp
<1>5. PICK it : /\ it[{}] = 0 /\ Combines(it, A, Int, Adding(A, cp))
                /\ SumOfCopies(k, c, junk) = (it[A] - (n - 1) * base) % Modulus
    BY <1>1, <1>2, SumIsFold
<1> DEFINE sum == it[A]
<1>6. /\ IsFiniteSet(A) /\ n \in Nat /\ T[A] \in Nat /\ it[A] \in Int
      /\ \E q \in Int : it[A] = (T[A] + n * b) + Modulus * q
    <2>1. AreCopies(k, c, b, cp)
        BY <1>1 DEF AreCopies
    <2> HIDE DEF b
    <2>2. AddUp(A, b, T, it[A])
        BY <1>0, <1>2, <1>3, <1>5, <2>1, CopiesAddUp
    <2>3. QED BY <2>2 DEF AddUp
<1>7. PICK q \in Int : sum = (T[A] + n * b) + Modulus * q
    BY <1>5, <1>6
<1>8. (n - 1) * base = n * b - b /\ base \in Int
    <2>1. base \in Val
        BY <1>0, ValuesAssumption DEF Base, Contents
    <2>2. CASE \E d, e \in A : d # e
        <3>1. base = b
            BY <1>0, <2>2, ValuesAssumption DEF Base
        <3>2. (n - 1) * b = n * b - b
            BY <1>0, <1>6
        <3>3. QED BY <1>0, <3>1, <3>2
    <2>3. CASE \A d, e \in A : d = e
        <3>1. PICK d \in A : A = {d}
            BY <1>0, <2>3
        <3>2. Cardinality({d}) = 1
            BY FS_Singleton
        <3>3. n = 1
            BY <3>1, <3>2
        <3> HIDE DEF n, base
        <3>4. base \in Int
            BY <1>0, <2>1
        <3>5. (1 - 1) * base = 0 /\ 1 * b - b = 0
            BY <1>0, <3>4
        <3>6. QED BY <3>3, <3>4, <3>5
    <2>4. QED BY <2>2, <2>3
<1>9. sum - (n - 1) * base = Modulus * q + (b + T[A])
    <2> DEFINE Y == n * b
               X == Modulus * q
    <2>1. Y \in Int /\ X \in Int /\ sum = (T[A] + Y) + X /\ (n - 1) * base = Y - b
        BY <1>0, <1>6, <1>7, <1>8
    <2> HIDE DEF Y, sum
    <2>2. X \in Int /\ T[A] \in Int /\ b \in Int
        BY <1>0, <1>6, <2>1
    <2> DEFINE z == (n - 1) * base
               t == T[A]
    <2>3. z = Y - b /\ sum = (t + Y) + X /\ t \in Int
        BY <2>1, <2>2
    <2> HIDE DEF X, z, t
    <2>4. sum - z = X + (b + t)
        BY <2>1, <2>2, <2>3
    <2>5. QED BY <2>4 DEF X, z, t
<1>10. (Modulus * q + (b + T[A])) % Modulus = (b + T[A]) % Modulus
    <2>1. b + T[A] \in Int
        BY <1>0, <1>6
    <2>2. QED BY <1>0, <2>1, ModShift
<1>11. SumOfCopies(k, c, junk) = (sum - (n - 1) * base) % Modulus
    BY <1>5
<1> HIDE DEF sum, base, n
<1>12. QED BY <1>4, <1>9, <1>10, <1>11

\* What the driver combines is what a single device would have computed.
LEMMA CombinedIsWhole ==
    ASSUME NEW k \in Kernels, Reducing(k), NEW g, Suits(k, g), NEW c \in Reduced(k), Have(k, g, c),
           NEW junk \in Val, local \in Contents,
           k.op = "sum" /\ (\E d, e \in Active(k) : d # e) => local[c] = g[c]
    PROVE  Combined(k, c, junk) = Whole(k, g)[c]
<1>1. k.op \in {"sum", "max", "min", "or"}
    BY LaunchTypes DEF Ops, Reducing
<1>2. CASE k.op = "sum"
    BY <1>2, SumIsWhole DEF Combined
<1>3. CASE k.op = "max"
    BY <1>3, MaxIsWhole DEF Combined
<1>4. CASE k.op = "min"
    BY <1>4, MinIsWhole DEF Combined
<1>5. CASE k.op = "or"
    BY <1>5, OrIsWhole DEF Combined
<1>6. QED BY <1>1, <1>2, <1>3, <1>4, <1>5

-----------------------------------------------------------------------------
(* The queues of a launch.                                                 *)

\* A queue with one command more at its head.
LEMMA ConsIs ==
    ASSUME NEW S, NEW x \in S, NEW s \in Seq(S)
    PROVE  /\ <<x>> \o s \in Seq(S) /\ <<x>> \o s # <<>>
           /\ Head(<<x>> \o s) = x /\ Tail(<<x>> \o s) = s
<1> DEFINE q == <<x>> \o s
<1>1. <<x>> \in Seq(S) /\ Len(<<x>>) = 1 /\ <<x>>[1] = x
    OBVIOUS
<1>2. /\ q \in Seq(S) /\ Len(q) = 1 + Len(s)
      /\ \A i \in 1 .. 1 + Len(s) : q[i] = IF i <= 1 THEN <<x>>[i] ELSE s[i - 1]
    BY <1>1, ConcatProperties
<1>3. Len(s) \in Nat
    OBVIOUS
<1> HIDE DEF q
<1>4. q # <<>> /\ q[1] = x
    BY <1>1, <1>2, <1>3
<1>5. Head(q) = x
    BY <1>2, <1>4
<1>6. /\ Tail(q) \in Seq(S) /\ Len(Tail(q)) = Len(s)
      /\ \A i \in 1 .. Len(s) : Tail(q)[i] = q[i + 1]
    <2>1. /\ Tail(q) \in Seq(S) /\ Len(Tail(q)) = Len(q) - 1
          /\ \A i \in 1 .. Len(Tail(q)) : Tail(q)[i] = q[i + 1]
        BY <1>2, <1>4, HeadTailProperties
    <2>2. QED BY <1>2, <1>3, <2>1
<1>7. \A i \in 1 .. Len(s) : Tail(q)[i] = s[i]
    BY <1>2, <1>3, <1>6
<1>8. Tail(q) = s
    BY <1>6, <1>7, SeqEqual
<1>9. QED BY <1>2, <1>4, <1>5, <1>8 DEF q

\* What the commands of a launch are.
Sends(C) == [op |-> "h2d", cells |-> C]
Runs(k)  == [op |-> "exec", k |-> k]
Saves(S) == [op |-> "toTmp", cells |-> S]

LEMMA Queues ==
    ASSUME NEW k, NEW d, NEW C
    PROVE  LET rest == ToTmp(k, d)
               runs == <<Runs(k)>> \o rest
               sends == <<Sends(C)>> \o runs
           IN  /\ runs # <<>> /\ Head(runs) = Runs(k) /\ Tail(runs) = rest
               /\ sends # <<>> /\ Head(sends) = Sends(C) /\ Tail(sends) = runs
               /\ rest # <<>> => /\ Reducing(k) /\ k.reg[d] # {}
                                 /\ Head(rest) = Saves(k.reg[d]) /\ Tail(rest) = <<>>
               /\ rest = <<>> => ~ Reducing(k) \/ k.reg[d] = {}
               /\ (<<Sends(C)>> \o <<Runs(k)>>) \o rest = sends
<1> DEFINE S == {Sends(C), Runs(k), Saves(k.reg[d])}
           rest == ToTmp(k, d)
           runs == <<Runs(k)>> \o rest
           sends == <<Sends(C)>> \o runs
<1>1. rest \in Seq(S)
    <2>1. rest = <<>> \/ rest = <<Saves(k.reg[d])>>
        BY DEF ToTmp, Command, Saves
    <2>2. Saves(k.reg[d]) \in S
        OBVIOUS
    <2> HIDE DEF S, rest
    <2>3. <<>> \in Seq(S) /\ <<Saves(k.reg[d])>> \in Seq(S)
        BY <2>2
    <2>4. QED BY <2>1, <2>3
<1>2. Runs(k) \in S /\ Sends(C) \in S
    OBVIOUS
<1> HIDE DEF S
<1>3. runs \in Seq(S) /\ runs # <<>> /\ Head(runs) = Runs(k) /\ Tail(runs) = rest
    BY <1>1, <1>2, ConsIs
<1>4. sends # <<>> /\ Head(sends) = Sends(C) /\ Tail(sends) = runs
    BY <1>2, <1>3, ConsIs
<1>5. (<<Sends(C)>> \o <<Runs(k)>>) \o rest = sends
    <2>1. <<Sends(C)>> \in Seq(S) /\ <<Runs(k)>> \in Seq(S)
        BY <1>2
    <2>2. QED BY <1>1, <2>1, ConcatAssociative
<1>6. rest # <<>> => /\ Reducing(k) /\ k.reg[d] # {}
                     /\ Head(rest) = Saves(k.reg[d]) /\ Tail(rest) = <<>>
    BY DEF ToTmp, Command, Saves
<1>7. rest = <<>> => ~ Reducing(k) \/ k.reg[d] = {}
    BY DEF ToTmp, Command
<1>8. QED BY <1>3, <1>4, <1>5, <1>6, <1>7

-----------------------------------------------------------------------------
(* The invariant: what the copies will hold once the queues are executed.  *)

Agrees(f, S, g) == \A c \in S : f[c] = g[c]

MemType ==
    /\ local \in Contents /\ gold \in Contents
    /\ dev \in [Dev -> Contents] /\ tmp \in [Dev -> Contents]
    /\ queue = [d \in Dev |-> queue[d]]

Settled ==
    call.pc = "idle" =>
        /\ Agrees(local, hostValid, gold)
        /\ \A d \in Dev : Agrees(dev[d], devValid[d], gold)

\* What d has not given to the host yet.
Coming(d) == IF queue[d] = <<>> THEN {} ELSE Head(queue[d]).cells

\* The transfers to the host.
Bringing(k, sent) ==
    /\ Suits(k, gold)
    /\ \A d \in Dev : /\ k.reg[d] \subseteq devValid[d] \cup sent[d]
                      /\ Agrees(dev[d], devValid[d], gold)
                      /\ queue[d] = Command("d2h", Coming(d)) /\ Coming(d) \subseteq devValid[d]
    /\ \A c \in hostValid : local[c] = gold[c] \/ \E d \in Dev : c \in Coming(d)

\* How far d is with the launch k on the contents g: it has to receive C, to
\* run the subkernel, to save the region, or it is through.
Receives(k, g, d, C) ==
    /\ queue[d] = <<Sends(C)>> \o (<<Runs(k)>> \o ToTmp(k, d))
    /\ Agrees(local, C, g) /\ Agrees(dev[d], devValid[d] \ C, g)

Starts(k, g, d) ==
    /\ queue[d] = <<Runs(k)>> \o ToTmp(k, d)
    /\ Agrees(dev[d], devValid[d], g)

Ends(k, g, d) ==
    /\ queue[d] = ToTmp(k, d) /\ queue[d] # <<>>
    /\ Agrees(dev[d], devValid[d], SubKernel(k, d, g))

Through(k, g, d) ==
    /\ queue[d] = <<>>
    /\ Agrees(dev[d], devValid[d], SubKernel(k, d, g))
    /\ Reducing(k) => Agrees(tmp[d], k.reg[d], SubKernel(k, d, g))

Stage(k, g, d) ==
    \/ \E C \in SUBSET Elem : Receives(k, g, d, C)
    \/ Starts(k, g, d)
    \/ Ends(k, g, d)
    \/ Through(k, g, d)

\* A region that is simply written is valid where it is written only.
Exclusive(k) ==
    ~ Reducing(k) => /\ \A d \in Dev : hostValid \cap k.reg[d] = {}
                     /\ \A d, e \in Dev : d # e => devValid[d] \cap k.reg[e] = {}

Running(k, g) ==
    /\ Suits(k, g) /\ gold = Whole(k, g)
    /\ Agrees(local, hostValid, g)
    /\ Exclusive(k)
    /\ \A d \in Dev : k.reg[d] \subseteq devValid[d] /\ Stage(k, g, d)

ExactInv ==
    /\ MemType /\ Settled
    /\ call.pc = "d2h" => Bringing(call.k, call.h2d)
    /\ call.pc = "reduce" => \E g \in Contents : Running(call.k, g)

-----------------------------------------------------------------------------
\* Nothing is valid yet.
LEMMA InitExact == Init => ExactInv
<1> SUFFICES ASSUME Init PROVE ExactInv
    OBVIOUS
<1>1. Constantly(NoVal) \in Contents
    BY DEF Constantly, Contents
<1>2. MemType
    BY <1>1 DEF Init, MemType
<1>3. QED BY <1>2 DEF Init, ExactInv, Settled, Agrees, Idle

\* A write leaves valid copies of what it writes.
LEMMA WriteExact ==
    ASSUME ExactInv, IInv, NEW S \in SUBSET Elem, NEW v \in Inputs, WriteDelayed(S, v) \/ WriteThrough(S, v)
    PROVE  ExactInv'
<1> DEFINE over(f) == Overlay(f, S, Constantly(v))
<1>0. call = Idle /\ call.pc = "idle" /\ call' = call /\ v \in Val
    BY ValuesAssumption DEF WriteDelayed, WriteThrough, Idle
<1>1. ASSUME NEW f \in Contents PROVE over(f) \in Contents
    BY <1>0 DEF Overlay, Constantly, Contents
<1>2. /\ tmp' = tmp /\ queue' = queue /\ MemType
      /\ gold' = over(gold) /\ gold \in Contents /\ local \in Contents /\ dev \in [Dev -> Contents]
      /\ hostValid \subseteq Elem /\ devValid \in [Dev -> SUBSET Elem]
      /\ Agrees(local, hostValid, gold) /\ \A d \in Dev : Agrees(dev[d], devValid[d], gold)
    BY <1>0 DEF WriteDelayed, WriteThrough, ExactInv, MemType, Settled, IInv, DirType
<1>3. CASE WriteDelayed(S, v)
    <2>1. /\ local' = over(local) /\ dev' = dev /\ hostValid' = hostValid \cup S
          /\ devValid' = [d \in Dev |-> devValid[d] \ S]
        BY <1>3 DEF WriteDelayed
    <2>2. MemType'
        BY <1>1, <1>2, <2>1 DEF MemType
    <2>3. Agrees(local', hostValid', gold')
        BY <1>2, <2>1 DEF Agrees, Overlay, Constantly
    <2>4. ASSUME NEW d \in Dev PROVE Agrees(dev'[d], devValid'[d], gold')
        BY <1>2, <2>1 DEF Agrees, Overlay, Constantly
    <2>5. QED BY <1>0, <2>2, <2>3, <2>4 DEF ExactInv, Settled
<1>4. CASE WriteThrough(S, v)
    <2>1. /\ local' = local /\ dev' = [d \in Dev |-> over(dev[d])] /\ hostValid' = hostValid \ S
          /\ devValid' = [d \in Dev |-> devValid[d] \cup S]
        BY <1>4 DEF WriteThrough
    <2>2. MemType'
        BY <1>1, <1>2, <2>1 DEF MemType
    <2>3. Agrees(local', hostValid', gold')
        BY <1>2, <2>1 DEF Agrees, Overlay, Constantly
    <2>4. ASSUME NEW d \in Dev PROVE Agrees(dev'[d], devValid'[d], gold')
        BY <1>2, <2>1 DEF Agrees, Overlay, Constantly
    <2>5. QED BY <1>0, <2>2, <2>3, <2>4 DEF ExactInv, Settled
<1>5. QED BY <1>3, <1>4

\* What a device misses is on the host already, or another device brings it.
LEMMA MissingIsSent ==
    ASSUME IInv, NEW k \in Kernels, Start(k), NEW d \in Dev
    PROVE  k.reg[d] \subseteq devValid[d] \cup H2D(k, d)
<1> SUFFICES ASSUME NEW c \in DeviceMissing(k, d), c \in HostMissing(k, d)
             PROVE  \E d2 \in Dev : c \in Brought(k, d, d2)
    BY DEF H2D, DeviceMissing
<1>1. c \in Elem /\ c \notin hostValid /\ c \notin devValid[d]
    BY LaunchFields DEF DeviceMissing, HostMissing
<1>2. gold[c] # NoVal
    BY <1>1 DEF Start, Undefined, DeviceMissing
<1> DEFINE T == {e \in Dev : c \in devValid[e]}
<1>3. T # {} /\ T \in SUBSET Nat
    BY <1>1, <1>2 DEF IInv, NothingLost, ValidSomewhere, Dev
<1>4. PICK d2 \in T : \A e \in T : d2 <= e
    BY <1>3, Least
<1>5. ASSUME NEW e \in Dev, e < d2 PROVE c \notin devValid[e]
    BY <1>4, <1>5 DEF Dev
<1>6. d2 # d /\ d2 \in Dev /\ c \in devValid[d2]
    BY <1>1, <1>4
<1>7. QED BY <1>5, <1>6 DEF Brought

\* computeTransfers leaves the devices what they need, on its way.
LEMMA StartExact ==
    ASSUME ExactInv, IInv, QueueInv, NEW k \in Kernels, Start(k)
    PROVE  ExactInv'
<1>0. /\ call.pc = "idle"
      /\ queue' = [d \in Dev |-> queue[d] \o Command("d2h", D2H(k, d))]
      /\ hostValid' = hostValid \cup UNION {D2H(k, d) : d \in Dev}
      /\ call'.pc = "d2h" /\ call'.k = k /\ call'.h2d = [d \in Dev |-> H2D(k, d)]
      /\ local' = local /\ dev' = dev /\ devValid' = devValid /\ gold' = gold
    BY DEF Start, Idle
<1>1. MemType /\ Agrees(local, hostValid, gold) /\ \A d \in Dev : Agrees(dev[d], devValid[d], gold)
    BY <1>0 DEF ExactInv, Settled
<1>2. MemType'
    <2>1. tmp' = tmp /\ queue' = [d \in Dev |-> queue'[d]]
        BY <1>0 DEF Start
    <2>2. QED BY <1>0, <1>1, <2>1 DEF MemType
<1>3. Suits(k, gold)
    <2>1. \A d \in Dev : \A c \in k.reg[d] : c \in Elem /\ c \notin Undefined
        BY LaunchFields DEF Start
    <2>2. \A d \in Dev : \A c \in k.reg[d] : gold[c] \in Val
        BY <1>1, <2>1 DEF Undefined, MemType, Contents
    <2>3. QED BY <1>1, <2>2 DEF Start, Suits, MemType
<1>4. ASSUME NEW d \in Dev PROVE queue'[d] = Command("d2h", D2H(k, d)) /\ Coming(d)' = D2H(k, d)
    <2>1. queue[d] = <<>>
        BY <1>0 DEF QueueInv, Drained
    <2>2. queue'[d] = Command("d2h", D2H(k, d))
        <3>1. queue'[d] = <<>> \o Command("d2h", D2H(k, d))
            BY <1>0, <2>1
        <3>2. QED BY <3>1 DEF Command
    <2>3. QED BY <2>2 DEF Coming, Command
<1>5. \A d \in Dev : D2H(k, d) \subseteq devValid[d]
    BY DEF D2H, Brought
<1>6. \A d \in Dev : k.reg[d] \subseteq devValid[d] \cup H2D(k, d)
    BY MissingIsSent
<1>7. Bringing(k, call.h2d)'
    <2>1. Suits(k, gold)'
        BY <1>0, <1>3 DEF Suits, FlagsOnly
    <2>2. \A c \in hostValid' : local'[c] = gold'[c] \/ \E d \in Dev : c \in Coming(d)'
        BY <1>0, <1>1, <1>4 DEF Agrees
    <2>3. ASSUME NEW d \in Dev
          PROVE  /\ k.reg[d] \subseteq devValid'[d] \cup call'.h2d[d]
                 /\ Agrees(dev'[d], devValid'[d], gold')
                 /\ queue'[d] = Command("d2h", Coming(d)') /\ Coming(d)' \subseteq devValid'[d]
        BY <1>0, <1>1, <1>4, <1>5, <1>6
    <2>4. QED BY <2>1, <2>2, <2>3 DEF Bringing
<1>8. Bringing(call.k, call.h2d)'
    BY <1>0, <1>7, Zenon
<1>9. QED BY <1>0, <1>2, <1>8 DEF ExactInv, Settled

\* The commands of a launch for d, when it has to receive C.
AllOf(k, d, C) == <<>> \o Command("h2d", C) \o Exec(k, d) \o ToTmp(k, d)

LEMMA QueueOfLaunch ==
    ASSUME NEW k \in Kernels, NEW d \in Dev, NEW C, C \subseteq k.reg[d],
           NEW q, q = AllOf(k, d, C)
    PROVE  \/ C # {} /\ q = <<Sends(C)>> \o (<<Runs(k)>> \o ToTmp(k, d))
           \/ C = {} /\ q = <<Runs(k)>> \o ToTmp(k, d)
           \/ k.reg[d] = {} /\ q = <<>>
<1> DEFINE rest == ToTmp(k, d)
<1>1. q = ((<<>> \o Command("h2d", C)) \o Exec(k, d)) \o rest
    BY DEF AllOf
<1>2. /\ <<>> \o <<Sends(C)>> = <<Sends(C)>> /\ <<>> \o <<Runs(k)>> = <<Runs(k)>>
      /\ <<>> \o <<>> = <<>>
    OBVIOUS
<1>3. d \in Active(k) <=> k.reg[d] # {}
    BY LaunchTypes DEF Active
<1>4. CASE d \in Active(k) /\ C # {}
    <2>1. Exec(k, d) = <<Runs(k)>> /\ Command("h2d", C) = <<Sends(C)>>
        BY <1>4 DEF Exec, Command, Sends, Runs
    <2>2. q = (<<Sends(C)>> \o <<Runs(k)>>) \o rest
        BY <1>1, <1>2, <2>1, Zenon
    <2>3. q = <<Sends(C)>> \o (<<Runs(k)>> \o rest)
        BY <2>2, Queues
    <2>4. QED BY <1>4, <2>3
<1>5. CASE d \in Active(k) /\ C = {}
    <2>1. Exec(k, d) = <<Runs(k)>> /\ Command("h2d", C) = <<>>
        BY <1>5 DEF Exec, Command, Runs
    <2>2. q = <<Runs(k)>> \o rest
        BY <1>1, <1>2, <2>1, Zenon
    <2>3. QED BY <1>5, <2>2
<1>6. CASE d \notin Active(k)
    <2>1. k.reg[d] = {} /\ C = {}
        BY <1>3, <1>6
    <2>2. Exec(k, d) = <<>> /\ Command("h2d", C) = <<>> /\ rest = <<>>
        BY <1>6, <2>1 DEF Exec, Command, ToTmp
    <2> HIDE DEF rest
    <2>3. q = <<>>
        BY <1>1, <1>2, <2>2, Zenon
    <2>4. QED BY <2>1, <2>3
<1>7. QED BY <1>4, <1>5, <1>6

\* The subkernels are queued: each device has to receive, run, save.
LEMMA EnqueueExact ==
    ASSUME BarrierAfterLaunch, ExactInv, IInv, QueueInv, Enqueue,
           NEW k, k = call.k, NEW g, g = gold, NEW h2d, h2d = call.h2d
    PROVE  ExactInv'
<1> DEFINE sent(d) == devValid[d] \cup h2d[d]
<1>0. /\ call.pc = "d2h" /\ k \in Kernels
      /\ queue' = [d \in Dev |-> queue[d] \o Command("h2d", h2d[d]) \o Exec(k, d) \o ToTmp(k, d)]
      /\ devValid' = [d \in Dev |-> AfterWritten(k, sent(d), d)]
      /\ hostValid' = HostAfterWritten(k)
      /\ call'.pc = "reduce" /\ call'.k = k
      /\ gold' = Whole(k, g) /\ local' = local /\ dev' = dev /\ tmp' = tmp
    BY DEF Enqueue, IInv, DirType
<1>1. /\ hostValid \subseteq Elem
      /\ MemType /\ Suits(k, g)
      /\ \A d \in Dev : /\ k.reg[d] \subseteq sent(d)
                        /\ Agrees(dev[d], devValid[d], g)
                        /\ h2d[d] \subseteq k.reg[d] /\ h2d[d] \subseteq hostValid
    BY <1>0 DEF ExactInv, Bringing, IInv, Prepared, DirType
<1>2. \A d \in Dev : queue[d] = <<>>
    BY <1>0 DEF Enqueue, QueueInv, Drained
<1>3. Agrees(local, hostValid, g)
    <2>1. \A d \in Dev : Coming(d) = {}
        BY <1>2 DEF Coming
    <2>2. QED BY <1>0, <2>1 DEF ExactInv, Bringing, Agrees
<1>4. MemType'
    <2>1. Whole(k, g) \in Contents
        BY <1>0, <1>1, WholeTypes DEF Suits
    <2>2. queue' = [d \in Dev |-> queue'[d]]
        BY <1>0
    <2>3. QED BY <1>0, <1>1, <2>1, <2>2 DEF MemType
<1>5. Exclusive(k)'
    <2>1. ASSUME ~ Reducing(k), NEW d \in Dev PROVE hostValid' \cap k.reg[d] = {}
        BY <1>0, <2>1 DEF HostAfterWritten
    <2>2. ASSUME ~ Reducing(k), NEW d \in Dev, NEW e \in Dev, d # e
          PROVE  devValid'[d] \cap k.reg[e] = {}
        <3>1. devValid'[d] = (sent(d) \ UNION {k.reg[f] : f \in Dev \ {d}}) \cup k.reg[d]
            BY <1>0, <2>2 DEF AfterWritten
        <3>2. k.reg[d] \cap k.reg[e] = {}
            BY <1>0, <2>2, LaunchFields
        <3>3. QED BY <2>2, <3>1, <3>2
    <2>3. QED BY <2>1, <2>2 DEF Exclusive
<1>6. ASSUME NEW d \in Dev
      PROVE  k.reg[d] \subseteq devValid'[d] /\ Stage(k, g, d)'
    <2> DEFINE C == h2d[d]
    <2>1. k.reg[d] \subseteq devValid'[d] /\ devValid'[d] \subseteq sent(d)
        BY <1>0, <1>1 DEF AfterWritten
    <2>2. queue'[d] = AllOf(k, d, C)
        BY <1>0, <1>2 DEF AllOf
    <2>3. C \subseteq k.reg[d] /\ C \in SUBSET Elem /\ Agrees(local', C, g)
        BY <1>0, <1>1, <1>3 DEF Agrees
    <2>4. Agrees(dev'[d], devValid'[d] \ C, g)
        BY <1>0, <1>1, <2>1 DEF Agrees
    <2>5. CASE C # {} /\ queue'[d] = <<Sends(C)>> \o (<<Runs(k)>> \o ToTmp(k, d))
        <3>1. Receives(k, g, d, C)'
            BY <2>3, <2>4, <2>5 DEF Receives
        <3>2. QED BY <2>1, <2>3, <3>1 DEF Stage
    <2>6. CASE C = {} /\ queue'[d] = <<Runs(k)>> \o ToTmp(k, d)
        <3>1. Starts(k, g, d)'
            BY <2>4, <2>6 DEF Starts
        <3>2. QED BY <2>1, <3>1 DEF Stage
    <2>7. CASE k.reg[d] = {} /\ queue'[d] = <<>>
        <3>1. C = {} /\ devValid'[d] \subseteq Elem
            BY <2>1, <2>3, <2>7 DEF IInv, DirType
        <3>2. \A c \in Elem : SubKernel(k, d, g)[c] = g[c]
            BY <1>0, <2>7, LaunchTypes DEF SubKernel
        <3>3. Agrees(dev'[d], devValid'[d], SubKernel(k, d, g))
            BY <2>4, <3>1, <3>2 DEF Agrees
        <3>4. Through(k, g, d)'
            BY <2>7, <3>3 DEF Through, Agrees
        <3>5. QED BY <2>1, <3>4 DEF Stage
    <2>8. \/ C # {} /\ queue'[d] = <<Sends(C)>> \o (<<Runs(k)>> \o ToTmp(k, d))
          \/ C = {} /\ queue'[d] = <<Runs(k)>> \o ToTmp(k, d)
          \/ k.reg[d] = {} /\ queue'[d] = <<>>
        <3>1. C \subseteq k.reg[d] /\ k \in Kernels
            BY <1>0, <2>3
        <3> HIDE DEF C
        <3>2. QED BY <2>2, <3>1, QueueOfLaunch
    <2>9. QED BY <2>5, <2>6, <2>7, <2>8
<1>7. Running(k, g)'
    <2>1. Suits(k, g)' /\ gold' = Whole(k, g) /\ Agrees(local', hostValid', g)
        BY <1>0, <1>1, <1>3 DEF Suits, FlagsOnly, Agrees, HostAfterWritten
    <2>2. QED BY <1>5, <1>6, <2>1 DEF Running
<1>8. (\E f \in Contents : Running(call.k, f))'
    <2>1. g \in Contents
        BY <1>1 DEF Suits
    <2>2. QED BY <1>0, <1>7, <2>1, Zenon
<1>9. QED BY <1>0, <1>4, <1>8 DEF ExactInv, Settled

\* A device that does nothing stays where it is.
LEMMA StageStays ==
    ASSUME NEW k, NEW g, NEW d, Stage(k, g, d),
           queue'[d] = queue[d], dev'[d] = dev[d], devValid'[d] = devValid[d], tmp'[d] = tmp[d],
           \A C \in SUBSET Elem : Receives(k, g, d, C) => local' = local
    PROVE  Stage(k, g, d)'
<1>1. ASSUME NEW C \in SUBSET Elem, Receives(k, g, d, C) PROVE Receives(k, g, d, C)'
    BY <1>1 DEF Receives, Agrees
<1>2. Starts(k, g, d) => Starts(k, g, d)'
    BY DEF Starts, Agrees
<1>3. Ends(k, g, d) => Ends(k, g, d)'
    BY DEF Ends, Agrees
<1>4. Through(k, g, d) => Through(k, g, d)'
    BY DEF Through, Agrees
<1>5. QED BY <1>1, <1>2, <1>3, <1>4 DEF Stage

\* The subkernel makes of an element what the element was before.
LEMMA SubKernelLocal ==
    ASSUME NEW k, NEW d, NEW c \in Elem, NEW f, NEW g, f[c] = g[c]
    PROVE  SubKernel(k, d, f)[c] = SubKernel(k, d, g)[c]
BY DEF SubKernel

\* One step of a device within a launch.
LEMMA StageMoves ==
    ASSUME NEW k \in Kernels, NEW g, Suits(k, g), NEW d \in Dev, k.reg[d] \subseteq devValid[d],
           devValid[d] \subseteq Elem, Stage(k, g, d), Execute(d), MemType
    PROVE  Stage(k, g, d)' /\ local' = local /\ dev'[d] \in Contents
<1> DEFINE rest == ToTmp(k, d)
           cmd == Head(queue[d])
<1>0. /\ queue[d] # <<>> /\ devValid' = devValid
      /\ \/ cmd.op = "d2h" /\ local' = Overlay(local, cmd.cells, dev[d])
                           /\ UNCHANGED <<dev, tmp>>
         \/ cmd.op = "h2d" /\ dev' = [dev EXCEPT ![d] = Overlay(@, cmd.cells, local)]
                           /\ UNCHANGED <<local, tmp>>
         \/ cmd.op = "exec" /\ dev' = [dev EXCEPT ![d] = SubKernel(cmd.k, d, @)]
                            /\ UNCHANGED <<local, tmp>>
         \/ cmd.op = "toTmp" /\ tmp' = [tmp EXCEPT ![d] = Overlay(@, cmd.cells, dev[d])]
                             /\ UNCHANGED <<local, dev>>
    BY DEF Execute
<1>1. queue'[d] = Tail(queue[d])
    BY DEF Execute, MemType
<1>2. dev[d] \in Contents /\ local \in Contents /\ dev \in [Dev -> Contents]
    BY DEF MemType
<1>3. ASSUME NEW C \in SUBSET Elem, Receives(k, g, d, C)
      PROVE  Stage(k, g, d)' /\ local' = local /\ dev'[d] \in Contents
    <2>1. cmd = Sends(C) /\ queue'[d] = <<Runs(k)>> \o rest
        BY <1>1, <1>3, Queues DEF Receives
    <2>2. cmd.op = "h2d" /\ cmd.cells = C
        BY <2>1 DEF Sends
    <2>3. dev'[d] = Overlay(dev[d], C, local) /\ local' = local
        BY <1>0, <1>2, <2>2
    <2>4. dev'[d] \in Contents
        BY <1>2, <2>3 DEF Overlay, Contents
    <2>5. Agrees(dev'[d], devValid'[d], g)
        BY <1>0, <1>3, <2>3 DEF Receives, Agrees, Overlay
    <2>6. Starts(k, g, d)'
        BY <2>1, <2>5 DEF Starts
    <2>7. QED BY <2>3, <2>4, <2>6 DEF Stage
<1>4. CASE Starts(k, g, d)
    <2>1. cmd = Runs(k) /\ queue'[d] = rest
        BY <1>1, <1>4, Queues DEF Starts
    <2>2. cmd.op = "exec" /\ cmd.k = k
        BY <2>1 DEF Runs
    <2>3. dev'[d] = SubKernel(k, d, dev[d]) /\ local' = local /\ tmp' = tmp
        BY <1>0, <1>2, <2>2
    <2>4. Agrees(dev'[d], devValid'[d], SubKernel(k, d, g))
        <3>1. ASSUME NEW c \in devValid'[d] PROVE dev'[d][c] = SubKernel(k, d, g)[c]
            <4>1. c \in Elem /\ dev[d][c] = g[c]
                BY <1>0, <1>4 DEF Starts, Agrees
            <4>2. SubKernel(k, d, dev[d])[c] = SubKernel(k, d, g)[c]
                BY <4>1, SubKernelLocal
            <4>3. QED BY <2>3, <4>2
        <3>2. QED BY <3>1 DEF Agrees
    <2>5. dev'[d] \in Contents
        <3>1. ASSUME NEW c \in Elem PROVE SubKernel(k, d, dev[d])[c] \in Val \cup {NoVal}
            <4>1. CASE c \in k.upd[d]
                <5>1. c \in k.reg[d] /\ dev[d][c] = g[c]
                    BY <1>4, <4>1, LaunchTypes DEF Starts, Agrees
                <5>2. SubKernel(k, d, dev[d])[c] = SubKernel(k, d, g)[c]
                    BY <5>1, SubKernelLocal
                <5>3. QED BY <5>1, <5>2, SubKernelTypes
            <4>2. CASE c \notin k.upd[d]
                BY <1>2, <4>2 DEF SubKernel, Contents
            <4>3. QED BY <4>1, <4>2
        <3>2. SubKernel(k, d, dev[d]) = [c \in Elem |-> SubKernel(k, d, dev[d])[c]]
            BY DEF SubKernel
        <3>3. QED BY <2>3, <3>1, <3>2 DEF Contents
    <2>6. CASE rest # <<>>
        <3>1. Ends(k, g, d)'
            BY <2>1, <2>4, <2>6 DEF Ends
        <3>2. QED BY <2>3, <2>5, <3>1 DEF Stage
    <2>7. CASE rest = <<>>
        <3>1. ~ Reducing(k) \/ k.reg[d] = {}
            BY <2>7, Queues
        <3>2. Through(k, g, d)'
            BY <2>1, <2>4, <2>7, <3>1 DEF Through, Agrees
        <3>3. QED BY <2>3, <2>5, <3>2 DEF Stage
    <2>8. QED BY <2>6, <2>7
<1>5. CASE Ends(k, g, d)
    <2>1. rest # <<>> /\ queue[d] = rest
        BY <1>5 DEF Ends
    <2>2. cmd = Saves(k.reg[d]) /\ queue'[d] = <<>>
        BY <1>1, <2>1, Queues
    <2>3. cmd.op = "toTmp" /\ cmd.cells = k.reg[d]
        BY <2>2 DEF Saves
    <2>4. tmp' = [tmp EXCEPT ![d] = Overlay(tmp[d], k.reg[d], dev[d])] /\ local' = local /\ dev' = dev
        BY <1>0, <2>3
    <2>5. Agrees(dev'[d], devValid'[d], SubKernel(k, d, g))
        BY <1>0, <1>5, <2>4 DEF Ends
    <2>6. tmp'[d] = Overlay(tmp[d], k.reg[d], dev[d])
        BY <2>4 DEF MemType
    <2>7. Agrees(tmp'[d], k.reg[d], SubKernel(k, d, g))
        BY <1>5, <2>6 DEF Ends, Agrees, Overlay
    <2>8. Through(k, g, d)'
        BY <2>2, <2>5, <2>7 DEF Through
    <2>9. QED BY <1>2, <2>4, <2>8 DEF Stage
<1>6. CASE Through(k, g, d)
    BY <1>0, <1>6 DEF Through
<1>7. QED BY <1>3, <1>4, <1>5, <1>6 DEF Stage

\* A step of a device.
LEMMA ExecuteExact ==
    ASSUME ExactInv, IInv, QueueInv, NEW d \in Dev, Execute(d),
           NEW k, k = call.k, NEW h2d, h2d = call.h2d
    PROVE  ExactInv'
<1>0. /\ hostValid' = hostValid /\ devValid' = devValid /\ call' = call /\ gold' = gold
      /\ queue[d] # <<>> /\ queue' = [queue EXCEPT ![d] = Tail(@)] /\ MemType
      /\ call.pc # "idle" => k \in Kernels
      /\ devValid \in [Dev -> SUBSET Elem]
    BY DEF Execute, ExactInv, IInv, DirType
<1>1. call.pc # "idle"
    BY <1>0 DEF QueueInv, Drained
<1>2. /\ \A e \in Dev \ {d} : queue'[e] = queue[e] /\ dev'[e] = dev[e] /\ tmp'[e] = tmp[e]
      /\ queue'[d] = Tail(queue[d]) /\ queue' = [e \in Dev |-> queue'[e]]
    <2>1. queue' = [e \in Dev |-> queue'[e]] /\ queue'[d] = Tail(queue[d])
        BY <1>0 DEF MemType
    <2>2. ASSUME NEW e \in Dev \ {d} PROVE queue'[e] = queue[e] /\ dev'[e] = dev[e] /\ tmp'[e] = tmp[e]
        BY <1>0 DEF Execute, MemType
    <2>3. QED BY <2>1, <2>2
<1>3. CASE call.pc = "d2h"
    <2>1. /\ Suits(k, gold)
          /\ \A e \in Dev : /\ k.reg[e] \subseteq devValid[e] \cup h2d[e]
                            /\ Agrees(dev[e], devValid[e], gold)
                            /\ queue[e] = Command("d2h", Coming(e)) /\ Coming(e) \subseteq devValid[e]
          /\ \A c \in hostValid : local[c] = gold[c] \/ \E e \in Dev : c \in Coming(e)
        BY <1>3 DEF ExactInv, Bringing
    <2> DEFINE C == Coming(d)
    <2>2. queue[d] = <<[op |-> "d2h", cells |-> C]>>
        BY <1>0, <2>1 DEF Command
    <2>3. Head(queue[d]).op = "d2h" /\ Head(queue[d]).cells = C /\ queue'[d] = <<>>
        <3> HIDE DEF C
        <3>1. QED BY <1>2, <2>2
    <2>4. local' = Overlay(local, C, dev[d]) /\ dev' = dev /\ tmp' = tmp
        BY <2>3 DEF Execute
    <2>5. \A e \in Dev : Coming(e)' = IF e = d THEN {} ELSE Coming(e)
        BY <1>2, <2>3 DEF Coming
    <2>6. C \subseteq devValid[d] /\ C \subseteq Elem
        BY <1>0, <2>1
    <2>7. MemType'
        <3>1. dev[d] \in Contents /\ local \in Contents
            BY <1>0 DEF MemType
        <3> HIDE DEF C
        <3>2. Overlay(local, C, dev[d]) \in Contents
            BY <3>1 DEF Overlay, Contents
        <3>3. QED BY <1>0, <1>2, <2>4, <3>2 DEF MemType
    <2>8. ASSUME NEW c \in hostValid' PROVE local'[c] = gold'[c] \/ \E e \in Dev : c \in Coming(e)'
        <3>1. c \in Elem
            BY <1>0, <2>8 DEF IInv, DirType
        <3>2. CASE c \in C
            <4>1. local'[c] = dev[d][c]
                BY <2>4, <3>1, <3>2 DEF Overlay
            <4>2. QED BY <1>0, <2>1, <2>6, <3>2, <4>1 DEF Agrees
        <3>3. CASE c \notin C
            <4>1. local'[c] = local[c]
                BY <2>4, <3>1, <3>3 DEF Overlay
            <4>2. CASE local[c] = gold[c]
                BY <1>0, <4>1, <4>2
            <4>3. CASE \E e \in Dev : c \in Coming(e)
                BY <2>5, <3>3, <4>3
            <4>4. QED BY <1>0, <2>1, <4>2, <4>3
        <3>4. QED BY <3>2, <3>3
    <2>9. ASSUME NEW e \in Dev
          PROVE  /\ k.reg[e] \subseteq devValid'[e] \cup h2d[e]
                 /\ Agrees(dev'[e], devValid'[e], gold')
                 /\ queue'[e] = Command("d2h", Coming(e)') /\ Coming(e)' \subseteq devValid'[e]
        <3>1. CASE e = d
            BY <1>0, <2>1, <2>3, <2>4, <2>5, <3>1 DEF Command
        <3>2. CASE e # d
            BY <1>0, <1>2, <2>1, <2>4, <2>5, <3>2
        <3>3. QED BY <3>1, <3>2
    <2>10. Suits(k, gold)'
        BY <1>0, <2>1 DEF Suits, FlagsOnly
    <2>11. Bringing(k, h2d)'
        BY <2>8, <2>9, <2>10 DEF Bringing
    <2>12. Bringing(call.k, call.h2d)'
        BY <1>0, <2>11, Zenon
    <2>13. QED BY <1>0, <1>3, <2>7, <2>12 DEF ExactInv, Settled
<1>4. CASE call.pc = "reduce"
    <2>1. PICK g \in Contents : Running(k, g)
        BY <1>4 DEF ExactInv
    <2>2. /\ Suits(k, g) /\ gold = Whole(k, g) /\ Agrees(local, hostValid, g) /\ Exclusive(k)
          /\ \A e \in Dev : k.reg[e] \subseteq devValid[e] /\ Stage(k, g, e)
        BY <2>1 DEF Running
    <2>3. Stage(k, g, d)' /\ local' = local /\ dev'[d] \in Contents
        BY <1>0, <1>1, <2>2, StageMoves
    <2>4. ASSUME NEW e \in Dev PROVE k.reg[e] \subseteq devValid'[e] /\ Stage(k, g, e)'
        <3>1. CASE e = d
            BY <1>0, <2>2, <2>3, <3>1
        <3>2. CASE e # d
            <4>1. /\ queue'[e] = queue[e] /\ dev'[e] = dev[e] /\ tmp'[e] = tmp[e]
                  /\ devValid'[e] = devValid[e] /\ Stage(k, g, e)
                BY <1>0, <1>2, <2>2, <3>2
            <4>2. Stage(k, g, e)'
                BY <2>3, <4>1, StageStays
            <4>3. QED BY <1>0, <2>2, <4>2
        <3>3. QED BY <3>1, <3>2
    <2>5. MemType'
        <3>1. dev \in [Dev -> Contents] /\ tmp \in [Dev -> Contents]
            BY <1>0 DEF MemType
        <3>2. dev' \in [Dev -> Contents]
            <4>1. dev' = dev \/ \E f : dev' = [dev EXCEPT ![d] = f]
                BY DEF Execute
            <4>2. QED BY <2>3, <3>1, <4>1
        <3>3. tmp' \in [Dev -> Contents]
            <4>1. tmp' = tmp \/ tmp' = [tmp EXCEPT ![d] = Overlay(tmp[d], Head(queue[d]).cells, dev[d])]
                BY DEF Execute
            <4>2. Overlay(tmp[d], Head(queue[d]).cells, dev[d]) \in Contents
                <5>1. tmp[d] \in Contents /\ dev[d] \in Contents
                    BY <3>1
                <5>2. QED BY <5>1 DEF Overlay, Contents
            <4>3. QED BY <3>1, <4>1, <4>2
        <3>4. QED BY <1>0, <1>2, <2>3, <3>2, <3>3 DEF MemType
    <2>6. Running(k, g)'
        <3>1. gold' = Whole(k, g) /\ Agrees(local', hostValid', g)
            BY <1>0, <2>2, <2>3
        <3>2. Exclusive(k)'
            BY <1>0, <2>2 DEF Exclusive
        <3>3. Suits(k, g)'
            BY <2>2 DEF Suits, FlagsOnly
        <3>4. QED BY <2>4, <3>1, <3>2, <3>3 DEF Running
    <2>7. (\E f \in Contents : Running(call.k, f))'
        BY <1>0, <2>6, Zenon
    <2>8. QED BY <1>0, <1>4, <2>5, <2>7 DEF ExactInv, Settled
<1>5. QED BY <1>1, <1>3, <1>4 DEF IInv, DirType

-----------------------------------------------------------------------------
\* An element that is in no region keeps its contents, one that is simply
\* written gets what its subkernel writes.
LEMMA WholeIs ==
    ASSUME NEW k \in Kernels, NEW g, Suits(k, g), NEW c \in Elem
    PROVE  /\ (\A d \in Dev : c \notin k.reg[d]) =>
                 Whole(k, g)[c] = g[c] /\ \A d \in Dev : SubKernel(k, d, g)[c] = g[c]
           /\ ~ Reducing(k) => \A d \in Dev : c \in k.reg[d] => Whole(k, g)[c] = SubKernel(k, d, g)[c]
<1>1. ASSUME \A d \in Dev : c \notin k.upd[d]
      PROVE  Whole(k, g)[c] = g[c] /\ \A d \in Dev : SubKernel(k, d, g)[c] = g[c]
    BY <1>1 DEF Whole, SubKernel
<1>2. ASSUME ~ Reducing(k), NEW d \in Dev, c \in k.reg[d] PROVE Whole(k, g)[c] = SubKernel(k, d, g)[c]
    <2>1. \A e \in Dev : c \in k.upd[e] => e = d
        BY <1>2, LaunchFields
    <2>2. CASE c \in k.upd[d]
        <3>1. g \in Contents /\ g[c] \in Val
            BY <1>2 DEF Suits
        <3>2. Whole(k, g)[c] = Updated(k.op, g[c], k.val[d])
            BY <2>1, <2>2, <3>1, WholeSingle
        <3>3. QED BY <2>2, <3>2 DEF SubKernel
    <2>3. CASE c \notin k.upd[d]
        BY <1>1, <2>1, <2>3
    <2>4. QED BY <2>2, <2>3
<1>3. QED BY <1>1, <1>2, LaunchTypes

\* What the program has to see to: sums are split over several devices only with
\* option DELAYEDWRITE. Without it the host may miss their base (BaseIsOnHost).
SumsAreDelayed ==
    call.pc = "reduce" /\ Reducing(call.k) /\ call.k.op = "sum" => delayed

\* All devices are through: the copies are combined.
LEMMA ReduceExact ==
    ASSUME ExactInv, IInv, QueueInv, SumsAreDelayed, Reduce, NEW k, k = call.k
    PROVE  ExactInv'
<1>0. /\ call.pc = "reduce" /\ k \in Kernels /\ Drained(call.wait) /\ call.wait = Dev
      /\ hostValid' = hostValid \cup Reduced(k)
      /\ devValid' = [d \in Dev |-> devValid[d] \ Reduced(k)]
      /\ tmp' = [d \in Dev |-> Constantly(NoVal)]
      /\ call' = Idle /\ dev' = dev /\ queue' = queue /\ gold' = gold
      /\ MemType /\ hostValid \subseteq Elem /\ devValid \in [Dev -> SUBSET Elem]
    BY DEF Reduce, AfterReduction, IInv, DirType, QueueInv, ExactInv
<1>1. PICK junk \in Val :
         local' = [c \in Elem |-> IF c \in Reduced(k) THEN Combined(k, c, junk) ELSE local[c]]
    BY DEF Reduce
<1>2. PICK g \in Contents : Running(k, g)
    BY <1>0 DEF ExactInv
<1>3. /\ Suits(k, g) /\ gold = Whole(k, g) /\ Agrees(local, hostValid, g) /\ Exclusive(k)
      /\ \A d \in Dev : k.reg[d] \subseteq devValid[d] /\ Stage(k, g, d)
    BY <1>2 DEF Running
<1>4. \A d \in Dev : Through(k, g, d)
    <2> SUFFICES ASSUME NEW d \in Dev PROVE Through(k, g, d)
        OBVIOUS
    <2>1. queue[d] = <<>>
        BY <1>0 DEF Drained
    <2>2. \A C : ~ Receives(k, g, d, C)
        <3>1. \A C : <<Sends(C)>> \o (<<Runs(k)>> \o ToTmp(k, d)) # <<>>
            BY Queues
        <3>2. QED BY <2>1, <3>1, Zenon DEF Receives
    <2>3. ~ Starts(k, g, d)
        <3>1. <<Runs(k)>> \o ToTmp(k, d) # <<>>
            BY Queues
        <3>2. QED BY <2>1, <3>1, Zenon DEF Starts
    <2>4. ~ Ends(k, g, d)
        BY <2>1 DEF Ends
    <2>5. QED BY <1>3, <2>2, <2>3, <2>4 DEF Stage
<1>5. Active(k) \subseteq Dev /\ \A d \in Dev : k.reg[d] # {} => d \in Active(k)
    BY <1>0, LaunchTypes DEF Active
<1>6. \A c \in Reduced(k) : Reducing(k) /\ Active(k) # {}
    BY DEF Reduced
<1>7. ASSUME NEW c \in Reduced(k) PROVE Combined(k, c, junk) = gold[c]
    <2>1. Have(k, g, c)
        <3> SUFFICES ASSUME NEW d \in Active(k) PROVE tmp[d][c] = SubKernel(k, d, g)[c]
            BY DEF Have
        <3>1. c \in k.reg[d] /\ d \in Dev
            BY <1>0, <1>5, <1>6, <1>7, OneRegion
        <3>2. QED BY <1>4, <1>6, <1>7, <3>1 DEF Through, Agrees
    <2>2. ASSUME k.op = "sum", \E d, e \in Active(k) : d # e PROVE local[c] = g[c]
        <3>1. delayed
            BY <1>0, <1>6, <1>7, <2>2 DEF SumsAreDelayed
        <3>2. c \in hostValid
            BY <1>0, <1>7, <2>2, <3>1 DEF IInv, BaseIsOnHost
        <3>3. QED BY <1>3, <3>2 DEF Agrees
    <2>3. local \in Contents
        BY <1>0 DEF MemType
    <2>4. Combined(k, c, junk) = Whole(k, g)[c]
        BY <1>0, <1>3, <1>6, <1>7, <2>1, <2>2, <2>3, CombinedIsWhole
    <2>5. QED BY <1>3, <2>4
<1>8. ASSUME Reducing(k), NEW c, c \notin Reduced(k), NEW d \in Dev PROVE c \notin k.reg[d]
    BY <1>0, <1>5, <1>8, OneRegion
<1>9. Reduced(k) \subseteq Elem
    BY <1>0, ReducedInRegions
<1>10. ASSUME NEW c \in hostValid' PROVE local'[c] = gold'[c]
    <2>1. c \in Elem
        BY <1>0, <1>9, <1>10
    <2>2. CASE c \in Reduced(k)
        BY <1>0, <1>1, <1>7, <2>1, <2>2
    <2>3. CASE c \notin Reduced(k)
        <3>1. local'[c] = g[c]
            BY <1>0, <1>1, <1>3, <1>10, <2>1, <2>3 DEF Agrees
        <3>2. \A d \in Dev : c \notin k.reg[d]
            BY <1>0, <1>3, <1>8, <1>10, <2>3 DEF Exclusive
        <3>3. Whole(k, g)[c] = g[c]
            BY <1>0, <1>3, <2>1, <3>2, WholeIs
        <3>4. QED BY <1>0, <1>3, <3>1, <3>3
    <2>4. QED BY <2>2, <2>3
<1>11. ASSUME NEW d \in Dev, NEW c \in devValid'[d] PROVE dev'[d][c] = gold'[c]
    <2>1. c \in devValid[d] /\ c \notin Reduced(k) /\ c \in Elem
        BY <1>0, <1>11
    <2>2. dev'[d][c] = SubKernel(k, d, g)[c]
        BY <1>0, <1>4, <2>1 DEF Through, Agrees
    <2>3. CASE \A e \in Dev : c \notin k.reg[e]
        <3>1. Whole(k, g)[c] = g[c] /\ SubKernel(k, d, g)[c] = g[c]
            BY <1>0, <1>3, <2>1, <2>3, WholeIs
        <3>2. QED BY <1>0, <1>3, <2>2, <3>1
    <2>4. CASE \E e \in Dev : c \in k.reg[e]
        <3>1. ~ Reducing(k)
            BY <1>8, <2>1, <2>4
        <3>2. c \in k.reg[d]
            BY <1>3, <2>1, <2>4, <3>1 DEF Exclusive
        <3>3. Whole(k, g)[c] = SubKernel(k, d, g)[c]
            BY <1>0, <1>3, <2>1, <3>1, <3>2, WholeIs
        <3>4. QED BY <1>0, <1>3, <2>2, <3>3
    <2>5. QED BY <2>3, <2>4
<1>12. MemType'
    <2>1. local' \in Contents
        <3>1. \A c \in Elem : IF c \in Reduced(k) THEN Combined(k, c, junk) \in Val \cup {NoVal}
                                                  ELSE local[c] \in Val \cup {NoVal}
            BY <1>0, <1>7 DEF MemType, Contents
        <3>2. QED BY <1>1, <3>1 DEF Contents
    <2>2. Constantly(NoVal) \in Contents
        BY DEF Constantly, Contents
    <2>3. QED BY <1>0, <2>1, <2>2 DEF MemType
<1>13. QED BY <1>0, <1>10, <1>11, <1>12 DEF ExactInv, Settled, Agrees, Idle

LEMMA SameExact ==
    ASSUME ExactInv, UNCHANGED <<local, dev, hostValid, devValid, queue, tmp, call, gold>>
    PROVE  ExactInv'
<1>1. MemType'
    BY DEF ExactInv, MemType
<1>2. Settled'
    BY DEF ExactInv, Settled, Agrees
<1>3. ASSUME NEW k, NEW h2d, Bringing(k, h2d) PROVE Bringing(k, h2d)'
    <2>1. Suits(k, gold)'
        BY <1>3 DEF Bringing, Suits, FlagsOnly
    <2>2. \A d \in Dev : Coming(d)' = Coming(d)
        BY DEF Coming
    <2>3. QED BY <1>3, <2>1, <2>2 DEF Bringing, Agrees
<1>4. ASSUME NEW k, NEW g, Running(k, g) PROVE Running(k, g)'
    <2>1. Suits(k, g)' /\ Exclusive(k)'
        BY <1>4 DEF Running, Suits, FlagsOnly, Exclusive
    <2>2. \A d \in Dev : Stage(k, g, d)'
        BY <1>4, StageStays DEF Running
    <2>3. QED BY <1>4, <2>1, <2>2 DEF Running, Agrees
<1>5. (call.pc = "d2h" => Bringing(call.k, call.h2d))'
    <2> SUFFICES ASSUME call.pc = "d2h" PROVE Bringing(call.k, call.h2d)'
        OBVIOUS
    <2>1. PICK k, h2d : k = call.k /\ h2d = call.h2d
        OBVIOUS
    <2>2. Bringing(k, h2d)'
        BY <1>3, <2>1 DEF ExactInv
    <2>3. QED BY <2>1, <2>2, Zenon
<1>6. (call.pc = "reduce" => \E g \in Contents : Running(call.k, g))'
    <2> SUFFICES ASSUME call.pc = "reduce" PROVE (\E g \in Contents : Running(call.k, g))'
        OBVIOUS
    <2>1. PICK k : k = call.k
        OBVIOUS
    <2>2. PICK g \in Contents : Running(k, g)
        BY <2>1 DEF ExactInv
    <2>3. Running(k, g)'
        BY <1>4, <2>2
    <2>4. QED BY <2>1, <2>3, Zenon
<1>7. QED BY <1>1, <1>2, <1>5, <1>6 DEF ExactInv

LEMMA StepExact ==
    ASSUME BarrierAfterLaunch, ExactInv, IInv, QueueInv, SumsAreDelayed, [Next]_vars
    PROVE  ExactInv'
<1>1. ASSUME NEW S \in (SUBSET Elem) \ {{}}, NEW v \in Inputs, WriteDelayed(S, v) \/ WriteThrough(S, v)
      PROVE  ExactInv'
    BY <1>1, WriteExact
<1>2. ASSUME NEW k \in Kernels, Start(k) PROVE ExactInv'
    BY <1>2, StartExact
<1>3. CASE Enqueue
    BY <1>3, EnqueueExact
<1>4. CASE Reduce
    BY <1>4, ReduceExact
<1>5. ASSUME NEW d \in Dev, Execute(d) PROVE ExactInv'
    BY <1>5, ExecuteExact
<1>6. CASE UNCHANGED vars
    BY <1>6, SameExact DEF vars
<1>7. QED BY <1>1, <1>2, <1>3, <1>4, <1>5, <1>6 DEF Next

\* With a barrier after every launch, and option DELAYEDWRITE for the sums that
\* several devices compute: for any number of devices, any elements, operands and
\* order of execution, every copy the directories call valid is, between the calls,
\* what a single device would have computed (Driver.cpp, doReduction).
THEOREM ReductionsAreExact ==
    ASSUME BarrierAfterLaunch
    PROVE  Spec /\ []SumsAreDelayed => []ResultsAreExact
<1>1. Init => QueueInv
    BY OptionsAssumption DEF Init, QueueInv, Drained, Idle
<1>2. IInv /\ QueueInv /\ [Next]_vars => QueueInv'
    BY QueueStep DEF IInv
<1>3. ExactInv /\ IInv /\ QueueInv /\ SumsAreDelayed /\ [Next]_vars => ExactInv'
    BY StepExact
<1>4. ExactInv => ResultsAreExact
    BY DEF ExactInv, Settled, Agrees, ResultsAreExact, Idle
<1>5. QED BY InitInv, StepInv, InitExact, <1>1, <1>2, <1>3, <1>4, PTL DEF Spec
=============================================================================
