------------------------------- MODULE Handles -------------------------------
(***************************************************************************)
(* The handles that the interposed OpenCL functions give an application    *)
(* instead of the objects of the vendors: contexts, buffers, programs and  *)
(* kernels (Handle/*.cpp, Dispatch/*.cpp).  Each is a Retainable and owns  *)
(* one real object per device.  Retaining keeps a program alive for its    *)
(* kernels and the context for its buffers; every other pointer between    *)
(* handles, and every command in the queue of a device, is a raw one.      *)
(*                                                                         *)
(* One context is modelled, since a process may create only one.           *)
(***************************************************************************)
EXTENDS Retainable, Sequences

CONSTANTS Context, Mem, Program, Kernel,   \* the handles, by class
          Device, MaxBuilds

ASSUME ClassesAssumption ==
  /\ Handle = {Context} \cup Mem \cup Program \cup Kernel
  /\ Context \notin Program
  /\ Parent[Context] = None /\ \A p \in Program : Parent[p] = None
  /\ \A m \in Mem : Parent[m] = Context
  /\ \A k \in Kernel : Parent[k] \in Program

VARIABLES
  real,      \* real[h]: sets of real objects, one per device, that exist for h
  builds,    \* builds[p]: how often p has been built
  args,      \* args[k]: the buffer that is the argument of k, a raw pointer
  queue,     \* queue[d]: the commands of device d that have not been run
  unread,    \* launches whose results the application has not read
  contextHandle,
  exited     \* the library has called exit

objects == <<real, builds, args, queue, unread, contextHandle, exited>>
vars == <<counting, objects>>

Init == /\ CountingInit
        /\ real = [h \in Handle |-> 0]
        /\ builds = [p \in Program |-> 0]
        /\ args = [k \in Kernel |-> None]
        /\ queue = [d \in Device |-> << >>]
        /\ unread = {}
        /\ contextHandle = None /\ exited = FALSE

(***************************************************************************)
(* What an application that follows OpenCL does.  It keeps its context     *)
(* while it uses programs, whose handles do not retain it; it creates      *)
(* kernels of programs that are built; and since clFinish does nothing, it *)
(* takes a launch for done when it has read what the launch wrote.         *)
(***************************************************************************)
KeepsContext(t) == Uses(t, Context)
InFlight(h) == \E l \in unread : h \in {l.k, l.m}

\* A thread lets go of a handle only when no launch that uses it is in flight.
LetsGo(t, h) == /\ ~InFlight(h)
                /\ h = Context => \A p \in Program : t \notin owners[p]

Exit == /\ exited' = TRUE
        /\ UNCHANGED <<counting, real, builds, args, queue, unread, contextHandle>>

(***************************************************************************)
(* Constructors and operations.                                            *)
(***************************************************************************)
CreateContext(t) ==
  /\ call[t] = Idle
  /\ \/ /\ contextHandle # None /\ Exit
     \/ /\ contextHandle = None
        /\ New(t, Context) /\ contextHandle' = Context
        /\ real' = [real EXCEPT ![Context] = 1]
        /\ UNCHANGED <<builds, args, queue, unread, exited>>

CreateBuffer(t, m) ==
  /\ New(t, m) /\ real' = [real EXCEPT ![m] = 1]
  /\ UNCHANGED <<builds, args, queue, unread, contextHandle, exited>>

CreateProgram(t, p) ==
  /\ KeepsContext(t) /\ New(t, p)
  /\ UNCHANGED objects

\* Each build makes new real programs over the ones that exist.
Build(t, p) ==
  /\ Uses(t, p) /\ KeepsContext(t) /\ builds[p] < MaxBuilds
  /\ builds' = [builds EXCEPT ![p] = @ + 1]
  /\ real' = [real EXCEPT ![p] = @ + 1]
  /\ UNCHANGED <<counting, args, queue, unread, contextHandle, exited>>

\* clCreateKernelsInProgram and the queries of a program end the process when
\* the program has not been built.
NeedsBuild(t, p) == Uses(t, p) /\ builds[p] = 0 /\ Exit

CreateKernel(t, k) ==
  /\ KeepsContext(t) /\ builds[Parent[k]] > 0 /\ New(t, k)
  /\ real' = [real EXCEPT ![k] = 1]
  /\ UNCHANGED <<builds, args, queue, unread, contextHandle, exited>>

SetKernelArg(t, k, m) ==
  /\ Uses(t, k) /\ Uses(t, m)
  /\ args' = [args EXCEPT ![k] = m]
  /\ UNCHANGED <<counting, real, builds, queue, unread, contextHandle, exited>>

(***************************************************************************)
(* A launch queues a command on every device that gets a share, and a read *)
(* returns when the devices that wrote the buffer have done so.            *)
(***************************************************************************)
Launch(t, k, D) ==
  /\ Uses(t, k) /\ args[k] # None /\ Uses(t, args[k])
  /\ ~InFlight(args[k])   \* the results of the launch before have been read
  /\ LET l == [k |-> k, m |-> args[k]] IN
       /\ queue' = [d \in Device |->
                      IF d \in D THEN Append(queue[d], l) ELSE queue[d]]
       /\ unread' = unread \cup {l}
  /\ UNCHANGED <<counting, real, builds, args, contextHandle, exited>>

Mutant_Written(m) == TRUE
Written(m) == \A d \in Device : \A i \in DOMAIN queue[d] : queue[d][i].m # m

Read(t, m) ==
  /\ Uses(t, m) /\ InFlight(m) /\ Written(m)
  /\ unread' = {l \in unread : l.m # m}
  /\ UNCHANGED <<counting, real, builds, args, queue, contextHandle, exited>>

RunCommand(d) ==
  /\ queue[d] # << >>
  /\ queue' = [queue EXCEPT ![d] = Tail(@)]
  /\ UNCHANGED <<counting, real, builds, args, unread, contextHandle, exited>>

\* A function that the library does not handle ends the process.
NotHandled(t) == call[t] = Idle /\ Exit

(***************************************************************************)
(* Reference counting, and the bodies of the destructors: each releases    *)
(* its set of real objects, a program only if it has been built; that of   *)
(* the context waits for the workers of its queues first.                  *)
(***************************************************************************)
RetainHandle(t, h, u) == Retain(t, h, u) /\ UNCHANGED objects
ReleaseHandle(t, h) == LetsGo(t, h) /\ Release(t, h) /\ UNCHANGED objects

Counts(t) == /\ Load(t) \/ Fails(t) \/ Retains(t) \/ Releases(t)
             /\ UNCHANGED objects

Mutant_Released(h) == IF h \in Program THEN 0 ELSE 1
Released(h) == IF h \in Program /\ builds[h] = 0 THEN 0 ELSE 1

Destructor(t) ==
  /\ Delete(t)
  /\ call[t].h = Context => \A d \in Device : queue[d] = << >>
  /\ real' = [real EXCEPT ![call[t].h] = @ - Released(call[t].h)]
  /\ UNCHANGED <<builds, args, queue, unread, contextHandle, exited>>

Step(t) == Counts(t) \/ Destructor(t)

Next ==
  /\ ~exited
  /\ \/ \E t \in Thread :
          \/ CreateContext(t) \/ NotHandled(t) \/ Step(t)
          \/ \E m \in Mem : CreateBuffer(t, m) \/ Read(t, m)
          \/ \E p \in Program : CreateProgram(t, p) \/ Build(t, p) \/ NeedsBuild(t, p)
          \/ \E k \in Kernel :
               \/ CreateKernel(t, k)
               \/ \E m \in Mem : SetKernelArg(t, k, m)
               \/ \E D \in (SUBSET Device) \ {{}} : Launch(t, k, D)
          \/ \E h \in Handle : ReleaseHandle(t, h)
                               \/ \E u \in Thread : RetainHandle(t, h, u)
     \/ \E d \in Device : RunCommand(d)

\* The threads of the application and the workers are scheduled; nothing
\* makes an application call anything.
Spec == /\ Init /\ [][Next]_vars
        /\ \A t \in Thread : WF_vars(~exited /\ Step(t))
        /\ \A d \in Device : WF_vars(~exited /\ RunCommand(d))

(***************************************************************************)
(* Properties.                                                             *)
(***************************************************************************)
TypeOK == /\ CountingType
          /\ real \in [Handle -> Nat] /\ builds \in [Program -> 0..MaxBuilds]
          /\ args \in [Kernel -> Mem \cup {None}]
          /\ queue \in [Device -> Seq([k : Kernel, m : Mem])]
          /\ unread \subseteq [k : Kernel, m : Mem]
          /\ contextHandle \in {None, Context} /\ exited \in BOOLEAN

\* Every raw pointer that can still be followed leads to a handle that has
\* not been destroyed: from a command that a worker has yet to run to the
\* kernel and to the buffer (whose destructors, MemoryHandle.cpp 111-129 and
\* KernelHandle.cpp 124-141, wait for no queue), from a kernel to its program,
\* from a buffer to the context.
PointersAreValid ==
  /\ \A d \in Device : \A i \in DOMAIN queue[d] :
        life[queue[d][i].k] = "live" /\ life[queue[d][i].m] = "live"
  /\ \A h \in Handle \ ({Context} \cup Program) :
        life[h] = "live" => life[Parent[h]] = "live"

\* A destroyed handle leaves no real object behind, in whatever order the
\* references were given back, except a program built more than once: its
\* first real programs are overwritten and stay (ProgramHandle.cpp 358-366).
LeaksOnlyRebuilds == \A h \in Handle :
  life[h] = "dead" =>
    real[h] = IF h \in Program /\ builds[h] > 1 THEN builds[h] - 1 ELSE 0

\* Compare-and-swap loops, and destructors that release in turn, amount to
\* reference counting: references come from references, and a handle is
\* destroyed once, with none left.
ImplementsReferenceCounting ==
  References!Init /\ [][References!Next]_References!vars

\* A handle to which no reference is left is destroyed, those that its
\* destructor lets go of included, unless the process ends first.
UnownedAreDestroyed == \A h \in Handle :
  life[h] = "live" /\ owners[h] = {} ~> life[h] = "dead" \/ exited
==============================================================================
