----------------------------- MODULE Retainable -----------------------------
(***************************************************************************)
(* libsplit::Retainable, the base of every handle: a counter that starts   *)
(* at one and is moved by compare-and-swap loops, so that the threads of   *)
(* an application may retain and release the same handle at once.  The     *)
(* release that finds one deletes the handle, and the destructor of the    *)
(* handle gives back the reference it had on its parent: a kernel on its   *)
(* program, a buffer on its context.                                       *)
(*                                                                         *)
(* A thread is named as the owner of the reference it holds; a reference   *)
(* that a handle keeps on its parent is owned by that handle.  `owners' is *)
(* a history of who holds what: no step of the code reads it.              *)
(***************************************************************************)
EXTENDS FiniteSets, Integers

CONSTANTS Thread, Handle, None,
          Parent    \* Parent[h]: the handle that h retains, or None

ASSUME HandlesAssumption ==
  /\ Thread \cap Handle = {} /\ None \notin Handle
  /\ IsFiniteSet(Thread) /\ IsFiniteSet(Handle)
  /\ Parent \in [Handle -> Handle \cup {None}]
  /\ \A h \in Handle : Parent[h] # None => Parent[Parent[h]] = None

VARIABLES refCount, owners, life,
          call      \* call[t]: where thread t is inside retain or release

counting == <<refCount, owners, life, call>>

Owner == Thread \cup Handle

Idle == [at |-> "idle"]
Call(at, what, h, by, old) ==
  [at |-> at, what |-> what, h |-> h, by |-> by, old |-> old]
Calls == [at : {"load", "cas", "delete"}, what : {"retain", "release"},
          h : Handle, by : Owner, old : Int]

CountingInit == /\ refCount = [h \in Handle |-> 0]
                /\ owners = [h \in Handle |-> {}]
                /\ life = [h \in Handle |-> "none"]
                /\ call = [t \in Thread |-> Idle]

\* Thread t moves on inside the call that it makes.
Moved(t, at, old) == Call(at, call[t].what, call[t].h, call[t].by, old)

\* An application uses a handle through a reference that it holds, and not
\* while the same thread is still inside a call.
Uses(t, h) == call[t] = Idle /\ t \in owners[h]

Retaining(t, h, by) == /\ call[t].at \in {"load", "cas"}
                       /\ call[t].what = "retain"
                       /\ call[t].h = h /\ call[t].by = by

(***************************************************************************)
(* Constructors.  The handle starts with the reference of its creator; one *)
(* with a parent then retains it.                                          *)
(***************************************************************************)
New(t, h) ==
  /\ call[t] = Idle /\ life[h] = "none"
  /\ Parent[h] # None => t \in owners[Parent[h]]
  /\ life' = [life EXCEPT ![h] = "live"]
  /\ refCount' = [refCount EXCEPT ![h] = 1]
  /\ owners' = [owners EXCEPT ![h] = {t}]
  /\ call' = [call EXCEPT ![t] = IF Parent[h] = None THEN Idle
                                 ELSE Call("load", "retain", Parent[h], h, 0)]

\* Thread t retains h and hands the reference to thread u.
Retain(t, h, u) ==
  /\ Uses(t, h) /\ u \notin owners[h]
  /\ \A v \in Thread : ~Retaining(v, h, u)
  /\ call' = [call EXCEPT ![t] = Call("load", "retain", h, u, 0)]
  /\ UNCHANGED <<refCount, owners, life>>

Release(t, h) ==
  /\ Uses(t, h)
  /\ call' = [call EXCEPT ![t] = Call("load", "release", h, t, 0)]
  /\ UNCHANGED <<refCount, owners, life>>

(***************************************************************************)
(* The loop: the counter is read, and written if it has not moved.         *)
(***************************************************************************)
Load(t) ==
  /\ call[t].at = "load"
  /\ call' = [call EXCEPT ![t] = Moved(t, "cas", refCount[call[t].h])]
  /\ UNCHANGED <<refCount, owners, life>>

Fails(t) ==
  /\ call[t].at = "cas" /\ refCount[call[t].h] # call[t].old
  /\ call' = [call EXCEPT ![t] = Moved(t, "load", 0)]
  /\ UNCHANGED <<refCount, owners, life>>

Mutant_Stores(t) == TRUE
Unmoved(t) == refCount[call[t].h] = call[t].old

Retains(t) ==
  /\ call[t].at = "cas" /\ call[t].what = "retain" /\ Unmoved(t)
  /\ refCount' = [refCount EXCEPT ![call[t].h] = call[t].old + 1]
  /\ owners' = [owners EXCEPT ![call[t].h] = @ \cup {call[t].by}]
  /\ call' = [call EXCEPT ![t] = Idle]
  /\ UNCHANGED life

Mutant_LastAtZero(t) == call[t].old <= 0
Mutant_LastOfTwo(t) == call[t].old <= 2
LastReference(t) == call[t].old = 1

Releases(t) ==
  /\ call[t].at = "cas" /\ call[t].what = "release" /\ Unmoved(t)
  /\ refCount' = [refCount EXCEPT ![call[t].h] = call[t].old - 1]
  /\ owners' = [owners EXCEPT ![call[t].h] = @ \ {call[t].by}]
  /\ call' = [call EXCEPT ![t] = IF LastReference(t)
                                 THEN Moved(t, "delete", 1) ELSE Idle]
  /\ UNCHANGED life

(***************************************************************************)
(* Destructors.  The reference on the parent is the last thing they give   *)
(* back.                                                                   *)
(***************************************************************************)
Delete(t) ==
  /\ call[t].at = "delete"
  /\ LET h == call[t].h IN
       /\ life' = [life EXCEPT ![h] = "dead"]
       /\ call' = [call EXCEPT ![t] =
                     IF Parent[h] = None THEN Idle
                     ELSE Call("load", "release", Parent[h], h, 0)]
  /\ UNCHANGED <<refCount, owners>>

(***************************************************************************)
(* Properties.                                                             *)
(***************************************************************************)
CountingType ==
  /\ refCount \in [Handle -> Int]
  /\ owners \in [Handle -> SUBSET Owner]
  /\ life \in [Handle -> {"none", "live", "dead"}]
  /\ call \in [Thread -> {Idle} \cup Calls]

\* However the loops of several threads interleave (Retainable.h 14-29), the
\* counter of a handle is the number of references held, so that no update is
\* lost, and a destroyed handle is referred to by no one.
CountsAreOwners == \A h \in Handle :
  /\ life[h] = "live" => refCount[h] = Cardinality(owners[h])
  /\ life[h] # "live" => owners[h] = {}

References == INSTANCE ReferenceCounting WITH Object <- Handle
==============================================================================
