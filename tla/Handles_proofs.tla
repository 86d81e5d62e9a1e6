--------------------------- MODULE Handles_proofs ---------------------------
(* What holds of the handles for every number of threads and of handles of  *)
(* each class: no interleaving of the compare-and-swap loops loses a        *)
(* reference, and together they implement reference counting.               *)
EXTENDS Handles, FiniteSetTheorems, TLAPS

Pending(t, what) == call[t].at \in {"load", "cas"} /\ call[t].what = what
Deletes(t) == call[t].at = "delete"

\* A handle that is being deleted is out of reach, and one thread deletes it.
DeletersAlone ==
    /\ \A t \in Thread : Deletes(t) => /\ life[call[t].h] = "live"
                                       /\ owners[call[t].h] = {}
    /\ \A t, u \in Thread : Deletes(t) /\ Deletes(u) /\ call[t].h = call[u].h
                               => t = u

\* A thread inside retain has a reference of its own to the handle, which
\* stays until it is out; a constructor has one to the new handle, too.
RetainersHold ==
    /\ \A t \in Thread : Pending(t, "retain") =>
          /\ t \in owners[call[t].h]
          /\ call[t].by \notin owners[call[t].h]
          /\ call[t].by \in Handle => /\ Parent[call[t].by] = call[t].h
                                      /\ life[call[t].by] = "live"
                                      /\ t \in owners[call[t].by]
    /\ \A t, u \in Thread :
          /\ Pending(t, "retain") /\ Pending(u, "retain")
          /\ call[t].h = call[u].h /\ call[t].by = call[u].by
          => t = u

\* A reference is given back by the thread that holds it or, when a handle
\* held it, by the one that runs its destructor.
ReleasersHold ==
    /\ \A t \in Thread : Pending(t, "release") =>
          /\ call[t].by \in owners[call[t].h]
          /\ call[t].by \in Thread => call[t].by = t
          /\ call[t].by \in Handle => life[call[t].by] = "dead"
    /\ \A t, u \in Thread :
          /\ Pending(t, "release") /\ Pending(u, "release")
          /\ call[t].h = call[u].h /\ call[t].by = call[u].by
          => t = u

\* Once constructed, a handle holds its parent.
ChildrenHold == \A h \in Handle :
    /\ life[h] = "live" /\ Parent[h] # None
    /\ \A t \in Thread : ~Retaining(t, Parent[h], h)
    => h \in owners[Parent[h]]

\* Only what has been created holds anything.
OwnersExist == \A g, h \in Handle : h \in owners[g] => life[h] # "none"

IInv == /\ CountingType /\ CountsAreOwners /\ DeletersAlone /\ RetainersHold
        /\ ReleasersHold /\ ChildrenHold /\ OwnersExist

-----------------------------------------------------------------------------
\* Every step of the handles is a step of the counting, or leaves it alone.
CountingStep == \E t \in Thread :
    \/ Load(t) \/ Fails(t) \/ Retains(t) \/ Releases(t) \/ Delete(t)
    \/ \E h \in Handle : New(t, h) \/ Release(t, h)
                         \/ \E u \in Thread : Retain(t, h, u)

LEMMA StepsCount ==
    ASSUME [Next]_vars
    PROVE  CountingStep \/ UNCHANGED counting
<1>1. CASE UNCHANGED vars
    BY <1>1 DEF vars
<1>2. CASE Next
  <2>1. ASSUME NEW d \in Device, RunCommand(d) PROVE UNCHANGED counting
    BY <2>1 DEF RunCommand
  <2>2. ASSUME NEW t \in Thread, CreateContext(t) \/ NotHandled(t)
        PROVE  CountingStep \/ UNCHANGED counting
    <3>1. Context \in Handle
      BY ClassesAssumption
    <3> QED
      BY <2>2, <3>1 DEF CreateContext, NotHandled, Exit, CountingStep
  <2>3. ASSUME NEW t \in Thread, Step(t) PROVE CountingStep
    BY <2>3 DEF Step, Counts, Destructor, CountingStep
  <2>4. ASSUME NEW t \in Thread, NEW m \in Mem, CreateBuffer(t, m) \/ Read(t, m)
        PROVE  CountingStep \/ UNCHANGED counting
    <3>1. m \in Handle
      BY ClassesAssumption
    <3> QED
      BY <2>4, <3>1 DEF CreateBuffer, Read, CountingStep
  <2>5. ASSUME NEW t \in Thread, NEW p \in Program,
               CreateProgram(t, p) \/ Build(t, p) \/ NeedsBuild(t, p)
        PROVE  CountingStep \/ UNCHANGED counting
    <3>1. p \in Handle
      BY ClassesAssumption
    <3> QED
      BY <2>5, <3>1 DEF CreateProgram, Build, NeedsBuild, Exit, CountingStep
  <2>6. ASSUME NEW t \in Thread, NEW k \in Kernel,
               \/ CreateKernel(t, k)
               \/ \E m \in Mem : SetKernelArg(t, k, m)
               \/ \E D \in (SUBSET Device) \ {{}} : Launch(t, k, D)
        PROVE  CountingStep \/ UNCHANGED counting
    <3>1. k \in Handle
      BY ClassesAssumption
    <3> QED
      BY <2>6, <3>1 DEF CreateKernel, SetKernelArg, Launch, CountingStep
  <2>7. ASSUME NEW t \in Thread, NEW h \in Handle,
               ReleaseHandle(t, h) \/ \E u \in Thread : RetainHandle(t, h, u)
        PROVE  CountingStep
    BY <2>7 DEF ReleaseHandle, RetainHandle, CountingStep
  <2> QED
    BY <1>2, <2>1, <2>2, <2>3, <2>4, <2>5, <2>6, <2>7 DEF Next
<1> QED
    BY <1>1, <1>2

-----------------------------------------------------------------------------
\* Inside a call, a thread has a record that says which.
LEMMA CallFields ==
    ASSUME CountingType, NEW t \in Thread, call[t].at # "idle"
    PROVE  /\ call[t] \in Calls
           /\ call[t].h \in Handle /\ call[t].by \in Owner /\ call[t].old \in Int
           /\ call[t].what \in {"retain", "release"}
           /\ call[t].at \in {"load", "cas", "delete"}
BY DEF CountingType, Calls, Idle

LEMMA OwnersFinite ==
    ASSUME CountingType, NEW h \in Handle
    PROVE  IsFiniteSet(owners[h])
<1>1. IsFiniteSet(Owner)
    BY HandlesAssumption, FS_Union DEF Owner
<1>2. owners[h] \subseteq Owner
    BY DEF CountingType
<1> QED
    BY <1>1, <1>2, FS_Subset

\* Two levels: the parent of a handle is another, without a parent.
LEMMA ParentOf ==
    ASSUME NEW h \in Handle, Parent[h] # None
    PROVE  Parent[h] \in Handle /\ Parent[h] # h /\ Parent[Parent[h]] = None
BY HandlesAssumption

LEMMA InitInv == Init => IInv
BY FS_EmptySet DEF Init, CountingInit, IInv, CountingType, CountsAreOwners, DeletersAlone,
    RetainersHold, ReleasersHold, ChildrenHold, OwnersExist, Pending, Deletes, Idle

-----------------------------------------------------------------------------
(* The loop.                                                               *)

\* Reading the counter, or finding that it has moved, changes the progress of
\* one call and nothing else.
LEMMA MovesKeep ==
    ASSUME IInv, NEW t \in Thread, Load(t) \/ Fails(t)
    PROVE  IInv'
<1>1. /\ UNCHANGED <<refCount, owners, life>>
      /\ call[t].at \in {"load", "cas"}
    BY DEF Load, Fails
<1>2. PICK at \in {"load", "cas"}, old \in Int :
         call' = [call EXCEPT ![t] = Moved(t, at, old)]
  <2>1. CASE Load(t)
    <3>1. refCount[call[t].h] \in Int
      BY CallFields, <1>1 DEF IInv, CountingType
    <3> QED
      BY <2>1, <3>1 DEF Load
  <2>2. CASE Fails(t)
    <3> WITNESS "load" \in {"load", "cas"}, 0 \in Int
    <3> QED
      BY <2>2 DEF Fails
  <2> QED
    BY <2>1, <2>2
<1>3. /\ call[t] \in Calls
      /\ call'[t] = Call(at, call[t].what, call[t].h, call[t].by, old)
      /\ \A u \in Thread : u # t => call'[u] = call[u]
  <2>1. call[t] \in Calls
    BY <1>1, CallFields DEF IInv
  <2> QED
    BY <1>2, <2>1 DEF IInv, CountingType, Moved
<1>4. call'[t] \in Calls
    BY <1>3 DEF Calls, Call
<1>5. CountingType'
    BY <1>1, <1>2, <1>4 DEF IInv, CountingType
<1>6. \A u \in Thread :
        /\ call'[u].h = call[u].h /\ call'[u].by = call[u].by
        /\ Pending(u, "retain")' <=> Pending(u, "retain")
        /\ Pending(u, "release")' <=> Pending(u, "release")
        /\ Deletes(u)' <=> Deletes(u)
        /\ \A h, by : Retaining(u, h, by)' <=> Retaining(u, h, by)
  <2>1. /\ call'[t].h = call[t].h /\ call'[t].by = call[t].by
        /\ call'[t].what = call[t].what
        /\ call'[t].at \in {"load", "cas"} /\ call[t].at \in {"load", "cas"}
    BY <1>1, <1>3 DEF Call
  <2> QED
    BY <1>3, <2>1 DEF Pending, Deletes, Retaining
<1>7. CountsAreOwners'
    BY <1>1 DEF IInv, CountsAreOwners
<1>8. DeletersAlone'
    BY <1>1, <1>6 DEF IInv, DeletersAlone
<1>9. RetainersHold'
    BY <1>1, <1>6 DEF IInv, RetainersHold
<1>10. ReleasersHold'
    BY <1>1, <1>6 DEF IInv, ReleasersHold
<1>11. ChildrenHold'
    BY <1>1, <1>6 DEF IInv, ChildrenHold
<1>12. OwnersExist'
    BY <1>1 DEF IInv, OwnersExist
<1> QED
    BY <1>5, <1>7, <1>8, <1>9, <1>10, <1>11, <1>12 DEF IInv

\* The counter has not moved since it was read, hence one more reference is
\* one more.
LEMMA RetainsKeep ==
    ASSUME IInv, NEW t \in Thread, Retains(t)
    PROVE  IInv'
<1> DEFINE h == call[t].h
           by == call[t].by
<1>1. /\ h \in Handle /\ by \in Owner /\ Pending(t, "retain")
      /\ t \in owners[h] /\ by \notin owners[h] /\ life[h] = "live"
  <2>1. h \in Handle /\ by \in Owner /\ Pending(t, "retain")
    BY CallFields DEF IInv, Retains, Pending
  <2>2. t \in owners[h] /\ by \notin owners[h]
    BY <2>1 DEF IInv, RetainersHold
  <2> QED
    BY <2>1, <2>2 DEF IInv, CountsAreOwners
<1>2. /\ refCount' = [refCount EXCEPT ![h] = @ + 1]
      /\ owners' = [owners EXCEPT ![h] = @ \cup {by}]
      /\ call' = [call EXCEPT ![t] = Idle]
      /\ life' = life
    BY DEF Retains, Unmoved
<1>3. CountingType'
    BY <1>1, <1>2 DEF IInv, CountingType
<1>4. CountsAreOwners'
  <2>1. Cardinality(owners[h] \cup {by}) = Cardinality(owners[h]) + 1
    BY <1>1, OwnersFinite, FS_AddElement DEF IInv
  <2> QED
    BY <1>1, <1>2, <2>1 DEF IInv, CountingType, CountsAreOwners
<1>5. /\ ~Pending(t, "retain")' /\ ~Pending(t, "release")' /\ ~Deletes(t)'
      /\ \A u \in Thread : u # t => call'[u] = call[u]
    BY <1>2 DEF IInv, CountingType, Pending, Deletes, Idle
<1>6. \A g \in Handle : /\ owners[g] \subseteq owners'[g]
                        /\ g # h => owners'[g] = owners[g]
                        /\ \A o : o \in owners'[g] /\ o \notin owners[g] => g = h /\ o = by
    BY <1>1, <1>2 DEF IInv, CountingType
<1>7. \A u \in Thread : Deletes(u) => call[u].h # h
    BY <1>1 DEF IInv, DeletersAlone
<1>8. DeletersAlone'
  <2>1. \A u \in Thread : Deletes(u)' => u # t /\ Deletes(u) /\ call[u].h \in Handle
    BY <1>5, CallFields DEF Deletes, IInv
  <2> QED
    BY <1>2, <1>5, <1>6, <1>7, <2>1 DEF IInv, DeletersAlone
<1>9. RetainersHold'
  <2>1. \A u \in Thread : Pending(u, "retain")' =>
          /\ u # t /\ Pending(u, "retain") /\ call[u].h \in Handle
          /\ ~(call[u].h = h /\ call[u].by = by)
    BY <1>1, <1>5, CallFields DEF Pending, IInv, RetainersHold
  <2> QED
    BY <1>2, <1>5, <1>6, <2>1 DEF IInv, RetainersHold
<1>10. ReleasersHold'
  <2>1. \A u \in Thread : Pending(u, "release")' =>
          u # t /\ Pending(u, "release") /\ call[u].h \in Handle
    BY <1>5, CallFields DEF Pending, IInv
  <2> QED
    BY <1>2, <1>5, <1>6, <2>1 DEF IInv, ReleasersHold
<1>11. ChildrenHold'
  <2> SUFFICES ASSUME NEW g \in Handle, life[g] = "live", Parent[g] # None,
                      \A u \in Thread : ~Retaining(u, Parent[g], g)'
               PROVE  g \in owners'[Parent[g]]
    BY <1>2 DEF ChildrenHold
  <2>1. CASE Retaining(t, Parent[g], g)
    BY <1>1, <1>2, <2>1 DEF Retaining, IInv, CountingType
  <2>2. CASE ~Retaining(t, Parent[g], g)
    <3>1. \A u \in Thread : ~Retaining(u, Parent[g], g)
      BY <1>5, <2>2 DEF Retaining
    <3> QED
      BY <3>1, <1>6, ParentOf DEF IInv, ChildrenHold
  <2> QED
    BY <2>1, <2>2
<1>12. OwnersExist'
    BY <1>1, <1>2, <1>6 DEF IInv, OwnersExist, RetainersHold
<1> QED
    BY <1>3, <1>4, <1>8, <1>9, <1>10, <1>11, <1>12 DEF IInv

\* The release that finds one takes the last reference: the handle is out of
\* reach, and this thread alone deletes it.
LEMMA ReleasesKeep ==
    ASSUME IInv, NEW t \in Thread, Releases(t)
    PROVE  IInv'
<1> DEFINE h == call[t].h
           by == call[t].by
<1>1. /\ h \in Handle /\ by \in Owner /\ Pending(t, "release")
      /\ by \in owners[h] /\ life[h] = "live"
      /\ by \in Thread => by = t
      /\ by \in Handle => life[by] = "dead"
  <2>1. h \in Handle /\ by \in Owner /\ Pending(t, "release")
    BY CallFields DEF IInv, Releases, Pending
  <2>2. /\ by \in owners[h]
        /\ by \in Thread => by = t
        /\ by \in Handle => life[by] = "dead"
    BY <2>1 DEF IInv, ReleasersHold
  <2> QED
    BY <2>1, <2>2 DEF IInv, CountsAreOwners
<1>2. /\ refCount' = [refCount EXCEPT ![h] = @ - 1]
      /\ owners' = [owners EXCEPT ![h] = @ \ {by}]
      /\ call' = [call EXCEPT ![t] = IF refCount[h] = 1 THEN Moved(t, "delete", 1)
                                     ELSE Idle]
      /\ life' = life
    BY DEF Releases, Unmoved, LastReference
<1>3. Moved(t, "delete", 1) \in Calls
    BY CallFields, <1>1 DEF IInv, Pending, Moved, Call, Calls
<1>4. CountingType'
    BY <1>1, <1>2, <1>3 DEF IInv, CountingType
<1>5. Cardinality(owners[h]) \in Nat /\ refCount[h] = Cardinality(owners[h])
      /\ Cardinality(owners[h] \ {by}) = Cardinality(owners[h]) - 1
      /\ IsFiniteSet(owners[h] \ {by})
  <2>1. IsFiniteSet(owners[h])
    BY <1>1, OwnersFinite DEF IInv
  <2>2. Cardinality(owners[h]) \in Nat
    BY <2>1, FS_CardinalityType
  <2>3. refCount[h] = Cardinality(owners[h])
    BY <1>1 DEF IInv, CountsAreOwners
  <2>4. /\ Cardinality(owners[h] \ {by}) = Cardinality(owners[h]) - 1
        /\ IsFiniteSet(owners[h] \ {by})
    BY <1>1, <2>1, FS_RemoveElement
  <2> QED
    BY <2>2, <2>3, <2>4
<1>6. CountsAreOwners'
    BY <1>1, <1>2, <1>5 DEF IInv, CountingType, CountsAreOwners
<1>7. refCount[h] = 1 => owners'[h] = {}
    BY <1>1, <1>2, <1>5, FS_EmptySet DEF IInv, CountingType
<1>8. /\ ~Pending(t, "retain")' /\ ~Pending(t, "release")'
      /\ \A u \in Thread : u # t => call'[u] = call[u]
      /\ Deletes(t)' => refCount[h] = 1 /\ call'[t].h = h
    BY <1>2 DEF IInv, CountingType, Pending, Deletes, Idle, Moved, Call
<1>9. \A g \in Handle : /\ owners'[g] \subseteq owners[g]
                        /\ g # h => owners'[g] = owners[g]
                        /\ \A o \in owners[g] : o \notin owners'[g] => g = h /\ o = by
    BY <1>1, <1>2 DEF IInv, CountingType
<1>10. DeletersAlone'
  <2>1. \A u \in Thread : Deletes(u)' /\ u # t =>
          Deletes(u) /\ call[u].h \in Handle /\ call[u].h # h
    BY <1>1, <1>8, CallFields DEF Deletes, IInv, DeletersAlone
  <2> QED
    BY <1>1, <1>2, <1>7, <1>8, <1>9, <2>1 DEF IInv, DeletersAlone
<1>11. RetainersHold'
  <2>1. \A u \in Thread : Pending(u, "retain")' =>
          u # t /\ Pending(u, "retain") /\ call[u].h \in Handle
    BY <1>8, CallFields DEF Pending, IInv
  <2>2. \A u \in Thread : u # t => by # u
    BY <1>1
  <2> QED
    BY <1>2, <1>8, <1>9, <2>1, <2>2 DEF IInv, RetainersHold
<1>12. ReleasersHold'
  <2>1. \A u \in Thread : Pending(u, "release")' =>
          /\ u # t /\ Pending(u, "release") /\ call[u].h \in Handle
          /\ ~(call[u].h = h /\ call[u].by = by)
    BY <1>1, <1>8, CallFields DEF Pending, IInv, ReleasersHold
  <2> QED
    BY <1>2, <1>8, <1>9, <2>1 DEF IInv, ReleasersHold
<1>13. ChildrenHold'
  <2> SUFFICES ASSUME NEW g \in Handle, life[g] = "live", Parent[g] # None,
                      \A u \in Thread : ~Retaining(u, Parent[g], g)'
               PROVE  g \in owners'[Parent[g]]
    BY <1>2 DEF ChildrenHold
  <2>1. \A u \in Thread : ~Retaining(u, Parent[g], g)
    BY <1>1, <1>8 DEF Retaining, Pending
  <2>2. g \in owners[Parent[g]] /\ Parent[g] \in Handle
    BY <2>1, ParentOf DEF IInv, ChildrenHold
  <2>3. by # g
    BY <1>1
  <2> QED
    BY <1>9, <2>2, <2>3
<1>14. OwnersExist'
    BY <1>2, <1>9 DEF IInv, OwnersExist
<1> QED
    BY <1>4, <1>6, <1>10, <1>11, <1>12, <1>13, <1>14 DEF IInv

-----------------------------------------------------------------------------
(* Constructors, destructors and the calls.                                *)

LEMMA DeleteKeeps ==
    ASSUME IInv, NEW t \in Thread, Delete(t)
    PROVE  IInv'
<1> DEFINE h == call[t].h
<1>1. /\ h \in Handle /\ Deletes(t) /\ life[h] = "live" /\ owners[h] = {}
      /\ \A u \in Thread : Deletes(u) /\ u # t => call[u].h # h
  <2>1. h \in Handle /\ Deletes(t)
    BY CallFields DEF IInv, Delete, Deletes
  <2> QED
    BY <2>1 DEF IInv, DeletersAlone
<1>2. /\ life' = [life EXCEPT ![h] = "dead"]
      /\ call' = [call EXCEPT ![t] = IF Parent[h] = None THEN Idle
                                     ELSE Call("load", "release", Parent[h], h, 0)]
      /\ refCount' = refCount /\ owners' = owners
    BY DEF Delete
<1>3. Parent[h] # None => Call("load", "release", Parent[h], h, 0) \in Calls
    BY <1>1, ParentOf DEF Calls, Call, Owner
<1>4. CountingType'
    BY <1>1, <1>2, <1>3 DEF IInv, CountingType
<1>5. CountsAreOwners'
    BY <1>1, <1>2 DEF IInv, CountingType, CountsAreOwners
<1>6. /\ ~Pending(t, "retain")' /\ ~Deletes(t)'
      /\ \A u \in Thread : u # t => call'[u] = call[u]
      /\ Pending(t, "release")' => /\ Parent[h] # None
                                   /\ call'[t].h = Parent[h] /\ call'[t].by = h
      /\ \A g \in Handle : g # h => life'[g] = life[g]
      /\ life'[h] = "dead"
    BY <1>1, <1>2 DEF IInv, CountingType, Pending, Deletes, Idle, Call
<1>7. DeletersAlone'
  <2>1. \A u \in Thread : Deletes(u)' => u # t /\ Deletes(u) /\ call[u].h \in Handle
                                        /\ call[u].h # h
    BY <1>1, <1>6, CallFields DEF Deletes, IInv
  <2> QED
    BY <1>2, <1>6, <2>1 DEF IInv, DeletersAlone
<1>8. RetainersHold'
  <2>1. \A u \in Thread : Pending(u, "retain")' =>
          /\ u # t /\ Pending(u, "retain") /\ call[u].h \in Handle
          /\ call[u].by # h
    BY <1>1, <1>6, CallFields DEF Pending, IInv, RetainersHold
  <2> QED
    BY <1>2, <1>6, <2>1 DEF IInv, RetainersHold
<1>9. \A u \in Thread : ~Retaining(u, Parent[h], h)
    BY <1>1 DEF IInv, RetainersHold, Retaining, Pending
<1>10. Parent[h] # None => h \in owners[Parent[h]]
    BY <1>1, <1>9 DEF IInv, ChildrenHold
<1>11. ReleasersHold'
  <2>1. \A u \in Thread : Pending(u, "release")' /\ u # t =>
          /\ Pending(u, "release") /\ call[u].h \in Handle /\ call[u].by # h
          /\ call'[u] = call[u]
    BY <1>1, <1>6, CallFields DEF Pending, IInv, ReleasersHold
  <2>2. h \notin Thread
    BY <1>1, HandlesAssumption
  <2> QED
    BY <1>2, <1>6, <1>10, <2>1, <2>2 DEF IInv, ReleasersHold
<1>12. ChildrenHold'
  <2> SUFFICES ASSUME NEW g \in Handle, life'[g] = "live", Parent[g] # None,
                      \A u \in Thread : ~Retaining(u, Parent[g], g)'
               PROVE  g \in owners[Parent[g]]
    BY <1>2 DEF ChildrenHold
  <2>1. g # h /\ life[g] = "live"
    BY <1>6
  <2>2. \A u \in Thread : ~Retaining(u, Parent[g], g)
    BY <1>1, <1>6 DEF Retaining, Deletes
  <2> QED
    BY <2>1, <2>2 DEF IInv, ChildrenHold
<1>13. OwnersExist'
    BY <1>2, <1>6 DEF IInv, OwnersExist
<1> QED
    BY <1>4, <1>5, <1>7, <1>8, <1>11, <1>12, <1>13 DEF IInv

LEMMA NewKeeps ==
    ASSUME IInv, NEW t \in Thread, NEW h \in Handle, New(t, h)
    PROVE  IInv'
<1>1. /\ call[t] = Idle /\ life[h] = "none" /\ owners[h] = {}
      /\ Parent[h] # None => t \in owners[Parent[h]]
      /\ life' = [life EXCEPT ![h] = "live"]
      /\ refCount' = [refCount EXCEPT ![h] = 1]
      /\ owners' = [owners EXCEPT ![h] = {t}]
      /\ call' = [call EXCEPT ![t] = IF Parent[h] = None THEN Idle
                                     ELSE Call("load", "retain", Parent[h], h, 0)]
    BY DEF New, IInv, CountsAreOwners
<1>2. Parent[h] # None => Call("load", "retain", Parent[h], h, 0) \in Calls
    BY ParentOf DEF Calls, Call, Owner
<1>3. CountingType'
    BY <1>1, <1>2 DEF IInv, CountingType, Owner
<1>4. CountsAreOwners'
    BY <1>1, FS_Singleton DEF IInv, CountingType, CountsAreOwners
<1>5. /\ ~Pending(t, "release")' /\ ~Deletes(t)'
      /\ \A u \in Thread : u # t => call'[u] = call[u]
      /\ Pending(t, "retain")' => /\ Parent[h] # None
                                  /\ call'[t].h = Parent[h] /\ call'[t].by = h
      /\ \A g \in Handle : g # h => life'[g] = life[g] /\ owners'[g] = owners[g]
      /\ life'[h] = "live" /\ owners'[h] = {t}
    BY <1>1 DEF IInv, CountingType, Pending, Deletes, Idle, Call
<1>6. \A g \in Handle : h \notin owners[g]
    BY <1>1 DEF IInv, OwnersExist
<1>7. \A u \in Thread : Deletes(u) \/ Pending(u, "retain") \/ Pending(u, "release") =>
        call[u].h # h /\ call[u].h \in Handle
    BY <1>1, CallFields DEF IInv, DeletersAlone, RetainersHold, ReleasersHold, Deletes, Pending
<1>8. DeletersAlone'
    BY <1>1, <1>5, <1>7 DEF IInv, DeletersAlone, Deletes
<1>9. RetainersHold'
  <2>1. \A u \in Thread : Pending(u, "retain")' /\ u # t =>
          /\ Pending(u, "retain") /\ call'[u] = call[u]
          /\ call[u].by # h
    BY <1>1, <1>5 DEF Pending, IInv, RetainersHold
  <2>2. Pending(t, "retain")' =>
          /\ Parent[h] \in Handle /\ Parent[h] # h
          /\ t \in owners'[Parent[h]] /\ h \notin owners'[Parent[h]]
    BY <1>1, <1>5, <1>6, ParentOf
  <2>3. ASSUME NEW u \in Thread, Pending(u, "retain")'
        PROVE  /\ u \in owners'[call'[u].h]
               /\ call'[u].by \notin owners'[call'[u].h]
               /\ call'[u].by \in Handle => /\ Parent[call'[u].by] = call'[u].h
                                            /\ life'[call'[u].by] = "live"
                                            /\ u \in owners'[call'[u].by]
    <3>1. CASE u = t
      BY <1>5, <2>2, <2>3, <3>1
    <3>2. CASE u # t
      BY <1>5, <1>7, <2>1, <2>3, <3>2 DEF IInv, RetainersHold
    <3> QED
      BY <3>1, <3>2
  <2>4. ASSUME NEW u \in Thread, NEW v \in Thread,
               Pending(u, "retain")', Pending(v, "retain")',
               call'[u].h = call'[v].h, call'[u].by = call'[v].by
        PROVE  u = v
    <3>1. CASE u = t \/ v = t
      BY <1>5, <2>1, <2>4, <3>1
    <3>2. CASE u # t /\ v # t
      BY <2>1, <2>4, <3>2 DEF IInv, RetainersHold
    <3> QED
      BY <3>1, <3>2
  <2> QED
    BY <2>3, <2>4 DEF RetainersHold
<1>10. ReleasersHold'
  <2>1. \A u \in Thread : Pending(u, "release")' =>
          /\ u # t /\ Pending(u, "release") /\ call'[u] = call[u]
          /\ call[u].by # h
    BY <1>1, <1>5 DEF Pending, IInv, ReleasersHold
  <2> QED
    BY <1>5, <1>7, <2>1 DEF IInv, ReleasersHold, CountingType, Owner
<1>11. ChildrenHold'
  <2> SUFFICES ASSUME NEW g \in Handle, life'[g] = "live", Parent[g] # None,
                      \A u \in Thread : ~Retaining(u, Parent[g], g)'
               PROVE  g \in owners'[Parent[g]]
    BY DEF ChildrenHold
  <2>1. g # h
    BY <1>1 DEF Retaining, Call, IInv, CountingType
  <2>2. \A u \in Thread : ~Retaining(u, Parent[g], g)
    BY <1>1, <1>5 DEF Retaining, Idle
  <2>3. g \in owners[Parent[g]]
    BY <1>5, <2>1, <2>2 DEF IInv, ChildrenHold
  <2> QED
    BY <1>1, <1>5, <2>3, ParentOf
<1>12. OwnersExist'
    BY <1>1, <1>5, HandlesAssumption DEF IInv, OwnersExist
<1> QED
    BY <1>3, <1>4, <1>8, <1>9, <1>10, <1>11, <1>12 DEF IInv

\* A call starts from a reference of the thread that makes it.
LEMMA CallsKeep ==
    ASSUME IInv, NEW t \in Thread, NEW h \in Handle,
           Release(t, h) \/ \E u \in Thread : Retain(t, h, u)
    PROVE  IInv'
<1>1. /\ call[t] = Idle /\ t \in owners[h] /\ UNCHANGED <<refCount, owners, life>>
    BY DEF Release, Retain, Uses
<1>2. PICK what \in {"retain", "release"}, by \in Thread :
         /\ call' = [call EXCEPT ![t] = Call("load", what, h, by, 0)]
         /\ what = "release" => by = t
         /\ what = "retain" => /\ by \notin owners[h]
                               /\ \A v \in Thread : ~Retaining(v, h, by)
    BY DEF Release, Retain
<1>3. Call("load", what, h, by, 0) \in Calls
    BY DEF Calls, Call, Owner
<1>4. CountingType'
    BY <1>1, <1>2, <1>3 DEF IInv, CountingType
<1>5. /\ call'[t].at = "load" /\ call'[t].what = what
      /\ call'[t].h = h /\ call'[t].by = by
      /\ \A u \in Thread : u # t => call'[u] = call[u]
    BY <1>2 DEF IInv, CountingType, Call
<1>6. CountsAreOwners' /\ OwnersExist'
    BY <1>1 DEF IInv, CountsAreOwners, OwnersExist
<1>7. DeletersAlone'
    BY <1>1, <1>5 DEF IInv, DeletersAlone, Deletes
<1>8. by \notin Handle
    BY HandlesAssumption
<1>9. RetainersHold'
  <2>1. \A u \in Thread : Pending(u, "retain")' /\ u # t =>
          /\ Pending(u, "retain") /\ call'[u] = call[u]
          /\ what = "retain" => ~(call[u].h = h /\ call[u].by = by)
    BY <1>2, <1>5 DEF Pending, Retaining
  <2> QED
    BY <1>1, <1>2, <1>5, <1>8, <2>1 DEF IInv, RetainersHold, Pending
<1>10. ReleasersHold'
  <2>1. \A u \in Thread : Pending(u, "release")' /\ u # t =>
          /\ Pending(u, "release") /\ call'[u] = call[u] /\ call[u].by # t
    BY <1>5 DEF Pending, IInv, ReleasersHold
  <2> QED
    BY <1>1, <1>2, <1>5, <1>8, <2>1 DEF IInv, ReleasersHold, Pending
<1>11. ChildrenHold'
    BY <1>1, <1>5 DEF IInv, ChildrenHold, Retaining, Idle
<1> QED
    BY <1>4, <1>6, <1>7, <1>9, <1>10, <1>11 DEF IInv

-----------------------------------------------------------------------------
(* The theorems.                                                           *)

LEMMA StutterKeeps ==
    ASSUME IInv, UNCHANGED counting
    PROVE  IInv'
BY DEF counting, IInv, CountingType, CountsAreOwners, DeletersAlone, RetainersHold,
    ReleasersHold, ChildrenHold, OwnersExist, Pending, Deletes, Retaining

LEMMA NextInv ==
    ASSUME IInv, [Next]_vars
    PROVE  IInv'
<1>1. CASE UNCHANGED counting
    BY <1>1, StutterKeeps
<1>2. CASE CountingStep
    BY <1>2, MovesKeep, RetainsKeep, ReleasesKeep, DeleteKeeps, NewKeeps, CallsKeep
       DEF CountingStep
<1> QED
    BY <1>1, <1>2, StepsCount

\* For every number of threads: while a handle lives its counter is the number
\* of references held (Retainable.h 14-29).
THEOREM CountsMatch == Spec => []CountsAreOwners
<1>1. IInv => CountsAreOwners
    BY DEF IInv
<1> QED
    BY <1>1, InitInv, NextInv, PTL DEF Spec

\* What each step of the loops, the constructors and the destructors is to
\* reference counting.
LEMMA StepsRefine ==
    ASSUME IInv, [Next]_vars
    PROVE  References!Next \/ UNCHANGED References!vars
<1>1. CASE UNCHANGED counting
    BY <1>1 DEF counting, References!vars
<1>2. ASSUME NEW t \in Thread, Load(t) \/ Fails(t) PROVE UNCHANGED References!vars
    BY <1>2 DEF Load, Fails, References!vars
<1>3. ASSUME NEW t \in Thread, NEW h \in Handle,
             Release(t, h) \/ \E u \in Thread : Retain(t, h, u)
      PROVE  UNCHANGED References!vars
    BY <1>3 DEF Release, Retain, References!vars
<1>4. ASSUME NEW t \in Thread, NEW h \in Handle, New(t, h) PROVE References!Next
    BY <1>4 DEF New, References!Next, References!Create, Owner
<1>5. ASSUME NEW t \in Thread, Retains(t) PROVE References!Next
  <2>1. /\ call[t].h \in Handle /\ call[t].by \in Owner
        /\ t \in owners[call[t].h] /\ call[t].by \notin owners[call[t].h]
    BY <1>5, CallFields DEF IInv, Retains, RetainersHold, Pending
  <2> QED
    BY <1>5, <2>1 DEF Retains, References!Next, References!Acquire
<1>6. ASSUME NEW t \in Thread, Releases(t) PROVE References!Next
  <2>1. /\ call[t].h \in Handle /\ call[t].by \in Owner
        /\ call[t].by \in owners[call[t].h]
    BY <1>6, CallFields DEF IInv, Releases, ReleasersHold, Pending
  <2> QED
    BY <1>6, <2>1 DEF Releases, References!Next, References!Drop
<1>7. ASSUME NEW t \in Thread, Delete(t) PROVE References!Next
  <2>1. /\ call[t].h \in Handle /\ life[call[t].h] = "live"
        /\ owners[call[t].h] = {}
    BY <1>7, CallFields DEF IInv, Delete, DeletersAlone, Deletes
  <2> QED
    BY <1>7, <2>1 DEF Delete, References!Next, References!Destroy
<1> QED
    BY <1>1, <1>2, <1>3, <1>4, <1>5, <1>6, <1>7, StepsCount DEF CountingStep

\* For every number of threads: the handles implement reference counting.
THEOREM CountingRefines == Spec => ImplementsReferenceCounting
<1>1. Init => References!Init
    BY DEF Init, CountingInit, References!Init
<1> QED
    BY <1>1, InitInv, NextInv, StepsRefine, PTL DEF Spec, ImplementsReferenceCounting

-----------------------------------------------------------------------------
(* Raw pointers.                                                           *)

ObjectsType == /\ args \in [Kernel -> Mem \cup {None}]
               /\ queue \in [Device -> Seq([k : Kernel, m : Mem])]
               /\ unread \subseteq [k : Kernel, m : Mem]

\* What is queued has not been read, and a thread that launched it keeps the
\* kernel and the buffer of a launch in flight.
QueuedAreUnread == \A d \in Device : \A i \in DOMAIN queue[d] : queue[d][i] \in unread
Keeps(t, h) == /\ t \in owners[h]
               /\ ~(Pending(t, "release") /\ call[t].h = h /\ call[t].by = t)
InFlightAreKept == \A l \in unread : \A h \in {l.k, l.m} : \E t \in Thread : Keeps(t, h)

PInv == IInv /\ ObjectsType /\ QueuedAreUnread /\ InFlightAreKept

LEMMA PointersFollow == PInv => PointersAreValid
<1> SUFFICES ASSUME PInv PROVE PointersAreValid
    OBVIOUS
<1>1. ASSUME NEW d \in Device, NEW i \in DOMAIN queue[d]
      PROVE  life[queue[d][i].k] = "live" /\ life[queue[d][i].m] = "live"
  <2>1. /\ queue[d][i] \in unread
        /\ queue[d][i].k \in Handle /\ queue[d][i].m \in Handle
    BY <1>1, ClassesAssumption DEF PInv, QueuedAreUnread, ObjectsType
  <2> QED
    BY <2>1 DEF PInv, InFlightAreKept, Keeps, IInv, CountsAreOwners
<1>2. ASSUME NEW h \in Handle, h \notin {Context} \cup Program, life[h] = "live"
      PROVE  life[Parent[h]] = "live"
  <2>1. Parent[h] \in Handle /\ Parent[h] # None
    BY <1>2, ClassesAssumption, HandlesAssumption
  <2>2. CASE \E t \in Thread : Retaining(t, Parent[h], h)
    <3>1. owners[Parent[h]] # {}
      BY <2>2 DEF PInv, IInv, RetainersHold, Pending, Retaining
    <3> QED
      BY <2>1, <3>1 DEF PInv, IInv, CountsAreOwners
  <2>3. CASE \A t \in Thread : ~Retaining(t, Parent[h], h)
    BY <1>2, <2>1, <2>3 DEF PInv, IInv, ChildrenHold, CountsAreOwners
  <2> QED
    BY <2>2, <2>3
<1> QED
    BY <1>1, <1>2 DEF PointersAreValid

\* A reference that a thread keeps, it keeps until it calls clRelease*.
LEMMA KeptByOthers ==
    ASSUME IInv, NEW t \in Thread, NEW u \in Thread, NEW h \in Handle, Keeps(u, h),
           \/ Load(t) \/ Fails(t) \/ Retains(t) \/ Releases(t) \/ Delete(t)
           \/ \E g \in Handle : New(t, g) \/ \E v \in Thread : Retain(t, g, v)
           \/ \E g \in Handle : Release(t, g) /\ g # h
    PROVE  Keeps(u, h)'
<1>1. call[u] \in {Idle} \cup Calls /\ call[t] \in {Idle} \cup Calls
    BY DEF IInv, CountingType
<1>2. CASE Load(t) \/ Fails(t)
  <2>1. owners' = owners /\ \A v \in Thread : v # t => call'[v] = call[v]
    BY <1>2 DEF Load, Fails, IInv, CountingType
  <2>2. /\ call'[t].what = call[t].what /\ call'[t].h = call[t].h
        /\ call'[t].by = call[t].by /\ call[t].at \in {"load", "cas"}
    BY <1>2 DEF Load, Fails, IInv, CountingType, Moved, Call
  <2> QED
    BY <2>1, <2>2 DEF Keeps, Pending
<1>3. CASE Retains(t)
  <2>1. /\ owners[h] \subseteq owners'[h] /\ \A v \in Thread : v # t => call'[v] = call[v]
        /\ call'[t] = Idle
    BY <1>3 DEF Retains, IInv, CountingType
  <2> QED
    BY <2>1 DEF Keeps, Pending, Idle
<1>4. CASE Releases(t)
  <2>1. call[t].h \in Handle /\ (call[t].by \in Thread => call[t].by = t)
        /\ Pending(t, "release")
    BY <1>4, CallFields DEF Releases, IInv, ReleasersHold, Pending
  <2>2. u \in owners'[h]
    BY <1>4, <2>1 DEF Releases, IInv, CountingType, Keeps
  <2>3. /\ \A v \in Thread : v # t => call'[v] = call[v]
        /\ call'[t].at \in {"idle", "delete"}
    BY <1>4 DEF Releases, IInv, CountingType, Moved, Call, Idle
  <2> QED
    BY <2>2, <2>3 DEF Keeps, Pending
<1>5. CASE Delete(t)
  <2>1. /\ owners' = owners /\ \A v \in Thread : v # t => call'[v] = call[v]
        /\ call[t].h \in Handle
        /\ call'[t] = Idle \/ call'[t].by = call[t].h
    BY <1>5, CallFields DEF Delete, IInv, CountingType, Call
  <2>2. call[t].h # u
    BY <2>1, HandlesAssumption
  <2> QED
    BY <2>1, <2>2 DEF Keeps, Pending, Idle
<1>6. ASSUME NEW g \in Handle, New(t, g)
      PROVE  Keeps(u, h)'
  <2>1. g # h
    BY <1>6 DEF New, Keeps, IInv, CountsAreOwners
  <2>2. /\ owners'[h] = owners[h] /\ \A v \in Thread : v # t => call'[v] = call[v]
        /\ call'[t] = Idle \/ call'[t].what = "retain"
    BY <1>6, <2>1 DEF New, IInv, CountingType, Call
  <2> QED
    BY <2>2 DEF Keeps, Pending, Idle
<1>7. ASSUME NEW g \in Handle,
             (Release(t, g) /\ g # h) \/ \E v \in Thread : Retain(t, g, v)
      PROVE  Keeps(u, h)'
  <2>1. /\ owners' = owners /\ \A v \in Thread : v # t => call'[v] = call[v]
        /\ call'[t].what = "retain" \/ call'[t].h # h
    BY <1>7 DEF Release, Retain, IInv, CountingType, Call
  <2> QED
    BY <2>1 DEF Keeps, Pending
<1> QED
    BY <1>2, <1>3, <1>4, <1>5, <1>6, <1>7

\* The steps that leave the queues and the launches alone.
LEMMA CountingKeepsPointers ==
    ASSUME PInv, IInv', UNCHANGED <<args, queue, unread>>, NEW t \in Thread,
           \/ Load(t) \/ Fails(t) \/ Retains(t) \/ Releases(t) \/ Delete(t)
           \/ \E g \in Handle : New(t, g) \/ \E v \in Thread : Retain(t, g, v)
           \/ \E g \in Handle : ~InFlight(g) /\ Release(t, g)
    PROVE  PInv'
<1>1. ObjectsType' /\ QueuedAreUnread'
    BY DEF PInv, ObjectsType, QueuedAreUnread
<1>2. InFlightAreKept'
  <2> SUFFICES ASSUME NEW l \in unread, NEW h \in {l.k, l.m}
               PROVE  \E u \in Thread : Keeps(u, h)'
    BY DEF InFlightAreKept
  <2>1. PICK u \in Thread : Keeps(u, h)
    BY DEF PInv, InFlightAreKept
  <2>2. h \in Handle /\ InFlight(h)
    BY ClassesAssumption DEF PInv, ObjectsType, InFlight
  <2>3. CASE Load(t) \/ Fails(t) \/ Retains(t) \/ Releases(t) \/ Delete(t)
    BY <2>1, <2>2, <2>3, KeptByOthers DEF PInv
  <2>4. ASSUME NEW g \in Handle, New(t, g) \/ \E v \in Thread : Retain(t, g, v)
        PROVE  Keeps(u, h)'
    BY <2>1, <2>2, <2>4, KeptByOthers DEF PInv
  <2>5. ASSUME NEW g \in Handle, ~InFlight(g), Release(t, g) PROVE Keeps(u, h)'
    <3>1. g # h
      BY <2>2, <2>5
    <3> QED
      BY <2>1, <2>2, <2>5, <3>1, KeptByOthers DEF PInv
  <2> QED
    BY <2>3, <2>4, <2>5
<1> QED
    BY <1>1, <1>2 DEF PInv

\* The steps that leave the counting alone.
LEMMA ObjectsKeepPointers ==
    ASSUME PInv, IInv', UNCHANGED counting,
           \/ UNCHANGED <<args, queue, unread>>
           \/ \E d \in Device : RunCommand(d)
           \/ \E t \in Thread, m \in Mem :
                 \/ Read(t, m)
                 \/ \E k \in Kernel : SetKernelArg(t, k, m)
           \/ \E t \in Thread, k \in Kernel, D \in SUBSET Device : Launch(t, k, D)
    PROVE  PInv'
<1>1. \A u, h : Keeps(u, h)' <=> Keeps(u, h)
    BY DEF counting, Keeps, Pending
<1>2. CASE UNCHANGED <<args, queue, unread>>
    BY <1>1, <1>2 DEF PInv, ObjectsType, QueuedAreUnread, InFlightAreKept
<1>3. ASSUME NEW d \in Device, RunCommand(d) PROVE PInv'
  <2>1. /\ queue[d] \in Seq([k : Kernel, m : Mem]) /\ queue[d] # << >>
        /\ queue' = [queue EXCEPT ![d] = Tail(@)] /\ args' = args /\ unread' = unread
    BY <1>3 DEF RunCommand, PInv, ObjectsType
  <2>2. ASSUME NEW q \in Seq([k : Kernel, m : Mem]), q # << >>
        PROVE  /\ Tail(q) \in Seq([k : Kernel, m : Mem])
               /\ \A i \in DOMAIN Tail(q) : i + 1 \in DOMAIN q /\ Tail(q)[i] = q[i + 1]
    BY <2>2
  <2>3. ObjectsType'
    BY <2>1, <2>2 DEF PInv, ObjectsType
  <2>4. QueuedAreUnread'
    BY <2>1, <2>2 DEF PInv, ObjectsType, QueuedAreUnread
  <2> QED
    BY <1>1, <2>1, <2>3, <2>4 DEF PInv, InFlightAreKept
<1>4. ASSUME NEW t \in Thread, NEW m \in Mem, Read(t, m) PROVE PInv'
    BY <1>1, <1>4 DEF Read, Written, PInv, ObjectsType, QueuedAreUnread, InFlightAreKept
<1>5. ASSUME NEW t \in Thread, NEW m \in Mem, NEW k \in Kernel, SetKernelArg(t, k, m)
      PROVE  PInv'
    BY <1>1, <1>5 DEF SetKernelArg, PInv, ObjectsType, QueuedAreUnread, InFlightAreKept
<1>6. ASSUME NEW t \in Thread, NEW k \in Kernel, NEW D \in SUBSET Device, Launch(t, k, D)
      PROVE  PInv'
  <2> DEFINE l == [k |-> k, m |-> args[k]]
  <2>1. /\ l \in [k : Kernel, m : Mem] /\ Keeps(t, k) /\ Keeps(t, args[k])
        /\ queue' = [d \in Device |-> IF d \in D THEN Append(queue[d], l) ELSE queue[d]]
        /\ unread' = unread \cup {l} /\ args' = args
    BY <1>6 DEF Launch, PInv, ObjectsType, Uses, Keeps, Pending, Idle
  <2>2. ASSUME NEW q \in Seq([k : Kernel, m : Mem])
        PROVE  /\ Append(q, l) \in Seq([k : Kernel, m : Mem])
               /\ \A i \in DOMAIN Append(q, l) :
                    \/ Append(q, l)[i] = l
                    \/ i \in DOMAIN q /\ Append(q, l)[i] = q[i]
    <3> HIDE DEF l
    <3> QED
      BY <2>1
  <2>3. ObjectsType'
    BY <2>1, <2>2 DEF PInv, ObjectsType
  <2>4. QueuedAreUnread'
    BY <2>1, <2>2 DEF PInv, QueuedAreUnread
  <2>5. InFlightAreKept'
    BY <1>1, <2>1 DEF PInv, InFlightAreKept
  <2> QED
    BY <2>3, <2>4, <2>5 DEF PInv
<1> QED
    BY <1>2, <1>3, <1>4, <1>5, <1>6

LEMMA NextPointers ==
    ASSUME PInv, [Next]_vars
    PROVE  PInv'
<1>1. IInv'
    BY NextInv DEF PInv
<1>2. CASE UNCHANGED vars
    BY <1>1, <1>2, ObjectsKeepPointers DEF vars, objects
<1>3. CASE Next
  <2>1. ASSUME NEW d \in Device, RunCommand(d) PROVE PInv'
    BY <1>1, <2>1, ObjectsKeepPointers DEF RunCommand
  <2>2. ASSUME NEW t \in Thread, CreateContext(t) \/ NotHandled(t) PROVE PInv'
    <3>1. CASE Exit
      BY <1>1, <3>1, ObjectsKeepPointers DEF Exit
    <3>2. CASE New(t, Context) /\ UNCHANGED <<args, queue, unread>>
      <4>1. Context \in Handle
        BY ClassesAssumption
      <4> QED
        BY <1>1, <3>2, <4>1, CountingKeepsPointers
    <3> QED
      BY <2>2, <3>1, <3>2 DEF CreateContext, NotHandled
  <2>3. ASSUME NEW t \in Thread, Step(t) PROVE PInv'
    BY <1>1, <2>3, CountingKeepsPointers DEF Step, Counts, Destructor, objects
  <2>4. ASSUME NEW t \in Thread, NEW m \in Mem, CreateBuffer(t, m) \/ Read(t, m)
        PROVE  PInv'
    <3>1. CASE CreateBuffer(t, m)
      <4>1. m \in Handle
        BY ClassesAssumption
      <4> QED
        BY <1>1, <3>1, <4>1, CountingKeepsPointers DEF CreateBuffer
    <3>2. CASE Read(t, m)
      BY <1>1, <3>2, ObjectsKeepPointers DEF Read
    <3> QED
      BY <2>4, <3>1, <3>2
  <2>5. ASSUME NEW t \in Thread, NEW p \in Program,
               CreateProgram(t, p) \/ Build(t, p) \/ NeedsBuild(t, p)
        PROVE  PInv'
    <3>1. CASE CreateProgram(t, p)
      <4>1. p \in Handle
        BY ClassesAssumption
      <4> QED
        BY <1>1, <3>1, <4>1, CountingKeepsPointers DEF CreateProgram, objects
    <3>2. CASE Build(t, p) \/ NeedsBuild(t, p)
      BY <1>1, <3>2, ObjectsKeepPointers DEF Build, NeedsBuild, Exit
    <3> QED
      BY <2>5, <3>1, <3>2
  <2>6. ASSUME NEW t \in Thread, NEW k \in Kernel, CreateKernel(t, k) PROVE PInv'
    <3>1. k \in Handle
      BY ClassesAssumption
    <3> QED
      BY <1>1, <2>6, <3>1, CountingKeepsPointers DEF CreateKernel
  <2>7. ASSUME NEW t \in Thread, NEW k \in Kernel, NEW m \in Mem, SetKernelArg(t, k, m)
        PROVE  PInv'
    BY <1>1, <2>7, ObjectsKeepPointers DEF SetKernelArg
  <2>8. ASSUME NEW t \in Thread, NEW k \in Kernel, NEW D \in SUBSET Device, Launch(t, k, D)
        PROVE  PInv'
    BY <1>1, <2>8, ObjectsKeepPointers DEF Launch
  <2>9. ASSUME NEW t \in Thread, NEW h \in Handle,
               ReleaseHandle(t, h) \/ \E u \in Thread : RetainHandle(t, h, u)
        PROVE  PInv'
    BY <1>1, <2>9, CountingKeepsPointers DEF ReleaseHandle, RetainHandle, LetsGo, objects
  <2> QED
    BY <1>3, <2>1, <2>2, <2>3, <2>4, <2>5, <2>6, <2>7, <2>8, <2>9 DEF Next
<1> QED
    BY <1>2, <1>3

\* For every number of threads, devices and handles: what commands and handles
\* point to has not been destroyed (MemoryHandle.cpp 111-129, KernelHandle.cpp
\* 124-141), if the application reads what a launch wrote before it lets go.
THEOREM PointersStayValid == Spec => []PointersAreValid
<1>1. Init => PInv
    BY InitInv DEF Init, PInv, ObjectsType, QueuedAreUnread, InFlightAreKept
<1> QED
    BY <1>1, NextPointers, PointersFollow, PTL DEF Spec

-----------------------------------------------------------------------------
(* Real objects.                                                           *)

\* A living handle has the real objects its constructor or its builds have made.
RealsAreMade ==
    /\ real \in [Handle -> Int] /\ builds \in [Program -> Nat]
    /\ \A h \in Handle :
          /\ life[h] = "none" => real[h] = 0 /\ (h \in Program => builds[h] = 0)
          /\ life[h] = "live" => real[h] = IF h \in Program THEN builds[h] ELSE 1

RInv == RealsAreMade /\ LeaksOnlyRebuilds

\* Calls that make and destroy no handle, and build nothing.
LEMMA RealsStay ==
    ASSUME RInv, UNCHANGED <<life, real, builds>>
    PROVE  RInv'
BY DEF RInv, RealsAreMade, LeaksOnlyRebuilds

\* A constructor makes one set of real objects; that of a program makes none.
LEMMA NewMakesReals ==
    ASSUME IInv, RInv, NEW t \in Thread, NEW h \in Handle, New(t, h), builds' = builds,
           IF h \in Program THEN real' = real ELSE real' = [real EXCEPT ![h] = 1]
    PROVE  RInv'
<1>1. life \in [Handle -> {"none", "live", "dead"}]
    BY DEF IInv, CountingType
<1>2. life[h] = "none" /\ life'[h] = "live" /\ \A g \in Handle : g # h => life'[g] = life[g]
    BY <1>1 DEF New
<1>3. real'[h] = (IF h \in Program THEN builds[h] ELSE 1)
      /\ \A g \in Handle : g # h => real'[g] = real[g]
    BY <1>2 DEF RInv, RealsAreMade
<1>4. real' \in [Handle -> Int]
    BY DEF RInv, RealsAreMade
<1> QED
    BY <1>2, <1>3, <1>4 DEF RInv, RealsAreMade, LeaksOnlyRebuilds

LEMMA NextReals ==
    ASSUME IInv, RInv, [Next]_vars
    PROVE  RInv'
<1>1. CASE UNCHANGED vars
    BY <1>1, RealsStay DEF vars, counting, objects
<1>2. CASE Next
  <2>1. ASSUME NEW d \in Device, RunCommand(d) PROVE RInv'
    BY <2>1, RealsStay DEF RunCommand, counting
  <2>2. ASSUME NEW t \in Thread, CreateContext(t) \/ NotHandled(t) PROVE RInv'
    <3>1. CASE Exit
      BY <3>1, RealsStay DEF Exit, counting
    <3>2. CASE New(t, Context) /\ real' = [real EXCEPT ![Context] = 1] /\ builds' = builds
      BY <3>2, ClassesAssumption, NewMakesReals
    <3> QED
      BY <2>2, <3>1, <3>2 DEF CreateContext, NotHandled
  <2>3. ASSUME NEW t \in Thread, Counts(t) PROVE RInv'
    BY <2>3, RealsStay DEF Counts, Load, Fails, Retains, Releases, objects
  <2>4. ASSUME NEW t \in Thread, Destructor(t) PROVE RInv'
    <3> DEFINE h == call[t].h
    <3>1. h \in Handle /\ life[h] = "live"
      BY <2>4, CallFields DEF Destructor, Delete, IInv, DeletersAlone, Deletes
    <3>2. /\ life' = [life EXCEPT ![h] = "dead"] /\ builds' = builds
          /\ real' = [real EXCEPT ![h] = @ - Released(h)]
      BY <2>4 DEF Destructor, Delete
    <3>3. life'[h] = "dead" /\ \A g \in Handle : g # h => life'[g] = life[g]
      BY <3>1, <3>2 DEF IInv, CountingType
    <3>4. /\ real'[h] = real[h] - Released(h) /\ real' \in [Handle -> Int]
          /\ \A g \in Handle : g # h => real'[g] = real[g]
      BY <3>1, <3>2 DEF RInv, RealsAreMade, Released
    <3>5. real'[h] = IF h \in Program /\ builds[h] > 1 THEN builds[h] - 1 ELSE 0
      BY <3>1, <3>4 DEF RInv, RealsAreMade, Released
    <3> HIDE DEF h
    <3> QED
      BY <3>1, <3>2, <3>3, <3>4, <3>5 DEF RInv, RealsAreMade, LeaksOnlyRebuilds
  <2>5. ASSUME NEW t \in Thread, NEW m \in Mem, CreateBuffer(t, m) \/ Read(t, m)
        PROVE  RInv'
    <3>1. m \in Handle \ Program
      BY ClassesAssumption, HandlesAssumption
    <3> QED
      BY <2>5, <3>1, NewMakesReals, RealsStay DEF CreateBuffer, Read, counting
  <2>6. ASSUME NEW t \in Thread, NEW p \in Program, CreateProgram(t, p) \/ NeedsBuild(t, p)
        PROVE  RInv'
    <3>1. p \in Handle
      BY ClassesAssumption
    <3> QED
      BY <2>6, <3>1, NewMakesReals, RealsStay
         DEF CreateProgram, NeedsBuild, Exit, counting, objects
  <2>7. ASSUME NEW t \in Thread, NEW p \in Program, Build(t, p) PROVE RInv'
    <3>1. p \in Handle /\ life[p] = "live" /\ life' = life
      BY <2>7, ClassesAssumption DEF Build, Uses, IInv, CountsAreOwners, counting
    <3>2. /\ real' = [real EXCEPT ![p] = @ + 1] /\ builds' = [builds EXCEPT ![p] = @ + 1]
      BY <2>7 DEF Build
    <3> QED
      BY <3>1, <3>2 DEF RInv, RealsAreMade, LeaksOnlyRebuilds
  <2>8. ASSUME NEW t \in Thread, NEW k \in Kernel,
               \/ CreateKernel(t, k)
               \/ \E m \in Mem : SetKernelArg(t, k, m)
               \/ \E D \in (SUBSET Device) \ {{}} : Launch(t, k, D)
        PROVE  RInv'
    <3>1. k \in Handle \ Program
      BY ClassesAssumption, HandlesAssumption
    <3> QED
      BY <2>8, <3>1, NewMakesReals, RealsStay DEF CreateKernel, SetKernelArg, Launch, counting
  <2>9. ASSUME NEW t \in Thread, NEW h \in Handle,
               ReleaseHandle(t, h) \/ \E u \in Thread : RetainHandle(t, h, u)
        PROVE  RInv'
    BY <2>9, RealsStay DEF ReleaseHandle, RetainHandle, Release, Retain, objects
  <2> QED
    BY <1>2, <2>1, <2>2, <2>3, <2>4, <2>5, <2>6, <2>7, <2>8, <2>9 DEF Next, Step
<1> QED
    BY <1>1, <1>2

\* For every number of threads and handles, in whatever order references are given
\* back: a destroyed handle leaves no real objects behind, except those of a program
\* that it was built over (ProgramHandle.cpp 358-366).
THEOREM OnlyRebuildsLeak == Spec => []LeaksOnlyRebuilds
<1>1. Init => RInv
    BY DEF Init, CountingInit, RInv, RealsAreMade, LeaksOnlyRebuilds
<1>2. RInv => LeaksOnlyRebuilds
    BY DEF RInv
<1> QED
    BY <1>1, <1>2, InitInv, NextInv, NextReals, PTL DEF Spec
=============================================================================
