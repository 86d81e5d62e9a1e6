------------------------- MODULE DevicePthreadQueue -------------------------
(***************************************************************************)
(* DevicePthreadQueue: a DeviceQueue whose commands pass through a list    *)
(* protected by queueLock; an idle worker sleeps on wakeupCond.  A section *)
(* under queueLock is one step: everything the other thread does with the  *)
(* list while both run is under queueLock too.                             *)
(***************************************************************************)
EXTENDS DeviceQueue

VARIABLE threadQueue        \* threadQueue

listVars == <<base, threadQueue>>

ListInit == InitBase /\ threadQueue = <<>>

\* pthread_cond_broadcast(&wakeupCond): a worker that is not asleep hears nothing.
Broadcast == worker' = IF worker = "asleep" THEN "loop" ELSE worker

-----------------------------------------------------------------------------

Put ==
    /\ app = "put"
    /\ threadQueue' = Append(threadQueue, issued)
    /\ Broadcast
    /\ app' = "idle"
    /\ UNCHANGED <<marked, issued, lastEvent, running, draining, hand, clQueue, stream,
                   completed, submitted>>

\* The destructor wakes the worker without the lock.
WakeWorker ==
    /\ app = "destroy"
    /\ Broadcast
    /\ app' = "woken"
    /\ UNCHANGED <<marked, issued, lastEvent, running, draining, hand, clQueue, stream,
                   completed, submitted, threadQueue>>

ListWorkerAt(pc, next) ==
    /\ worker = pc
    /\ worker' = next
    /\ UNCHANGED <<app, marked, issued, lastEvent, running, draining, clQueue, stream,
                   completed, submitted>>

\* One command from the front of the list, if there is one.
Take(pc, whenEmpty) ==
    \/ /\ threadQueue # <<>>
       /\ ListWorkerAt(pc, "execute")
       /\ hand' = Head(threadQueue)
       /\ threadQueue' = Tail(threadQueue)
    \/ /\ threadQueue = <<>>
       /\ ListWorkerAt(pc, whenEmpty)
       /\ UNCHANGED <<hand, threadQueue>>

\* Under the lock again: the list may have been filled in between.
Sleep ==
    /\ ListWorkerAt("idle", IF threadQueue = <<>> THEN "asleep" ELSE "loop")
    /\ UNCHANGED <<hand, threadQueue>>

\* pthread_cond_timedwait gives up after at most five seconds.
Mutant_NoTimeout == FALSE
Timeout ==
    /\ ListWorkerAt("asleep", "loop")
    /\ UNCHANGED <<hand, threadQueue>>

-----------------------------------------------------------------------------

ListInCall == Put \/ WakeWorker
                 \/ ((WakeUp \/ EndWait \/ DestroyFinish("woken") \/ Join) /\ UNCHANGED threadQueue)

ListBeginCall == (Markers \/ BeginEnqueue \/ Finish \/ BeginDestroy) /\ UNCHANGED threadQueue

ListWorker == Take("pop", "idle") \/ Take("drain", "stopped") \/ Sleep \/ Timeout
              \/ ((WorkerBase \/ Loop("pop")) /\ UNCHANGED threadQueue)

ListDevice == Complete /\ UNCHANGED threadQueue

ListNext == ListBeginCall \/ ListInCall \/ ListWorker \/ ListDevice

ListSpec == ListInit /\ [][ListNext]_listVars
            /\ WF_listVars(ListInCall) /\ WF_listVars(ListWorker) /\ WF_listVars(ListDevice)

ListTypeOK ==
    /\ BaseTypeOK
    /\ app \in {"idle", "put", "condWait", "clWait", "destroy", "woken", "join", "destroyed",
                "noQueue", "noEvent"}
    /\ worker \in {"create", "loop", "pop", "idle", "asleep", "drain", "execute", "signal",
                   "stopped"}
    /\ threadQueue \in Seq(Command)

=============================================================================
