--------------------------- MODULE DeviceLFQueue ---------------------------
(***************************************************************************)
(* DeviceLFQueue: a DeviceQueue whose commands pass through LockFreeQueue, *)
(* a ring with a single producer and a single consumer and no lock.  Every *)
(* access to an index or a slot that the other thread may change is a step *)
(* of its own.                                                             *)
(***************************************************************************)
EXTENDS DeviceQueue

CONSTANT RingSize           \* size_: 4096 in the code; one slot is never used

ASSUME RingAssumption == RingSize \in Nat \ {0, 1}

VARIABLES
    elements,     \* elements_
    idxR,         \* idx_r_
    idxW,         \* idx_w_
    ahead         \* in Size, the worker has seen idx_w_ >= idx_r_

ring == <<elements, idxR, idxW, ahead>>
ringVars == <<base, ring>>

Slot == 0 .. RingSize - 1

After(i) == (i + 1) % RingSize

RingInit ==
    /\ InitBase
    /\ elements = [i \in Slot |-> 0]
    /\ idxR = 0 /\ idxW = 0 /\ ahead = TRUE

-----------------------------------------------------------------------------
(* LockFreeQueue::Enqueue, called until it succeeds.                       *)

AppAt(pc, next) ==
    /\ app = pc
    /\ app' = next
    /\ UNCHANGED <<marked, issued, lastEvent, running, worker, draining, hand, clQueue,
                   stream, completed, submitted>>

Mutant_FindRoomAlways == AppAt("put", "slot") /\ UNCHANGED ring
FindRoom == /\ AppAt("put", "slot")
            /\ After(idxW) # idxR
            /\ UNCHANGED ring

WriteSlot == /\ AppAt("slot", "publish")
             /\ elements' = [elements EXCEPT ![idxW] = issued]
             /\ UNCHANGED <<idxR, idxW, ahead>>

Publish == /\ AppAt("publish", "idle")
           /\ idxW' = After(idxW)
           /\ UNCHANGED <<elements, idxR, ahead>>

-----------------------------------------------------------------------------
(* LockFreeQueue::Size reads idx_w_ twice; then LockFreeQueue::Dequeue.    *)

RingWorkerAt(pcs, next) ==
    /\ worker \in pcs
    /\ worker' = next
    /\ UNCHANGED <<app, marked, issued, lastEvent, running, draining, clQueue, stream,
                   completed, submitted>>

CompareIndexes ==
    /\ RingWorkerAt({"size", "drain"}, "subtract")
    /\ ahead' = (idxW >= idxR)
    /\ UNCHANGED <<hand, elements, idxR, idxW>>

SizeOf == IF ahead THEN idxW - idxR ELSE RingSize - idxR + idxW

WhenEmpty == IF draining THEN "stopped" ELSE "loop"

TestSize ==
    /\ RingWorkerAt({"subtract"}, IF SizeOf # 0 THEN "dequeue" ELSE WhenEmpty)
    /\ UNCHANGED <<hand, ring>>

ReadSlot ==
    /\ RingWorkerAt({"dequeue"}, "advance")
    /\ idxR # idxW
    /\ hand' = elements[idxR]
    /\ UNCHANGED ring

FreeSlot ==
    /\ RingWorkerAt({"advance"}, "execute")
    /\ idxR' = After(idxR)
    /\ UNCHANGED <<hand, elements, idxW, ahead>>

-----------------------------------------------------------------------------

\* The queue can be used until it is destroyed: nothing obliges the application
\* to make another call, but it goes on with the call it is in.
RingInCall == FindRoom \/ WriteSlot \/ Publish
                 \/ ((WakeUp \/ EndWait \/ DestroyFinish("destroy") \/ Join) /\ UNCHANGED ring)

RingBeginCall == (Markers \/ BeginEnqueue \/ Finish \/ BeginDestroy) /\ UNCHANGED ring

RingWorker == CompareIndexes \/ TestSize \/ ReadSlot \/ FreeSlot
              \/ ((WorkerBase \/ Loop("size")) /\ UNCHANGED ring)

RingDevice == Complete /\ UNCHANGED ring

RingNext == RingBeginCall \/ RingInCall \/ RingWorker \/ RingDevice

RingSpec == RingInit /\ [][RingNext]_ringVars
            /\ WF_ringVars(RingInCall) /\ WF_ringVars(RingWorker) /\ WF_ringVars(RingDevice)

RingTypeOK ==
    /\ BaseTypeOK
    /\ app \in {"idle", "put", "slot", "publish", "condWait", "clWait", "destroy", "join",
                "destroyed", "noQueue", "noEvent"}
    /\ worker \in {"create", "loop", "size", "drain", "subtract", "dequeue", "advance",
                   "execute", "signal", "stopped"}
    /\ elements \in [Slot -> 0 .. NbCommands]
    /\ idxR \in Slot /\ idxW \in Slot
    /\ ahead \in BOOLEAN

-----------------------------------------------------------------------------
\* The commands in the ring, oldest first.
InRing == [i \in 1 .. ((idxW - idxR) % RingSize) |-> elements[(idxR + i - 1) % RingSize]]
=============================================================================
