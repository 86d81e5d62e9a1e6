--------------------------- MODULE MCDeviceQueue ---------------------------
(***************************************************************************)
(* The queue a context makes for a device: a DeviceLFQueue or, without     *)
(* option LOCKFREEQUEUE, a DevicePthreadQueue.  The two share the          *)
(* variables of DeviceQueue; those of the other class keep their values.   *)
(***************************************************************************)
EXTENDS DeviceLFQueue, DevicePthreadQueue

VARIABLE lockFree           \* optLockFreeQueue

either == <<ringVars, threadQueue, lockFree>>

EitherInit ==
    /\ lockFree \in BOOLEAN
    /\ RingInit
    /\ ListInit

Ring(A) == lockFree /\ A /\ UNCHANGED <<threadQueue, lockFree>>
List(A) == ~ lockFree /\ A /\ UNCHANGED <<ring, lockFree>>

EitherNext ==
    \/ Ring(RingBeginCall) \/ Ring(RingInCall) \/ Ring(RingWorker) \/ Ring(RingDevice)
    \/ List(ListBeginCall) \/ List(ListInCall)
    \/ List(ListWorker) \/ List(ListDevice)

\* The threads are scheduled and the device executes what it has been given;
\* nothing obliges the application to make another call.
EitherSpec ==
    /\ EitherInit /\ [][EitherNext]_either
    /\ WF_either(Ring(RingInCall))  /\ WF_either(List(ListInCall))
    /\ WF_either(Ring(RingWorker))  /\ WF_either(List(ListWorker))
    /\ WF_either(Ring(RingDevice))  /\ WF_either(List(ListDevice))

-----------------------------------------------------------------------------
(* Implementation of InOrderQueue: what is pending is what OpenCL has not  *)
(* executed, what the worker holds, and what is between the two threads.   *)

InHand   == IF worker = "execute" THEN <<hand>> ELSE <<>>
InStream == SubSeq(stream, completed + 1, Len(stream))

InOrder == INSTANCE InOrderQueue WITH
               pending   <- InStream \o InHand \o (IF lockFree THEN InRing ELSE threadQueue),
               executed  <- SubSeq(stream, 1, completed),
               finishing <- app \in {"condWait", "clWait"}

\* Whatever the interleaving of the two threads, commands are executed once each
\* and in order, finish returns when nothing is left, and it does return, with
\* either class of queue.
ImplementsInOrderQueue == InOrder!Spec
=============================================================================
