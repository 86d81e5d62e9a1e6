---------------------------- MODULE DeviceQueue ----------------------------
(***************************************************************************)
(* What the classes DeviceLFQueue and DevicePthreadQueue have in common:   *)
(* the application thread, which enqueues commands, waits for the last one *)
(* (finish) and destroys the queue; the worker thread, which creates the   *)
(* OpenCL queue and submits the commands to it; the OpenCL queue, which    *)
(* executes them in order; and the events the two threads meet at.         *)
(*                                                                         *)
(* How a command gets from one thread to the other is left to modules      *)
(* DeviceLFQueue and DevicePthreadQueue.  The i-th command is the number   *)
(* i, and so is its event; 0 is NULL.  Operators named Mutant_ are not     *)
(* part of the model: each is a definition with the mistake a change to    *)
(* the code could make, and some run must notice it.                       *)
(***************************************************************************)
EXTENDS Integers, Sequences

CONSTANTS
    NbCommands,        \* bound: commands of a run
    SpuriousWakeup     \* TRUE: pthread_cond_wait may return without a signal

ASSUME CommandsAssumption == NbCommands \in Nat \ {0} /\ SpuriousWakeup \in BOOLEAN

Command == 1 .. NbCommands

VARIABLES
    app,          \* where the application thread is
    marked,       \* enqueueDummyEvents has been called
    issued,       \* number of commands for which enqueue has been called
    lastEvent,    \* lastEvent
    running,      \* running
    worker,       \* where the worker thread is
    draining,     \* the worker has left its main loop
    hand,         \* cmd, the command the worker holds
    clQueue,      \* cl_queue has been created
    stream,       \* the commands submitted to cl_queue
    completed,    \* how many of them have been executed
    submitted     \* the events whose flag submitted is set

base == <<app, marked, issued, lastEvent, running, worker, draining, hand, clQueue,
          stream, completed, submitted>>

InitBase ==
    /\ app = "idle" /\ marked = FALSE /\ issued = 0 /\ lastEvent = 0 /\ running = TRUE
    /\ worker = "create" /\ draining = FALSE /\ hand = 0
    /\ clQueue = FALSE /\ stream = <<>> /\ completed = 0 /\ submitted = {}

\* Event::event has been given by OpenCL.
Created(e) == \E i \in 1 .. Len(stream) : stream[i] = e
Completed(e) == \E i \in 1 .. completed : stream[i] = e

-----------------------------------------------------------------------------
(* The application thread.                                                 *)

\* DeviceQueue::enqueueDummyEvents, once, before the first command.  clCheck
\* ends the program when there is no queue.
Markers ==
    /\ app = "idle" /\ ~ marked
    /\ IF clQueue THEN marked' = TRUE /\ UNCHANGED app
                  ELSE app' = "noQueue" /\ UNCHANGED marked
    /\ UNCHANGED <<issued, lastEvent, running, worker, draining, hand, clQueue, stream,
                   completed, submitted>>

\* enqueue records the event before the command is in the queue.
Mutant_BeginEnqueueFirstOnly ==
    /\ app = "idle" /\ marked /\ issued < NbCommands
    /\ issued' = issued + 1
    /\ lastEvent' = IF lastEvent = 0 THEN issued + 1 ELSE lastEvent
    /\ app' = "put"
    /\ UNCHANGED <<marked, running, worker, draining, hand, clQueue, stream, completed,
                   submitted>>
BeginEnqueue ==
    /\ app = "idle" /\ marked /\ issued < NbCommands
    /\ issued' = issued + 1
    /\ lastEvent' = issued + 1
    /\ app' = "put"
    /\ UNCHANGED <<marked, running, worker, draining, hand, clQueue, stream, completed,
                   submitted>>

\* Event::wait, up to the condition wait: under the event's mutex.
EnterWait == app' = IF lastEvent \in submitted THEN "clWait" ELSE "condWait"

Finish ==
    /\ app = "idle" /\ marked /\ lastEvent # 0
    /\ EnterWait
    /\ UNCHANGED <<marked, issued, lastEvent, running, worker, draining, hand, clQueue,
                   stream, completed, submitted>>

\* The event is signalled, or the condition wait returns for no reason; submitted
\* is not checked again.
Mutant_WakeUpAtOnce ==
    /\ app = "condWait"
    /\ app' = "clWait"
    /\ UNCHANGED <<marked, issued, lastEvent, running, worker, draining, hand, clQueue,
                   stream, completed, submitted>>
WakeUp ==
    /\ app = "condWait"
    /\ lastEvent \in submitted \/ SpuriousWakeup
    /\ app' = "clWait"
    /\ UNCHANGED <<marked, issued, lastEvent, running, worker, draining, hand, clQueue,
                   stream, completed, submitted>>

\* clWaitForEvents, the event's mutex held; clCheck ends the program when there
\* is no event.
EndWait ==
    /\ app = "clWait"
    /\ \/ /\ ~ Created(lastEvent)
          /\ app' = "noEvent"
       \/ /\ Completed(lastEvent)
          /\ app' = IF running THEN "idle" ELSE "join"
    /\ UNCHANGED <<marked, issued, lastEvent, running, worker, draining, hand, clQueue,
                   stream, completed, submitted>>

\* The destructor clears running, then finishes, then joins the worker.
BeginDestroy ==
    /\ app = "idle"
    /\ running' = FALSE
    /\ app' = "destroy"
    /\ UNCHANGED <<marked, issued, lastEvent, worker, draining, hand, clQueue, stream,
                   completed, submitted>>

DestroyFinish(pc) ==
    /\ app = pc
    /\ IF lastEvent = 0 THEN app' = "join" ELSE EnterWait
    /\ UNCHANGED <<marked, issued, lastEvent, running, worker, draining, hand, clQueue,
                   stream, completed, submitted>>

Join ==
    /\ app = "join"
    /\ worker = "stopped"
    /\ app' = "destroyed"
    /\ UNCHANGED <<marked, issued, lastEvent, running, worker, draining, hand, clQueue,
                   stream, completed, submitted>>

-----------------------------------------------------------------------------
(* The worker thread and the OpenCL queue.                                 *)

CreateQueue ==
    /\ worker = "create"
    /\ clQueue' = TRUE
    /\ worker' = "loop"
    /\ UNCHANGED <<app, marked, issued, lastEvent, running, draining, hand, stream,
                   completed, submitted>>

\* while (running).
Loop(next) ==
    /\ worker = "loop"
    /\ worker' = IF running THEN next ELSE "drain"
    /\ draining' = ~ running
    /\ UNCHANGED <<app, marked, issued, lastEvent, running, hand, clQueue, stream,
                   completed, submitted>>

\* Command::execute, first the OpenCL call, which creates the event, then
\* setSubmitted, which needs the event's mutex.
Submit ==
    /\ worker = "execute"
    /\ stream' = Append(stream, hand)
    /\ worker' = "signal"
    /\ UNCHANGED <<app, marked, issued, lastEvent, running, draining, hand, clQueue,
                   completed, submitted>>

Signal ==
    /\ worker = "signal"
    /\ ~ (app = "clWait" /\ lastEvent = hand)
    /\ submitted' = submitted \cup {hand}
    /\ worker' = IF draining THEN "drain" ELSE "loop"
    /\ hand' = 0
    /\ UNCHANGED <<app, marked, issued, lastEvent, running, draining, clQueue, stream,
                   completed>>

Complete ==
    /\ completed < Len(stream)
    /\ completed' = completed + 1
    /\ UNCHANGED <<app, marked, issued, lastEvent, running, worker, draining, hand, clQueue,
                   stream, submitted>>

ApplicationBase == Markers \/ BeginEnqueue \/ Finish \/ WakeUp \/ EndWait \/ BeginDestroy \/ Join
WorkerBase      == CreateQueue \/ Submit \/ Signal

BaseTypeOK ==
    /\ marked \in BOOLEAN /\ running \in BOOLEAN /\ draining \in BOOLEAN /\ clQueue \in BOOLEAN
    /\ issued \in 0 .. NbCommands /\ lastEvent \in 0 .. NbCommands /\ hand \in 0 .. NbCommands
    /\ stream \in Seq(Command) /\ completed \in 0 .. Len(stream)
    /\ submitted \in SUBSET Command

-----------------------------------------------------------------------------
(* What the threads rely on.                                               *)

\* wait gives OpenCL an event that OpenCL has made (Event.h:34-44).
WaitsForCreatedEvents == app = "clWait" => Created(lastEvent)

\* The markers are put in a queue that exists (DeviceQueue.cpp:62-63).
MarkersFindQueue == app # "noQueue"

\* When the destructor is through, everything enqueued has been executed.
DestroyedAfterAll == app = "destroyed" => completed = issued

\* The destructor ends, whatever the worker is doing when it begins.
DestructorEnds == (running = FALSE) ~> (app = "destroyed")
=============================================================================
