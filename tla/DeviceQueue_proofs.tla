------------------------- MODULE DeviceQueue_proofs -------------------------
(***************************************************************************)
(* The two classes of queues, for any number of commands and any size of   *)
(* the ring.  First what they have in common: the commands are numbered in *)
(* the order of the calls, so that where each one is follows from a few    *)
(* counters.                                                               *)
(***************************************************************************)
EXTENDS DevicePthreadQueue, DeviceLFQueue, SequenceTheorems, TLAPS

\* Inside enqueue: the command has a number, and is not between the threads yet.
Putting == app \in {"put", "slot", "publish"}

\* How many commands the application has handed over, and the worker taken.
Handed == issued - (IF Putting THEN 1 ELSE 0)
Taken  == Len(stream) + (IF worker = "execute" THEN 1 ELSE 0)

Counters ==
    /\ lastEvent = issued
    /\ Putting => issued > 0
    /\ Taken <= Handed

\* The commands reach OpenCL in the order of their numbers, none left out.
Submissions ==
    /\ \A i \in 1 .. Len(stream) : stream[i] = i
    /\ worker \in {"advance", "execute"} => hand = Len(stream) + 1
    /\ worker = "signal" => hand = Len(stream) /\ hand > 0
    /\ \A e \in submitted : e <= Len(stream)

\* What the application knows when it waits, and when it no longer does.
Waits ==
    /\ app \in {"condWait", "clWait"} => lastEvent # 0
    /\ app = "clWait" /\ ~ SpuriousWakeup => lastEvent <= Len(stream)
    /\ app \in {"join", "destroyed"} => completed = issued

CountInv == BaseTypeOK /\ Counters /\ Submissions /\ Waits

-----------------------------------------------------------------------------
LEMMA InitCounts == InitBase => CountInv
<1> SUFFICES ASSUME InitBase PROVE CountInv
    OBVIOUS
<1>1. Len(stream) = 0 /\ stream \in Seq(Command)
    BY DEF InitBase
<1>2. /\ issued \in 0 .. NbCommands /\ lastEvent \in 0 .. NbCommands
      /\ hand \in 0 .. NbCommands /\ completed \in 0 .. Len(stream)
    BY <1>1, CommandsAssumption DEF InitBase
<1>3. Counters /\ Submissions /\ Waits
    BY <1>1 DEF InitBase, Counters, Submissions, Waits, Handed, Taken, Putting
<1>4. QED BY <1>1, <1>2, <1>3 DEF CountInv, InitBase, BaseTypeOK

\* An event is made with its command, and executed with it.
LEMMA EventsAreNumbers ==
    ASSUME CountInv
    PROVE  /\ Created(lastEvent) <=> lastEvent \in 1 .. Len(stream)
           /\ Completed(lastEvent) <=> lastEvent \in 1 .. completed
BY DEF CountInv, BaseTypeOK, Submissions, Created, Completed

LEMMA CountsImply ==
    ASSUME CountInv
    PROVE  /\ DestroyedAfterAll
           /\ ~ SpuriousWakeup => WaitsForCreatedEvents
<1>1. DestroyedAfterAll
    BY DEF CountInv, Waits, DestroyedAfterAll
<1>2. ASSUME ~ SpuriousWakeup, app = "clWait" PROVE Created(lastEvent)
  <2>1. lastEvent # 0 /\ lastEvent <= Len(stream)
    BY <1>2 DEF CountInv, Waits
  <2>2. lastEvent \in 1 .. Len(stream)
    BY <2>1 DEF CountInv, BaseTypeOK
  <2>3. QED BY <2>2, EventsAreNumbers
<1>3. QED BY <1>1, <1>2 DEF WaitsForCreatedEvents

-----------------------------------------------------------------------------
(* The steps the two classes share.                                        *)

LEMMA ApplicationCounts ==
    ASSUME CountInv, Markers \/ BeginEnqueue \/ Finish \/ WakeUp \/ BeginDestroy \/ Join
    PROVE  CountInv'
<1> USE CommandsAssumption DEF CountInv, BaseTypeOK, Counters, Submissions, Waits, Handed, Taken,
        Putting
<1>1. CASE Markers
    BY <1>1 DEF Markers
<1>2. CASE BeginEnqueue
    BY <1>2 DEF BeginEnqueue
<1>3. CASE Finish
    BY <1>3 DEF Finish, EnterWait
<1>4. CASE WakeUp
    BY <1>4 DEF WakeUp
<1>5. CASE BeginDestroy
    BY <1>5 DEF BeginDestroy
<1>6. CASE Join
    BY <1>6 DEF Join
<1>7. QED BY <1>1, <1>2, <1>3, <1>4, <1>5, <1>6

\* The chain from what has been executed to what has been asked for.
LEMMA InOrder ==
    ASSUME CountInv
    PROVE  /\ issued \in Nat /\ Len(stream) \in Nat /\ completed \in Nat
           /\ Taken \in Nat /\ Handed \in Nat
           /\ completed <= Len(stream) /\ Len(stream) <= Taken
           /\ Taken <= Handed /\ Handed <= issued
<1>1. Len(stream) \in Nat /\ completed \in 0 .. Len(stream) /\ issued \in Nat
    BY CommandsAssumption DEF CountInv, BaseTypeOK
<1>2. Taken \in Nat /\ Len(stream) <= Taken
    BY <1>1 DEF Taken
<1>3. Handed \in Nat /\ Handed <= issued
    BY <1>1 DEF CountInv, Counters, Handed, Putting
<1>4. QED BY <1>1, <1>2, <1>3 DEF CountInv, Counters

LEMMA WaitCounts ==
    ASSUME CountInv, EndWait
    PROVE  CountInv'
<1>1. app' = "noEvent" \/ (app' \in {"idle", "join"} /\ lastEvent \in 1 .. completed)
    BY EventsAreNumbers DEF EndWait
<1>2. app' = "join" => completed = issued
    BY <1>1, InOrder DEF CountInv, Counters
<1>3. QED
    BY <1>1, <1>2 DEF EndWait, CountInv, BaseTypeOK, Counters, Submissions, Waits, Handed, Taken,
                      Putting

LEMMA DestroyFinishCounts ==
    ASSUME CountInv, NEW pc \in {"destroy", "woken"}, DestroyFinish(pc)
    PROVE  CountInv'
<1>1. lastEvent = 0 => completed = issued
    BY InOrder DEF CountInv, Counters
<1>2. CASE lastEvent = 0
    BY <1>1, <1>2 DEF DestroyFinish, CountInv, BaseTypeOK, Counters, Submissions, Waits, Handed,
                      Taken, Putting
<1>3. CASE lastEvent # 0
  <2>1. app' = IF lastEvent \in submitted THEN "clWait" ELSE "condWait"
    BY <1>3 DEF DestroyFinish, EnterWait
  <2>2. QED
    BY <1>3, <2>1 DEF DestroyFinish, CountInv, BaseTypeOK, Counters, Submissions, Waits, Handed,
                      Taken, Putting
<1>4. QED BY <1>2, <1>3

LEMMA SignalCounts ==
    ASSUME CountInv, Signal
    PROVE  CountInv'
<1>1. hand \in Command /\ hand = Len(stream)
    BY DEF Signal, Command, CountInv, BaseTypeOK, Submissions
<1>2. submitted' \in SUBSET Command /\ \A e \in submitted' : e <= Len(stream)
  <2>1. Len(stream) \in Nat /\ \A e \in submitted : e <= Len(stream)
    BY DEF CountInv, BaseTypeOK, Submissions
  <2>2. submitted' = submitted \cup {hand} /\ UNCHANGED stream
    BY DEF Signal
  <2>3. submitted' \in SUBSET Command
    BY <1>1, <2>2 DEF CountInv, BaseTypeOK
  <2>4. QED BY <1>1, <2>1, <2>2, <2>3
<1>3. BaseTypeOK'
    BY <1>2, CommandsAssumption DEF Signal, CountInv, BaseTypeOK
<1>4. Counters'
    BY DEF Signal, CountInv, Counters, Handed, Taken, Putting
<1>5. Submissions' /\ Waits'
    BY <1>2 DEF Signal, CountInv, Submissions, Waits
<1>6. QED BY <1>3, <1>4, <1>5 DEF CountInv

LEMMA WorkerCounts ==
    ASSUME CountInv, NEW next \in {"pop", "size"}, CreateQueue \/ Loop(next)
    PROVE  CountInv'
<1> USE DEF CountInv, BaseTypeOK, Counters, Submissions, Waits, Handed, Taken, Putting
<1>1. CASE CreateQueue
    BY <1>1 DEF CreateQueue
<1>2. CASE Loop(next)
    BY <1>2 DEF Loop
<1>3. QED BY <1>1, <1>2

LEMMA CompleteCounts ==
    ASSUME CountInv, Complete
    PROVE  CountInv'
<1>1. completed' \in 0 .. Len(stream)
    BY InOrder DEF Complete
<1>2. app \in {"join", "destroyed"} => FALSE
    BY InOrder DEF Complete, CountInv, Waits
<1>3. BaseTypeOK'
    BY <1>1 DEF Complete, CountInv, BaseTypeOK
<1>4. Counters' /\ Submissions' /\ Waits'
    BY <1>2 DEF Complete, CountInv, Counters, Submissions, Waits, Handed, Taken, Putting
<1>5. QED BY <1>3, <1>4 DEF CountInv

LEMMA SubmitCounts ==
    ASSUME CountInv, Submit
    PROVE  CountInv' /\ Taken' = Taken
<1>1. hand \in Command /\ hand = Len(stream) + 1
    BY InOrder DEF Submit, Command, CountInv, BaseTypeOK, Submissions
<1>2. /\ stream' \in Seq(Command) /\ Len(stream') = Len(stream) + 1
      /\ \A i \in 1 .. Len(stream') : stream'[i] = i
    BY <1>1 DEF Submit, CountInv, BaseTypeOK, Submissions
<1>3. completed' \in 0 .. Len(stream')
    BY <1>2, InOrder DEF Submit
<1>4. BaseTypeOK'
    BY <1>2, <1>3 DEF Submit, CountInv, BaseTypeOK
<1>5. Taken' = Taken
    BY <1>2 DEF Submit, Taken
<1>6. Handed' = Handed
    BY DEF Submit, Handed, Putting
<1>7. Counters'
    BY <1>5, <1>6 DEF Submit, CountInv, Counters, Putting
<1>8. Submissions'
  <2>1. \A e \in submitted : e \in Nat
    BY DEF CountInv, BaseTypeOK, Command
  <2>2. QED BY <1>1, <1>2, <2>1, InOrder DEF Submit, CountInv, Submissions
<1>9. Waits'
    BY <1>2, InOrder DEF Submit, CountInv, Waits, Counters
<1>10. QED BY <1>4, <1>5, <1>7, <1>8, <1>9 DEF CountInv

-----------------------------------------------------------------------------
(* Sequences of consecutive numbers: what the threads pass to each other.  *)

Numbers(a, b) == [i \in 1 .. (b - a) |-> a + i]

LEMMA NumbersAreSequences ==
    ASSUME NEW a \in Nat, NEW b \in Nat, a <= b
    PROVE  /\ Numbers(a, b) \in Seq(Nat)
           /\ Len(Numbers(a, b)) = b - a
           /\ \A i \in 1 .. b - a : Numbers(a, b)[i] = a + i
<1>1. b - a \in Nat
    OBVIOUS
<1>2. Numbers(a, b) \in [1 .. (b - a) -> Nat]
    BY DEF Numbers
<1>3. QED BY <1>1, <1>2 DEF Numbers

LEMMA SameNumbers ==
    ASSUME NEW a \in Nat, NEW b \in Nat, a <= b, NEW s \in Seq(Nat), Len(s) = b - a,
           \A i \in 1 .. b - a : s[i] = a + i
    PROVE  s = Numbers(a, b)
<1>1. /\ Numbers(a, b) \in Seq(Nat) /\ Len(Numbers(a, b)) = Len(s)
      /\ \A i \in 1 .. Len(s) : s[i] = Numbers(a, b)[i]
    BY NumbersAreSequences
<1>2. QED BY <1>1, SeqEqual

LEMMA NumbersAppended ==
    ASSUME NEW a \in Nat, NEW b \in Nat, a <= b
    PROVE  Append(Numbers(a, b), b + 1) = Numbers(a, b + 1)
<1> DEFINE n == Numbers(a, b)
           s == Append(n, b + 1)
<1>1. n \in Seq(Nat) /\ Len(n) = b - a /\ \A i \in 1 .. b - a : n[i] = a + i
    BY NumbersAreSequences
<1> HIDE DEF n
<1>2. s \in Seq(Nat) /\ Len(s) = (b + 1) - a
    BY <1>1
<1>3. \A i \in 1 .. (b + 1) - a : s[i] = a + i
    BY <1>1
<1> HIDE DEF s
<1>4. s = Numbers(a, b + 1)
    BY <1>2, <1>3, SameNumbers
<1>5. QED BY <1>4 DEF s, n

LEMMA NumbersJoined ==
    ASSUME NEW a \in Nat, NEW b \in Nat, NEW c \in Nat, a <= b, b <= c
    PROVE  Numbers(a, b) \o Numbers(b, c) = Numbers(a, c)
<1> DEFINE m == Numbers(a, b)
           n == Numbers(b, c)
           s == m \o n
<1>1. m \in Seq(Nat) /\ Len(m) = b - a /\ \A i \in 1 .. b - a : m[i] = a + i
    BY NumbersAreSequences
<1>2. n \in Seq(Nat) /\ Len(n) = c - b /\ \A i \in 1 .. c - b : n[i] = b + i
    BY NumbersAreSequences
<1> HIDE DEF m, n
<1>3. /\ s \in Seq(Nat) /\ Len(s) = Len(m) + Len(n)
      /\ \A i \in 1 .. Len(m) + Len(n) :
            s[i] = IF i <= Len(m) THEN m[i] ELSE n[i - Len(m)]
    BY <1>1, <1>2, ConcatProperties
<1> HIDE DEF s
<1>4. Len(s) = c - a /\ \A i \in 1 .. c - a : s[i] = a + i
    BY <1>1, <1>2, <1>3
<1>5. s = Numbers(a, c)
    BY SMTT(30), <1>3, <1>4, SameNumbers
<1>6. QED BY <1>5 DEF s, m, n

LEMMA NumbersTaken ==
    ASSUME NEW a \in Nat, NEW b \in Nat, a < b
    PROVE  /\ Numbers(a, b) # <<>>
           /\ Head(Numbers(a, b)) = a + 1
           /\ Tail(Numbers(a, b)) = Numbers(a + 1, b)
<1>1. Numbers(a, b) \in Seq(Nat) /\ Len(Numbers(a, b)) = b - a /\ b - a > 0
    BY NumbersAreSequences
<1>2. Numbers(a, b) # <<>>
    BY <1>1
<1>3. Head(Numbers(a, b)) = a + 1
    BY <1>1, NumbersAreSequences
<1> DEFINE n == Numbers(a, b)
           t == Tail(n)
<1>4. \A i \in 1 .. b - a : n[i] = a + i
    BY NumbersAreSequences
<1> HIDE DEF n
<1>5. t \in Seq(Nat) /\ Len(t) = b - (a + 1) /\ \A i \in 1 .. b - (a + 1) : t[i] = (a + 1) + i
    BY <1>1, <1>4 DEF n
<1> HIDE DEF t
<1>6. t = Numbers(a + 1, b)
    BY <1>5, SameNumbers
<1>7. QED BY <1>2, <1>3, <1>6 DEF t, n

\* What OpenCL has executed, what it has still to execute, and what the worker
\* holds.
LEMMA StreamIsNumbers ==
    ASSUME CountInv
    PROVE  /\ SubSeq(stream, 1, completed) = Numbers(0, completed)
           /\ SubSeq(stream, completed + 1, Len(stream)) = Numbers(completed, Len(stream))
           /\ (IF worker = "execute" THEN <<hand>> ELSE <<>>) = Numbers(Len(stream), Taken)
<1>1. stream \in Seq(Nat) /\ completed \in Nat /\ Len(stream) \in Nat /\ completed <= Len(stream)
  <2>1. stream \in Seq(Command)
    BY DEF CountInv, BaseTypeOK
  <2>2. Command \subseteq Nat
    BY DEF Command
  <2>3. stream \in Seq(Nat)
    BY <2>1, <2>2, SeqMonotonic
  <2>4. QED BY <2>3, InOrder
<1>2. \A i \in 1 .. Len(stream) : stream[i] = i
    BY DEF CountInv, Submissions
<1>3. SubSeq(stream, 1, completed) = Numbers(0, completed)
  <2> DEFINE s == SubSeq(stream, 1, completed)
  <2>1. s \in Seq(Nat) /\ Len(s) = completed - 0 /\ \A i \in 1 .. completed - 0 : s[i] = 0 + i
    BY <1>1, <1>2
  <2> HIDE DEF s
  <2>2. s = Numbers(0, completed)
    BY <1>1, <2>1, SameNumbers
  <2>3. QED BY <2>2 DEF s
<1>4. SubSeq(stream, completed + 1, Len(stream)) = Numbers(completed, Len(stream))
  <2> DEFINE s == SubSeq(stream, completed + 1, Len(stream))
  <2>1. /\ s \in Seq(Nat) /\ Len(s) = Len(stream) - completed
        /\ \A i \in 1 .. Len(stream) - completed : s[i] = completed + i
    BY <1>1, <1>2
  <2> HIDE DEF s
  <2>2. s = Numbers(completed, Len(stream))
    BY <1>1, <2>1, SameNumbers
  <2>3. QED BY <2>2 DEF s
<1>5. (IF worker = "execute" THEN <<hand>> ELSE <<>>) = Numbers(Len(stream), Taken)
  <2> DEFINE s == IF worker = "execute" THEN <<hand>> ELSE <<>>
  <2>1. /\ s \in Seq(Nat) /\ Len(s) = Taken - Len(stream)
        /\ \A i \in 1 .. Taken - Len(stream) : s[i] = Len(stream) + i
    BY <1>1 DEF CountInv, BaseTypeOK, Submissions, Taken
  <2> HIDE DEF s
  <2>2. s = Numbers(Len(stream), Taken)
    BY <1>1, <2>1, InOrder, SameNumbers
  <2>3. QED BY <2>2 DEF s
<1>6. QED BY <1>3, <1>4, <1>5

-----------------------------------------------------------------------------
(* The shared steps as steps of an in-order queue of consecutive numbers.  *)

Waiting == app \in {"condWait", "clWait"}

Counted == INSTANCE InOrderQueue WITH
               pending   <- Numbers(completed, Handed),
               executed  <- Numbers(0, completed),
               finishing <- Waiting

Promised == [Counted!Next]_(Counted!vars)

LEMMA StutterIsPromised ==
    ASSUME Handed' = Handed, completed' = completed, Waiting' = Waiting
    PROVE  Promised
BY DEF Promised, Counted!vars, Numbers

LEMMA FinishIsPromised ==
    ASSUME Handed' = Handed, completed' = completed, ~ Waiting, Waiting'
    PROVE  Promised
<1>1. Waiting = FALSE /\ Waiting' = TRUE
    BY DEF Waiting
<1>2. Counted!Finish
    BY <1>1 DEF Counted!Finish, Numbers
<1>3. QED BY <1>2 DEF Promised, Counted!Next

LEMMA HandingIsPromised ==
    ASSUME CountInv, Handed' = Handed + 1, completed' = completed, ~ Waiting, ~ Waiting',
           Handed + 1 \in Command
    PROVE  Promised
<1>1. Waiting = FALSE /\ Waiting' = FALSE
    BY DEF Waiting
<1>2. Numbers(completed, Handed)' = Append(Numbers(completed, Handed), Handed + 1)
    BY InOrder, NumbersAppended DEF Numbers
<1>3. Numbers(0, completed)' = Numbers(0, completed)
    BY DEF Numbers
<1>4. Counted!Enqueue(Handed + 1)
    BY <1>1, <1>2, <1>3 DEF Counted!Enqueue
<1>5. QED BY <1>4 DEF Promised, Counted!Next

LEMMA ApplicationKeepsPromise ==
    ASSUME CountInv, Markers \/ BeginEnqueue \/ WakeUp \/ BeginDestroy \/ Join
    PROVE  Promised
<1>1. Handed' = Handed /\ completed' = completed /\ Waiting' = Waiting
  <2> USE DEF Handed, Putting, Waiting
  <2>1. CASE Markers
      BY <2>1 DEF Markers
  <2>2. CASE BeginEnqueue
    <3>1. issued \in Nat
      BY InOrder
    <3>2. QED BY <2>2, <3>1 DEF BeginEnqueue
  <2>3. CASE WakeUp
      BY <2>3 DEF WakeUp
  <2>4. CASE BeginDestroy
      BY <2>4 DEF BeginDestroy
  <2>5. CASE Join
      BY <2>5 DEF Join
  <2>6. QED BY <2>1, <2>2, <2>3, <2>4, <2>5
<1>2. QED BY <1>1, StutterIsPromised

LEMMA FinishKeepsPromise ==
    ASSUME CountInv, Finish
    PROVE  Promised
<1>1. Handed' = Handed /\ completed' = completed /\ ~ Waiting /\ Waiting'
    BY DEF Finish, EnterWait, Handed, Putting, Waiting
<1>2. QED BY <1>1, FinishIsPromised

LEMMA DestroyFinishKeepsPromise ==
    ASSUME CountInv, NEW pc \in {"destroy", "woken"}, DestroyFinish(pc)
    PROVE  Promised
<1>1. Handed' = Handed /\ completed' = completed /\ ~ Waiting
    BY DEF DestroyFinish, EnterWait, Handed, Putting, Waiting
<1>2. CASE Waiting'
    BY <1>1, <1>2, FinishIsPromised
<1>3. CASE ~ Waiting'
  <2>1. Waiting' = Waiting
    BY <1>1, <1>3 DEF Waiting
  <2>2. QED BY <1>1, <2>1, StutterIsPromised
<1>4. QED BY <1>2, <1>3

\* finish returns when everything has been executed: what it waits for is the
\* last event.
LEMMA WaitKeepsPromise ==
    ASSUME CountInv, EndWait, ~ SpuriousWakeup
    PROVE  Promised
<1>1. Created(lastEvent)
    BY CountsImply DEF EndWait, WaitsForCreatedEvents
<1>2. lastEvent \in 1 .. completed /\ app' \in {"idle", "join"}
    BY <1>1, EventsAreNumbers DEF EndWait
<1>3. completed = Handed
    BY <1>2, InOrder DEF CountInv, Counters
<1>4. Handed' = Handed /\ completed' = completed
    BY <1>2 DEF EndWait, Handed, Putting
<1>5. Waiting = TRUE /\ Waiting' = FALSE
    BY <1>2 DEF EndWait, Waiting
<1>6. Numbers(completed, Handed) = <<>>
  <2>1. completed \in Nat /\ Handed \in Nat /\ completed <= Handed /\ Handed - completed = 0
    BY <1>3, InOrder
  <2>2. Numbers(completed, Handed) \in Seq(Nat) /\ Len(Numbers(completed, Handed)) = 0
    BY <2>1, NumbersAreSequences
  <2>3. QED BY <2>2, EmptySeq
<1>7. Counted!Return
    BY <1>4, <1>5, <1>6 DEF Counted!Return, Numbers
<1>8. QED BY <1>7 DEF Promised, Counted!Next

LEMMA WorkerKeepsPromise ==
    ASSUME NEW next \in {"pop", "size"}, CreateQueue \/ Loop(next) \/ Submit \/ Signal
    PROVE  Promised
<1>1. Handed' = Handed /\ completed' = completed /\ Waiting' = Waiting
    BY DEF CreateQueue, Loop, Submit, Signal, Handed, Putting, Waiting
<1>2. QED BY <1>1, StutterIsPromised

LEMMA CompleteKeepsPromise ==
    ASSUME CountInv, Complete
    PROVE  Promised
<1>1. completed < Handed /\ completed' = completed + 1
    BY InOrder DEF Complete
<1>2. Handed' = Handed /\ Waiting' = Waiting
    BY DEF Complete, Handed, Putting, Waiting
<1>3. /\ Numbers(completed, Handed) # <<>>
      /\ Head(Numbers(completed, Handed)) = completed + 1
      /\ Tail(Numbers(completed, Handed)) = Numbers(completed, Handed)'
  <2>1. completed \in Nat /\ Handed \in Nat
    BY InOrder
  <2>2. Numbers(completed, Handed)' = Numbers(completed + 1, Handed)
    BY <1>1, <1>2 DEF Numbers
  <2>3. QED BY <1>1, <2>1, <2>2, NumbersTaken
<1>4. Numbers(0, completed)' = Append(Numbers(0, completed), completed + 1)
    BY <1>1, InOrder, NumbersAppended DEF Numbers
<1>5. Counted!Execute
    BY <1>2, <1>3, <1>4 DEF Counted!Execute
<1>6. QED BY <1>5 DEF Promised, Counted!Next
-----------------------------------------------------------------------------
(* DevicePthreadQueue: a list, a lock and a condition.                     *)

\* The list has what has been handed over and not been taken, in order.
ListContents == threadQueue = Numbers(Taken, Handed)

ListInvariant == CountInv /\ ListContents

LEMMA ListInitInv == ListInit => ListInvariant
<1> SUFFICES ASSUME ListInit PROVE ListInvariant
    OBVIOUS
<1>1. CountInv
    BY InitCounts DEF ListInit
<1>2. Taken = 0 /\ Handed = 0 /\ threadQueue = <<>>
  <2>1. Len(stream) = 0
    BY DEF ListInit, InitBase
  <2>2. Taken = 0
    BY <2>1 DEF ListInit, InitBase, Taken
  <2>3. Handed = 0
    <3>1. issued = 0 /\ ~ Putting
      BY DEF ListInit, InitBase, Putting
    <3>2. Handed = issued - 0
      BY <3>1 DEF Handed
    <3>3. QED BY <3>1, <3>2
  <2>4. QED BY <2>2, <2>3 DEF ListInit
<1>3. Numbers(0, 0) \in Seq(Nat) /\ Len(Numbers(0, 0)) = 0
    BY NumbersAreSequences
<1>4. QED BY <1>1, <1>2, <1>3, EmptySeq DEF ListInvariant, ListContents

\* Nothing moves between the threads.
LEMMA ListStays ==
    ASSUME ListContents, CountInv', Taken' = Taken, Handed' = Handed, UNCHANGED threadQueue
    PROVE  ListInvariant'
BY DEF ListInvariant, ListContents, Numbers

-----------------------------------------------------------------------------
LEMMA PutStep ==
    ASSUME ListInvariant, Put
    PROVE  ListInvariant' /\ Promised
<1>1. CountInv /\ ListContents
    BY DEF ListInvariant
<1>2. /\ Handed' = Handed + 1 /\ Handed + 1 = issued /\ Taken' = Taken
      /\ completed' = completed /\ ~ Waiting /\ ~ Waiting'
  <2>1. issued \in Nat
    BY <1>1, InOrder
  <2>2. QED BY <2>1 DEF Put, Broadcast, Handed, Taken, Putting, Waiting
<1>3. threadQueue' = Numbers(Taken, Handed)'
    BY <1>1, <1>2, InOrder, NumbersAppended DEF Put, ListContents, Numbers
<1>4. CountInv'
  <2>1. BaseTypeOK'
    BY <1>1 DEF Put, CountInv, BaseTypeOK
  <2>2. Counters'
    BY <1>1, <1>2, InOrder DEF Put, CountInv, Counters, Putting
  <2>3. Submissions'
    BY <1>1 DEF Put, Broadcast, CountInv, Submissions
  <2>4. Waits'
    BY <1>1 DEF Put, CountInv, Waits
  <2>5. QED BY <2>1, <2>2, <2>3, <2>4 DEF CountInv
<1>5. Handed + 1 \in Command
    BY <1>1, <1>2, InOrder DEF Command, CountInv, BaseTypeOK
<1>6. Promised
    BY <1>1, <1>2, <1>5, HandingIsPromised
<1>7. QED BY <1>3, <1>4, <1>6 DEF ListInvariant, ListContents

\* Steps of the destructor and of the worker that leave the list alone.
LEMMA WakeStep ==
    ASSUME ListInvariant, WakeWorker \/ Sleep \/ Timeout
    PROVE  ListInvariant' /\ Promised
<1>1. CountInv /\ ListContents
    BY DEF ListInvariant
<1>2. /\ Handed' = Handed /\ Taken' = Taken /\ UNCHANGED threadQueue
      /\ completed' = completed /\ Waiting' = Waiting
    BY DEF WakeWorker, Sleep, Timeout, ListWorkerAt, Broadcast, Handed, Taken, Putting, Waiting
<1>3. CountInv'
  <2>1. BaseTypeOK'
    BY <1>1 DEF WakeWorker, Sleep, Timeout, ListWorkerAt, CountInv, BaseTypeOK
  <2>2. Counters'
    BY <1>1, <1>2 DEF WakeWorker, Sleep, Timeout, ListWorkerAt, CountInv, Counters, Putting
  <2>3. Submissions'
    BY <1>1 DEF WakeWorker, Sleep, Timeout, ListWorkerAt, Broadcast, CountInv, Submissions
  <2>4. Waits'
    BY <1>1 DEF WakeWorker, Sleep, Timeout, ListWorkerAt, CountInv, Waits
  <2>5. QED BY <2>1, <2>2, <2>3, <2>4 DEF CountInv
<1>4. QED BY <1>1, <1>2, <1>3, ListStays, StutterIsPromised

LEMMA TakeStep ==
    ASSUME ListInvariant, Take("pop", "idle") \/ Take("drain", "stopped")
    PROVE  ListInvariant' /\ Promised
<1>1. CountInv /\ ListContents
    BY DEF ListInvariant
<1>2. /\ Handed' = Handed /\ completed' = completed /\ Waiting' = Waiting
      /\ worker \in {"pop", "drain"}
    BY DEF Take, ListWorkerAt, Handed, Putting, Waiting
<1>3. Promised
    BY <1>2, StutterIsPromised
<1>4. CASE threadQueue = <<>>
  <2>1. Taken' = Taken /\ UNCHANGED threadQueue
    BY <1>4 DEF Take, ListWorkerAt, Taken
  <2>2. worker' \in {"idle", "stopped"} /\ UNCHANGED hand
    BY <1>4 DEF Take, ListWorkerAt
  <2>3. CountInv'
    <3>1. BaseTypeOK'
      BY <1>1, <2>2 DEF Take, ListWorkerAt, CountInv, BaseTypeOK
    <3>2. Counters'
      BY <1>1, <1>2, <2>1 DEF Take, ListWorkerAt, CountInv, Counters, Putting
    <3>3. Submissions'
      BY <1>1, <2>2 DEF Take, ListWorkerAt, CountInv, Submissions
    <3>4. Waits'
      BY <1>1 DEF Take, ListWorkerAt, CountInv, Waits
    <3>5. QED BY <3>1, <3>2, <3>3, <3>4 DEF CountInv
  <2>4. QED BY <1>1, <1>2, <1>3, <2>1, <2>3, ListStays
<1>5. CASE threadQueue # <<>>
  <2>1. /\ worker' = "execute" /\ hand' = Head(threadQueue) /\ threadQueue' = Tail(threadQueue)
        /\ UNCHANGED stream
    BY <1>5 DEF Take, ListWorkerAt
  <2>2. Taken = Len(stream) /\ Taken' = Taken + 1
    BY <1>1, <1>2, <2>1, InOrder DEF Taken
  <2>3. Taken < Handed
    <3>1. Len(Numbers(Taken, Handed)) = Handed - Taken /\ Numbers(Taken, Handed) \in Seq(Nat)
      BY <1>1, InOrder, NumbersAreSequences
    <3>2. Len(Numbers(Taken, Handed)) # 0
      BY <1>1, <1>5, <3>1, EmptySeq DEF ListContents
    <3>3. QED BY <1>1, <3>1, <3>2, InOrder
  <2>4. hand' = Taken + 1 /\ threadQueue' = Numbers(Taken, Handed)'
    <3>1. Taken \in Nat /\ Handed \in Nat
      BY <1>1, InOrder
    <3>2. Numbers(Taken, Handed)' = Numbers(Taken + 1, Handed)
      BY <1>2, <2>2 DEF Numbers
    <3>3. QED BY <1>1, <2>1, <2>3, <3>1, <3>2, NumbersTaken DEF ListContents
  <2>5. CountInv'
    <3>1. hand' \in 0 .. NbCommands
      <4>1. issued \in 0 .. NbCommands /\ Taken \in Nat /\ Handed \in Nat /\ Handed <= issued
        BY <1>1, InOrder DEF CountInv, BaseTypeOK
      <4>2. QED BY <2>3, <2>4, <4>1, CommandsAssumption
    <3>2. BaseTypeOK'
      BY <1>1, <3>1 DEF Take, ListWorkerAt, CountInv, BaseTypeOK
    <3>3. Counters'
      BY <1>1, <1>2, <2>2, <2>3, InOrder DEF Take, ListWorkerAt, CountInv, Counters, Putting
    <3>4. Submissions'
      BY <1>1, <2>1, <2>2, <2>4 DEF Take, ListWorkerAt, CountInv, Submissions
    <3>5. Waits'
      BY <1>1 DEF Take, ListWorkerAt, CountInv, Waits
    <3>6. QED BY <3>2, <3>3, <3>4, <3>5 DEF CountInv
  <2>6. QED BY <1>3, <2>4, <2>5 DEF ListInvariant, ListContents
<1>6. QED BY <1>4, <1>5

-----------------------------------------------------------------------------
LEMMA ListSharedStep ==
    ASSUME ListInvariant, UNCHANGED threadQueue,
           \/ Markers \/ BeginEnqueue \/ Finish \/ BeginDestroy
           \/ WakeUp \/ EndWait \/ DestroyFinish("woken") \/ Join
           \/ WorkerBase \/ Loop("pop") \/ Complete
    PROVE  ListInvariant' /\ (~ SpuriousWakeup => Promised)
<1>1. CountInv /\ ListContents
    BY DEF ListInvariant
<1>2. CountInv'
    BY <1>1, ApplicationCounts, WaitCounts, DestroyFinishCounts, WorkerCounts, SignalCounts,
       CompleteCounts, SubmitCounts DEF WorkerBase
<1>3. Handed' = Handed
  <2>1. issued \in Nat
    BY <1>1, InOrder
  <2>2. QED
    BY <2>1 DEF Markers, BeginEnqueue, Finish, BeginDestroy, WakeUp, EndWait, DestroyFinish, Join,
                EnterWait, WorkerBase, CreateQueue, Submit, Signal, Loop, Complete, Handed, Putting
<1>4. Taken' = Taken
  <2>1. CASE Submit
    BY <1>1, <2>1, SubmitCounts
  <2>2. CASE ~ Submit
    BY <2>2 DEF Markers, BeginEnqueue, Finish, BeginDestroy, WakeUp, EndWait, DestroyFinish, Join,
                WorkerBase, CreateQueue, Signal, Loop, Complete, Taken
  <2>3. QED BY <2>1, <2>2
<1>5. ListInvariant'
    BY <1>1, <1>2, <1>3, <1>4, ListStays
<1>6. ~ SpuriousWakeup => Promised
    BY <1>1, ApplicationKeepsPromise, FinishKeepsPromise, WaitKeepsPromise,
       DestroyFinishKeepsPromise, WorkerKeepsPromise, CompleteKeepsPromise DEF WorkerBase
<1>7. QED BY <1>5, <1>6

LEMMA ListStep ==
    ASSUME ListInvariant, [ListNext]_listVars
    PROVE  ListInvariant' /\ (~ SpuriousWakeup => Promised)
<1>1. CASE Put
    BY <1>1, PutStep
<1>2. CASE WakeWorker \/ Sleep \/ Timeout
    BY <1>2, WakeStep
<1>3. CASE Take("pop", "idle") \/ Take("drain", "stopped")
    BY <1>3, TakeStep
<1>4. CASE ListBeginCall
    BY <1>4, ListSharedStep DEF ListBeginCall
<1>5. CASE (WakeUp \/ EndWait \/ DestroyFinish("woken") \/ Join) /\ UNCHANGED threadQueue
    BY <1>5, ListSharedStep
<1>6. CASE (WorkerBase \/ Loop("pop")) /\ UNCHANGED threadQueue
    BY <1>6, ListSharedStep
<1>7. CASE ListDevice
    BY <1>7, ListSharedStep DEF ListDevice
<1>8. CASE UNCHANGED listVars
  <2>1. CountInv'
    BY ZenonT(40), <1>8 DEF listVars, base, ListInvariant, CountInv, BaseTypeOK, Counters, Submissions,
                Waits, Handed, Taken,
                Putting
  <2>2. Handed' = Handed /\ Taken' = Taken /\ completed' = completed /\ Waiting' = Waiting
    BY <1>8 DEF listVars, base, Handed, Taken, Putting, Waiting
  <2>3. ListContents /\ UNCHANGED threadQueue
    BY <1>8 DEF listVars, ListInvariant
  <2>4. QED BY <2>1, <2>2, <2>3, ListStays, StutterIsPromised
<1>9. QED
    BY <1>1, <1>2, <1>3, <1>4, <1>5, <1>6, <1>7, <1>8 DEF ListNext, ListInCall, ListWorker

LEMMA ListIsInvariant == ListSpec => []ListInvariant
<1>1. ListInvariant /\ [ListNext]_listVars => ListInvariant'
    BY ListStep
<1>2. QED BY ListInitInv, <1>1, PTL DEF ListSpec

-----------------------------------------------------------------------------
\* However the two threads interleave and whenever the queue is destroyed, every
\* command has been executed when the destructor is through
\* (DevicePthreadQueue.cpp, ~DevicePthreadQueue).
THEOREM ListIsDrained == ListSpec => []DestroyedAfterAll
<1>1. ListInvariant => DestroyedAfterAll
    BY CountsImply DEF ListInvariant
<1>2. QED BY ListIsInvariant, <1>1, PTL

\* OpenCL is given events it has made, if a condition wait returns only when it
\* is signalled (Event.h).
THEOREM ListEventsExist ==
    ASSUME ~ SpuriousWakeup
    PROVE  ListSpec => []WaitsForCreatedEvents
<1>1. ListInvariant => WaitsForCreatedEvents
    BY CountsImply DEF ListInvariant
<1>2. QED BY ListIsInvariant, <1>1, PTL

-----------------------------------------------------------------------------
(* What is pending is what OpenCL has not executed, what the worker holds, *)
(* and the list.                                                           *)

ListPending  == SubSeq(stream, completed + 1, Len(stream))
                  \o (IF worker = "execute" THEN <<hand>> ELSE <<>>) \o threadQueue
Executed == SubSeq(stream, 1, completed)

InOrderList == INSTANCE InOrderQueue WITH
                   pending <- ListPending, executed <- Executed, finishing <- Waiting

LEMMA ListPendingIsNumbers ==
    ListInvariant => ListPending = Numbers(completed, Handed) /\ Executed = Numbers(0, completed)
<1> SUFFICES ASSUME ListInvariant
             PROVE  ListPending = Numbers(completed, Handed) /\ Executed = Numbers(0, completed)
    OBVIOUS
<1>1. CountInv /\ threadQueue = Numbers(Taken, Handed)
    BY DEF ListInvariant, ListContents
<1>2. Numbers(completed, Len(stream)) \o Numbers(Len(stream), Taken) = Numbers(completed, Taken)
    BY <1>1, InOrder, NumbersJoined
<1>3. Numbers(completed, Taken) \o Numbers(Taken, Handed) = Numbers(completed, Handed)
  <2>1. completed \in Nat /\ Taken \in Nat /\ Handed \in Nat /\ completed <= Taken /\ Taken <= Handed
    BY <1>1, InOrder
  <2>2. QED BY <2>1, NumbersJoined
<1>4. QED BY <1>1, <1>2, <1>3, StreamIsNumbers DEF ListPending, Executed

LEMMA ListPendingNext ==
    ListInvariant' => (ListPending = Numbers(completed, Handed) /\ Executed = Numbers(0, completed))'
BY ListPendingIsNumbers, PTL

\* Every step of the two threads and of OpenCL is a step of a queue that executes
\* each command once, in the order of the calls, and whose finish returns only
\* when nothing is left, or no step of it.
THEOREM ListKeepsOrder ==
    ASSUME ~ SpuriousWakeup
    PROVE  ListSpec => InOrderList!Init /\ [][InOrderList!Next]_(InOrderList!vars)
<1>1. ListInit => InOrderList!Init
  <2> SUFFICES ASSUME ListInit PROVE InOrderList!Init
      OBVIOUS
  <2>1. ListPending = Numbers(0, 0) /\ Executed = Numbers(0, 0) /\ Waiting = FALSE
    <3>1. ListInvariant
      BY ListInitInv
    <3>2. issued = 0 /\ completed = 0 /\ ~ Putting /\ ~ Waiting
      BY DEF ListInit, InitBase, Putting, Waiting
    <3>3. Handed = 0
      <4>1. Handed = issued - 0
        BY <3>2 DEF Handed
      <4>2. QED BY <3>2, <4>1
    <3>4. Waiting = FALSE
      BY <3>2 DEF Waiting
    <3>5. QED BY <3>1, <3>2, <3>3, <3>4, ListPendingIsNumbers
  <2>2. Numbers(0, 0) = <<>>
    <3>1. Numbers(0, 0) \in Seq(Nat) /\ Len(Numbers(0, 0)) = 0
      BY NumbersAreSequences
    <3>2. QED BY <3>1, EmptySeq
  <2>3. QED BY <2>1, <2>2 DEF InOrderList!Init
<1>2. ListInvariant /\ ListInvariant' /\ [ListNext]_listVars => [InOrderList!Next]_(InOrderList!vars)
  <2> SUFFICES ASSUME ListInvariant, ListInvariant', [ListNext]_listVars
               PROVE [InOrderList!Next]_(InOrderList!vars)
      OBVIOUS
  <2>1. Promised
    BY ListStep
  <2>2. ListPending = Numbers(completed, Handed) /\ Executed = Numbers(0, completed)
    BY ListPendingIsNumbers
  <2>3. ListPending' = Numbers(completed, Handed)' /\ Executed' = Numbers(0, completed)'
    BY ListPendingNext
  <2>4. QED
    BY <2>1, <2>2, <2>3
    DEF Promised, Counted!Next, Counted!vars, Counted!Enqueue, Counted!Execute, Counted!Finish,
        Counted!Return, InOrderList!Next, InOrderList!vars, InOrderList!Enqueue,
        InOrderList!Execute, InOrderList!Finish, InOrderList!Return
<1>3. QED BY ListIsInvariant, <1>1, <1>2, PTL DEF ListSpec
-----------------------------------------------------------------------------
(* DeviceLFQueue: a ring and no lock, of any size.                         *)

\* How many commands are in the ring, and the slot of the k-th after the oldest.
Held == Handed - Taken
PlaceFrom(r, k) == IF r + k < RingSize THEN r + k ELSE r + k - RingSize

Indexes ==
    /\ idxR \in Slot
    /\ Held < RingSize
    /\ idxW = PlaceFrom(idxR, Held)

Contents ==
    /\ elements \in [Slot -> 0 .. NbCommands]
    /\ \A k \in Slot : k < Held => elements[PlaceFrom(idxR, k)] = Taken + k + 1

\* What the application has found out about the room, and written.
Producer ==
    /\ app \in {"slot", "publish"} => Held + 1 < RingSize
    /\ app = "publish" => elements[idxW] = issued

\* What the worker has found out about the size: idx_w_ may move between its two
\* readings, but what was in the ring stays there.
Consumer ==
    /\ ahead \in BOOLEAN
    /\ worker = "subtract" /\ ~ ahead => Held > 0
    /\ worker \in {"dequeue", "advance"} => Held > 0

RingInv == Indexes /\ Contents /\ Producer /\ Consumer

RingInvariant == CountInv /\ RingInv

-----------------------------------------------------------------------------
(* Arithmetic of the ring.                                                 *)

LEMMA Wraps ==
    ASSUME NEW x \in Int
    PROVE  /\ 0 <= x /\ x < RingSize => x % RingSize = x
           /\ RingSize <= x /\ x < 2 * RingSize => x % RingSize = x - RingSize
           /\ x < 0 /\ - RingSize < x => x % RingSize = x + RingSize
<1> USE RingAssumption
<1>1. ASSUME 0 <= x, x < RingSize PROVE x % RingSize = x
    BY <1>1
<1>2. ASSUME RingSize <= x, x < 2 * RingSize PROVE x % RingSize = x - RingSize
    BY <1>2
<1>3. ASSUME x < 0, - RingSize < x PROVE x % RingSize = x + RingSize
    BY <1>3
<1>4. QED BY <1>1, <1>2, <1>3

LEMMA Places ==
    ASSUME NEW r \in Slot, NEW k \in Slot
    PROVE  /\ PlaceFrom(r, k) \in Slot
           /\ PlaceFrom(r, 0) = r
           /\ \A l \in Slot : PlaceFrom(r, k) = PlaceFrom(r, l) => k = l
           /\ k + 1 < RingSize => After(PlaceFrom(r, k)) = PlaceFrom(r, k + 1)
           /\ k + 1 = RingSize => After(PlaceFrom(r, k)) = r
           /\ k + 1 < RingSize => PlaceFrom(After(r), k) = PlaceFrom(r, k + 1)
<1> USE RingAssumption DEF Slot, PlaceFrom
<1>1. /\ PlaceFrom(r, k) \in Slot
      /\ PlaceFrom(r, 0) = r
      /\ \A l \in Slot : PlaceFrom(r, k) = PlaceFrom(r, l) => k = l
    OBVIOUS
<1>2. \A i \in Slot : After(i) = IF i + 1 < RingSize THEN i + 1 ELSE 0
    BY Wraps DEF After
<1>3. QED BY <1>1, <1>2

LEMMA HeldInSlot ==
    ASSUME RingInvariant
    PROVE  /\ Held \in Slot /\ Taken \in Nat /\ Handed \in Nat /\ issued \in Nat
           /\ Handed = Taken + Held /\ idxW \in Slot
<1>1. Taken \in Nat /\ Handed \in Nat /\ issued \in Nat /\ Taken <= Handed
    BY InOrder DEF RingInvariant
<1>2. Held \in Slot /\ Handed = Taken + Held
    BY <1>1, RingAssumption DEF Held, Slot, RingInvariant, RingInv, Indexes
<1>3. QED BY <1>1, <1>2, Places DEF RingInvariant, RingInv, Indexes

-----------------------------------------------------------------------------
LEMMA RingInitInv == RingInit => RingInvariant
<1> SUFFICES ASSUME RingInit PROVE RingInvariant
    OBVIOUS
<1>1. CountInv
    BY InitCounts DEF RingInit
<1>2. Held = 0
  <2>1. Len(stream) = 0 /\ issued = 0 /\ ~ Putting /\ worker = "create"
    BY DEF RingInit, InitBase, Putting
  <2>2. Taken = 0
    BY <2>1 DEF Taken
  <2>3. Handed = issued - 0
    BY <2>1 DEF Handed
  <2>4. QED BY <2>1, <2>2, <2>3 DEF Held
<1>3. Indexes
    BY <1>2, RingAssumption DEF RingInit, Indexes, Slot, PlaceFrom
<1>4. Contents
    BY <1>2, CommandsAssumption DEF RingInit, Contents, Slot
<1>5. Producer /\ Consumer
    BY DEF RingInit, InitBase, Producer, Consumer
<1>6. QED BY <1>1, <1>3, <1>4, <1>5 DEF RingInvariant, RingInv

\* Nothing moves between the threads, and neither of them gets further in an
\* operation on the ring.
LEMMA RingStays ==
    ASSUME RingInv, CountInv', Taken' = Taken, Handed' = Handed, UNCHANGED ring,
           app' \in {"slot", "publish"} => UNCHANGED <<app, issued>>,
           worker' \in {"subtract", "dequeue", "advance"} => UNCHANGED worker
    PROVE  RingInvariant'
<1>1. Held' = Held
    BY DEF Held
<1>2. Indexes' /\ Contents'
    BY <1>1 DEF RingInv, Indexes, Contents, ring, PlaceFrom
<1>3. Producer'
    BY <1>1 DEF RingInv, Producer, ring
<1>4. Consumer'
    BY <1>1 DEF RingInv, Consumer, ring
<1>5. QED BY <1>2, <1>3, <1>4 DEF RingInvariant, RingInv

-----------------------------------------------------------------------------
(* The application: one more slot is found free, written and published.    *)

LEMMA AppAtCounts ==
    ASSUME CountInv, NEW next \in {"slot", "publish"},
           AppAt("put", next) \/ AppAt("slot", next)
    PROVE  /\ CountInv' /\ Promised
           /\ Handed' = Handed /\ Taken' = Taken /\ UNCHANGED <<issued, worker>>
<1>1. /\ Handed' = Handed /\ Taken' = Taken /\ completed' = completed /\ Waiting' = Waiting
      /\ UNCHANGED <<issued, worker>>
    BY DEF AppAt, Handed, Taken, Putting, Waiting
<1>2. CountInv'
    BY DEF AppAt, CountInv, BaseTypeOK, Counters, Submissions, Waits, Handed, Taken, Putting
<1>3. QED BY <1>1, <1>2, StutterIsPromised

LEMMA FindRoomStep ==
    ASSUME RingInvariant, FindRoom
    PROVE  RingInvariant' /\ Promised
<1>1. /\ CountInv' /\ Promised
      /\ Handed' = Handed /\ Taken' = Taken /\ UNCHANGED <<issued, worker>>
    BY AppAtCounts DEF FindRoom, RingInvariant
<1>2. Held' = Held
    BY <1>1 DEF Held
<1>3. Held + 1 < RingSize
  <2>1. CASE Held + 1 = RingSize
    <3>1. After(idxW) = idxR
      BY <2>1, HeldInSlot, Places DEF RingInvariant, RingInv, Indexes
    <3>2. QED BY <3>1 DEF FindRoom
  <2>2. QED BY <2>1, HeldInSlot, RingAssumption DEF Slot
<1>4. Indexes' /\ Contents' /\ Consumer'
    BY <1>1, <1>2 DEF FindRoom, RingInvariant, RingInv, Indexes, Contents, Consumer, ring, PlaceFrom
<1>5. Producer'
    BY <1>2, <1>3 DEF FindRoom, AppAt, Producer
<1>6. QED BY <1>1, <1>4, <1>5 DEF RingInvariant, RingInv

\* The slot written is none of those the worker may read.
LEMMA WriteSlotStep ==
    ASSUME RingInvariant, WriteSlot
    PROVE  RingInvariant' /\ Promised
<1>1. /\ CountInv' /\ Promised
      /\ Handed' = Handed /\ Taken' = Taken /\ UNCHANGED <<issued, worker>>
    BY AppAtCounts DEF WriteSlot, RingInvariant
<1>2. Held' = Held /\ UNCHANGED <<idxR, idxW, ahead>>
    BY <1>1 DEF WriteSlot, Held
<1>3. issued \in 0 .. NbCommands /\ idxW \in Slot
    BY HeldInSlot DEF RingInvariant, CountInv, BaseTypeOK
<1>4. /\ elements' \in [Slot -> 0 .. NbCommands]
      /\ elements'[idxW] = issued
      /\ \A i \in Slot : i # idxW => elements'[i] = elements[i]
    BY <1>3 DEF WriteSlot, RingInvariant, RingInv, Contents
<1>5. ASSUME NEW k \in Slot, k < Held
      PROVE  elements'[PlaceFrom(idxR, k)] = Taken + k + 1
  <2>1. PlaceFrom(idxR, k) \in Slot /\ PlaceFrom(idxR, k) # idxW
    BY <1>5, HeldInSlot, Places DEF RingInvariant, RingInv, Indexes, Slot
  <2>2. QED BY <1>4, <1>5, <2>1 DEF RingInvariant, RingInv, Contents
<1>6. Indexes' /\ Consumer'
    BY <1>1, <1>2 DEF RingInvariant, RingInv, Indexes, Consumer, PlaceFrom
<1>7. Contents'
    BY <1>1, <1>2, <1>4, <1>5 DEF Contents, PlaceFrom
<1>8. Producer'
    BY <1>1, <1>2, <1>4 DEF WriteSlot, AppAt, RingInvariant, RingInv, Producer
<1>9. QED BY <1>1, <1>6, <1>7, <1>8 DEF RingInvariant, RingInv

LEMMA PublishStep ==
    ASSUME RingInvariant, Publish
    PROVE  RingInvariant' /\ Promised
<1>1. CountInv
    BY DEF RingInvariant
<1>2. /\ Handed' = Handed + 1 /\ Handed + 1 = issued /\ Taken' = Taken
      /\ completed' = completed /\ ~ Waiting /\ ~ Waiting'
  <2>1. issued \in Nat
    BY HeldInSlot
  <2>2. QED BY <2>1 DEF Publish, AppAt, Handed, Taken, Putting, Waiting
<1>3. CountInv'
  <2>1. BaseTypeOK'
    BY <1>1 DEF Publish, AppAt, CountInv, BaseTypeOK
  <2>2. Counters'
    BY <1>1, <1>2, HeldInSlot, InOrder DEF Publish, AppAt, CountInv, Counters, Putting
  <2>3. Submissions'
    BY <1>1 DEF Publish, AppAt, CountInv, Submissions
  <2>4. Waits'
    BY <1>1 DEF Publish, AppAt, CountInv, Waits
  <2>5. QED BY <2>1, <2>2, <2>3, <2>4 DEF CountInv
<1>4. Promised
  <2>1. Handed + 1 \in Command
    BY <1>1, <1>2, HeldInSlot DEF Command, CountInv, BaseTypeOK
  <2>2. QED BY <1>1, <1>2, <2>1, HandingIsPromised
<1>5. /\ Held' = Held + 1 /\ Held + 1 < RingSize /\ elements[idxW] = issued
      /\ UNCHANGED <<idxR, elements, ahead, worker>>
    BY <1>2, HeldInSlot DEF Publish, AppAt, Held, RingInvariant, RingInv, Producer
<1>6. Indexes'
  <2>1. idxW' = PlaceFrom(idxR, Held + 1)
    BY <1>5, HeldInSlot, Places DEF Publish, RingInvariant, RingInv, Indexes
  <2>2. QED BY <1>5, <2>1 DEF RingInvariant, RingInv, Indexes, PlaceFrom
<1>7. Contents'
  <2>1. ASSUME NEW k \in Slot, k < Held + 1
        PROVE  elements[PlaceFrom(idxR, k)] = Taken + k + 1
    <3>1. CASE k = Held
      BY <1>2, <1>5, <3>1, HeldInSlot DEF RingInvariant, RingInv, Indexes
    <3>2. CASE k < Held
      BY <3>2 DEF RingInvariant, RingInv, Contents
    <3>3. QED BY <2>1, <3>1, <3>2, HeldInSlot DEF Slot
  <2>2. QED BY <1>2, <1>5, <2>1 DEF RingInvariant, RingInv, Contents, PlaceFrom
<1>8. Producer' /\ Consumer'
    BY <1>5, HeldInSlot DEF Publish, AppAt, RingInvariant, RingInv, Producer, Consumer, Slot
<1>9. QED BY <1>3, <1>4, <1>6, <1>7, <1>8 DEF RingInvariant, RingInv

-----------------------------------------------------------------------------
(* The worker: the size, the oldest command, its slot.                     *)

LEMMA CompareStep ==
    ASSUME RingInvariant, CompareIndexes
    PROVE  RingInvariant' /\ Promised
<1>1. /\ Handed' = Handed /\ Taken' = Taken /\ completed' = completed /\ Waiting' = Waiting
      /\ UNCHANGED <<app, issued, elements, idxR, idxW>>
    BY DEF CompareIndexes, RingWorkerAt, Handed, Taken, Putting, Waiting
<1>2. CountInv'
    BY <1>1 DEF CompareIndexes, RingWorkerAt, RingInvariant, CountInv, BaseTypeOK, Counters,
                Submissions, Waits,
                Putting
<1>3. Held' = Held
    BY <1>1 DEF Held
<1>4. Indexes' /\ Contents' /\ Producer'
    BY <1>1, <1>3 DEF RingInvariant, RingInv, Indexes, Contents, Producer, PlaceFrom
<1>5. idxW < idxR => Held > 0
    BY HeldInSlot, Places DEF RingInvariant, RingInv, Indexes, Slot
<1>6. Consumer'
  <2> DEFINE above == idxW >= idxR
  <2>1. ahead' = above /\ worker' = "subtract"
    BY DEF CompareIndexes, RingWorkerAt
  <2>2. above \in BOOLEAN /\ (~ above => idxW < idxR)
    BY HeldInSlot, RingAssumption DEF RingInvariant, RingInv, Indexes, Slot
  <2> HIDE DEF above
  <2>3. ahead' \in BOOLEAN /\ (~ ahead' => idxW < idxR)
    BY <2>1, <2>2
  <2>4. QED BY <1>3, <1>5, <2>1, <2>3 DEF Consumer
<1>7. Promised
    BY <1>1, StutterIsPromised
<1>8. QED BY <1>2, <1>4, <1>6, <1>7 DEF RingInvariant, RingInv

\* Whichever way the comparison went, the size is not zero when and only when
\* there is a command.
LEMMA SizeIsRight ==
    ASSUME RingInvariant, worker = "subtract"
    PROVE  SizeOf # 0 <=> Held > 0
<1>1. idxR \in Slot /\ idxW \in Slot /\ Held \in Slot /\ idxW = PlaceFrom(idxR, Held)
    BY HeldInSlot DEF RingInvariant, RingInv, Indexes
<1>2. CASE ahead
    BY <1>1, <1>2, RingAssumption DEF SizeOf, Slot, PlaceFrom
<1>3. CASE ~ ahead
  <2>1. Held > 0
    BY <1>3 DEF RingInvariant, RingInv, Consumer
  <2>2. SizeOf # 0
    BY <1>1, <1>3, RingAssumption DEF SizeOf, Slot
  <2>3. QED BY <2>1, <2>2
<1>4. QED BY <1>2, <1>3

LEMMA TestStep ==
    ASSUME RingInvariant, TestSize
    PROVE  RingInvariant' /\ Promised
<1>1. /\ Handed' = Handed /\ Taken' = Taken /\ completed' = completed /\ Waiting' = Waiting
      /\ UNCHANGED <<app, issued, elements, idxR, idxW, ahead>>
    BY DEF TestSize, RingWorkerAt, WhenEmpty, Handed, Taken, Putting, Waiting, ring
<1>2. worker' \in {"dequeue", "stopped", "loop"}
    BY DEF TestSize, RingWorkerAt, WhenEmpty
<1>3. CountInv'
    BY <1>1, <1>2 DEF TestSize, RingWorkerAt, RingInvariant, CountInv, BaseTypeOK, Counters,
                      Submissions, Waits,
                      Putting
<1>4. Held' = Held
    BY <1>1 DEF Held
<1>5. Indexes' /\ Contents' /\ Producer'
    BY <1>1, <1>4 DEF RingInvariant, RingInv, Indexes, Contents, Producer, PlaceFrom
<1>6. worker' = "dequeue" => Held > 0
    BY SizeIsRight DEF TestSize, RingWorkerAt, WhenEmpty
<1>7. Consumer'
    BY <1>1, <1>2, <1>4, <1>6 DEF RingInvariant, RingInv, Consumer
<1>8. Promised
    BY <1>1, StutterIsPromised
<1>9. QED BY <1>3, <1>5, <1>7, <1>8 DEF RingInvariant, RingInv

LEMMA ReadSlotStep ==
    ASSUME RingInvariant, ReadSlot
    PROVE  RingInvariant' /\ Promised
<1>1. /\ Handed' = Handed /\ Taken' = Taken /\ completed' = completed /\ Waiting' = Waiting
      /\ UNCHANGED <<app, issued, elements, idxR, idxW, ahead, stream>> /\ worker' = "advance"
    BY DEF ReadSlot, RingWorkerAt, Handed, Taken, Putting, Waiting, ring
<1>2. Held > 0 /\ Held' = Held
    BY <1>1 DEF ReadSlot, RingWorkerAt, RingInvariant, RingInv, Consumer, Held
<1>3. hand' = Taken + 1 /\ Taken = Len(stream)
  <2>1. 0 \in Slot /\ idxR \in Slot /\ Taken \in Nat
    BY HeldInSlot, RingAssumption DEF RingInvariant, RingInv, Indexes, Slot
  <2>2. elements[PlaceFrom(idxR, 0)] = Taken + 0 + 1
    BY <1>2, <2>1 DEF RingInvariant, RingInv, Contents
  <2>3. PlaceFrom(idxR, 0) = idxR
    BY <2>1, Places
  <2>4. Len(stream) \in Nat /\ worker = "dequeue"
    BY InOrder DEF ReadSlot, RingWorkerAt, RingInvariant
  <2>5. QED BY <2>1, <2>2, <2>3, <2>4 DEF ReadSlot, Taken
<1>4. hand' \in 0 .. NbCommands
    BY <1>2, <1>3, HeldInSlot, InOrder, CommandsAssumption DEF Slot, RingInvariant, CountInv,
                                                               BaseTypeOK
<1>5. CountInv'
  <2>1. BaseTypeOK'
    BY <1>4 DEF ReadSlot, RingWorkerAt, RingInvariant, CountInv, BaseTypeOK
  <2>2. Counters'
    BY <1>1 DEF ReadSlot, RingWorkerAt, RingInvariant, CountInv, Counters, Putting
  <2>3. Submissions'
    BY <1>1, <1>3 DEF ReadSlot, RingWorkerAt, RingInvariant, CountInv, Submissions
  <2>4. Waits'
    BY DEF ReadSlot, RingWorkerAt, RingInvariant, CountInv, Waits
  <2>5. QED BY <2>1, <2>2, <2>3, <2>4 DEF CountInv
<1>6. Indexes' /\ Contents' /\ Producer'
    BY <1>1, <1>2 DEF RingInvariant, RingInv, Indexes, Contents, Producer, PlaceFrom
<1>7. Consumer'
    BY <1>1, <1>2 DEF RingInvariant, RingInv, Consumer
<1>8. Promised
    BY <1>1, StutterIsPromised
<1>9. QED BY <1>5, <1>6, <1>7, <1>8 DEF RingInvariant, RingInv

LEMMA FreeSlotStep ==
    ASSUME RingInvariant, FreeSlot
    PROVE  RingInvariant' /\ Promised
<1>1. /\ Handed' = Handed /\ completed' = completed /\ Waiting' = Waiting
      /\ UNCHANGED <<app, issued, elements, idxW, ahead, stream, hand>>
      /\ worker = "advance" /\ worker' = "execute"
    BY DEF FreeSlot, RingWorkerAt, Handed, Putting, Waiting
<1>2. Taken = Len(stream) /\ Taken' = Taken + 1
    BY <1>1, InOrder DEF Taken, RingInvariant
<1>3. Held > 0 /\ Held' = Held - 1
    BY <1>1, <1>2, HeldInSlot DEF RingInvariant, RingInv, Consumer, Held
<1>4. CountInv'
  <2>1. BaseTypeOK'
    BY DEF FreeSlot, RingWorkerAt, RingInvariant, CountInv, BaseTypeOK
  <2>2. Taken' <= Handed'
    BY <1>1, <1>2, <1>3, HeldInSlot DEF Slot
  <2>3. Counters'
    BY <1>1, <2>2 DEF FreeSlot, RingWorkerAt, RingInvariant, CountInv, Counters, Putting
  <2>4. Submissions'
    BY <1>1 DEF FreeSlot, RingWorkerAt, RingInvariant, CountInv, Submissions
  <2>5. Waits'
    BY DEF FreeSlot, RingWorkerAt, RingInvariant, CountInv, Waits
  <2>6. QED BY <2>1, <2>3, <2>4, <2>5 DEF CountInv
<1>5. idxR \in Slot /\ Held \in Slot /\ idxR' = After(idxR) /\ idxR' \in Slot
  <2>1. idxR \in Slot /\ 0 \in Slot /\ 1 \in Slot
    BY RingAssumption DEF RingInvariant, RingInv, Indexes, Slot
  <2>2. After(idxR) = PlaceFrom(idxR, 1) /\ PlaceFrom(idxR, 1) \in Slot
    BY <2>1, Places, RingAssumption DEF Slot
  <2>3. QED BY <2>1, <2>2, HeldInSlot DEF FreeSlot
<1>6. \A k \in Slot : k + 1 < RingSize => PlaceFrom(idxR', k) = PlaceFrom(idxR, k + 1)
    BY <1>5, Places
<1>7. Indexes'
  <2>1. Held - 1 \in Slot /\ (Held - 1) + 1 = Held /\ Held < RingSize
    BY <1>3, <1>5, RingAssumption DEF Slot
  <2>2. PlaceFrom(idxR', Held - 1) = PlaceFrom(idxR, Held)
    BY <1>6, <2>1
  <2>3. idxW' = PlaceFrom(idxR', Held')
    BY <1>1, <1>3, <2>2 DEF RingInvariant, RingInv, Indexes
  <2>4. Held' < RingSize
    BY <1>3, <1>5, <2>1, RingAssumption DEF Slot
  <2>5. QED BY <1>5, <2>3, <2>4 DEF Indexes, PlaceFrom
<1>8. Contents'
  <2>1. ASSUME NEW k \in Slot, k < Held - 1
        PROVE  elements[PlaceFrom(idxR', k)] = (Taken + 1) + k + 1
    <3>1. k + 1 \in Slot /\ k + 1 < Held /\ k + 1 < RingSize
      BY <1>5, <2>1, RingAssumption DEF Slot
    <3>2. elements[PlaceFrom(idxR, k + 1)] = Taken + (k + 1) + 1
      BY <3>1 DEF RingInvariant, RingInv, Contents
    <3>3. Taken + (k + 1) + 1 = (Taken + 1) + k + 1
      BY HeldInSlot DEF Slot
    <3>4. QED BY <1>6, <3>1, <3>2, <3>3
  <2>2. QED BY <1>1, <1>2, <1>3, <2>1 DEF RingInvariant, RingInv, Contents, PlaceFrom
<1>9. Producer' /\ Consumer'
    BY <1>1, <1>3, <1>5, RingAssumption DEF RingInvariant, RingInv, Producer, Consumer, Slot
<1>10. Promised
    BY <1>1, StutterIsPromised
<1>11. QED BY <1>4, <1>7, <1>8, <1>9, <1>10 DEF RingInvariant, RingInv

-----------------------------------------------------------------------------
LEMMA RingSharedStep ==
    ASSUME RingInvariant, UNCHANGED ring,
           \/ Markers \/ BeginEnqueue \/ Finish \/ BeginDestroy
           \/ WakeUp \/ EndWait \/ DestroyFinish("destroy") \/ Join
           \/ WorkerBase \/ Loop("size") \/ Complete
    PROVE  RingInvariant' /\ (~ SpuriousWakeup => Promised)
<1>1. CountInv /\ RingInv
    BY DEF RingInvariant
<1>2. CountInv'
    BY <1>1, ApplicationCounts, WaitCounts, DestroyFinishCounts, WorkerCounts, SignalCounts,
       CompleteCounts, SubmitCounts DEF WorkerBase
<1>3. Handed' = Handed
  <2>1. issued \in Nat
    BY <1>1, InOrder
  <2>2. QED
    BY <2>1 DEF Markers, BeginEnqueue, Finish, BeginDestroy, WakeUp, EndWait, DestroyFinish, Join,
                EnterWait, WorkerBase, CreateQueue, Submit, Signal, Loop, Complete, Handed, Putting
<1>4. Taken' = Taken
  <2>1. CASE Submit
    BY <1>1, <2>1, SubmitCounts
  <2>2. CASE ~ Submit
    BY <2>2 DEF Markers, BeginEnqueue, Finish, BeginDestroy, WakeUp, EndWait, DestroyFinish, Join,
                WorkerBase, CreateQueue, Signal, Loop, Complete, Taken
  <2>3. QED BY <2>1, <2>2
<1>5. app' \in {"slot", "publish"} => UNCHANGED <<app, issued>>
    BY DEF Markers, BeginEnqueue, Finish, BeginDestroy, WakeUp, EndWait, DestroyFinish, Join,
           EnterWait, WorkerBase, CreateQueue, Submit, Signal, Loop, Complete
<1>6. worker' \in {"subtract", "dequeue", "advance"} => UNCHANGED worker
    BY DEF Markers, BeginEnqueue, Finish, BeginDestroy, WakeUp, EndWait, DestroyFinish, Join,
           WorkerBase, CreateQueue, Submit, Signal, Loop, Complete
<1>7. RingInvariant'
    BY <1>1, <1>2, <1>3, <1>4, <1>5, <1>6, RingStays
<1>8. ~ SpuriousWakeup => Promised
    BY <1>1, ApplicationKeepsPromise, FinishKeepsPromise, WaitKeepsPromise,
       DestroyFinishKeepsPromise, WorkerKeepsPromise, CompleteKeepsPromise DEF WorkerBase
<1>9. QED BY <1>7, <1>8

LEMMA RingStep ==
    ASSUME RingInvariant, [RingNext]_ringVars
    PROVE  RingInvariant' /\ (~ SpuriousWakeup => Promised)
<1>1. CASE FindRoom \/ WriteSlot \/ Publish
    BY <1>1, FindRoomStep, WriteSlotStep, PublishStep
<1>2. CASE CompareIndexes \/ TestSize \/ ReadSlot \/ FreeSlot
    BY <1>2, CompareStep, TestStep, ReadSlotStep, FreeSlotStep
<1>3. CASE RingBeginCall
    BY <1>3, RingSharedStep DEF RingBeginCall
<1>4. CASE (WakeUp \/ EndWait \/ DestroyFinish("destroy") \/ Join) /\ UNCHANGED ring
    BY <1>4, RingSharedStep
<1>5. CASE (WorkerBase \/ Loop("size")) /\ UNCHANGED ring
    BY <1>5, RingSharedStep
<1>6. CASE RingDevice
    BY <1>6, RingSharedStep DEF RingDevice
<1>7. CASE UNCHANGED ringVars
  <2>1. CountInv'
    BY <1>7 DEF ringVars, base, RingInvariant, CountInv, BaseTypeOK, Counters, Submissions,
                Waits, Handed, Taken,
                Putting
  <2>2. /\ Handed' = Handed /\ Taken' = Taken /\ completed' = completed /\ Waiting' = Waiting
        /\ UNCHANGED <<app, issued, worker>> /\ UNCHANGED ring
    BY <1>7 DEF ringVars, base, Handed, Taken, Putting, Waiting
  <2>3. RingInv
    BY DEF RingInvariant
  <2>4. QED BY <2>1, <2>2, <2>3, RingStays, StutterIsPromised
<1>8. QED
    BY <1>1, <1>2, <1>3, <1>4, <1>5, <1>6, <1>7 DEF RingNext, RingInCall, RingWorker

LEMMA RingIsInvariant == RingSpec => []RingInvariant
<1>1. RingInvariant /\ [RingNext]_ringVars => RingInvariant'
    BY RingStep
<1>2. QED BY RingInitInv, <1>1, PTL DEF RingSpec

-----------------------------------------------------------------------------
\* However the two threads interleave on the ring, whatever its size, everything
\* enqueued has been executed when the destructor is through (DeviceLFQueue.cpp,
\* ~DeviceLFQueue).
THEOREM RingIsDrained == RingSpec => []DestroyedAfterAll
<1>1. RingInvariant => DestroyedAfterAll
    BY CountsImply DEF RingInvariant
<1>2. QED BY RingIsInvariant, <1>1, PTL

\* OpenCL is given events it has made, if a condition wait returns only when it
\* is signalled (Event.h).
THEOREM RingEventsExist ==
    ASSUME ~ SpuriousWakeup
    PROVE  RingSpec => []WaitsForCreatedEvents
<1>1. RingInvariant => WaitsForCreatedEvents
    BY CountsImply DEF RingInvariant
<1>2. QED BY RingIsInvariant, <1>1, PTL

\* Size reads idx_w_ twice and the application may move it in between, yet what
\* it returns says whether the ring has a command, and the Dequeue that follows
\* succeeds at once, so that its loop never keeps a worker whose destructor waits
\* for it (LockFreeQueue.cpp:36-39, DeviceLFQueue.cpp:60-61 and 73-75).
THEOREM SizeRaceIsBenign ==
    RingSpec => []( /\ worker = "dequeue" => idxR # idxW
                    /\ worker = "subtract" => (SizeOf # 0 <=> idxR # idxW) )
<1>1. ASSUME RingInvariant PROVE Held > 0 <=> idxR # idxW
    BY <1>1, HeldInSlot, RingAssumption DEF RingInvariant, RingInv, Indexes, PlaceFrom, Slot
<1>2. RingInvariant => /\ worker = "dequeue" => idxR # idxW
                       /\ worker = "subtract" => (SizeOf # 0 <=> idxR # idxW)
    BY <1>1, SizeIsRight DEF RingInvariant, RingInv, Consumer
<1>3. QED BY RingIsInvariant, <1>2, PTL

-----------------------------------------------------------------------------
(* What is pending is what OpenCL has not executed, what the worker holds, *)
(* and the ring.  A command read from its slot is the worker's only when   *)
(* the slot has been freed.                                                *)

RingPending  == SubSeq(stream, completed + 1, Len(stream))
                  \o (IF worker = "execute" THEN <<hand>> ELSE <<>>) \o InRing

InOrderRing == INSTANCE InOrderQueue WITH
                   pending <- RingPending, executed <- Executed, finishing <- Waiting

LEMMA InRingIsNumbers ==
    ASSUME RingInvariant
    PROVE  InRing = Numbers(Taken, Handed)
<1>1. /\ idxR \in Slot /\ idxW \in Slot /\ Held \in Slot /\ idxW = PlaceFrom(idxR, Held)
      /\ Handed - Taken = Held /\ Taken \in Nat
    BY HeldInSlot DEF RingInvariant, RingInv, Indexes, Held
<1>2. (idxW - idxR) % RingSize = Held
  <2>1. idxW - idxR = Held \/ idxW - idxR = Held - RingSize
    BY <1>1, RingAssumption DEF Slot, PlaceFrom
  <2>2. idxW - idxR \in Int /\ - RingSize < idxW - idxR /\ idxW - idxR < RingSize
    BY <1>1, RingAssumption DEF Slot
  <2>3. QED BY <1>1, <2>1, <2>2, Wraps, RingAssumption DEF Slot
<1>3. ASSUME NEW i \in 1 .. Held
      PROVE  elements[(idxR + i - 1) % RingSize] = Taken + i
  <2>1. i - 1 \in Slot /\ i - 1 < Held
    BY <1>1, RingAssumption DEF Slot
  <2>2. (idxR + i - 1) % RingSize = PlaceFrom(idxR, i - 1)
    <3>1. idxR + i - 1 \in Int /\ 0 <= idxR + i - 1 /\ idxR + i - 1 < 2 * RingSize
      BY <1>1, <2>1, RingAssumption DEF Slot
    <3>2. idxR + (i - 1) = idxR + i - 1
      BY <1>1 DEF Slot
    <3>3. QED BY <1>1, <2>1, <3>1, <3>2, Wraps, RingAssumption DEF PlaceFrom, Slot
  <2>3. elements[PlaceFrom(idxR, i - 1)] = Taken + (i - 1) + 1
    BY <2>1 DEF RingInvariant, RingInv, Contents
  <2>4. QED BY <1>1, <2>2, <2>3
<1>4. QED BY <1>1, <1>2, <1>3 DEF InRing, Numbers

LEMMA RingPendingIsNumbers ==
    RingInvariant => RingPending = Numbers(completed, Handed) /\ Executed = Numbers(0, completed)
<1> SUFFICES ASSUME RingInvariant
             PROVE  RingPending = Numbers(completed, Handed) /\ Executed = Numbers(0, completed)
    OBVIOUS
<1>1. CountInv /\ InRing = Numbers(Taken, Handed)
    BY InRingIsNumbers DEF RingInvariant
<1>2. Numbers(completed, Len(stream)) \o Numbers(Len(stream), Taken) = Numbers(completed, Taken)
    BY <1>1, InOrder, NumbersJoined
<1>3. Numbers(completed, Taken) \o Numbers(Taken, Handed) = Numbers(completed, Handed)
  <2>1. completed \in Nat /\ Taken \in Nat /\ Handed \in Nat /\ completed <= Taken /\ Taken <= Handed
    BY <1>1, InOrder
  <2>2. QED BY <2>1, NumbersJoined
<1>4. QED BY <1>1, <1>2, <1>3, StreamIsNumbers DEF RingPending, Executed

LEMMA RingPendingNext ==
    RingInvariant' => (RingPending = Numbers(completed, Handed) /\ Executed = Numbers(0, completed))'
BY RingPendingIsNumbers, PTL

\* Every step of the two threads and of OpenCL is a step of a queue that executes
\* each command once, in the order of the calls, and whose finish returns only
\* when nothing is left, or no step of it.
THEOREM RingKeepsOrder ==
    ASSUME ~ SpuriousWakeup
    PROVE  RingSpec => InOrderRing!Init /\ [][InOrderRing!Next]_(InOrderRing!vars)
<1>1. RingInit => InOrderRing!Init
  <2> SUFFICES ASSUME RingInit PROVE InOrderRing!Init
      OBVIOUS
  <2>1. RingPending = Numbers(0, 0) /\ Executed = Numbers(0, 0) /\ Waiting = FALSE
    <3>1. RingInvariant
      BY RingInitInv
    <3>2. issued = 0 /\ completed = 0 /\ ~ Putting /\ ~ Waiting
      BY DEF RingInit, InitBase, Putting, Waiting
    <3>3. Handed = 0
      <4>1. Handed = issued - 0
        BY <3>2 DEF Handed
      <4>2. QED BY <3>2, <4>1
    <3>4. Waiting = FALSE
      BY <3>2 DEF Waiting
    <3>5. QED BY <3>1, <3>2, <3>3, <3>4, RingPendingIsNumbers
  <2>2. Numbers(0, 0) = <<>>
    <3>1. Numbers(0, 0) \in Seq(Nat) /\ Len(Numbers(0, 0)) = 0
      BY NumbersAreSequences
    <3>2. QED BY <3>1, EmptySeq
  <2>3. QED BY <2>1, <2>2 DEF InOrderRing!Init
<1>2. RingInvariant /\ RingInvariant' /\ [RingNext]_ringVars => [InOrderRing!Next]_(InOrderRing!vars)
  <2> SUFFICES ASSUME RingInvariant, RingInvariant', [RingNext]_ringVars
               PROVE [InOrderRing!Next]_(InOrderRing!vars)
      OBVIOUS
  <2>1. Promised
    BY RingStep
  <2>2. RingPending = Numbers(completed, Handed) /\ Executed = Numbers(0, completed)
    BY RingPendingIsNumbers
  <2>3. RingPending' = Numbers(completed, Handed)' /\ Executed' = Numbers(0, completed)'
    BY RingPendingNext
  <2>4. QED
    BY <2>1, <2>2, <2>3
    DEF Promised, Counted!Next, Counted!vars, Counted!Enqueue, Counted!Execute, Counted!Finish,
        Counted!Return, InOrderRing!Next, InOrderRing!vars, InOrderRing!Enqueue,
        InOrderRing!Execute, InOrderRing!Finish, InOrderRing!Return
<1>3. QED BY RingIsInvariant, <1>1, <1>2, PTL DEF RingSpec
=============================================================================
