---------------------------- MODULE InOrderQueue ----------------------------
(***************************************************************************)
(* What a DeviceQueue promises to the driver: the commands handed to it    *)
(* are executed once each, in the order of the calls, and finish returns   *)
(* when nothing is left to execute.  SplitMemory takes its device queues   *)
(* to be such queues.                                                      *)
(***************************************************************************)
EXTENDS Sequences

CONSTANT Command

VARIABLES
    pending,      \* commands accepted and not yet executed
    executed,     \* commands executed
    finishing     \* the application is in finish

Init == pending = <<>> /\ executed = <<>> /\ finishing = FALSE

Enqueue(c) == /\ ~ finishing
              /\ pending' = Append(pending, c)
              /\ UNCHANGED <<executed, finishing>>

Execute == /\ pending # <<>>
           /\ executed' = Append(executed, Head(pending))
           /\ pending' = Tail(pending)
           /\ UNCHANGED finishing

Finish == /\ ~ finishing
          /\ finishing' = TRUE
          /\ UNCHANGED <<pending, executed>>

Return == /\ finishing
          /\ pending = <<>>
          /\ finishing' = FALSE
          /\ UNCHANGED <<pending, executed>>

Next == (\E c \in Command : Enqueue(c)) \/ Execute \/ Finish \/ Return

vars == <<pending, executed, finishing>>
Spec == Init /\ [][Next]_vars /\ WF_vars(Execute) /\ WF_vars(Return)
=============================================================================
