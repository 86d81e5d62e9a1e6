-------------------------- MODULE SequentialMemory --------------------------
(***************************************************************************)
(* What libsplitCL promises to an application that runs on several         *)
(* devices: the memory of one device that executes the calls in the order  *)
(* they are made.  A read returns the contents of its region at the time   *)
(* of the call.                                                            *)
(***************************************************************************)
CONSTANTS Cell,      \* the cells of all the buffers
          Value,     \* what calls store
          NoVal      \* contents that nothing has defined

VARIABLES mem,       \* the contents of the cells
          reply      \* what the read in progress returns, NoVal elsewhere

NoReply == [c \in Cell |-> NoVal]

Init == mem \in [Cell -> Value \cup {NoVal}] /\ reply = NoReply

\* A write, a kernel or a store through a mapping.
Update(S, v) == /\ mem' = [c \in Cell |-> IF c \in S THEN v ELSE mem[c]]
                /\ UNCHANGED reply

\* A copy moves cells; the cells of S get contents found elsewhere.
CopyTo(S) == /\ mem' \in [Cell -> {mem[c] : c \in Cell}]
             /\ \A c \in Cell \ S : mem'[c] = mem[c]
             /\ UNCHANGED reply

\* A read of the cells of S, all of them defined, and the return from it.
Read(S) == /\ reply = NoReply
           /\ S # {} /\ \A c \in S : mem[c] # NoVal
           /\ reply' = [c \in Cell |-> IF c \in S THEN mem[c] ELSE NoVal]
           /\ UNCHANGED mem

Return == reply' = NoReply /\ UNCHANGED mem

Next == \/ \E S \in SUBSET Cell : Read(S) \/ CopyTo(S) \/ \E v \in Value : Update(S, v)
        \/ Return

Spec == Init /\ [][Next]_<<mem, reply>>
=============================================================================
