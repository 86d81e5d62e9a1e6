---------------------------- MODULE IntervalSet ----------------------------
(***************************************************************************)
(* What ListInterval promises to BufferManager and the schedulers: sets of *)
(* positions, to which intervals are added and from which they are         *)
(* removed, here two of them.                                              *)
(***************************************************************************)
EXTENDS Integers

CONSTANT MaxPos            \* positions are 0 .. MaxPos

VARIABLES a, b             \* two sets of positions

Position == 0 .. MaxPos

Init == a = {} /\ b = {}

Change(S, new) == \E l \in Position : \E h \in l .. MaxPos :
                      new \in {S \cup (l .. h), S \ (l .. h)}

Next == \/ Change(a, a') /\ UNCHANGED b
        \/ Change(b, b') /\ UNCHANGED a
        \/ a' \in {a \cup b, a \ b} /\ UNCHANGED b

Spec == Init /\ [][Next]_<<a, b>>
=============================================================================
