------------------------------ MODULE MCHandles ------------------------------
(* Two threads, two devices, one buffer, one program and one kernel. *)
EXTENDS Handles

CONSTANTS t1, t2, ctx, m1, prog, k1

MCHandle == {ctx, m1, prog, k1}
MCParent == [h \in MCHandle |-> CASE h = m1 -> ctx [] h = k1 -> prog [] OTHER -> None]
==============================================================================
