---------------------------- MODULE MCReductions ----------------------------
(***************************************************************************)
(* Launches for module Reductions: two or three devices, a buffer of two   *)
(* elements.  In an atomic launch every subkernel has the same region, and *)
(* may update any part of it.                                              *)
(***************************************************************************)
EXTENDS Reductions

Splits     == {D \in SUBSET Dev : Cardinality(D) > 1}
Per(D, f)  == [d \in Dev |-> IF d \in D THEN f[d] ELSE {}]
Operand(x) == [d \in Dev |-> (d + x) % Modulus]

\* D gets subkernels and the devices of A have something of the buffer to update.
Atomic(op, D, A, S, upd, val) ==
    [devs |-> D, op |-> op, reg |-> [d \in Dev |-> IF d \in A THEN S ELSE {}],
     upd |-> Per(A, upd), val |-> val]

AtomicLaunches ==
    {Atomic(op, D, D, S, [d \in Dev |-> IF d = 0 THEN U ELSE S], Operand(2)) :
        op \in {"sum", "max", "min"}, D \in Splits,
        S \in {{0}, Elem}, U \in {{}, {0}}}
    \cup {Atomic("sum", Dev, A, Elem, [d \in Dev |-> Elem], Operand(1)) : A \in {{0}, {1}}}

FlagLaunches ==
    {Atomic("or", D, D, {1}, [d \in Dev |-> IF d = e THEN {1} ELSE {}], [d \in Dev |-> 1]) :
        D \in Splits, e \in Dev}

\* Each device stores its part; or one device alone does everything.
StoreLaunches ==
    {[devs |-> {0, 1}, op |-> "store", reg |-> Per({0, 1}, [d \in Dev |-> {d}]),
      upd |-> Per({0, 1}, [d \in Dev |-> {d}]), val |-> Operand(1)]}
    \cup {[devs |-> {d}, op |-> op, reg |-> Per({d}, [e \in Dev |-> Elem]),
           upd |-> Per({d}, [e \in Dev |-> {0}]), val |-> Operand(1)] :
          d \in {0, 1}, op \in {"store", "sum"}}

\* Sums only where the host has their base, see ResultsAreExact; everything else
\* with both settings of DELAYEDWRITE.
Supported == delayed \/ call.pc # "d2h" \/ call.k.op # "sum" \/ ~ Reducing(call.k)

SpecSupported == Init /\ [][Next /\ Supported']_vars

MCKernels == {k \in AtomicLaunches \cup FlagLaunches \cup StoreLaunches : k \in Launch}
=============================================================================
