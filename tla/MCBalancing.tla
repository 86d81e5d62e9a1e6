------------------------------ MODULE MCBalancing ------------------------------
(* Small partitions and settings for Balancing: three devices, two kernels. *)
EXTENDS Balancing

Shares3(a, b, c) == (0 :> a) @@ (1 :> b) @@ (2 :> c)
Part3(a, b, c)   == <<[dev |-> 0, share |-> a], [dev |-> 1, share |-> b], [dev |-> 2, share |-> c]>>

\* Null shares in every place, shares of less than half a work group, one device.
SmallCandidates == {Shares3(3, 3, 6), Shares3(1, 5, 6),
                    Shares3(0, 6, 6), Shares3(6, 0, 6), Shares3(5, 7, 0), Shares3(12, 0, 0)}
SmallSteps == {Shares3(6, 3, 3), Shares3(9, 6, -3), Shares3(0, 15, -3), Shares3(0, 0, 12)}

\* Set by PARTITION, PARTITION0 or GRANUDSCR: in any order, not adding up, or none.
SmallOptions ==
  {[name |-> "none", granu |-> <<>>],
   [name |-> "PARTITION", granu |-> Part3(2, 5, 5)],
   [name |-> "PARTITION", granu |-> <<[dev |-> 2, share |-> 6], [dev |-> 0, share |-> 6]>>],
   [name |-> "PARTITION", granu |-> <<[dev |-> 0, share |-> 6]>>],
   [name |-> "GRANUDSCR", granu |-> Part3(3, 3, 3)]}

\* Nothing for the first device, and halves of work groups for the others (with
\* Unit = 8 and four work groups): TotalIsWhole does not hold.
HalfCandidates == {Shares3(0, 3, 5)}

SmallHalo == (0 :> 0) @@ (1 :> 1)
=============================================================================
