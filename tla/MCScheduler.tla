------------------------------ MODULE MCScheduler ------------------------------
(* Small kernels, launches and partitions for Scheduler. *)
EXTENDS Scheduler

OCL(f, d)    == [tag |-> "OCL", func |-> f, dim |-> d]
Literal(n)   == [tag |-> "VALUE", n |-> n]
Op(op, i, j) == [tag |-> "BINOP", op |-> op, e1 |-> i, e2 |-> j]
Arg          == [tag |-> "ARG", pos |-> 1]
Indirection  == [tag |-> "INDIR", no |-> 1]
Unanalysed(S) == [tag |-> "UNKNOWN", values |-> S]

Gid    == <<OCL("GET_GLOBAL_ID", 0)>>
Row    == <<OCL("GET_GLOBAL_ID", 1)>>
Group  == <<OCL("GET_GROUP_ID", 0)>>
Next1  == Gid \o <<Literal(1), Op("Add", 1, 2)>>
ByArg  == Gid \o <<Arg, Op("Add", 1, 2)>>
\* The element of a matrix of Width columns.
Cell(width) == <<OCL("GET_GLOBAL_ID", 0), OCL("GET_GLOBAL_ID", 1), Literal(width),
                 Op("Mul", 2, 3), Op("Add", 1, 4)>>

At(e)        == [expr |-> e, guards |-> <<>>]
AtIf(e, g)   == [expr |-> e, guards |-> <<g>>]
Below(n)     == [func |-> "GET_GLOBAL_ID", dim |-> 0, pred |-> "LT", expr |-> n, val |-> <<>>]
AtLeast(n)   == [func |-> "GET_GLOBAL_ID", dim |-> 0, pred |-> "GE", expr |-> n, val |-> <<>>]

Buffer == [kind \in Kinds |-> <<>>]
Kernel(args)  == [args |-> args, indirections |-> <<>>]
Reads(e)      == [Buffer EXCEPT !["load"] = <<At(e)>>]
Stores(e)     == [Buffer EXCEPT !["store"] = <<At(e)>>]

SmallKernels ==
  [map      |-> Kernel(<<Stores(Gid), Reads(ByArg)>>),
   bounded  |-> Kernel(<<[Buffer EXCEPT !["store"] = <<AtIf(Gid, Below(<<Arg>>))>>],
                         [Buffer EXCEPT !["load"]  = <<AtIf(Next1, AtLeast(<<Arg>>)), At(Gid)>>]>>),
   scatter2 |-> Kernel(<<[Buffer EXCEPT !["store"] = <<At(Gid), At(Next1)>>], Stores(Gid), Reads(Next1)>>),
   gather   |-> [args |-> <<Stores(Gid), Reads(<<Indirection>>), Reads(Gid)>>,
                 indirections |-> <<[arg |-> 3, expr |-> Gid, guards |-> <<>>]>>],
   gather2  |-> [args |-> <<[Buffer EXCEPT !["store"] = <<At(Gid), At(Next1)>>],
                            Reads(<<Indirection>>), Reads(Gid)>>,
                 indirections |-> <<[arg |-> 3, expr |-> Gid, guards |-> <<>>]>>],
   scatter  |-> [args |-> <<Stores(<<Indirection>>), Reads(Gid), Reads(Gid)>>,
                 indirections |-> <<[arg |-> 3, expr |-> Gid, guards |-> <<>>]>>],
   unknown  |-> Kernel(<<Stores(<<Unanalysed({0, 2})>>), Reads(Gid)>>),
   matrix   |-> Kernel(<<Stores(Cell(2)), Reads(Row)>>),
   sums     |-> Kernel(<<[Buffer EXCEPT !["atomicSum"] = <<At(<<Unanalysed({0, 1})>>)>>],
                         [Buffer EXCEPT !["atomicMax"] = <<At(Group)>>],
                         Stores(Gid)>>),
   flags    |-> Kernel(<<[Buffer EXCEPT !["or"] = <<At(<<Literal(0)>>)>>, !["load"] = <<At(Gid)>>]>>)]

Line(n, ls) == Launch(<<n>>, <<0>>, <<ls>>)

On(k, nd, args) == [kernel |-> k, nd |-> nd, args |-> args, arrays |-> <<>>]
With1(k, nd, f) == [kernel |-> k, nd |-> nd, args |-> <<0>>, arrays |-> [a \in {3} |-> f]]

\* Index arrays whose elements grow with the index, with room for what the last part
\* of a shifted partition reads behind the launch. A scatter through the second writes
\* elements twice and is shifted.
Growing == {[e \in 0 .. 7 |-> e], [e \in 0 .. 7 |-> (e + 1) \div 2], [e \in 0 .. 7 |-> 2 * e]}

SmallCalls ==
  {On(k, Line(n, 1), <<arg>>) : k \in {"map", "bounded"}, n \in {1, 4}, arg \in {0, 2}}
    \cup {On(k, nd, <<0>>) : k \in {"unknown", "sums", "flags"}, nd \in {Line(4, 1), Line(6, 2)}}
    \cup {On("scatter2", nd, <<0>>) : nd \in {Line(2, 1), Line(4, 1), Line(6, 1), Line(8, 2)}}
    \cup {On("matrix", nd, <<0>>) : nd \in {Launch(<<2, 4>>, <<0, 0>>, <<1, 1>>),
                                             Launch(<<2, 2>>, <<0, 0>>, <<2, 1>>)}}
    \cup {With1(k, Line(4, 1), f) : k \in {"gather", "gather2", "scatter"}, f \in Growing}

Shared(shares) == [i \in DOMAIN shares |-> [dev |-> i - 1, share |-> shares[i]]]

SmallRequests == {Shared(<<6, 6>>), Shared(<<4, 4, 4>>), Shared(<<3, 9>>), Shared(<<12>>)}

\* A launch that does not begin at zero.
OffsetCalls == {On("map", Launch(<<4>>, <<2>>, <<1>>), <<0>>)}

\* A kernel whose first argument merges and whose second does not, but whose stores to
\* the second overlap once six sub-kernels of one group are widened.
TwoStores == [two |-> Kernel(<<Stores(Gid \o <<Literal(2), Op("Div", 1, 2)>>),
                               Stores(Gid \o <<Literal(2), Op("Mul", 1, 2), Literal(13),
                                              Op("Sub", 4, 3), Op("Mul", 1, 5)>>)>>)]
TwoCalls    == {On("two", Line(6, 1), <<0>>)}
TwoRequests == {Shared(<<1, 1, 1, 1, 1, 1>>)}

=============================================================================
