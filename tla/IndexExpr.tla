------------------------------ MODULE IndexExpr ------------------------------
(***************************************************************************)
(* The index expressions LibKernelExpr evaluates to bound the buffer       *)
(* indices a sub-kernel can touch.                                         *)
(*                                                                         *)
(* An expression is the sequence of its nodes, operands before the node    *)
(* that uses them and the root last; an operand is the position of its     *)
(* node.  A pair <<lb, hb>> is what computeBounds returns, NotComputed is  *)
(* its "return false", and Broken stands for the abort of a failed         *)
(* assertion lb <= hb.  Only the type LONG is modelled: the float and      *)
(* double variants, IndexExprCast and the bitwise operators are left out.  *)
(*                                                                         *)
(* An NDRange is a record of functions over its dimensions, numbered from  *)
(* 0 as in OpenCL: orig and size are the global sizes of the launch and of *)
(* this sub-kernel, ls the work-group size.                                *)
(***************************************************************************)
EXTENDS Integers, Sequences, SequencesExt

NotComputed == <<>>
Broken      == <<1, 0>>

Computed(b) == b # NotComputed /\ b[1] <= b[2]

Pairs == Seq(Int)

checked[b \in Pairs] == IF b[1] <= b[2] THEN b ELSE Broken

Hull(S) == <<Min(S), Max(S)>>

----------------------------------------------------------------------------
(* Operators on values.  Division truncates toward zero and the remainder  *)
(* has the sign of the dividend, as in OpenCL C.                           *)
(* computeBinopBounds divides by multiplying with a reciprocal, in         *)
(* doubles; that is the same for operands smaller than 49.                 *)

Quotient(x, y) ==
  LET Size(z) == IF z < 0 THEN -z ELSE z
      q       == Size(x) \div Size(y)
  IN  IF (x < 0) = (y < 0) THEN q ELSE -q

Apply(op, x, y) ==
  CASE op = "Add" -> x + y
    [] op = "Sub" -> x - y
    [] op = "Mul" -> x * y
    [] op = "Div" -> Quotient(x, y)
    [] op = "Mod" -> x - y * Quotient(x, y)
    [] op = "Shl" -> x * 2^y
    [] op = "Shr" -> x \div 2^y

----------------------------------------------------------------------------
(* Operators on bounds. *)

BinopBounds(op, b, c) ==
  CASE op = "Add" -> <<b[1] + c[1], b[2] + c[2]>>
    [] op = "Sub" -> <<b[1] - c[2], b[2] - c[1]>>
    [] op \in {"Mul", "Div", "Shl", "Shr"} ->
         Hull({Apply(op, b[i], c[j]) : i, j \in 1 .. 2})
    [] op = "Mod" -> <<IF b[2] >= c[1] THEN 0 ELSE b[1],
                       IF b[2] >= c[2] THEN c[2] - 1 ELSE b[2]>>

\* The first operand without bounds decides: the second is not looked at.
Combine(F(_, _), b, c) == IF ~Computed(b) THEN b
                          ELSE IF ~Computed(c) THEN c
                          ELSE checked[F(b, c)]

binop[op \in STRING, b \in Pairs, c \in Pairs] ==
  Combine(LAMBDA x, y : BinopBounds(op, x, y), b, c)

interval[b \in Pairs, c \in Pairs] ==
  Combine(LAMBDA x, y : Hull({x[1], x[2], y[1], y[2]}), b, c)

LB[b \in Pairs] == IF Computed(b) THEN <<b[1], b[1]>> ELSE b
Both[b \in Pairs] == b
HB[b \in Pairs] == IF Computed(b) THEN <<b[2], b[2]>> ELSE b

Exactly(n) == <<n, n>>

----------------------------------------------------------------------------
(* The work-item functions.  A guard is a comparison of a work-item        *)
(* function with an integer the host could evaluate (val = <<v>>) or not   *)
(* (val = <<>>): the conditions under which an access is executed.         *)

ApplyGuard(b, pred, v) ==
  LET AtMost(n)  == <<Min({b[1], n}), Min({b[2], n})>>
      AtLeast(n) == <<Max({b[1], n}), Max({b[2], n})>>
  IN  CASE pred = "LT"  -> AtMost(v - 1)
        [] pred = "LE"  -> AtMost(v)
        [] pred = "GE"  -> AtLeast(v)
        [] pred = "GT"  -> AtLeast(v + 1)
        [] pred = "EQ"  -> Exactly(v)
        [] pred = "NEQ" -> IF v = 0 THEN AtLeast(1) ELSE b

Mutant_GlobalIdsFromZero(nd, d) == <<0, nd.size[d] - 1>>
GlobalIds(nd, d) == <<nd.offset[d], nd.offset[d] + nd.size[d] - 1>>
GroupIds(nd, d)  == <<nd.offset[d] \div nd.ls[d],
                      (nd.offset[d] + nd.size[d] - 1) \div nd.ls[d]>>
LocalIds(nd, d)  == <<0, nd.ls[d] - 1>>

\* The intersection of two ranges, possibly inverted: IndexExprInterval
\* puts inverted ends back in order.
meet[b \in Pairs, c \in Pairs] ==
  interval[Exactly(Max({b[1], c[1]})), Exactly(Min({b[2], c[2]}))]

OCLBounds(func, d, nd, guards) ==
  LET ls == nd.ls[d]
      Guarded(f, b) ==
        LET Step(a, g) == IF g.dim = d /\ g.func = f /\ g.val # <<>>
                          THEN ApplyGuard(a, g.pred, g.val[1]) ELSE a
        IN  FoldLeft(Step, b, guards)
      global == Guarded("GET_GLOBAL_ID", GlobalIds(nd, d))
      group  == Guarded("GET_GROUP_ID", GroupIds(nd, d))
      local  == Guarded("GET_LOCAL_ID", LocalIds(nd, d))
  IN  CASE func = "GET_GLOBAL_ID" ->
             meet[global, <<group[1] * ls + local[1], group[2] * ls + local[2]>>]
        [] func = "GET_GROUP_ID" ->
             meet[group, <<Quotient(global[1], ls), Quotient(global[2], ls)>>]
        [] func = "GET_LOCAL_ID" ->
             meet[local, <<Apply("Mod", global[1], ls), Apply("Mod", global[2], ls)>>]
        [] func = "GET_GLOBAL_SIZE" -> Exactly(nd.orig[d])
        [] func = "GET_LOCAL_SIZE" -> Exactly(ls)
        [] func = "GET_NUM_GROUPS" -> Exactly(nd.orig[d] \div ls)

\* In a dimension the launch does not have.
NoDimension(func) ==
  Exactly(IF func \in {"GET_GLOBAL_SIZE", "GET_LOCAL_SIZE", "GET_NUM_GROUPS"} THEN 1 ELSE 0)

----------------------------------------------------------------------------
(* The bounds of a loop counter, for (i = start; i < high; i += step): the *)
(* expression IndexExprBuilder builds for it, whose parameters are the     *)
(* bounds of its operands.  In the trip count every work-item function is  *)
(* replaced by its higher bound; countStart is start read that way.        *)

LoopBounds(start, step, countStart, countStep, high) ==
  LET nbIter == binop["Div", binop["Add", binop["Sub", HB[high], countStart],
                                   binop["Sub", HB[countStep], Exactly(1)]],
                      HB[countStep]]
      backedgeCount == binop["Sub", nbIter, Exactly(1)]
      end == binop["Add", HB[start], binop["Mul", HB[step], LB[backedgeCount]]]
  IN  interval[start, end]

(* computeBounds(getKernelExpr(e)) for the sub-kernel nd.  args holds the  *)
(* integer arguments that are set, indirs the <<first, last>> values read  *)
(* for the indirections; both are functions, undefined where not known.    *)
(* The second index of b tells whether a trip count is being computed.     *)

Bounds(e, nd, guards, args, indirs) ==
  LET ocl[f \in STRING, d \in Nat] ==
        IF d < nd.work_dim THEN OCLBounds(f, d, nd, guards) ELSE NoDimension(f)
      b[i \in DOMAIN e, backedge \in BOOLEAN] ==
        LET n     == e[i]
            Of(j) == b[j, backedge]
            All(F(_)) ==
              LET seq == [k \in DOMAIN n.es |-> Of(n.es[k])]
                  bad == {k \in DOMAIN seq : ~Computed(seq[k])}
              IN  IF bad # {} THEN seq[Min(bad)]
                  ELSE <<F({seq[k][1] : k \in DOMAIN seq}),
                         F({seq[k][2] : k \in DOMAIN seq})>>
        IN  CASE n.tag = "VALUE" -> Exactly(n.n)
              [] n.tag = "ARG" -> IF n.pos \in DOMAIN args
                                  THEN Exactly(args[n.pos]) ELSE NotComputed
              [] n.tag = "OCL" -> LET ends == IF backedge THEN HB ELSE Both
                                  IN  ends[ocl[n.func, n.dim]]
              [] n.tag = "BINOP" -> binop[n.op, Of(n.e1), Of(n.e2)]
              [] n.tag = "INTERVAL" -> interval[Of(n.e1), Of(n.e2)]
              [] n.tag = "MIN" -> All(Min)
              [] n.tag = "MAX" -> All(Max)
              [] n.tag = "LB" -> LB[Of(n.e1)]
              [] n.tag = "HB" -> HB[Of(n.e1)]
              [] n.tag = "INDIR" -> IF n.no \in DOMAIN indirs
                                    THEN interval[Exactly(indirs[n.no][1]),
                                                  Exactly(indirs[n.no][2])]
                                    ELSE NotComputed
              [] n.tag = "LOOP" -> LoopBounds(b[n.e1, FALSE], b[n.e2, FALSE],
                                              b[n.e1, TRUE], b[n.e2, TRUE], b[n.e3, TRUE])
              [] n.tag = "UNKNOWN" -> NotComputed
  IN  b[Len(e), FALSE]

----------------------------------------------------------------------------
(* Guards. *)

\* The integer a guard compares with, evaluated once per launch, for the
\* whole NDRange: known only when it is the same for every work item.
GuardValue(e, nd, args) ==
  LET only[b \in Pairs] == IF Computed(b) /\ b[1] = b[2] THEN <<b[1]>> ELSE <<>>
  IN  only[Bounds(e, nd, <<>>, args, <<>>)]

Guard(func, d, pred, e, nd, args) ==
  [func |-> func, dim |-> d, pred |-> pred, val |-> GuardValue(e, nd, args)]

\* isOutOfGuards: no work item of nd can pass the guards.  The first guard
\* that decides wins, and a known NEQ decides that some can.
OutOfGuards(nd, guards) ==
  LET Ids(g)   == CASE g.func = "GET_GLOBAL_ID" -> GlobalIds(nd, g.dim)
                    [] g.func = "GET_GROUP_ID" -> GroupIds(nd, g.dim)
                    [] g.func = "GET_LOCAL_ID" -> LocalIds(nd, g.dim)
      Looked(g) == /\ g.dim < nd.work_dim
                   /\ g.val # <<>>
                   /\ g.func \in {"GET_GLOBAL_ID", "GET_GROUP_ID", "GET_LOCAL_ID"}
      Excludes(g) == LET lb == Ids(g)[1]
                         hb == Ids(g)[2]
                         v  == g.val[1]
                     IN  CASE g.pred = "LT" -> lb >= v
                           [] g.pred = "LE" -> lb > v
                           [] g.pred = "GE" -> hb < v
                           [] g.pred = "GT" -> hb <= v
                           [] g.pred = "EQ" -> ~(lb <= v /\ v <= hb)
                           [] g.pred = "NEQ" -> FALSE
      Decides(g) == Looked(g) /\ (g.pred = "NEQ" \/ Excludes(g))
      deciding == {i \in DOMAIN guards : Decides(guards[i])}
  IN  deciding # {} /\ Excludes(guards[Min(deciding)])

=============================================================================
