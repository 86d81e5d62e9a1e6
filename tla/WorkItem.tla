------------------------------- MODULE WorkItem -------------------------------
(***************************************************************************)
(* A memory access of a kernel, from the analysis of its code to its       *)
(* execution by one work item.                                             *)
(*                                                                         *)
(* At compile time the pass turns the index of the access into an          *)
(* expression and the conditions around it into guards; when the kernel is *)
(* launched and its NDRange split, the host evaluates both to bound the    *)
(* indices a sub-kernel touches; then a work item of the sub-kernel runs   *)
(* the kernel's code, block by block, and performs the access if it gets   *)
(* there.                                                                  *)
(***************************************************************************)
EXTENDS ConditionBuilder, KernelSemantics

CONSTANTS
  Flows,        \* the kernels: [succ, cond, access], access the block of the access
  Node(_, _),   \* the nodes that may be added to an expression, for a kernel
  MaxNodes,     \* bound on the nodes of an expression
  Launches,     \* the NDRanges a kernel is launched on, with offset zero
  ArgValues     \* the values its integer argument takes

VARIABLES
  flow,     \* the kernel
  guards,   \* the guards the pass found for the access
  expr,     \* the index expression the pass has built so far
  launch,   \* the NDRange and argument of the launch, NotLaunched before it
  splitdim, \* the dimension it is split along
  sub,      \* the sub-kernel's NDRange
  bounds,   \* what computeBounds returned for it
  id,       \* the global id of the work item being run, one per dimension
  pc        \* the block it is at, 0 when none is run

vars == <<flow, guards, expr, launch, splitdim, sub, bounds, id, pc>>

NoRange     == Launch(<<1>>, <<0>>, <<1>>)
NotLaunched == [nd |-> NoRange, args |-> <<>>]
NoId        == [d \in {} |-> 0]

WholeRange == launch.nd
Args       == launch.args

----------------------------------------------------------------------------
(* What the kernel's code does. *)

OCLValue(func, d, wi) ==
  Transformed(func, d, sub, NumGroups(WholeRange, splitdim), splitdim, wi)

\* A comparison of the kernel's code, for the work item wi.
Holds(c, wi) ==
  LET Wrap(w, x) == IF w.idLeft THEN Apply(w.op, x, w.n) ELSE Apply(w.op, w.n, x)
      x == FoldRight(Wrap, c.wraps, OCLValue(c.func, c.dim, wi))
  IN  IF c.idLeft THEN Compares(c.pred, x, c.rhs) ELSE Compares(c.pred, c.rhs, x)

\* The branches the work item may take at block b.
Branches(b) ==
  LET c == flow.cond[b]
      True(i) == Holds(c.cmps[i], id)
      whole == IF c.op = "AND" THEN \A i \in DOMAIN c.cmps : True(i)
                               ELSE \E i \in DOMAIN c.cmps : True(i)
  IN  IF Len(flow.succ[b]) < 2 \/ c.cmps = <<>> THEN Range(flow.succ[b])
      ELSE {flow.succ[b][IF whole # c.neg THEN 1 ELSE 2]}

GuardHolds(g) == Compares(g.pred, OCLValue(g.func, g.dim, id), g.val[1])

----------------------------------------------------------------------------
Init ==
  /\ flow \in Flows
  /\ guards = SetToSeq(Guards(flow.succ, flow.cond, flow.access))
  /\ expr = <<>>
  /\ launch = NotLaunched
  /\ splitdim = 0
  /\ sub = NoRange
  /\ bounds = NotComputed
  /\ id = NoId
  /\ pc = 0

\* buildExpr: an operand is built before the node that uses it.
Build ==
  /\ launch = NotLaunched
  /\ Len(expr) < MaxNodes
  /\ \E n \in Node(flow, expr) : expr' = Append(expr, n)
  /\ UNCHANGED <<flow, guards, launch, splitdim, sub, bounds, id, pc>>

Enqueue ==
  /\ launch = NotLaunched
  /\ expr # <<>>
  /\ \E nd \in Launches, n \in ArgValues : launch' = [nd |-> nd, args |-> <<n>>]
  /\ UNCHANGED <<flow, guards, expr, splitdim, sub, bounds, id, pc>>

\* One sub-kernel of a split in two of dimension d, or the kernel itself,
\* and the analysis of its access.
Split ==
  /\ launch # NotLaunched
  /\ sub = NoRange
  /\ \E d \in 0 .. WholeRange.work_dim - 1, share \in 0 .. Unit, i \in 1 .. 2 :
       LET nd == splitDim(WholeRange, d, <<share, Unit - share>>)[i]
       IN  /\ nd.size[d] > 0
           /\ splitdim' = d
           /\ sub' = nd
           /\ bounds' = Bounds(expr, nd, guards, Args, <<>>)
  /\ UNCHANGED <<flow, guards, expr, launch, id, pc>>

Start ==
  /\ sub # NoRange
  /\ pc = 0
  /\ \E wi \in WorkItems(sub) : id' = wi
  /\ pc' = 1
  /\ UNCHANGED <<flow, guards, expr, launch, splitdim, sub, bounds>>

Step ==
  /\ pc # 0
  /\ pc # Return(flow.succ)
  /\ pc' \in Branches(pc)
  /\ UNCHANGED <<flow, guards, expr, launch, splitdim, sub, bounds, id>>

\* The work item is done and another one is run.
Finish ==
  /\ pc = Return(flow.succ)
  /\ id' = NoId
  /\ pc' = 0
  /\ UNCHANGED <<flow, guards, expr, launch, splitdim, sub, bounds>>

Next == Build \/ Enqueue \/ Split \/ Start \/ Step \/ Finish

Spec == Init /\ [][Next]_vars

----------------------------------------------------------------------------
TypeOK ==
  /\ flow.access \in Blocks(flow.succ)
  /\ Len(expr) \in 0 .. MaxNodes
  /\ launch = NotLaunched \/ (launch.nd \in Launches /\ launch.args[1] \in ArgValues)
  /\ sub # NoRange => /\ launch # NotLaunched
                      /\ \A d \in DOMAIN sub.size : LastId(sub, d) <= LastId(WholeRange, d)
  /\ pc \in 0 .. Len(flow.succ)
  /\ (pc # 0) = (id # NoId)

(* A work item about to perform the access satisfies every guard the pass  *)
(* recorded for it: findConditions keeps only comparisons that decide      *)
(* whether the access is executed, with the right truth.                   *)
GuardsAreNecessary ==
  pc = flow.access => \A i \in DOMAIN guards : GuardHolds(guards[i])

(* The sub-kernel's region of the buffer contains every element a work     *)
(* item of it accesses: what computeBounds returns for the access          *)
(* contains its index, and an access the host believes out of its guards   *)
(* is never executed.                                                      *)
BoundsCoverEveryAccess ==
  pc = flow.access =>
    /\ ~OutOfGuards(sub, guards)
    /\ Computed(bounds) =>
         \A v \in Values(expr, LAMBDA f, d : OCLValue(f, d, id), Args, <<>>) : bounds[1] <= v /\ v <= bounds[2]

(* Evaluating an expression never fails one of the assertions on the order *)
(* of bounds in computeBoundsRec.                                          *)
BoundsAreOrdered == bounds # Broken

=============================================================================
