--------------------------- MODULE ConditionBuilder ---------------------------
(***************************************************************************)
(* How the analysis pass finds the guards of a memory access: the          *)
(* comparisons of a work-item function with an integer it believes hold    *)
(* whenever the access is executed.                                        *)
(*                                                                         *)
(* A control-flow graph is a function succ from the blocks 1 .. n to the   *)
(* sequences of their successors, none for the return block n, which every *)
(* block reaches.  cond[b] is the condition of a block with two            *)
(* successors, taken to the first one: [op, neg, cmps], a conjunction or   *)
(* disjunction of the comparisons cmps, negated (an xor with true) when    *)
(* neg.  cmps is empty for a condition the pass cannot use.                *)
(*                                                                         *)
(* A comparison [func, dim, wraps, pred, rhs, idLeft] says that the        *)
(* work-item function func(dim), after the arithmetic of wraps, compares   *)
(* with the integer rhs; idLeft tells the side the work-item function is   *)
(* on.  wraps lists [op, idLeft, n] from the outermost operation inwards.  *)
(***************************************************************************)
EXTENDS IndexExpr

Blocks(succ) == DOMAIN succ
Return(succ) == Len(succ)

\* The blocks a path from b, b included, can meet without entering "without".
ReachedFrom(succ, b, without) ==
  LET reach[k \in 0 .. Len(succ)] ==
        IF k = 0 THEN {b} \ without
        ELSE reach[k - 1] \cup ((UNION {Range(succ[c]) : c \in reach[k - 1]}) \ without)
  IN  reach[Len(succ)]

isReachable(succ, from, to) == to \in ReachedFrom(succ, from, {})

----------------------------------------------------------------------------
(* Post-dominance.  PDF follows postdominance_frontier: a block is never   *)
(* in its own frontier.                                                    *)

PostDominates(succ, d, b) == d = b \/ Return(succ) \notin ReachedFrom(succ, b, {d})

ImmediatePostDominator(succ, b) ==
  CHOOSE d \in Blocks(succ) \ {b} :
    /\ PostDominates(succ, d, b)
    /\ \A e \in Blocks(succ) \ {b} : PostDominates(succ, e, b) => PostDominates(succ, e, d)

PDF(succ) ==
  LET parent == [b \in Blocks(succ) \ {Return(succ)} |-> ImmediatePostDominator(succ, b)]
      Children(b) == {c \in DOMAIN parent : parent[c] = b}
      pdf[b \in Blocks(succ)] ==
        {x \in {p \in DOMAIN parent : b \in Range(succ[p])}
                 \cup UNION {pdf[c] : c \in Children(b)} : parent[x] # b /\ x # b}
  IN  pdf

\* The blocks whose conditions are taken to decide whether b is executed.
IPDF(succ, b) ==
  LET pdf == PDF(succ)
      close[k \in 0 .. Len(succ)] ==
        IF k = 0 THEN pdf[b]
        ELSE close[k - 1] \cup UNION {pdf[x] : x \in close[k - 1]}
  IN  close[Len(succ)]

----------------------------------------------------------------------------
(* Guards. *)

Mutant_SwapStrictOnly(pred) == CASE pred = "GT" -> "LT"
                             [] pred = "LT" -> "GT"
                             [] pred \notin {"GT", "LT"} -> pred
Swap(pred) == CASE pred = "GT" -> "LT"
                [] pred = "GE" -> "LE"
                [] pred = "LE" -> "GE"
                [] pred = "LT" -> "GT"
                [] pred \in {"EQ", "NEQ"} -> pred

Negate(pred) == CASE pred = "LT" -> "GE"
                  [] pred = "LE" -> "GT"
                  [] pred = "GE" -> "LT"
                  [] pred = "GT" -> "LE"
                  [] pred = "EQ" -> "NEQ"
                  [] pred = "NEQ" -> "EQ"

\* The other side once the work-item function is alone on its own, and
\* whether the comparison was turned round on the way.
normalizeOCLCondition(c) ==
  LET Unwrap(acc, w) ==
        CASE w.op = "Add" -> [acc EXCEPT !.other = @ - w.n]
          [] w.op = "Sub" /\ w.idLeft -> [acc EXCEPT !.other = @ + w.n]
          [] w.op = "Sub" /\ ~w.idLeft ->
               [other |-> w.n - acc.other, switched |-> ~acc.switched]
          [] w.op = "Mul" -> [acc EXCEPT !.other = Quotient(@, w.n)]
          [] w.op = "Div" /\ w.idLeft -> [acc EXCEPT !.other = @ * w.n]
          [] w.op = "Div" /\ ~w.idLeft ->
               [other |-> Quotient(w.n, acc.other), switched |-> ~acc.switched]
  IN  FoldLeft(Unwrap, [other |-> c.rhs, switched |-> FALSE], c.wraps)

GuardOf(c, truth) ==
  LET n    == normalizeOCLCondition(c)
      pred == IF c.idLeft # n.switched THEN c.pred ELSE Swap(c.pred)
  IN  [func |-> c.func, dim |-> c.dim, val |-> <<n.other>>,
       pred |-> IF truth THEN pred ELSE Negate(pred)]

\* findConditions and buildBasicBlockGuards.  The comparisons of one
\* condition all get the truth of the whole.
Guards(succ, cond, b) ==
  {GuardOf(cond[x].cmps[i], isReachable(succ, succ[x][1], b) # cond[x].neg) :
     <<x, i>> \in {y \in Blocks(succ) \X (1 .. 2) :
                     /\ y[1] \in IPDF(succ, b)
                     /\ Len(succ[y[1]]) = 2
                     /\ y[2] \in DOMAIN cond[y[1]].cmps}}

=============================================================================
