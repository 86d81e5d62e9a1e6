---------------------------- MODULE KernelSemantics ----------------------------
(***************************************************************************)
(* What a work item computes: the meaning the analysis of a kernel is      *)
(* checked against.  A work item is the function from dimensions to its    *)
(* global ids.                                                             *)
(***************************************************************************)
EXTENDS IndexExpr, NDRange

Functions == {"GET_GLOBAL_ID", "GET_LOCAL_ID", "GET_GROUP_ID",
              "GET_GLOBAL_SIZE", "GET_LOCAL_SIZE", "GET_NUM_GROUPS"}

\* The work items of nd.
WorkItems(nd) ==
  {wi \in [DOMAIN nd.size -> 0 .. Max({LastId(nd, d) : d \in DOMAIN nd.size})] :
     \A d \in DOMAIN nd.size : wi[d] \in nd.offset[d] .. LastId(nd, d)}

\* The work-item functions of OpenCL, for a work item of the launch nd.
Builtin(func, d, nd, wi) ==
  IF d >= nd.work_dim
  THEN IF func \in {"GET_GLOBAL_SIZE", "GET_LOCAL_SIZE", "GET_NUM_GROUPS"} THEN 1 ELSE 0
  ELSE CASE func = "GET_GLOBAL_ID"   -> wi[d]
         [] func = "GET_LOCAL_ID"    -> (wi[d] - nd.offset[d]) % nd.ls[d]
         [] func = "GET_GROUP_ID"    -> (wi[d] - nd.offset[d]) \div nd.ls[d]
         [] func = "GET_GLOBAL_SIZE" -> nd.size[d]
         [] func = "GET_LOCAL_SIZE"  -> nd.ls[d]
         [] func = "GET_NUM_GROUPS"  -> NumGroups(nd, d)

\* What they become in the source ClTransform writes, for a sub-kernel
\* launched on nd with the arguments numgroups and splitdim.
Mutant_TransformedIdsOnly(func, d, nd, numgroups, splitdim, wi) ==
  IF d = splitdim /\ func = "GET_GROUP_ID" THEN wi[d] \div nd.ls[d]
  ELSE Builtin(func, d, nd, wi)
Transformed(func, d, nd, numgroups, splitdim, wi) ==
  LET split == d = splitdim
  IN  CASE split /\ func = "GET_GROUP_ID"    -> wi[d] \div nd.ls[d]
        [] split /\ func = "GET_NUM_GROUPS"  -> numgroups
        [] split /\ func = "GET_GLOBAL_SIZE" -> numgroups * nd.ls[d]
        [] ~split \/ func \in {"GET_GLOBAL_ID", "GET_LOCAL_ID", "GET_LOCAL_SIZE"} ->
             Builtin(func, d, nd, wi)

\* The values the expression e takes while a work item runs, a loop counter
\* one in each iteration.  ocl gives the value of a work-item function,
\* read[no] is what the work item reads for indirection no.
Values(e, ocl(_, _), args, read) ==
  LET val[i \in DOMAIN e] ==
        LET n == e[i]
            Picks == {f \in [DOMAIN n.es -> UNION {val[n.es[k]] : k \in DOMAIN n.es}] :
                        \A k \in DOMAIN n.es : f[k] \in val[n.es[k]]}
        IN  CASE n.tag = "VALUE" -> {n.n}
              [] n.tag = "ARG" -> {args[n.pos]}
              [] n.tag = "OCL" -> {ocl(n.func, n.dim)}
              [] n.tag = "BINOP" -> {Apply(n.op, x, y) : x \in val[n.e1], y \in val[n.e2]}
              [] n.tag = "MIN" -> {Min(Range(f)) : f \in Picks}
              [] n.tag = "MAX" -> {Max(Range(f)) : f \in Picks}
              [] n.tag = "LOOP" ->
                   LET start == Min(val[n.e1])
                       step  == Min(val[n.e2])
                       high  == Min(val[n.e3])
                   IN  {v \in start .. high - 1 : (v - start) % step = 0}
              [] n.tag = "INDIR" -> read[n.no]
              [] n.tag = "UNKNOWN" -> n.values
  IN  val[Len(e)]

Compares(pred, x, y) == CASE pred = "LT" -> x < y
                          [] pred = "LE" -> x <= y
                          [] pred = "GE" -> x >= y
                          [] pred = "GT" -> x > y
                          [] pred = "EQ" -> x = y
                          [] pred = "NEQ" -> x # y

=============================================================================
