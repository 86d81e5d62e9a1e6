------------------------------ MODULE MCWorkItem ------------------------------
(* Small kernels for WorkItem. *)
EXTENDS WorkItem

OCL(f, d)    == [tag |-> "OCL", func |-> f, dim |-> d]
Literal(n)   == [tag |-> "VALUE", n |-> n]
Op(op, i, j) == [tag |-> "BINOP", op |-> op, e1 |-> i, e2 |-> j]
Arg          == [tag |-> "ARG", pos |-> 1]

Ids   == {OCL("GET_GLOBAL_ID", 0), OCL("GET_LOCAL_ID", 0), OCL("GET_GROUP_ID", 0)}
Sizes == {OCL("GET_GLOBAL_SIZE", 0), OCL("GET_LOCAL_SIZE", 0), OCL("GET_NUM_GROUPS", 1)}
Leaves == Ids \cup Sizes \cup {OCL("GET_GLOBAL_ID", 1), Literal(2), Arg}

Positive(n) == n.tag \in {"VALUE", "ARG"} \/ n \in Sizes

\* x op y, for operations whose bounds contain every result: a division or
\* a shift by a positive value, a remainder of a non-negative one.
Operations(e, i, j) ==
  {Op(op, i, j) : op \in {"Add", "Sub", "Mul"}}
    \cup {[tag |-> m, es |-> <<i, j>>] : m \in {"MIN", "MAX"}}
    \cup (IF Positive(e[j]) THEN {Op("Div", i, j)} ELSE {})
    \cup (IF Positive(e[j]) /\ Len(e) = 2 THEN {Op("Mod", i, j)} ELSE {})
    \cup (IF e[j] = Literal(2) THEN {Op("Shl", i, j), Op("Shr", i, j)} ELSE {})

\* A loop over a start that differs between work items advances by one.
Loops(e) ==
  IF e[3] = Literal(1) \/ (e[3] = Literal(2) /\ Positive(e[1]))
  THEN {[tag |-> "LOOP", e1 |-> 1, e2 |-> 3, e3 |-> 2]} ELSE {}

Linear(n) == n.tag = "BINOP" /\ n.op \in {"Mul", "Sub"}

SoundNode(f, e) ==
  CASE Len(e) = 0 -> IF Len(f.succ) = 1 THEN Leaves ELSE {OCL("GET_GLOBAL_ID", 0)}
    [] Len(e) = 1 -> IF Len(f.succ) = 1 THEN Leaves ELSE {}
    [] Len(e) = 2 -> Operations(e, 1, 2) \cup {Literal(1), Literal(2)}
    [] Len(e) = 3 -> IF e[3].tag = "VALUE" THEN Loops(e)
                     ELSE IF Linear(e[3]) THEN {Literal(2), OCL("GET_LOCAL_ID", 0)} ELSE {}
    [] Len(e) = 4 -> IF e[4].tag = "LOOP" THEN {} ELSE Operations(e, 3, 4)

\* Kernels whose index is the global id.
IdNode(f, e) == IF e = <<>> THEN {OCL("GET_GLOBAL_ID", 0)} ELSE {}

----------------------------------------------------------------------------
Cmp(f, wraps, pred, n, left) ==
  [func |-> f, dim |-> 0, wraps |-> wraps, pred |-> pred, rhs |-> n, idLeft |-> left]

Wrap(op, left, n) == [op |-> op, idLeft |-> left, n |-> n]

Functions3 == {"GET_GLOBAL_ID", "GET_GROUP_ID", "GET_LOCAL_ID"}
Preds      == {"LT", "LE", "GE", "GT", "EQ", "NEQ"}

Comparisons ==
  {Cmp(f, w, p, n, left) :
     f \in Functions3, p \in Preds, n \in {0, 3}, left \in BOOLEAN,
     w \in {<<>>, <<Wrap("Add", TRUE, 1)>>,
            <<Wrap("Sub", FALSE, 4), Wrap("Sub", TRUE, 1)>>}}

Few == {Cmp("GET_GLOBAL_ID", <<>>, p, n, TRUE) : p \in {"LT", "GE", "EQ", "NEQ"}, n \in {1, 5}}

If(op, neg, cmps) == [op |-> op, neg |-> neg, cmps |-> cmps]
One(c)  == If("AND", FALSE, <<c>>)
Free    == If("AND", FALSE, <<>>)

Straight == [succ |-> <<<<>>>>, cond |-> <<Free>>, access |-> 1]
IfThen(c)     == [succ |-> <<<<2, 3>>, <<3>>, <<>>>>, cond |-> <<c, Free, Free>>, access |-> 2]
IfElse(c)     == [succ |-> <<<<2, 3>>, <<4>>, <<4>>, <<>>>>,
                  cond |-> <<c, Free, Free, Free>>, access |-> 3]
EarlyReturn(c) == [succ |-> <<<<3, 2>>, <<3>>, <<>>>>, cond |-> <<c, Free, Free>>, access |-> 2]
Nested(c, d)  == [succ |-> <<<<2, 4>>, <<3, 4>>, <<4>>, <<>>>>,
                  cond |-> <<c, d, Free, Free>>, access |-> 3]
Returns(c, d) == [succ |-> <<<<4, 2>>, <<4, 3>>, <<4>>, <<>>>>,
                  cond |-> <<c, d, Free, Free>>, access |-> 3]
LoopIf(c)     == [succ |-> <<<<2, 4>>, <<3, 1>>, <<1>>, <<>>>>,
                  cond |-> <<Free, c, Free, Free>>, access |-> 3]

\* if (c && d) ... else ...: the access is in the else part.
AndElse(c, d) == [succ |-> <<<<2, 4>>, <<3, 4>>, <<5>>, <<5>>, <<>>>>,
                  cond |-> <<c, d, Free, Free, Free>>, access |-> 4]

StructuredFlows ==
  {Straight} \cup {IfThen(One(c)) : c \in Comparisons}
    \cup {IfElse(One(c)) : c \in Few} \cup {EarlyReturn(One(c)) : c \in Few}
    \cup {LoopIf(One(c)) : c \in Few}
    \cup {Nested(One(c), One(d)) : c, d \in Few}
    \cup {Returns(One(c), One(d)) : c, d \in Few}
    \cup {IfThen(If("AND", FALSE, <<c, d>>)) : c, d \in Few}
    \cup {EarlyReturn(If("OR", FALSE, <<c, d>>)) : c, d \in Few}
    \cup {IfElse(If("AND", TRUE, <<c, d>>)) : c, d \in Few}

BorderFlows == {AndElse(One(c), One(d)) : c, d \in Few}

SmallLaunches ==
  {Launch(<<6>>, <<0>>, <<2>>), Launch(<<4, 2>>, <<0, 0>>, <<2, 1>>)}
SmallArgs == {3}

=============================================================================
