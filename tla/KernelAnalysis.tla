---------------------------- MODULE KernelAnalysis ----------------------------
(***************************************************************************)
(* The analysis of a kernel, instantiated for a partition of a launch:     *)
(* which elements of each buffer argument each sub-kernel reads and        *)
(* writes, whether the written ones are known, and whether two             *)
(* sub-kernels may write the same one.                                     *)
(*                                                                         *)
(* A kernel is [args, indirections].  args[a] gives the accesses to the    *)
(* a-th buffer argument, a sequence for each kind; an access is            *)
(* [expr, guards], a guard [func, dim, pred, expr, val], val the integer   *)
(* expr amounts to in a launch.  An indirection is [arg, expr, guards]: an *)
(* access to an index array, whose number is its position.  Buffers are    *)
(* counted in elements instead of bytes.                                   *)
(*                                                                         *)
(* An analysis is [kernel, nd, subs, args, computed, values, toRead,       *)
(* regions]: the launch and its sub-ranges, the integer arguments, the     *)
(* indirections whose index arrays have been read, the values read for     *)
(* each sub-range, what of the arrays remains to be read, and the region   *)
(* each sub-range touches of each argument, by kind of access.             *)
(***************************************************************************)
EXTENDS IndexExpr, NDRange

Kinds == {"load", "store", "or", "atomicSum", "atomicMin", "atomicMax"}

\* The integers the guards compare with, for this launch.
Injected(access, nd, args) ==
  LET value(g) == GuardValue(g.expr, nd, args)
  IN  [access EXCEPT !.guards = [i \in DOMAIN @ |-> [@[i] EXCEPT !.val = value(access.guards[i])]]]

injectArgsValues(kernel, nd, args) ==
  LET All(accesses) == [i \in DOMAIN accesses |-> Injected(accesses[i], nd, args)]
  IN  [args |-> [a \in DOMAIN kernel.args |->
                   [kind \in Kinds |-> All(kernel.args[a][kind])]],
       indirections |-> All(kernel.indirections)]

NewAnalysis(kernel, nd, subs, args) ==
  [kernel |-> kernel, nd |-> nd, subs |-> subs, args |-> args,
   computed |-> {}, values |-> [s \in DOMAIN subs |-> <<>>],
   toRead |-> [s \in DOMAIN subs |-> {}], regions |-> <<>>]

setPartition(kernel, nd, subs, args) ==
  NewAnalysis(injectArgsValues(kernel, nd, args), nd, subs, args)

SubKernels(an) == DOMAIN an.subs

InGuards(an, access, s) == ~OutOfGuards(an.subs[s], access.guards)

\* getKernelExpr and computeBounds, for the sub-kernel s.
AccessBounds(an, access, s) ==
  Bounds(access.expr, an.subs[s], access.guards, an.args, an.values[s])

----------------------------------------------------------------------------
(* Indirections. *)

\* An indirection computed for one sub-kernel counts as computed for all.
computeIndirections(an) ==
  LET indirections == an.kernel.indirections
      Of(s) == {id \in DOMAIN indirections \ an.computed : InGuards(an, indirections[id], s)}
      ends[id \in DOMAIN indirections, b \in Pairs] ==
        IF Computed(b) THEN {[id |-> id, arg |-> indirections[id].arg, lb |-> b[1], hb |-> b[2]]}
        ELSE {}
      toRead == [s \in SubKernels(an) |->
                   UNION {ends[id, AccessBounds(an, indirections[id], s)] : id \in Of(s)}]
      With(parts) == [an EXCEPT !.toRead = parts,
                        !.computed = @ \cup {r.id : r \in UNION Range(parts)}]
  IN  With(toRead)

indirectionMissing(an) == an.computed # DOMAIN an.kernel.indirections

\* values[s][id]: the first and the last element read.
setIndirectionsValues(an, values) ==
  [an EXCEPT !.values = [s \in SubKernels(an) |->
     IF s \in DOMAIN values
     THEN [id \in DOMAIN values[s] \cup DOMAIN @[s] |->
             IF id \in DOMAIN values[s] THEN values[s][id] ELSE @[s][id]]
     ELSE @[s]]]

----------------------------------------------------------------------------
(* Regions and status of an argument. *)

\* What a sub-kernel touches through some accesses: "known" when all their
\* bounds are computed.  It stops at the first access whose bounds are not.
Mutant_computeRegionOpen(an, accesses, s) ==
  LET inside == SelectSeq(accesses, LAMBDA access : InGuards(an, access, s))
      touched[bounds \in Seq(Pairs)] ==
        [known |-> \A i \in DOMAIN bounds : Computed(bounds[i]),
         elements |-> UNION {Max({0, b[1]}) .. Max({0, b[2]}) - 1 :
                               b \in {c \in Range(bounds) : Computed(c)}}]
  IN  touched[[i \in DOMAIN inside |-> AccessBounds(an, inside[i], s)]]
computeRegion(an, accesses, s) ==
  LET inside == SelectSeq(accesses, LAMBDA access : InGuards(an, access, s))
      Elements(b) == Max({0, b[1]}) .. Max({0, b[2]})
      touched[bounds \in Seq(Pairs)] ==
        LET failed == {i \in DOMAIN bounds : ~Computed(bounds[i])}
        IN  [known |-> failed = {},
             elements |-> UNION {Elements(bounds[i]) :
                                   i \in {j \in DOMAIN bounds : \A k \in failed : j < k}}]
  IN  touched[[i \in DOMAIN inside |-> AccessBounds(an, inside[i], s)]]

performAnalysis(an) ==
  [an EXCEPT !.regions =
     [a \in DOMAIN an.kernel.args |->
        [kind \in Kinds |->
           [s \in SubKernels(an) |-> computeRegion(an, an.kernel.args[a][kind], s)]]]]

BoundsComputed(an, a, kind) == \A s \in SubKernels(an) : an.regions[a][kind][s].known

Region(an, a, kind, s) == an.regions[a][kind][s].elements

\* The elements two sub-kernels may store to.
Overlap(an, a) ==
  UNION {Region(an, a, "store", p[1]) \cap Region(an, a, "store", p[2]) :
           p \in {q \in SubKernels(an) \X SubKernels(an) : q[1] < q[2]}}

\* The store bounds are tested for an argument with or accesses as well.
ArgumentFails(an, a) ==
  \/ /\ an.kernel.args[a]["or"] # <<>> \/ an.kernel.args[a]["store"] # <<>>
     /\ ~BoundsComputed(an, a, "store")
  \/ ~BoundsComputed(an, a, "atomicMin")
  \/ ~BoundsComputed(an, a, "atomicMax")

ArgumentMerges(an, a) == ~ArgumentFails(an, a) /\ Overlap(an, a) # {}

MergeRegion(an, a) == IF ArgumentMerges(an, a) THEN Overlap(an, a) ELSE {}

\* What only the sub-kernel s may store to.
WrittenRegion(an, a, s) == Region(an, a, "store", s) \ MergeRegion(an, a)

FullWrittenRegion(an, a) ==
  MergeRegion(an, a) \cup UNION {WrittenRegion(an, a, s) : s \in SubKernels(an)}

Arguments(an) == DOMAIN an.kernel.args

Status(an) == IF \E a \in Arguments(an) : ArgumentFails(an, a) THEN "FAIL"
              ELSE IF \E a \in Arguments(an) : ArgumentMerges(an, a) THEN "MERGE"
              ELSE "SUCCESS"

=============================================================================
