--------------------------- MODULE MCSplitMemory ---------------------------
(* Instances of SplitMemory for TLC, and the launches they use.            *)
EXTENDS SplitMemory

\* A launch on handle "a": the arguments give rd, wr and aw as functions of the
\* device to sets of offsets.
OnA(f) == [d \in Dev |-> {"a"} \X f[d]]
NoMem  == [d \in Dev |-> {}]
LaunchA(rd, wr, aw) == [rd |-> OnA(rd), wr |-> OnA(wr), urd |-> NoMem, uwr |-> NoMem, aw |-> OnA(aw)]

\* Two devices.  A kernel without dependences, split evenly; a stencil, each
\* device reads the cell of the other; the same computation on one device, once
\* for each device; an over-approximated write that leaves a cell as it was.
Split    == LaunchA([d \in Dev |-> {d}], [d \in Dev |-> {d}], [d \in Dev |-> {d}])
Stencil  == LaunchA([d \in Dev |-> {0, 1}], [d \in Dev |-> {d}], [d \in Dev |-> {d}])
Only(x)  == LaunchA([d \in Dev |-> IF d = x THEN {0} ELSE {}],
                    [d \in Dev |-> IF d = x THEN {0} ELSE {}],
                    [d \in Dev |-> IF d = x THEN {0} ELSE {}])
Partial  == LaunchA([d \in Dev |-> {}], [d \in Dev |-> IF d = 1 THEN {0, 1} ELSE {}],
                    [d \in Dev |-> IF d = 1 THEN {1} ELSE {}])
\* Subkernels widened until each cell is written by a device on its own: both
\* devices have cell 0 in their regions, device 0 writes cell 1 in part only.
Shifted  == LaunchA([d \in Dev |-> {}], [d \in Dev |-> IF d = 0 THEN {0} ELSE {0, 1}],
                    [d \in Dev |-> {0, 1}])
\* A kernel that reads nothing, split evenly.
Fill     == LaunchA([d \in Dev |-> {}], [d \in Dev |-> {d}], [d \in Dev |-> {d}])
\* A gather whose regions could not be computed, on one device.
Gather   == [rd |-> OnA([d \in Dev |-> {}]), wr |-> OnA([d \in Dev |-> {}]),
             urd |-> [d \in Dev |-> IF d = 0 THEN {"a"} ELSE {}],
             uwr |-> [d \in Dev |-> IF d = 0 THEN {"a"} ELSE {}],
             aw |-> OnA([d \in Dev |-> IF d = 0 THEN {1} ELSE {}])]

\* Two handles, "b" read-only: a table lookup, reading all that has been used of
\* "b" and writing "a", on the device x.
Lookup(x) == [rd |-> OnA([d \in Dev |-> {}]),
              wr |-> OnA([d \in Dev |-> IF d = x THEN {0} ELSE {}]),
              urd |-> [d \in Dev |-> IF d = x THEN {"b"} ELSE {}], uwr |-> NoMem,
              aw |-> OnA([d \in Dev |-> IF d = x THEN {0} ELSE {}])]

LookupKernels == {Lookup(0), Lookup(1)}
FillKernels   == {Fill}
MCKernels     == {Split, Stencil, Shifted, Only(1), Partial, Gather}

\* Programs of kernels, reads and writes only, with no copy and no mapping.
KernelPrograms ==
    \/ \E r \in Requests : \/ Read(r)
                           \/ \E v \in Value : WriteThrough(r, v) \/ WriteDelayed(r, v)
    \/ \E k \in Kernels : StartKernel(k)
    \/ Return
    \/ \E d \in Dev : Device(d)

SpecKernelPrograms == Init /\ [][KernelPrograms]_vars
=============================================================================
