SPECIFICATION Spec
CONSTANTS
    NbDevices = 2
    Mem = {"a"}
    Size = 2
    ReadOnly = {}
    Value = {1, 2}
    NoVal = 0
    CreateFlags = {"none", "copy"}
    MapFlags = {}
    Kernels <- MCKernels
    DelayedWrite = FALSE
    CycleBarrier = TRUE
    CycleLength = 1
    FreedKept = TRUE
    MaxPending = 0
INVARIANTS
    TypeOK
    SubKernelsSeeProgramOrder
    IndirectionsSeeProgramOrder
    NothingLost
PROPERTIES
    ImplementsSequentialMemory
