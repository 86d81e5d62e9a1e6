SPECIFICATION SpecKernelPrograms
CONSTANTS
    NbDevices = 2
    Mem = {"a"}
    Size = 2
    ReadOnly = {}
    Value = {1, 2}
    NoVal = 0
    CreateFlags = {"none", "copy"}
    MapFlags = {}
    Kernels <- MCKernels
    DelayedWrite = FALSE
    CycleBarrier = FALSE
    CycleLength = 1
    FreedKept = TRUE
    MaxPending = 4
INVARIANTS
    SubKernelsSeeProgramOrder
