SPECIFICATION SpecKernelPrograms
CONSTANTS
    NbDevices = 2
    Mem = {"a", "b"}
    Size = 2
    ReadOnly = {"b"}
    Value = {1, 2}
    NoVal = 0
    CreateFlags = {"none"}
    MapFlags = {}
    Kernels <- LookupKernels
    DelayedWrite = TRUE
    CycleBarrier = TRUE
    CycleLength = 1
    FreedKept = TRUE
    MaxPending = 0
PROPERTIES
    ImplementsSequentialMemory
