SPECIFICATION SpecSupported
CONSTANTS
    NbDevices = 2
    Size = 2
    Modulus = 4
    NoVal = 99
    Kernels <- MCKernels
    Inputs = {1}
    DelayedWrite = {TRUE, FALSE}
    CycleBarrier = TRUE
    CycleLength = 1
INVARIANTS
    ResultsAreExact
    BaseIsOnHost
    NoTransferAfterFree
