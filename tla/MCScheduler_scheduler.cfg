\* Kernels of each kind, launched and launched again.
CONSTANTS
  Unit = 12
  NbDevices = 3
  Kernels <- SmallKernels
  Calls <- SmallCalls
  Requests <- SmallRequests
  EnableIndirections = TRUE
  ShiftInit = 0
  ShiftStep = 0
  MaxCalls = 2
SPECIFICATION Spec
INVARIANTS
  EveryWorkItemRuns
  EveryResultIsKept
  RequiredCoversAccesses
  AnalysisIsSound
  SplitIsTransparent
  AbortsOnlyInShifts
PROPERTY LoopEnds
CHECK_DEADLOCK FALSE
