\* Every scheduler, over two solutions of the solver.
CONSTANTS
  Unit = 12
  NbDevices = 3
  CycleLength = 2
  Schedulers = {"ENV", "MKSTATIC", "FIXEDPOINT", "BROYDEN", "BADBROYDEN", "MKGR", "MKGR2"}
  Options <- SmallOptions
  WorkGroups = {2, 4}
  Candidates <- SmallCandidates
  Steps <- SmallSteps
  Halo <- SmallHalo
  MinIter = 1
  MaxCount = 9
SPECIFICATION Spec
INVARIANTS
  PartitionCoversLaunch
  TransfersAreOfOneSolution
  ConstraintsMeasureTraffic
  MatrixIsWellFormed
  D2HRowsChargeSampledShare
  SamplesAreTraffic
PROPERTY SharesAreOfOneDevice
CHECK_DEADLOCK FALSE
