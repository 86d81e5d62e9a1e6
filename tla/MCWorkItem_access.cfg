\* Bounds and guards of the accesses of structured kernels.
CONSTANTS
  Unit = 3
  MaxNodes = 5
  Flows <- StructuredFlows
  Node <- SoundNode
  Launches <- SmallLaunches
  ArgValues <- SmallArgs
SPECIFICATION Spec
INVARIANTS
  GuardsAreNecessary
  BoundsCoverEveryAccess
