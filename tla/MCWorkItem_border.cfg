\* The else part of a conjunction.
CONSTANTS
  Unit = 3
  MaxNodes = 1
  Flows <- BorderFlows
  Node <- IdNode
  Launches <- SmallLaunches
  ArgValues <- SmallArgs
SPECIFICATION Spec
INVARIANT GuardsAreNecessary
