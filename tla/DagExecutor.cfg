\* All single-root graphs over four components.
CONSTANTS
  Component <- MCComponent
  DagConfigs <- MCSingleRoot
  TERMINAL_NODE = "terminal_node"
SPECIFICATION FairSpec
INVARIANTS
  DependenciesFirst
  StartedAtMostOnce
  InDegreeCounts
  ClosedMeansQuiescent
  AllExecuted
PROPERTIES
  CallReturns
  TopologicallyExecuted
