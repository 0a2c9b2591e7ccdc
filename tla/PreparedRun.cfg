CONSTANTS
  Runs = {1, 2}
  Setups <- MCSetups
SPECIFICATION Spec
INVARIANTS NothingLeftBehind ChartPresent DependenciesReady ResultExact LockHolds
  LayersExact TemplatesResolved
