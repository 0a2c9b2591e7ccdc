CONSTANTS
  Runs = {1, 2}
  Setups <- MCOverridden
SPECIFICATION Spec
INVARIANT ValuesExact
