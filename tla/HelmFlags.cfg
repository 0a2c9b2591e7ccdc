CONSTANTS
  Confs <- MCConfs
  Helms = {3001, 3017, 4000}
  Plugins = {3007, 3015}
SPECIFICATION FlagsSpec
INVARIANTS SameRendering SameAcquisition
CHECK_DEADLOCK FALSE
