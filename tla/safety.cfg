CONSTANTS
  Capacity = 3
  VoidLimit = 1
  BuildTime = 1
  MaxTime = 4
  Corrections <- MCCorrections
SPECIFICATION PickSpec
INVARIANT PortExclusive
INVARIANT SessionSorted
CHECK_DEADLOCK FALSE
