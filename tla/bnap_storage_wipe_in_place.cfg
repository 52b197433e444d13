CONSTANTS
  Capacity = 3
  VoidLimit = 1
  BuildTime = 1
  MaxTime = 5
  Corrections <- MCCorrections
SPECIFICATION Spec
INVARIANT WipedLogStartsOver
