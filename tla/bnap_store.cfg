CONSTANTS
  Capacity = 5
  VoidLimit = 1
  BuildTime = 1
  MaxTime = 8
  Corrections <- MCCorrections
  Registry <- MCRegistry
  OldNames <- MCOldNames
  MaxValue = 3
SPECIFICATION FairPickSpec
INVARIANT ServedRecordsExist
INVARIANT SteadyInv
INVARIANT ParamsAreValid
PROPERTY MountResumes
PROPERTY ImplementsRecordLog
PROPERTY MountTerminates
PROPERTY SaveIsWhole
PROPERTY JobsEnd
CHECK_DEADLOCK FALSE
