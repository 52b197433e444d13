CONSTANTS
  Blocks = 2
  MaxLoss = 2
  QueueSize = 2
  Timeout = 3
  OnboardParamCount = 2
  Values = {0, 1, 2, 3}
  Low = 1
  High = 2
  MaxRefreshes = 2
  MaxSets = 1
  MaxLostDatagrams = 1
  Rates = {57600, 9600}
  Timeouts = {550}
  BasicBlockSize = 1
  MaxBytes = 2
  MaxChanges = 1
  MaxErrors = 1
SPECIFICATION FairPickSpec
INVARIANT SaidIsWritten
INVARIANT ScreensAreRight
INVARIANT PortIsAsSet
PROPERTY LossEndsNothing
PROPERTY AllEndsAndIsTold
CHECK_DEADLOCK FALSE
