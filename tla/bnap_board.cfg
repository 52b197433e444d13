SPECIFICATION FairPickSpec
CONSTANTS
  Tries = 2
  RssiTries = 2
  Alive = 2
  Loops = {"l1", "l2"}
  Listeners = {"a1"}
  HeapSize = 4096
  Overhead = 128
  FieldCount = 2
  Texts = {"1234", "b", "long"}
  MaxCommands = 2
  MaxReads = 2
  MaxErrors = 1
  MaxLen = 3
  MaxMessages = 2
  MaxLines = 2
INVARIANT ModemIsLeftAlone
INVARIANT ShellIsSafe
INVARIANT TextIsWhole
PROPERTY ModemComesBack
PROPERTY PortFollowsFlag
CHECK_DEADLOCK FALSE
