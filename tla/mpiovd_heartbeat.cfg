CONSTANTS
  BoxSize = 4
  MaxCommands = 0
  ParamCount = 1
  ShellUsed = TRUE
SPECIFICATION FairSpec
PROPERTY HeartbeatsGoOn
