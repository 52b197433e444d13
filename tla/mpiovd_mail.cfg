CONSTANTS
  BoxSize = 3
  MaxCommands = 1
  ParamCount = 2
  ShellUsed = TRUE
SPECIFICATION FairSpec
INVARIANT OneValueAtATime
PROPERTY AnswerComes
