CONSTANTS
  Params <- MCParams
  Requests <- MCRequests
  Speakers = {"cc"}
  Impatient = FALSE
  Flaky = {"cc"}
  SysId = 20
  Copies = 5
SPECIFICATION FairSpec
INVARIANT MessagesAreWhole
PROPERTY AnswerComes
