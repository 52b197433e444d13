CONSTANTS
  Slots = 4
  MaxTrip = 6
  Rest = 4
  MaxSample = 3
  MaxLen = 3
  Half = 64
  OutModulus = 16
  MaxFilterChanges = 2
  Commands = {"c1"}
  Room = 2
  MaxPlugs = 2
  Word = 2
  Group = 2
  Byte = 1
  Sensors <- MCSensors
  Supplies = {1000, 2693}
  Levels = {400, 1000}
  U1 <- MCU1
  V <- MCV
  Words = {0, 3}
  Periods = {0, 1, 60000}
  FirstSupply = 1000
  FirstLevel = 400
  MaxRawChanges = 2
SPECIFICATION FairPickSpec
INVARIANT TripInv
INVARIANT PortsHaveOwners
INVARIANT InputsAreRight
PROPERTY LoadRestores
PROPERTY ImplementsOdometer
PROPERTY TripIsSaved
PROPERTY FilterFollows
PROPERTY PlugIsNoticed
CHECK_DEADLOCK FALSE
