CONSTANTS
  Capacity = 3
  Messages = 1
  MaxEvents = 2
  MaxSerial = 2
  MaxRec = 2
  MaxWord = 7
  Readers = {"cc", "dm"}
  PortUsers = {"modem"}
  CrossBuilt = FALSE
SPECIFICATION QuietSpec
PROPERTY SingleRecordIsSent
