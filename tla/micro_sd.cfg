CONSTANTS
  Capacity = 3
  Messages = 1
  MaxEvents = 1
  MaxSerial = 4
  MaxRec = 2
  MaxWord = 7
  Readers = {"cc", "dm"}
  PortUsers = {"modem"}
  CrossBuilt = FALSE
SPECIFICATION FairSpec
PROPERTY DownloadIsSound
PROPERTY JobsEnd
