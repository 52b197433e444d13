CONSTANTS
  Period = 4
  Timeout = 3
  MaxBus = 4
  MaxAge = 3
  RtcErrors <- MCRtcErrors
  Seconds = 4
  GPS_MSG_LEN = 5
  MaxNoise = 2
  Times <- MCTimes
  MaxSets = 3
  Ticks = 16
  Full = 3
  LoadPeriod = 3
  MaxLate = 1
  TextTicks = 4
  MaxPeriod = 2
  MaxTexts = 3
  MaxEvents = 2
SPECIFICATION FairPickSpec
INVARIANT ClockExact
INVARIANT ShownIsTrue
PROPERTY TimeIsKept
PROPERTY NoiseHoldsNothing
PROPERTY LoadIsShare
PROPERTY BroadcastsGoOut
CHECK_DEADLOCK FALSE
