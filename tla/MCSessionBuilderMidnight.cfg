\* One device and one date, sessions that run on past the buffer.
SPECIFICATION Spec
CONSTANTS
  Devices    <- OneDevice
  Targets    <- FirstDay
  DayLength  = 4
  Buffer     = 2
  GapBridge  = 0
  MinSession = 1
  Horizon    = 7
  MaxRows    = 5
INVARIANT
  AttributedInFull
