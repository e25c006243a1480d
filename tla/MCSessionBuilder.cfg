\* Two devices, two dates, every pattern of up to four rows.
SPECIFICATION Spec
CONSTANTS
  Devices    <- TwoDevices
  Targets    <- FirstDays
  DayLength  = 4
  Buffer     = 2
  GapBridge  = 1
  MinSession = 1
  Horizon    = 7
  MaxRows    = 4
INVARIANTS
  SessionsExact
  SessionsAccounted
  GapsAreTheUnseen
  BufferSuffices
