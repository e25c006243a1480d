\* One request after the other, nothing failing.
SPECIFICATION Spec
CONSTANTS
  Workers       <- OneRequest
  DailyRetain   = 2
  MonthlyRetain = 2
  Calendar      <- ShortMonths
  MaxDay        = 9
  MaxFaults     = 0
INVARIANT
  BackupNowWorks
