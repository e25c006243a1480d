\* Four months of two days, two of each rule kept, two runs at once.
SPECIFICATION Spec
CONSTANTS
  Workers       <- NightlyAndRequest
  DailyRetain   = 2
  MonthlyRetain = 2
  Calendar      <- ShortMonths
  MaxDay        = 6
  MaxFaults     = 1
INVARIANTS
  IInv
  DailyKept
  MonthlyKept
  ReportedIsTaken
PROPERTY
  PruningBounds
