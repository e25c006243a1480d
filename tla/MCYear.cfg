CONSTANTS
  MaxEvidence  = 2
  SecondsOf    <- MCSecondsOf
  MaxDay       = 1
  Window       = 2
  Trailing     = 2
  Threshold    = 2
  Cap          = 3
  FlagsOf      <- MCFlagsOf
  SpillOf      <- MCSpillOf
  Adjustments  <- MCAdjustments
  MaxActs      = 2
  LastObserved = 1
  Year         <- MCYear
SPECIFICATION YearSpec
INVARIANTS
  AuditTrailCovers
  UntouchedDaysAgree
  TotalsCountVersions
\* The calendar of the instance ends.
CHECK_DEADLOCK FALSE
