\* Conversation: both modes, three updates about corrections, one crash.
SPECIFICATION Spec
CHECK_DEADLOCK FALSE
CONSTANTS
  Modes      <- BothModes
  Allowed    <- Owner
  Strangers  <- Stranger
  Dates      <- TwoDates
  Inputs     <- Corrections
  Timeout    = 1
  MaxUpdates = 3
  MaxTime    = 2
  MaxCrashes = 1
INVARIANT
  TextAnswersQuestion
