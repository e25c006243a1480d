\* Delivery: both modes, two updates of any kind, one crash.  With every bound
\* used up the webhook has nothing left to do.
SPECIFICATION Spec
CHECK_DEADLOCK FALSE
CONSTANTS
  Modes      <- BothModes
  Allowed    <- Owner
  Strangers  <- Stranger
  Dates      <- TwoDates
  Inputs     <- Messages
  Timeout    = 1
  MaxUpdates = 2
  MaxTime    = 2
  MaxCrashes = 1
INVARIANTS
  AtMostOnce
  StrangersAnsweredOnce
  WebhookKeepsEvidence
PROPERTIES
  ImplementsBotUpdates
  EveryUpdateLeaves
