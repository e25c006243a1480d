\* Two sessions, the nightly job and the bulk lock with both dates in one
\* transaction, and fairness.
SPECIFICATION FairSpec
CONSTANTS
  MaxEvidence = 1
  SecondsOf   <- MCSecondsOf
  Dates       <- TwoDates
  Requests    <- TwoRequests
  Workers     = {w1, w2}
  NoWorker    = NoWorker
  Adjustments <- MCAdjustments
  MaxVersion  = 2
INVARIANTS
  HistoriesWellFormed
  SessionsMatchLatest
  CorrectionsStick
  IInv
PROPERTIES
  AppendOnlyHistory
  EveryJobEnds
  ImplementsDayVersions
