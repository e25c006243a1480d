CONSTANTS
  Rules      <- MCRules
  Networks   <- MCNetworks
  NoNetwork  = "none"
  Zones      <- MCZones
  KnownZones <- MCKnown
  Macs       <- MCMacs
  Labels     <- MCLabels
  Envs       <- MCEnvs
  MaxStarts  = 4
  MaxEdits   = 2
SPECIFICATION Spec
INVARIANTS
  RulesSeededOnce
  OneActiveRow
  StartTracksAll
PROPERTY
  UsableStartServes
\* The process may be down for good once its starts are used up.
CHECK_DEADLOCK FALSE
