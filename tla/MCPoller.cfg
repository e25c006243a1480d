\* Two devices over four cycles.
SPECIFICATION Spec
CONSTANTS
  Devices <- TwoDevices
  MaxTime = 3
INVARIANTS
  DisconnectsPaired
  ConnectedIsCurrent
  FailuresSinceSuccess
  SeenInOrder
  IInv
PROPERTY
  EveryCycleEnds
