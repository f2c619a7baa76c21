SPECIFICATION EnvSpec
CONSTANTS
  MAX_FAULTS = 3
INVARIANTS
  DoneMeansFunded
PROPERTIES
  EventuallyReady
