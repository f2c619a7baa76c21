SPECIFICATION EnvSpec
CONSTANTS
  MAX_FAULTS = 1
INVARIANTS
  GeneratesFees
