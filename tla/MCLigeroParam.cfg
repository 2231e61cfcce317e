SPECIFICATION SearchSpec
CONSTANTS
  Machines <- MCMachines
  SizeMax <- MCSizeMax
  Sizes <- MCSizes
  MaxSize = 256
  SubfieldSize = 1000
  MaxRunLen = 32
  Requests <- MCRequests
  ElementBytes = 2
  SubfieldBytes = 1
  DigestBytes = 2
  NonceBytes = 2
  Garbage <- MCGarbage
INVARIANTS
  NothingStale
  ParametersAgree
  DimensionsHold
CHECK_DEADLOCK FALSE
