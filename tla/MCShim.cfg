SPECIFICATION Spec
CONSTANTS
  Messages <- MCMessages
  CircuitBlocks = 3
  kMaxBlocks = 100000
  Blocks <- MCBlocks
INVARIANTS
  HashInStep
  DigestIsSha256
PROPERTIES
  CircuitAcceptsTheWitness
  DrawsAes256OfTheCounter
CHECK_DEADLOCK FALSE
