SPECIFICATION CodecSpec
CONSTANTS
  Leaves = 5
  NReq = 2
  Blobs <- MCBlobs
  Contents <- MCContents
  Foreign <- MCForeign
  Logw <- MCLogw
  Block = 1
  DBlock = 2
  R = 1
  NRow = 2
  Base = 64
  Modulus = 4000
  SizeRange = 64
  MaxRunLen = 16
  MaxNumDigests = 16
  ElementOf <- MCElementOf
  Sends <- MCSends
  Damages <- MCDamages
INVARIANTS
  ChosenOnce
  AcceptedIsCommitted
  HonestOpeningVerifies
  ReadsWhatWasWritten
  NeverReadsPastTheEnd
PROPERTIES
  CarriesOutTheOpening
CHECK_DEADLOCK FALSE
