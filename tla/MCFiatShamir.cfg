SPECIFICATION Spec
CONSTANTS
  LogW <- MCLogW
  NPub = 2
  NReq = 2
  Versions <- MCVersions
  Statements <- MCStatements
  Proofs <- MCProofs
  Values <- MCValues
INVARIANTS
  ChallengesSettleThePast
  SumcheckInLockStep
  HonestProofReplays
CHECK_DEADLOCK FALSE
