SPECIFICATION Spec
CONSTANTS
  issuer = issuer
  device = device
  h1 = h1
  h2 = h2
  OffCurve = OffCurve
  Unreduced = Unreduced
  Alias = device
  MalformedSig = MalformedSig
  ForgedSig = ForgedSig
  Keys <- MCKeys
  Hashes <- MCHashes
  AttestationMsgs <- MCAttestationMsgs
  AssertionMsgs <- MCAssertionMsgs
  Statements <- MCStatements
  MaxSignatures = 2
  MaxProofs = 1
INVARIANTS
  TypeOK
  AcceptedJustified
  ProofFitsOneStatement
  HonestApprovalVerifies
  ProverCodeNamesTheCause
  PinnedCircuitIsUsable
PROPERTY KeepsPromise
CHECK_DEADLOCK FALSE
