SPECIFICATION Spec
CONSTANTS
  issuer = issuer
  device = device
  h1 = h1
  h2 = h2
  a = a
  b = b
  OffCurve = OffCurve
  Unreduced = Unreduced
  Alias = device
  MalformedSig = MalformedSig
  ForgedSig = ForgedSig
  Nothing = Nothing
  Keys <- MCKeys
  Hashes <- MCHashes
  AttestationMsgs <- MCAttestationMsgs
  AssertionMsgs <- MCAssertionMsgs
  Statements <- MCStatements
  Signatures <- MCSignatures
  Witnesses <- MCWitnesses
  Circuits <- MCCircuits
  Callers <- MCCallers
  MaxSignatures = 2
  MaxProofs = 3
INVARIANTS
  BuffersFreed
  OnlyLiveBlocksTouched
  AnswersLikeTheCAbi
  FailedMallocIsReported
PROPERTIES
  ImplementsTheCAbi
  EveryCallEnds
