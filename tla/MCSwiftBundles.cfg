SPECIFICATION Spec
CONSTANTS
  AppleVariants <- MCApple
  AndroidVariants <- MCAndroid
  BrewVariants <- MCBrew
  MaxSource = 2
  MaxPin = 1
INVARIANTS
  AcceptedIsReal
  EnsuredIsAccepted
  StagedIsReal
PROPERTIES
  StubsReplaceNothing
