SPECIFICATION Spec
CONSTANTS
  c1 = c1
  c2 = c2
  NoTag = NoTag
  Clones <- MCClones
  Versions <- MCBumps
  FirstVersion <- MCFirstVersion
  MaxMain = 2
  MaxTagObjects = 6
PROPERTY RunAgainPushesSameVersion
