SPECIFICATION Spec
CONSTANTS
  c1 = c1
  c2 = c2
  NoTag = NoTag
  Clones <- MCClones
  Versions <- MCRace
  FirstVersion <- MCFirstVersion
  MaxMain = 2
  MaxTagObjects = 6
SYMMETRY CloneSymmetry
INVARIANTS
  ReleasedFromMain
  AnnouncedIsPublished
  OneReleasePerVersion
