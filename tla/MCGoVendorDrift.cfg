SPECIFICATION Spec
CONSTANTS
  Own <- MCOwn
  Revisions <- MCRevisions
  Headers <- MCHeaders
  Needs <- MCNeeds
  Text <- MCText
  PatchFor = "h1"
  Applies <- MCApplies
  Tagged <- MCTagged
  MaxCommits = 1
  MaxEdits = 2
INVARIANTS
  NoDriftPasses
