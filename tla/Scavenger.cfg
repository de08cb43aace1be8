SPECIFICATION Spec
CONSTANTS
  Survivor = 2
  Eden = 6
  Old = 6
  Perm = 1
  Images <- MCImages
  Slots <- MCSlots
  Criteria = {"ByAge", "ByClass"}
  TenuringKind = "plain"
  TenureCells = 1
  RedZone = 2
CHECK_DEADLOCK FALSE
INVARIANTS
  GraphIsPreserved
  EphemeronsFireForTheDying
  RememberedSetsAreSound
PROPERTIES
  ScavengesEnd
