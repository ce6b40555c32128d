SPECIFICATION Spec
SYMMETRY Exchangeable
CONSTANTS
  Session = {"mine", "theirs"}
  Own = "mine"
  None = "none"
  Id = {h1, h2, h3}
  Data = {"d1", "d2"}
  Slot = {s1, s2}
  InitialHosts <- MCInitialHosts
  MaxCalls = 2
  MaxOthers = 1
INVARIANTS
  PageTypeOK
  TokenIsOwn
  ListIsCurrent
  RefusalsAreTold
PROPERTIES
  OnlyTheEditedHostChanges
