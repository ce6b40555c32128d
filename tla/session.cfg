SPECIFICATION SessionSpec
SYMMETRY Exchangeable
CONSTANTS
  Job = {j1, j2}
  Slot = {p1, p2}
  Rule = {"r1"}
  HostText = {"a", "A", "b"}
  Offered = {"a", "b"}
  Rest = {":80"}
  Ported = {":80"}
  Fold <- MCFold
  Bare <- MCSame
  Bracketed <- MCSame
  Faults = {"refuse"}
  MaxEdits = 0
  MaxParallel = 1
  Requests <- AnyRequest
  InitialUpstreams <- UpstreamsOnA
INVARIANTS
  SessionTypeOK
  NothingBeyondThePlan
  WholePlanExecuted
