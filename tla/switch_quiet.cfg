SPECIFICATION Spec
CONSTANTS
  Job = {"j1", "j2"}
  Rule = {"r1"}
  HostText = {"a", "b", "c"}
  Rest = {":80", ":81"}
  Ported = {":80", ":81"}
  Fold <- MCFold
  Bare <- MCBare
  Bracketed <- MCBracketed
  Faults = {}
  MaxEdits = 0
  MaxParallel = 8
  Requests <- SameRequest
  InitialUpstreams <- FoldedUpstreams
PROPERTIES
  KeepsThePromise
