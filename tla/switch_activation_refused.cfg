SPECIFICATION FairSpec
CONSTANTS
  Job = {"j1"}
  Rule = {"r1"}
  HostText = {"a", "b"}
  Rest = {":80"}
  Ported = {":80"}
  Fold <- MCFold
  Bare <- MCBare
  Bracketed <- MCBracketed
  Faults = {"refuse"}
  MaxEdits = 0
  MaxParallel = 8
  Requests <- SameRequest
  InitialUpstreams <- FoldedUpstreams
PROPERTIES
  DropKeepsTargetActive
