SPECIFICATION Spec
CONSTANTS
  Job = {"j1", "j2"}
  Rule = {"r1"}
  HostText = {"a", "b", "B"}
  Rest = {":80"}
  Ported = {":80"}
  Fold <- MCFold
  Bare <- MCBare
  Bracketed <- MCBracketed
  Faults = {"list", "refuse", "timeout"}
  MaxEdits = 1
  MaxParallel = 8
  Requests <- OpposingRequests
  InitialUpstreams <- FoldedUpstreams
INVARIANTS
  EveryMatchedOriginReported
  NoFoldedDuplicates
  CleanReplyMeansFailedOver
PROPERTIES
  OnlySelectedRulesMove
  ServedLostOnlyAfterFailedActivation
