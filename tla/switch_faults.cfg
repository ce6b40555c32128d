SPECIFICATION FairSpec
CONSTANTS
  Job = {"j1"}
  Rule = {"r1", "r2"}
  HostText = {"v6", "[v6]", "b", "B"}
  Rest = {":80"}
  Ported = {":80"}
  Fold <- MCFold
  Bare <- MCBare
  Bracketed <- MCBracketed
  Faults = {"list", "refuse", "timeout"}
  MaxEdits = 0
  MaxParallel = 1
  Requests <- FailoverRequests
  InitialUpstreams <- FoldedUpstreams
INVARIANTS
  TypeOK
  EveryMatchedOriginReported
  ReportIsTrue
  NoFoldedDuplicates
  CleanReplyMeansFailedOver
PROPERTIES
  EveryRequestAnswered
  OnlySelectedRulesMove
  ServedLostOnlyAfterFailedActivation
