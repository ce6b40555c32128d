SPECIFICATION Spec
CONSTANTS
  HostId = {"h1", "h2"}
  HostText = {"n1", "n2", "n3", "ip1", "ip2", "0.0.0.0", "::", "[::]", "v6", "[v6]", "other"}
  Wildcard = {"0.0.0.0", "::"}
  Bracketed <- MCBracketed
  Ctr = {"c"}
  Svc = {"s"}
  Port = {80, 81}
  Domain = {"d", "e"}
  Configs <- EditedConfigs
  Daemons <- SomeTasks
  RuleSets <- SomeRules
  Managers = {"h1"}
  MaxDials = 2
  MaxReads = 1
  MaxChanges = 1
INVARIANTS
  TypeOK
  HiddenOnlyForShownService
  EveryRowProbed
  LinkedIffUsed
  OwnNamePreferred
PROPERTIES
  EveryScanAnswered
