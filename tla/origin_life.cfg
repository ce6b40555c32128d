SPECIFICATION Spec
CONSTANTS
  Word <- MCWord
  Lower <- MCLower
  Number <- MCNumber
  Svc = {"s"}
  Ctr = {"c", "d", "t"}
  HostId = {"h1", "h2", "h3", "h4", "h5"}
  Hosts <- MCHosts
  WrittenHosts <- MCWrittenHosts
  Schemes <- MCSchemes
  Ports <- MCPorts
  Paths <- MCPaths
  Services <- MCServices
  Containers <- MCContainers
INVARIANTS
  TypeOK
  OnlyTheHostChanges
  FoundWhereItPoints
  ScanReadsTheSame
  ScanFindsItsOwn
  LabelPublishesThePort
