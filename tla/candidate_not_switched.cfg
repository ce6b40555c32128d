SPECIFICATION Spec
CONSTANTS
  Word <- MCWord
  Lower <- MCLower
  Number <- MCNumber
  Svc = {"s"}
  Ctr = {"c", "d", "t"}
  HostId = {"h1", "h5"}
  Hosts <- MCHosts
  WrittenHosts <- MCWrittenHosts
  Schemes <- MCSchemes
  Ports <- MCPorts
  Paths <- MCPaths
  Services <- MCServices
  Containers <- MCContainers
INVARIANTS
  SwitchFindsCandidates
