SPECIFICATION Spec
CONSTANTS
  Client = {"c1", "c2"}
  Id = {"h1", "h2"}
  Data = {"tcp", "unix"}
  Asked <- NegativeOrHalfMinute
  InitialFiles <- MissingOrOld
  Nobody = "nobody"
INVARIANTS
  RemovalIsOnDisk
