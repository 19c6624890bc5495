SPECIFICATION Spec
CONSTANTS
  c1 = c1
  c2 = c2
  Clients = {c1, c2}
  Host <- MCHost
  Server = Server
  ServerHost = "time"
  Strange <- MCStrange
  Start = 86399
  Junk <- MCJunk
  None = None
  MaxTime = 1
  MaxRuns = 2
  MaxNoise = 1
INVARIANTS
  TypeOK
  ChecksumsVerify
  NoAmplification
PROPERTIES
  ImplementsService
  WaitsOnlyForLosses
CHECK_DEADLOCK FALSE
