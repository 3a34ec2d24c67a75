CONSTANTS
  Domain = {d1, d2}
  Worker = {"session"}
  Resume = "snapshot"
  RingCap = 1
  SubQueue = 1
  MaxChanges = 2
  MaxReq = 3
  MaxConn = 2
  MaxGen = 2
  None = None
  Peer = {d1, d2}
  Port = {1, 2}
  MaxRules = 2
  SocksConns = 1
  MaxManagers = 2
  MaxServers = 2
  MaxLanded = 2
  MaxTrouble = 1
  SurfaceLeg = {"a", "b"}
  QueueLimit = 1
  MaxVersion = 2
  MaxMishaps = 1
SYMMETRY Symmetry
SPECIFICATION MCSpec
INVARIANTS FacadeTypeOK   NoMixture
CHECK_DEADLOCK FALSE
