CONSTANTS
  Label = {b1}
  Client = {}
  Conn = {c1, c2, c3}
  LegId = {l1, l2}
  AssocId = {}
  Addr = {u1}
  Src = {}
  None = None
  MaxLegs = 1
  MaxPerPeer = 1
  MaxCtlConns = 2
  CtlHandshakeMax = 2
  CtlPendMax = 1
  MaxSid = 0
  MaxRestarts = 0
  MaxWire = 2
  Timers = {"leg"}
SYMMETRY Symmetry
VIEW View
SPECIFICATION Spec
INVARIANTS ServedIsCurrent ConnectionsAreAccounted
