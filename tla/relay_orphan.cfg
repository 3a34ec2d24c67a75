CONSTANTS
  Label = {b1}
  Client = {}
  Conn = {c1, c2}
  LegId = {l1, l2}
  AssocId = {}
  Addr = {}
  Src = {}
  None = None
  MaxLegs = 1
  MaxPerPeer = 1
  MaxCtlConns = 2
  CtlHandshakeMax = 2
  CtlPendMax = 1
  MaxSid = 0
  MaxRestarts = 0
  MaxWire = 2
  Timers = {}

SPECIFICATION Spec
INVARIANTS ControlledLegIsMapped
