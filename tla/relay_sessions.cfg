CONSTANTS
  Label = {b1}
  Client = {k1,k2}
  Conn = {c1}
  LegId = {l1}
  AssocId = {a1, a2}
  Addr = {u1,u2}
  Src = {s1}
  None = None
  MaxLegs = 1
  MaxPerPeer = 1
  MaxCtlConns = 1
  CtlHandshakeMax = 1
  CtlPendMax = 1
  MaxSid = 2
  MaxRestarts = 1
  MaxWire = 1
  Timers = {"idle", "silent", "late"}
SYMMETRY Symmetry
VIEW View
SPECIFICATION Spec
INVARIANTS TypeOK  UplinkGoesToProvenLeg
