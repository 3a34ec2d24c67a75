CONSTANTS
  Nonce = {1, 2, 3}
  Addresses = 2
  MaxNet = 3
  MaxFaults = 3
  Label = {b1}
  Client = {k1, k2}
  Conn = {c1}
  LegId = {l1}
  AssocId = {a1, a2}
  Addr = {u1}
  Src = {s1}
  None = None
  MaxLegs = 1
  MaxPerPeer = 1
  MaxCtlConns = 1
  CtlHandshakeMax = 1
  CtlPendMax = 1
  MaxSid = 1
  MaxRestarts = 0
  MaxWire = 1
  Timers = {"idle", "silent", "late"}
VIEW MCView
SPECIFICATION MCSpec
PROPERTIES NothingHangs AddressNeverRollsBack BackendSettles
CHECK_DEADLOCK FALSE
