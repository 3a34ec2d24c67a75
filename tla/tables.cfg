CONSTANTS
  Host = {h1, h2}
  Requester = {q1, q2}
  MaxToken = 2
  MaxTable = 2
  MaxWishes = 3
  l1 = l1
  l2 = l2
  l3 = l3
  x = x
  Leg = {l1, l2, l3}
  RawTerm = {l1, l2}
  Client = {x}
  Anonymous = Anonymous
  Size = {1, 2}
  MaxClients = 2
  RingSize = 2
  Replay = 2
  Chunk = 2
  MaxOut = 4
  MaxFrames = 1
  MaxTimeouts = 2
  Stream = {s1, s2}
  MaxStreams = 1
  MaxUpWorkers = 1
  HighQueue = 1
  MaxInflight = 2
  StreamQueue = 1
  UpWorkerItems = 1
  StreamUpItems = 1
  Wire = 1
  MaxDown = 1
  MaxUp = 0
  MaxSubs = 1
  MaxAsks = 2
SYMMETRY Symmetry
VIEW View
SPECIFICATION MCSpec
INVARIANTS TablesTypeOK HostsAgree LegsAgree  StreamsAgree
CHECK_DEADLOCK FALSE
