CONSTANTS
  RingSize = 2
  Replay = 2
  Chunk = 2
  MaxOut = 4
  MaxFrames = 1
  MaxTimeouts = 1
  SurfaceLeg = {"a"}
  QueueLimit = 1
  MaxVersion = 3
  MaxMishaps = 2
  Stream = {"s1"}
  MaxStreams = 1
  MaxUpWorkers = 1
  HighQueue = 1
  MaxInflight = 1
  StreamQueue = 1
  UpWorkerItems = 1
  StreamUpItems = 1
  Wire = 1
  MaxDown = 2
  MaxUp = 2
  MaxSubs = 0
  MaxAsks = 1
  RecvRoom = 1
  MaxData = 3
  MaxRuns = 2
SPECIFICATION MCSpec
INVARIANTS StreamsInOrder GenerationsAreSerial
PROPERTIES ServicesFinish
CHECK_DEADLOCK FALSE
