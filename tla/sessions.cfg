CONSTANTS
  Dialler = {x}
  MaxInst = 2
  MaxBuilds = 2
  d1 = d1
  d2 = d2
  d3 = d3
  p1 = p1
  p2 = p2
  p3 = p3
  p4 = p4
  a1 = a1
  a2 = a2
  a3 = a3
  a4 = a4
  a5 = a5
  a6 = a6
  Device = {d1, d2, d3}
  Pub = {p1, p2, p3, p4}
  Secret = {s1}
  Addr = {a1, a2, a3, a4, a5, a6}
  FirstKey <- MCFirst
  Keys <- MCKeys
  Derived <- MCDerived
  MaxDevices = 2
  QueueCap = 1
  Grace = 0
  TTL = 0
  MaxAge = 1
  MaxNews = 1
  Absent = Absent
  PieceCount = 2
  MaxImports = 2
  MaxStarts = 1
  Asker = {m1, m2}
  MaxRounds = 2
  MaxLosses = 2
  MaxLates = 1
  Process = {p, q}
  MaxKeys = 3
SPECIFICATION MCSpec
INVARIANTS SessionsTypeOK OneSessionPerHost  FilesStayWhole UndisturbedRoundHeals
PROPERTIES StopsReturn KeptTillLast
CHECK_DEADLOCK FALSE
