CONSTANTS
  Caller = {c1, c2}
  MaxOps = 4
  MaxRounds = 5
  MaxFails = 2
  Name = {"a", "b"}
  MaxSessions = 1
  MaxShells = 3
  FailStreak = 3
  RelayTicks = 2
  NoiseTicks = 2
  MaxChanges = 4
  Instance = {i}
  Learnt = {a, b}
  MaxEra = 2
  MaxFailures = 1
  DirectEp = {u1}
  RelayEp = {u2}
  StrangeEp = {u3}
  MaxSockets = 2
  MaxRaces = 2
SPECIFICATION MCSpec
INVARIANTS WatchTypeOK RolesAreHonest ShellsAreListed PathsAreKnown 
PROPERTIES EndsAreReached PathsRecover
CHECK_DEADLOCK FALSE
