CONSTANTS
  Sid = {s1, s2}
  Remote = {r1, r2}
  LegId = {l1, l2}
  None = None
  LegMax = 2
  PortsMax = 3
  ChMax = 1
  MaxGen = 2

SPECIFICATION FairSpec
INVARIANTS TypeOK TablesAgree RoutedLegHasReader NeverMainToDataPort
PROPERTIES RegistrySpec IdleLegsGo
CHECK_DEADLOCK FALSE
