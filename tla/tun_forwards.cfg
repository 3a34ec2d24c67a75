CONSTANT MaxRuns = 2
SPECIFICATION TunSpec
INVARIANT NoOrphanForwards
CHECK_DEADLOCK FALSE
