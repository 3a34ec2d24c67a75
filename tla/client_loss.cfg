CONSTANTS
  RecvRoom = 1
  MaxData = 3
SPECIFICATION FairClientSpec
PROPERTY LossIsNoticed
CHECK_DEADLOCK FALSE
