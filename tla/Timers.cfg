CONSTANTS
  Id = {1, 2, 3, 4}
  Interval = {1, 60}
  HeartbeatLimit = 30
  Duration = {1, 3}
  LogMsgLimit = 2
  MaxSet = 3
  MaxFail = 1
SPECIFICATION FairSpec
CHECK_DEADLOCK FALSE
INVARIANTS TimersInv AsConfigured
PROPERTIES HeartbeatLostLate TestsEnd
