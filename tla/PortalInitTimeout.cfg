SPECIFICATION FairSpec
CONSTANTS
  Statuses = {"Ready"}
  RingCap = 2
  Timed = TRUE
  MaxStatuses = 2
  MaxCalls = 2
PROPERTIES InitEnds
CHECK_DEADLOCK FALSE
