SPECIFICATION FairSpec
CONSTANTS
  Statuses = {"Initializing", "Ready", "Panic", "Done"}
  RingCap = 2
  Timed = TRUE
  MaxStatuses = 4
  MaxCalls = 2
INVARIANTS TypeOK OkMeansReady InitSentOnce
PROPERTIES PairEndsInit
CHECK_DEADLOCK FALSE
