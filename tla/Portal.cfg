SPECIFICATION FairSpec
CONSTANTS
  Recipients = {"a", "b"}
  Frames <- EveryFrame
  Exchanges = {"e1"}
  InletCap = 1
  CallCap = 1
  MuxCap = 1
  OutletCap = 1
  MaxFrames = 2
  MaxOut = 1
  MaxDirect = 1
INVARIANTS TypeOK InOrder LossEndsReading ExchangePending OnlyOwnerAheadOfInit
PROPERTIES EveryFrameHandled TasksEnd ExchangesEnd
CHECK_DEADLOCK FALSE
