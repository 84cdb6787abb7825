SPECIFICATION FairSpec
CONSTANTS
  Calls = {c1, c2}
  Requests = {r1}
  Setters = {s1}
  Settable = {"Ready"}
  Kinds = {"Notification", "RequestResponse"}
  InertFrames = {"Close"}
  None = None
  InletCap = 1
  OutletMax = 1
  MaxReplies = 2
INVARIANTS WaitingIsRegistered ResponseReachesCaller LeaksOnlyUnanswered OneResponseAtMost ExchangeInv
PROPERTIES ContractSpec EveryExchangeEnds
CHECK_DEADLOCK FALSE
