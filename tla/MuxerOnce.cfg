SPECIFICATION FairSpec
CONSTANTS
  Clients = {c1, c2}
  Portals = {c1, c2}
  Obliging = {c1, c2}
  Listeners = {}
  Wake = wake
  MuxCap = 1
  CallCap = 1
  MaxMuxCalls = 0
  MuxCalls <- NoMuxCalls
PROPERTIES EveryoneInMuxer
CHECK_DEADLOCK FALSE
