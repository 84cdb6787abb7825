SPECIFICATION FairSpec
CONSTANTS
  Clients = {c1, c2}
  Portals = {c1, c2}
  Obliging = {c1}
  Listeners = {l1}
  Wake = wake
  MuxCap = 1
  CallCap = 1
  MaxMuxCalls = 1
  MuxCalls <- SomeMuxCalls
INVARIANTS TypeOK EndIsLast
PROPERTIES ListenerIsAhead BoundShutdownEnds ListenersAnswered
CHECK_DEADLOCK FALSE
