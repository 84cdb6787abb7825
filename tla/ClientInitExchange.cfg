SPECIFICATION Spec
CONSTANTS
  Calls = {c1}
  Requests = {}
  Setters = {}
  Settable = {}
  Kinds = {}
  InertFrames = {}
  None = None
  InletCap = 2
  OutletMax = 1
  MaxReplies = 1
PROPERTIES InitSeesResponse
CHECK_DEADLOCK FALSE
