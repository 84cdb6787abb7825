SPECIFICATION Spec
CONSTANTS
  Portals = {p, q}
  Strangers = {parent}
  Messages = {m1}
  Asked <- SomeAsked
  None = None
PROPERTIES ResponsePassedOn
CHECK_DEADLOCK FALSE
