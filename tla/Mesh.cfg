SPECIFICATION Spec
CONSTANTS
  Portals = {p, q}
  Strangers = {parent}
  Messages = {m1, m2}
  Asked <- SomeAsked
  None = None
SYMMETRY Symmetry
INVARIANTS TypeOK DeliveredAsNamed OneResponse AnswerFits
PROPERTIES ContractSpec
CHECK_DEADLOCK FALSE
