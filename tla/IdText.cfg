SPECIFICATION Spec
CONSTANTS
  Made <- MadeValues
  Typed = {"0", "1", "a", "A", "-", ".", ":"}
  MaxNumber = 10
  MaxEdits = 1
INVARIANT TextInv
PROPERTIES SameOrRefused ReadSurvives
CHECK_DEADLOCK FALSE
