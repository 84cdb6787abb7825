SPECIFICATION FairSpec
CONSTANTS
  MaxFrames = 2
  MaxBreaks = 1
INVARIANTS HandshakeInv SameLanguage
PROPERTIES HandshakeEnds
CHECK_DEADLOCK FALSE
