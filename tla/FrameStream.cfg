SPECIFICATION FairSpec
CONSTANTS
  Frames = {"empty", "one", "long", "other"}
  Size <- Sizes
  SizeMod = 4
  MaxSent = 3
INVARIANTS StreamInv
PROPERTIES ChannelSpec AllRead
CHECK_DEADLOCK FALSE
