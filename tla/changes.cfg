CONSTANTS
  Doc <- Docs
  Setups <- SomeSetups
  MaxSeq = 2
  MaxFail = 1
  NoticeCap = 1
  OutCap = 1
  WritingKinds = {"redb", "quiet"}
  Races = FALSE
  None = None
SPECIFICATION Spec
INVARIANTS NoneSkipped LastLook
PROPERTIES InFeedOrder Delivered TaskStops
CHECK_DEADLOCK FALSE
