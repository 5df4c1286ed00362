CONSTANTS
  Rev <- ForkRev
  Gen <- ForkGen
  Anc <- ForkAnc
  Deleted <- ForkDeleted
  HashRank <- ForkRank
  Att <- ForkAtt
  Source <- SyncSource
  Target <- SyncTarget
  Digest = {}
  Node = {"s", "t"}
  x1 = x1
  x2 = x2
  x3 = x3
  Replicator = {x1, x2, x3}
  Back = x2
  BatchSize = 1
  MaxHistory = 2
  Situations <- SyncingOrResetting
  MaxSeq = 2
  MaxSession = 2
  Doc = {"a", "b"}
SPECIFICATION Spec
INVARIANT CursorSound
CHECK_DEADLOCK FALSE
SYMMETRY Alike
