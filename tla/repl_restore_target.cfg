CONSTANTS
  Rev <- LineRev
  Gen <- LineGen
  Anc <- LineAnc
  Deleted <- LineDeleted
  HashRank <- LineRank
  Att <- LineAtt
  Source <- SourceS
  Target <- TargetT
  Digest = {}
  Node = {"s", "t"}
  Replicator = {1}
  Back = 2
  BatchSize = 1
  MaxHistory = 2
  Situations <- RestoringTarget
  MaxSeq = 2
  MaxSession = 3
  Doc = {"a", "b"}
SPECIFICATION Spec
INVARIANTS CompleteRunCopiesAll
CHECK_DEADLOCK FALSE
