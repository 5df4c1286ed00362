CONSTANTS
  Rev <- LineRev
  Gen <- LineGen
  Anc <- LineAnc
  Deleted <- LineDeleted
  HashRank <- LineRank
  Att <- LineAtt
  Source <- SourceS
  Target <- TargetT
  Digest = {}
  Node = {"s", "t"}
  Replicator = {1}
  BatchSize = 1
  MaxHistory = 2
  Situations <- Destroying
  MaxSeq = 2
  MaxSession = 9
  Doc = {"a", "b"}
  Announcing = {{"s", "t"}, {"s"}, {"t"}}
  Capacity = 1
SPECIFICATION LiveSpec
INVARIANTS LiveCursorSound IdleMeansCopied
PROPERTIES Converges
