CONSTANTS
  Rev <- DeepRev
  Gen <- DeepGen
  Anc <- DeepAnc
  Deleted <- DeepDeleted
  HashRank <- DeepRank
  RevLimit = 3
SPECIFICATION Spec
PROPERTIES MergeKeepsBranches WindowKept
