CONSTANTS
  Rev <- SmallRev
  Gen <- SmallGen
  Anc <- SmallAnc
  Deleted <- SmallDeleted
  HashRank <- SmallRank
  Att <- SmallAtt
  Digest = {"x"}
  Doc = {"a", "b"}
  Limits = {0, 2}
  MaxSeq = 4
  MaxPurge = 2
  MaxUuid = 1
SPECIFICATION Spec
INVARIANTS FeedMatchesDocs AttachmentsPresent
PROPERTIES BodiesFollowTree ChangesAreNews EditMakesNoConflict
