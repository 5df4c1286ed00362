CONSTANTS
  Rev <- SmallRev
  Gen <- SmallGen
  Anc <- SmallAnc
  Deleted <- SmallDeleted
  HashRank <- SmallRank
  Att <- AttX
  Digest = {"x"}
  Doc <- Docs
  Local = {"l"}
  NUL <- NulChar
  Chars <- IdChars
  IdRank <- Ranks
  RawRank <- Raw
  NoRev = NoRev
  NoKey = NoKey
  NoLimit = 9
  Limits = {2}
  MaxBatch = 1
  MaxSeq = 3
  MaxUuid = 1
  File = {"f", "g"}
  Proc = {p1, p2}
  OldFiles <- AllOld
  Faults = 2
  NoCopy = NoCopy
SPECIFICATION MCSpec
INVARIANTS BackupKept UpgradeKeeps UsedLikeMemory
CHECK_DEADLOCK FALSE
