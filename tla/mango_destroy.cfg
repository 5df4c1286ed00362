CONSTANTS
  Rev <- EditRev
  Gen <- EditGen
  Anc <- EditAnc
  Deleted <- EditDeleted
  HashRank <- EditRank
  Att <- EditAtt
  Digest = {}
  Doc = {a, b}
  MaxSeq = 3
  MaxUuid = 1
  Finder = {f1, f2}
  Creator = {c}
  Overlap = TRUE
SPECIFICATION Spec
SYMMETRY Alike
INVARIANTS FindComplete
CHECK_DEADLOCK FALSE
