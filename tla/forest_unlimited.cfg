CONSTANTS
  Rev <- WideRev
  Gen <- WideGen
  Anc <- WideAnc
  Deleted <- WideDeleted
  HashRank <- WideRank
  RevLimit = 0
SPECIFICATION Spec
INVARIANTS NoHoles OneRoot LatestIsBestDescendant
PROPERTIES ImplementsLinks
