CONSTANTS
  Rev <- HttpRev
  Gen <- HttpGen
  Anc <- HttpAnc
  Deleted <- HttpDeleted
  HashRank <- HttpRank
  Att <- HttpAtt
  Digest = {"x"}
  Doc <- Docs
  IdRank <- Ranks
  NoRev = NoRev
  NoKey = NoKey
  NoLimit = 9
  StoreLimit = 3
  Local = {"l"}
  NoLocal = NoLocal
  Design <- DesignDocs
  Matching <- Matched
  Batch = 1
  Reopens = 1
  MaxSeq = 5
  Task <- HttpTask
  Adapter = {a, b}
  NoAdapter = NoAdapter
  On <- HttpOn
  Retries = 1
  Cases <- HttpCases
  t1 = t1
  t2 = t2
  t3 = t3
  w1 = w1
  w2 = w2
  a = a
  b = b
SPECIFICATION Spec
INVARIANTS SetupSuffices FeedSkipsNone
PROPERTIES AnswersTrue FeedCatchesUp
CHECK_DEADLOCK FALSE
