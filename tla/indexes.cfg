CONSTANTS
  Rev <- EditRev
  Gen <- EditGen
  Anc <- EditAnc
  Deleted <- EditDeleted
  HashRank <- EditRank
  Att <- EditAtt
  Digest = {}
  Doc = {a, b}
  MaxSeq = 3
  MaxUuid = 1
  Finder = {f1, f2}
  Creator = {c}
  Overlap = FALSE
  Text <- QueryText
  Dotted <- QueryDotted
  IndexOf <- QueryIndexOf
  Regex <- QueryRegex
  DesignDocs = {"_design/1"}
  MapFn <- Emits
  Ids <- ListIds
  IdRank <- ListRank
  NoRev = NoRev
  NoKey = NoKey
  NoLimit = 99
  Prefix = "p:"
  After = "p;"
  Inside <- QueryInside
  Stock <- QueryStock
  Listed <- QueryListed
  FindCases <- QueryFinds
  PartitionFinds <- QueryPartitions
  ViewCases <- QueryViews
  ListCases <- QueryLists
  Values <- QueryValues
  Malformed = Malformed
  LocalIds = {"l"}
  BareLocal = "_local/"
  ReservedIds = {"_x"}
  DocIds = {"d"}
  PluginCount = 2
  Hook <- QueryHook
  Sent <- QuerySent
  Batched <- QueryBatched
  Incoming <- QueryIncoming
  Names = {"f"}
  Bytes = {"text", "exe"}
  MaxBodies = 2
  MaxLocal = 2
SPECIFICATION QuerySpec
SYMMETRY Alike
INVARIANTS ViewFresh FindComplete FindAnswered ViewAnswered PartitionScoped KeysInOrder OnlyAcceptedStored WrittenBack
PROPERTY RepliesAccount
CHECK_DEADLOCK FALSE
