----------------------------- MODULE RedbTables -----------------------------
(***************************************************************************)
(* The tables of a redb file and the write transactions on them            *)
(* (rouchdb-adapter-redb/src/lib.rs).  A write transaction is exclusive    *)
(* and commits as a whole, so each is an operator from the tables before   *)
(* it to the tables after it.                                              *)
(*                                                                         *)
(* The tables are a record                                                 *)
(*   docs     docs: for each id its revision tree and its sequence; the    *)
(*            tree of a document without a record is empty                 *)
(*   revs     rev_data: the keys doc_id\0rev that have a body              *)
(*   changes  changes: one record per sequence                             *)
(*   atts     attachments: the digests that have bytes                     *)
(*   locals   local_docs: the local documents                              *)
(*   meta     the metadata record, with the document counts the code keeps *)
(*            up to date incrementally                                     *)
(***************************************************************************)
EXTENDS Reads

CONSTANTS
  Local,    \* ids of local documents
  NUL,      \* the character NUL
  Chars     \* Chars[d]: the id of document d as a sequence of characters

ASSUME CharsAssumption ==
  /\ \A d \in Doc : \A i \in 1 .. Len(Chars[d]) : Chars[d][i] \notin Rev
  /\ NUL \notin Rev
  /\ \A d, e \in Doc : Chars[d] = Chars[e] => d = e

NewMeta(uuid) ==
  [updateSeq |-> 0, uuid |-> uuid, purgeSeq |-> 0, docCount |-> 0, delCount |-> 0]

NoRecord == [tree |-> EmptyTree, seq |-> 0]

EmptyTables(uuid) ==
  [docs |-> [d \in Doc |-> NoRecord], revs |-> {}, changes |-> {}, atts |-> {},
   locals |-> {}, meta |-> NewMeta(uuid)]

TreeOf(T, d) == T.docs[d].tree

----------------------------------------------------------------------------
(* Bodies *)

\* A revision has no NUL, so the last one of a key ends the id.
RevDataKey(d, r) == Chars[d] \o <<NUL, r>>

HasBody(T, d, r) == RevDataKey(d, r) \in T.revs

\* Slip: every key that begins with the id belongs to it.
RevDataKeysPrefix(T, d) == {k \in T.revs : IsPrefix(Append(Chars[d], NUL), k)}

\* The keys of d's bodies: those in its key range, without those of longer ids.
RevDataKeys(T, d) ==
  {k \in T.revs : /\ IsPrefix(Append(Chars[d], NUL), k)
                  /\ \A i \in Len(Chars[d]) + 2 .. Len(k) : k[i] # NUL}

\* The keys of d's bodies of revisions outside `keep'.
StaleKeys(T, d, keep) == {k \in RevDataKeys(T, d) : k[Len(k)] \notin keep}

DropRevDataExcept(T, d, keep) == [T EXCEPT !.revs = @ \ StaleKeys(T, d, keep)]

----------------------------------------------------------------------------
(* Counts *)

\* What the counts make of a tree: nothing, a deleted document or a live one.
Standing(tree) ==
  CASE tree.nodes = {}         -> "none"
    [] IsDeleted(tree.nodes)   -> "deleted"
    [] OTHER                   -> "live"

SatSub(n, m) == IF n < m THEN 0 ELSE n - m

One(b) == IF b THEN 1 ELSE 0

AdjustCounts(meta, before, after) ==
  [meta EXCEPT
     !.docCount = SatSub(@, One(before = "live")) + One(after = "live"),
     !.delCount = SatSub(@, One(before = "deleted")) + One(after = "deleted")]

----------------------------------------------------------------------------
(* Document writes *)

\* The record of d is replaced, and its entry in the changes feed moves to the
\* next sequence.
Record(T, d, tree) ==
  LET seq == T.meta.updateSeq + 1
  IN  [T EXCEPT
        !.docs[d] = [tree |-> tree, seq |-> seq],
        !.changes = {c \in @ : c.seq # T.docs[d].seq}
                      \union {[seq |-> seq, id |-> d, deleted |-> IsDeleted(tree.nodes)]},
        !.meta = [AdjustCounts(@, Standing(TreeOf(T, d)), Standing(tree))
                    EXCEPT !.updateSeq = seq]]

StoreWrite(T, d, q, r, U, limit) ==
  LET tree    == MergeAndStem(TreeOf(T, d), q, r, limit)
      stemmed == Stemmed(TreeOf(T, d), q, r, limit)
  IN  [Record(T, d, tree) EXCEPT
        !.revs = (@ \ {RevDataKey(d, s) : s \in stemmed}) \union {RevDataKey(d, r)},
        !.atts = @ \union U]

\* The adapter reads the attachments of the edit's parent for the plan.
ParentAtts(T, d, r) ==
  IF Gen[r] > 1 /\ HasBody(T, d, Parent(r)) THEN Att[Parent(r)] ELSE {}

\* plan_new_edit on what the tables hold: a first revision, an edit that names
\* a leaf, or one of a deleted document that names none.
PlansEdit(T, d, r, named, U) ==
  LET N == TreeOf(T, d).nodes
  IN  /\ IF Gen[r] = 1
           THEN ~named /\ N = {}
           ELSE /\ N # {}
                /\ \/ named
                   \/ r \notin Deleted /\ IsDeleted(N) /\ Parent(r) = Winner(N)
                /\ ExtendsLeaf(N, Parent(r), r)
      /\ U \subseteq Att[r]
      /\ Att[r] \ U \subseteq ParentAtts(T, d, r)

\* A rejected edit leaves an error in its place of the answer.
WriteNewEdit(T, d, r, named, U, limit) ==
  IF PlansEdit(T, d, r, named, U)
    THEN StoreWrite(T, d, EditStart(r), r, U, limit)
    ELSE T

WriteReplicated(T, d, q, r, U, limit) ==
  IF \/ HasBody(T, d, r) /\ r \in RevsOf(TreeOf(T, d).nodes)
     \/ ~(Att[r] \ U \subseteq T.atts)
    THEN T
    ELSE StoreWrite(T, d, q, r, U, limit)

PutLocal(T, l) == [T EXCEPT !.locals = @ \union {l}]

RemoveLocal(T, l) == [T EXCEPT !.locals = @ \ {l}]

\* The attachment APIs build a live r on a revision that must have a body here.
EditAttachment(T, d, r, U, limit) ==
  IF r \notin Deleted /\ TreeOf(T, d).nodes # {} /\ Gen[r] > 1 /\ HasBody(T, d, Parent(r))
    THEN WriteNewEdit(T, d, r, TRUE, U, limit)
    ELSE T

\* One document of a bulk_docs request.
WriteItem(T, w, limit) ==
  CASE w.kind = "edit"       -> WriteNewEdit(T, w.id, w.rev, w.named, w.inline, limit)
    [] w.kind = "replicated" -> WriteReplicated(T, w.id, w.start, w.rev, w.inline, limit)
    [] w.kind = "local"      -> PutLocal(T, w.id)
    [] w.kind = "unlocal"    -> RemoveLocal(T, w.id)

BulkDocs(T, batch, limit) == FoldLeft(LAMBDA U, w : WriteItem(U, w, limit), T, batch)

----------------------------------------------------------------------------
(* Maintenance *)

\* The digests some stored revision references.
Digests(T) == UNION {Att[k[Len(k)]] : k \in T.revs}

\* mark_non_leaves_missing, in the record of d.
WithoutInner(T, d) == [T.docs[d] EXCEPT !.tree = MarkNonLeavesMissing(@)]

\* compact: every document keeps the bodies of its leaves only, its tree says
\* so, and bytes nothing references any more go.
CompactTables(T) ==
  LET stored == {d \in Doc : TreeOf(T, d).nodes # {}}
      kept   == [T EXCEPT !.revs =
                  @ \ UNION {StaleKeys(T, d, LeafRevs(TreeOf(T, d).nodes)) : d \in stored}]
  IN  [kept EXCEPT
        !.docs = [d \in Doc |-> WithoutInner(T, d)],
        !.atts = @ \intersect Digests(kept)]

\* One document of a purge request: the leaves it names go, with the ancestors
\* and the bodies no other leaf needs.
PurgeRecord(T, item) ==
  LET d    == item.id
      tree == RemoveLeaves(TreeOf(T, d), item.revs)
      cut  == DropRevDataExcept(T, d, RevsOf(tree.nodes))
  IN  IF LeafRevs(TreeOf(T, d).nodes) \intersect item.revs = {}
        THEN T
        ELSE IF tree.nodes = {}
          THEN [cut EXCEPT !.docs[d] = NoRecord,
                           !.changes = {c \in @ : c.seq # T.docs[d].seq},
                           !.meta = AdjustCounts(@, Standing(TreeOf(T, d)), "none")]
          ELSE Record(cut, d, tree)

\* A request with a malformed revision fails before it commits.  Bytes that
\* are no longer referenced stay until the next compaction.
PurgeTables(T, request) ==
  LET U == FoldLeft(PurgeRecord, T, request)
  IN  IF \E i \in 1 .. Len(request) : request[i].malformed
        THEN T
        ELSE [U EXCEPT
               !.meta.updateSeq = IF @ = T.meta.updateSeq THEN @ + 1 ELSE @,
               !.meta.purgeSeq = @ + 1]

DestroyTables(T, uuid) == EmptyTables(uuid)

----------------------------------------------------------------------------
\* The database the tables hold, in the form of the in-memory adapter.
AsDatabase(T) ==
  [docs |-> [d \in Doc |-> [tree |-> TreeOf(T, d),
                            bodies |-> {r \in Rev : HasBody(T, d, r)},
                            seq |-> T.docs[d].seq]],
   updateSeq |-> T.meta.updateSeq, changes |-> T.changes, blobs |-> T.atts,
   purgeSeq |-> T.meta.purgeSeq, uuid |-> T.meta.uuid]

----------------------------------------------------------------------------
(* What the reads answer, each from one snapshot of the tables, in the     *)
(* form that Reads gives the answers of the in-memory adapter.             *)

RTree(T, d) == TreeOf(T, d)

RStored(T, d) == TreeOf(T, d).nodes # {}

InTree(T, d, r) == r \in RevsOf(TreeOf(T, d).nodes)

RGet(T, d, rev, latest) ==
  LET r == Target(TreeOf(T, d).nodes, rev, latest)
  IN  IF /\ RStored(T, d)
         /\ InTree(T, d, r)
         /\ HasBody(T, d, r)
         /\ ~(r \in Deleted /\ rev = NoRev)
        THEN Holding(TreeOf(T, d), r, T.atts)
        ELSE NotFound

RBulkGet(T, d, rev) ==
  LET r == Target(TreeOf(T, d).nodes, rev, FALSE)
  IN  IF RStored(T, d) /\ InTree(T, d, r) /\ HasBody(T, d, r)
        THEN Holding(TreeOf(T, d), r, T.atts)
        ELSE NotFound

RGetAttachment(T, d, rev, x) ==
  LET r == Target(TreeOf(T, d).nodes, rev, FALSE)
  IN  RStored(T, d) /\ InTree(T, d, r) /\ HasBody(T, d, r) /\ x \in Att[r] /\ x \in T.atts

RRevsDiff(T, d, R) == MissingRevs(TreeOf(T, d).nodes, R)

\* The counts come from the metadata record, not from the documents.
RInfo(T) ==
  [docCount |-> T.meta.docCount, delCount |-> T.meta.delCount,
   updateSeq |-> T.meta.updateSeq]

----------------------------------------------------------------------------
(* all_docs *)

\* make_row: no row for a deleted document outside `keys'.
MakeRow(T, d, byKey) ==
  LET tree == TreeOf(T, d)
  IN  IF tree.nodes = {} \/ (IsDeleted(tree.nodes) /\ ~byKey)
        THEN <<>>
        ELSE <<RowOf(tree, d, HasBody(T, d, Winner(tree.nodes)))>>

KeysRows(T, o) ==
  LET ordered == IF o.descending THEN Reverse(o.keys) ELSE o.keys
      row(d)  == IF MakeRow(T, d, TRUE) = <<>> THEN NotFoundRow(d) ELSE MakeRow(T, d, TRUE)[1]
      rest    == SubSeq([i \in 1 .. Len(ordered) |-> row(ordered[i])], o.skip + 1, Len(ordered))
  IN  SubSeq(rest, 1, IF o.limit < Len(rest) THEN o.limit ELSE Len(rest))

KeyRow(T, o) == IF o.skip = 0 /\ o.limit > 0 THEN MakeRow(T, o.key, FALSE) ELSE <<>>

\* The key range that is read: descending swaps start and end, and the
\* exclusive bound is the end's.
ScanRange(T, o) ==
  LET low  == IF o.descending THEN o.end ELSE o.start
      high == IF o.descending THEN o.start ELSE o.end
  IN  {d \in Doc :
        /\ RStored(T, d)
        /\ low = NoKey \/ IdRank[low] < IdRank[d] \/ (d = low /\ (~o.descending \/ o.inclusive))
        /\ high = NoKey \/ IdRank[d] < IdRank[high] \/ (d = high /\ (o.descending \/ o.inclusive))}

\* The scan skips and counts rows as it reads, and stops when the page is full.
ScanRows(T, o) ==
  LET up   == InOrder(ScanRange(T, o))
      scan == IF o.descending THEN Reverse(up) ELSE up
      read(acc, d) ==
        LET row == MakeRow(T, d, FALSE)
        IN  CASE Len(acc.rows) >= o.limit \/ row = <<>> -> acc
              [] Len(acc.rows) < o.limit /\ row # <<>> /\ acc.skipped < o.skip ->
                   [acc EXCEPT !.skipped = @ + 1]
              [] OTHER -> [acc EXCEPT !.rows = @ \o row]
  IN  IF o.limit = 0 THEN <<>>
      ELSE FoldLeft(read, [skipped |-> 0, rows |-> <<>>], scan).rows

RAllDocs(T, o) ==
  [total |-> T.meta.docCount,
   rows |-> CASE o.keys # NoKey -> KeysRows(T, o)
              [] o.keys = NoKey /\ o.key # NoKey -> KeyRow(T, o)
              [] OTHER -> ScanRows(T, o),
   updateSeq |-> T.meta.updateSeq]

----------------------------------------------------------------------------
(* changes *)

\* The scan of the changes table, entry by entry until the limit is reached.
RScan(T, o) ==
  LET read(acc, c) ==
        IF Len(acc.events) >= o.limit THEN acc ELSE
          [max |-> IF acc.max < c.seq THEN c.seq ELSE acc.max,
           events |-> IF ~Wanted(c, o) THEN acc.events ELSE
             Append(acc.events,
                    EventOf(TreeOf(T, c.id), c, HasBody(T, c.id, Winner(TreeOf(T, c.id).nodes)),
                            o.style))]
  IN  FoldLeft(read, [max |-> 0, events |-> <<>>], Entries(T.changes, o))

RChanges(T, o) ==
  LET scan == RScan(T, o)
  IN  IF o.limit = 0
        THEN [events |-> <<>>, lastSeq |-> IF o.descending THEN T.meta.updateSeq ELSE o.since]
        ELSE [events |-> scan.events,
              lastSeq |-> CASE scan.events # <<>> -> Last(scan.events).seq
                            [] scan.events = <<>> /\ scan.max > 0 -> scan.max
                            [] OTHER -> o.since]
=============================================================================
