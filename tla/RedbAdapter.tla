---------------------------- MODULE RedbAdapter ----------------------------
(***************************************************************************)
(* A redb file under the write operations of its handles, each one write   *)
(* transaction: it commits whole or, when it fails or the process dies     *)
(* before the commit, changes nothing (rouchdb-adapter-redb/src/lib.rs).   *)
(***************************************************************************)
EXTENDS UpgradePlan

CONSTANTS
  Limits,    \* the revision limits of the handles that write
  MaxBatch,  \* bound: the documents of a bulk_docs request
  MaxSeq,    \* bound: the last sequence a transaction starts from
  MaxUuid    \* bound: how many times the database is destroyed

ASSUME RedbAssumption ==
  Limits \subseteq Nat /\ MaxBatch \in Nat /\ MaxSeq \in Nat /\ MaxUuid \in Nat

VARIABLE tables

\* A new file.
Init == tables = EmptyTables(0)

\* Bound: a database that was destroyed is written to twice less.
CanWrite == tables.meta.updateSeq + 2 * tables.meta.uuid < MaxSeq

----------------------------------------------------------------------------
(* Requests *)

Edits ==
  UNION {{[kind |-> "edit", id |-> d, rev |-> r, named |-> n, inline |-> U] :
            d \in Doc, n \in BOOLEAN, U \in SUBSET Att[r]} : r \in Rev}

Replicated ==
  UNION {{[kind |-> "replicated", id |-> d, start |-> q, rev |-> r, inline |-> U] :
            d \in Doc, q \in Anc[r], U \in SUBSET Att[r]} : r \in Rev}

DocWrites == Edits \union Replicated

LocalWrites == [kind : {"local", "unlocal"}, id : Local]

\* The requests of one document, and of several that the tables let through
\* one after the other.
Batches(limit) ==
  LET effective(T) == {w \in DocWrites \union LocalWrites : WriteItem(T, w, limit) # T}
      grow(B) == B \union UNION {{Append(b, w) : w \in effective(BulkDocs(tables, b, limit))} :
                                   b \in {x \in B : Len(x) < MaxBatch}}
      grown[n \in 0 .. MaxBatch] == IF n = 0 THEN {<<>>} ELSE grow(grown[n - 1])
  IN  grown[MaxBatch] \ {<<>>}

\* Purge requests name leaves of one document or of two, and may hold a
\* malformed revision.
PurgeRequests ==
  LET items(d) == [id : {d}, revs : SUBSET LeafRevs(TreeOf(tables, d).nodes) \ {{}},
                   malformed : BOOLEAN]
  IN  {<<i>> : i \in UNION {items(d) : d \in Doc}}
        \union UNION {{<<i, j>> : i \in items(e[1]), j \in items(e[2])} :
                        e \in {x \in Doc \X Doc : x[1] # x[2]}}

----------------------------------------------------------------------------
Bulk(batch, limit) == CanWrite /\ tables' = BulkDocs(tables, batch, limit)

\* put_attachment and remove_attachment
Attach(d, r, U, limit) ==
  CanWrite /\ tables' = EditAttachment(tables, d, r, U, limit)

CompactFile == tables' = CompactTables(tables)

Purge(request) == CanWrite /\ tables' = PurgeTables(tables, request)

DestroyFile ==
  /\ tables.meta.uuid < MaxUuid
  /\ tables' = DestroyTables(tables, tables.meta.uuid + 1)

Writes ==
  \/ \E limit \in Limits : \E batch \in Batches(limit) : Bulk(batch, limit)
  \/ \E d \in Doc, r \in Rev, limit \in Limits : \E U \in SUBSET Att[r] : Attach(d, r, U, limit)
  \/ CompactFile
  \/ \E request \in PurgeRequests : Purge(request)
  \/ DestroyFile

Spec == Init /\ [][Writes]_tables

----------------------------------------------------------------------------
(* What every committed state satisfies *)

TablesTypeOK ==
  /\ \A d \in Doc : TreeOf(tables, d).nodes \subseteq Rev \X Rev
  /\ tables.revs \subseteq {RevDataKey(d, r) : d \in Doc, r \in Rev}
  /\ tables.atts \subseteq Digest /\ tables.locals \subseteq Local
  /\ tables.meta \in [updateSeq : Nat, uuid : 0 .. MaxUuid, purgeSeq : Nat,
                      docCount : Nat, delCount : Nat]

\* The incremental counts are those of the documents.
CountsRight == RInfo(tables) = Info(AsDatabase(tables))

\* One entry of the feed for each document, at its sequence.
FeedRight ==
  tables.changes =
    {[seq |-> tables.docs[d].seq, id |-> d, deleted |-> IsDeleted(TreeOf(tables, d).nodes)] :
       d \in {x \in Doc : TreeOf(tables, x).nodes # {}}}

\* The bodies are those the trees call available, the leaves' among them; no
\* other document's operation takes them, not even one whose id the key of the
\* body begins with.
BodiesRight ==
  \A d \in Doc :
    LET tree == TreeOf(tables, d)
    IN  {r \in Rev : HasBody(tables, d, r)} = RevsOf(tree.avail)
          /\ LeafRevs(tree.nodes) \subseteq RevsOf(tree.avail)

\* What the tables say of each other, after any sequence of transactions on a
\* new file or on one that was upgraded: counts, feed, bodies and bytes.
TablesConsistent ==
  CountsRight /\ FeedRight /\ BodiesRight /\ Digests(tables) \subseteq tables.atts

----------------------------------------------------------------------------
(* The in-memory adapter does the same *)

MemoryItem(db, w, limit) ==
  CASE w.kind = "edit" ->
         IF EditAccepted(db, w.id, w.rev, w.named) /\ EditAttachmentsOk(db, w.id, w.rev, w.inline)
           THEN NewEdit(db, w.id, w.rev, w.inline, limit) ELSE db
    [] w.kind = "replicated" -> ReplicatedEdit(db, w.id, w.start, w.rev, w.inline, limit)
    [] OTHER -> db

MemoryPurge(db, request) ==
  PurgeEnd(db, FoldLeft(LAMBDA acc, item : PurgeDoc(acc, item.id, item.revs), db, request))

\* The adapters are interchangeable: from the same database every write, alone
\* or as a part of a batch, has the same outcome in both, rejected or not, and
\* so have compaction and purging.  A purge differs where the code does: redb
\* rejects a malformed request as a whole, and leaves unreferenced bytes to the
\* next compaction.
WritesAgree ==
  LET db == AsDatabase(tables)
  IN  /\ \A limit \in Limits, w \in DocWrites :
           AsDatabase(WriteItem(tables, w, limit)) = MemoryItem(db, w, limit)
      /\ \A limit \in Limits, d \in Doc, r \in Rev : \A U \in SUBSET Att[r] :
           AsDatabase(EditAttachment(tables, d, r, U, limit)) = AttachmentEdit(db, d, r, U, limit)
      /\ AsDatabase(CompactTables(tables)) = Compact(db)
      /\ \A request \in PurgeRequests :
           (\A i \in 1 .. Len(request) : ~request[i].malformed) =>
             CollectBlobs(AsDatabase(PurgeTables(tables, request))) = MemoryPurge(db, request)

\* The bounds, keys and pages a listing may have.
ListOptions ==
  LET options == [keys : {NoKey} \union {<<d, e>> : d, e \in Doc}, key : {NoKey} \union Doc,
                  start : Doc \union {NoKey}, end : Doc \union {NoKey}, descending : BOOLEAN,
                  inclusive : BOOLEAN, skip : 0 .. 1, limit : {0, 1, NoLimit}]
      whole(o) == o.skip = 0 /\ o.limit = NoLimit
      all(o)   == o.start = NoKey /\ o.end = NoKey /\ o.inclusive
  IN  {o \in options :
         \/ /\ o.keys = NoKey /\ o.key = NoKey /\ (o.inclusive \/ o.end # NoKey)
            /\ whole(o) \/ (all(o) /\ o.skip = 1)
         \/ o.keys # NoKey /\ o.key = NoKey /\ all(o) /\ (whole(o) \/ (o.skip = 1 /\ o.limit = 1))
         \/ o.key # NoKey /\ o.keys = NoKey /\ all(o) /\ whole(o) /\ ~o.descending}

FeedOptions ==
  {o \in [since : 0 .. 1, limit : {0, 1, NoLimit}, descending : BOOLEAN,
          ids : {NoKey, {CHOOSE d \in Doc : TRUE}}, style : {"all_docs", "main_only"}] :
     o.style = "main_only" => o.limit = NoLimit}

\* The read operations of both adapters answer alike: documents by revision,
\* with `latest', their conflicts, histories and attachments, the listings in
\* all their ranges, and the feed with its last_seq.
ReadsAgree ==
  LET db == AsDatabase(tables)
  IN  /\ \A d \in Doc, rev \in Rev \union {NoRev} :
           /\ \A latest \in BOOLEAN : RGet(tables, d, rev, latest) = Get(db, d, rev, latest)
           /\ RBulkGet(tables, d, rev) = BulkGet(db, d, rev)
           /\ \A x \in Digest : RGetAttachment(tables, d, rev, x) = GetAttachment(db, d, rev, x)
      /\ \A d \in Doc : RRevsDiff(tables, d, Rev) = RevsDiff(db, d, Rev)
      /\ \A o \in ListOptions : RAllDocs(tables, o) = AllDocs(db, o)
      /\ \A o \in FeedOptions : RChanges(tables, o) = Changes(db, o)
=============================================================================
