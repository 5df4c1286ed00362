------------------------------ MODULE Database ------------------------------
(***************************************************************************)
(* The state of one database of the in-memory adapter and the operations   *)
(* on it, each of them one critical section under the adapter's write lock *)
(* (rouchdb-adapter-memory/src/lib.rs, planned by rouchdb-core/write.rs).  *)
(* The operators map a database to the next one, so that a module can hold *)
(* several databases.                                                      *)
(*                                                                         *)
(* A database is a record                                                  *)
(*   docs       for each id the stored document: its revision tree, the    *)
(*              revisions whose body it stores, the sequence of its last   *)
(*              change; the tree of a document that does not exist is      *)
(*              empty                                                      *)
(*   updateSeq  the sequence counter                                       *)
(*   changes    the changes log, one record per entry                      *)
(*   blobs      the attachment store: the digests it has bytes for         *)
(*   purgeSeq   the number of purge requests applied                       *)
(*   uuid       the identity: destroying the database renews it            *)
(***************************************************************************)
EXTENDS RevTree

CONSTANTS
  Doc,      \* document ids
  Digest,   \* digests of attachments
  Att       \* Att[r]: the digests of the attachments of revision r

ASSUME AttAssumption == Att \in [Rev -> SUBSET Digest]

NoDoc == [tree |-> EmptyTree, bodies |-> {}, seq |-> 0]

EmptyDb(uuid) ==
  [docs |-> [d \in Doc |-> NoDoc], updateSeq |-> 0, changes |-> {},
   blobs |-> {}, purgeSeq |-> 0, uuid |-> uuid]

Exists(db, d) == db.docs[d].tree.nodes # {}

Nodes(db, d) == db.docs[d].tree.nodes

\* A document's attachments are those of the revisions whose body it stores.
Referenced(db) == UNION {Att[r] : r \in UNION {db.docs[d].bodies : d \in Doc}}

----------------------------------------------------------------------------
(* Writes *)

\* Slip: the document's previous entry stays in the changes log.
ApplyWriteTwice(db, d, q, r, U, limit) ==
  LET old  == db.docs[d]
      tree == MergeAndStem(old.tree, q, r, limit)
      seq  == db.updateSeq + 1
  IN  [db EXCEPT
        !.docs[d] = [tree |-> tree,
                     bodies |-> (old.bodies \ Stemmed(old.tree, q, r, limit)) \union {r},
                     seq |-> seq],
        !.updateSeq = seq,
        !.changes = @ \union {[seq |-> seq, id |-> d, deleted |-> IsDeleted(tree.nodes)]},
        !.blobs = @ \union U]

\* apply_write: store the planned revision r, whose path starts at q, with the
\* attachments U that came with it; drop the bodies the limit stemmed away and
\* record the document under a new sequence.
ApplyWrite(db, d, q, r, U, limit) ==
  LET old  == db.docs[d]
      tree == MergeAndStem(old.tree, q, r, limit)
      seq  == db.updateSeq + 1
  IN  [db EXCEPT
        !.docs[d] = [tree |-> tree,
                     bodies |-> (old.bodies \ Stemmed(old.tree, q, r, limit)) \union {r},
                     seq |-> seq],
        !.updateSeq = seq,
        !.changes = {c \in @ : c.seq # old.seq}
                      \union {[seq |-> seq, id |-> d, deleted |-> IsDeleted(tree.nodes)]},
        !.blobs = @ \union U]

\* The parent of a revision of a later generation.
Parent(r) == CHOOSE p \in Anc[r] : Gen[p] = Gen[r] - 1

\* plan_new_edit: whether the edit that makes r, sent with its parent as _rev
\* (named) or without one, is accepted.  A first revision needs the document
\* not to exist, and a deleted one may be edited without naming its tombstone.
EditAccepted(db, d, r, named) ==
  IF Gen[r] = 1
    THEN ~named /\ ~Exists(db, d)
    ELSE /\ Exists(db, d)
         /\ \/ named
            \/ /\ r \notin Deleted
               /\ IsDeleted(Nodes(db, d))
               /\ Parent(r) = Winner(Nodes(db, d))
         /\ ExtendsLeaf(Nodes(db, d), Parent(r), r)

\* The attachments an edit may keep by naming them: those of its parent.
Kept(db, d, r) ==
  IF Gen[r] > 1 /\ Parent(r) \in db.docs[d].bodies THEN Att[Parent(r)] ELSE {}

\* The attachments r does not keep come inline, with their bytes.
EditAttachmentsOk(db, d, r, U) == U \subseteq Att[r] /\ Att[r] \ U \subseteq Kept(db, d, r)

\* The path of an edit: its parent and itself.
EditStart(r) == IF Gen[r] = 1 THEN r ELSE Parent(r)

NewEdit(db, d, r, U, limit) == ApplyWrite(db, d, EditStart(r), r, U, limit)

\* put_attachment (the new bytes are U) and remove_attachment (U is empty): a
\* live edit of a revision whose body is stored.
AttachmentEdit(db, d, r, U, limit) ==
  IF /\ Exists(db, d) /\ Gen[r] > 1 /\ r \notin Deleted
     /\ Parent(r) \in db.docs[d].bodies
     /\ EditAccepted(db, d, r, TRUE) /\ EditAttachmentsOk(db, d, r, U)
    THEN NewEdit(db, d, r, U, limit)
    ELSE db

\* plan_replicated_edit: a revision that is stored with its body is not stored
\* again.
AlreadyStored(db, d, r) == r \in db.docs[d].bodies /\ r \in RevsOf(Nodes(db, d))

\* process_doc_replication: the stubs must name bytes the store has.
StubsPresent(db, r, U) == Att[r] \ U \subseteq db.blobs

ReplicatedEdit(db, d, q, r, U, limit) ==
  IF AlreadyStored(db, d, r) \/ ~StubsPresent(db, r, U)
    THEN db
    ELSE ApplyWrite(db, d, q, r, U, limit)

----------------------------------------------------------------------------
(* Maintenance *)

\* Slip: only the winners' attachments count as referenced.
CollectAllButWinners(db) ==
  [db EXCEPT !.blobs = @ \intersect UNION {Att[Winner(Nodes(db, d))] : d \in {x \in Doc : Exists(db, x)}}]

\* collect_unreferenced_attachments
CollectBlobs(db) == [db EXCEPT !.blobs = @ \intersect Referenced(db)]

\* Slip: only the winner keeps its body.
CompactToWinner(db) ==
  CollectBlobs([db EXCEPT !.docs =
    [d \in Doc |-> IF Exists(db, d) THEN [@[d] EXCEPT !.bodies = @ \intersect {Winner(Nodes(db, d))}]
                                    ELSE @[d]]])

MarkNonLeavesMissing(tree) == [tree EXCEPT !.avail = @ \intersect LeafNodes(tree.nodes)]

\* compact: only leaves keep their body, and the tree records it.
Compact(db) ==
  LET compacted(d) == [db.docs[d] EXCEPT !.bodies = @ \intersect LeafRevs(Nodes(db, d)),
                                         !.tree = MarkNonLeavesMissing(@)]
  IN  CollectBlobs([db EXCEPT !.docs = [d \in Doc |-> compacted(d)]])

\* Slip: what is left of a purged document keeps its sequence.
PurgeDocQuietly(db, d, R) ==
  LET old  == db.docs[d]
      tree == RemoveLeaves(old.tree, R)
  IN  IF LeafRevs(old.tree.nodes) \intersect R = {}
        THEN db
        ELSE [db EXCEPT
               !.docs[d] = IF tree.nodes = {} THEN NoDoc ELSE
                             [tree |-> tree, bodies |-> old.bodies \intersect RevsOf(tree.nodes),
                              seq |-> old.seq],
               !.changes = {c \in @ : c.seq # old.seq \/ tree.nodes # {}}]

\* One document of a purge request: its leaves in R go.  What is left of it is
\* recorded again, as the winner may have changed.
PurgeDoc(db, d, R) ==
  LET old  == db.docs[d]
      tree == RemoveLeaves(old.tree, R)
      seq  == db.updateSeq + 1
      rest == {c \in db.changes : c.seq # old.seq}
  IN  IF LeafRevs(old.tree.nodes) \intersect R = {}
        THEN db
        ELSE IF tree.nodes = {}
          THEN [db EXCEPT !.docs[d] = NoDoc, !.changes = rest]
          ELSE [db EXCEPT
                 !.docs[d] = [tree |-> tree,
                              bodies |-> old.bodies \intersect RevsOf(tree.nodes),
                              seq |-> seq],
                 !.updateSeq = seq,
                 !.changes = rest \union {[seq |-> seq, id |-> d,
                                           deleted |-> IsDeleted(tree.nodes)]}]

\* The end of a purge request: it counts as an update even when it has
\* recorded no document again.
PurgeEnd(before, db) ==
  CollectBlobs([db EXCEPT
    !.updateSeq = IF @ = before.updateSeq THEN @ + 1 ELSE @,
    !.purgeSeq = @ + 1])

\* destroy: everything goes, and the database gets a new identity.
Destroy(db, uuid) == EmptyDb(uuid)

----------------------------------------------------------------------------
(* Reads *)

\* changes: the entries after `since', in order, at most `limit' of them.
ChangesAfter(db, since, limit) ==
  {c \in db.changes : /\ c.seq > since
                      /\ Cardinality({b \in db.changes : since < b.seq /\ b.seq < c.seq}) < limit}

\* Slip: the winner only, as in style=main_only.
ListedWinner(db, d) == {r \in LeafRevs(Nodes(db, d)) : r = Winner(Nodes(db, d))}

\* What a style=all_docs entry lists: every leaf, the deleted ones too.
ListedRevs(db, d) == LeafRevs(Nodes(db, d))

\* get and bulk_get by revision answer whatever body is stored under it.
Readable(db, d, r) == r \in db.docs[d].bodies
=============================================================================
