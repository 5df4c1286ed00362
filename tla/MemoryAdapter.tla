--------------------------- MODULE MemoryAdapter ---------------------------
(***************************************************************************)
(* One in-memory database under every sequence of operations its handles   *)
(* can make: local edits, replicated writes, compactions, purges (also     *)
(* requests rejected half way) and destroys.  Handles of one database may  *)
(* be built with different revision limits (with_rev_limit), and a         *)
(* replicated revision may come with any part of its history, as the       *)
(* sender's limit may be lower.                                            *)
(***************************************************************************)
EXTENDS Database, Sequences

CONSTANTS
  Limits,      \* the revision limits of the handles that write
  MaxSeq,      \* bound: the last sequence number a run reaches
  MaxPurge,    \* bound: the documents one purge request names
  MaxUuid      \* bound: how many times the database is destroyed

ASSUME LimitsAssumption ==
  Limits \subseteq Nat /\ MaxSeq \in Nat /\ MaxPurge \in Nat /\ MaxUuid \in Nat

VARIABLE db

Init == db = EmptyDb(0)

CanWrite == db.updateSeq < MaxSeq

\* A new_edits=true write (bulk_docs, put_attachment, remove_attachment).
Edit(d, r, named, U, limit) ==
  /\ CanWrite
  /\ EditAccepted(db, d, r, named)
  /\ EditAttachmentsOk(db, d, r, U)
  /\ db' = NewEdit(db, d, r, U, limit)

\* A new_edits=false write of r with its history from q on.
Replicate(d, q, r, U, limit) ==
  /\ CanWrite
  /\ db' = ReplicatedEdit(db, d, q, r, U, limit)

CompactAll == db' = Compact(db)

\* The documents a purge request names, in the order they are processed.
PurgeDocs(request) ==
  LET after[i \in 0 .. Len(request)] ==
        IF i = 0 THEN db ELSE PurgeDoc(after[i - 1], request[i].id, request[i].revs)
  IN  after[Len(request)]

Purge(request) ==
  /\ CanWrite
  /\ db' = PurgeEnd(db, PurgeDocs(request))

\* A malformed revision in a later document ends the request with an error,
\* what was processed before it stays done.
PurgeRejected(request) ==
  /\ CanWrite
  /\ db' = PurgeDocs(request)

DestroyDb ==
  /\ db.uuid < MaxUuid
  /\ db' = Destroy(db, db.uuid + 1)

\* A purge request names leaves of some documents, each document once.
PurgeItems == {[id |-> d, revs |-> R] : d \in Doc, R \in SUBSET Rev}
PurgeRequests ==
  LET items == {i \in PurgeItems : i.revs # {} /\ i.revs \subseteq LeafRevs(Nodes(db, i.id))}
  IN  {request \in UNION {[1 .. n -> items] : n \in 1 .. MaxPurge} :
         \A i, j \in DOMAIN request : request[i].id = request[j].id => i = j}

Next ==
  \/ \E d \in Doc, r \in Rev, named \in BOOLEAN, limit \in Limits :
       \E U \in SUBSET Att[r] : Edit(d, r, named, U, limit)
  \/ \E d \in Doc, r \in Rev, limit \in Limits :
       \E q \in Anc[r], U \in SUBSET Att[r] : Replicate(d, q, r, U, limit)
  \/ CompactAll
  \/ \E request \in PurgeRequests : Purge(request) \/ PurgeRejected(request)
  \/ DestroyDb

Spec == Init /\ [][Next]_db

----------------------------------------------------------------------------
TypeOK ==
  /\ \A d \in Doc : /\ Nodes(db, d) \subseteq Rev \X Rev
                    /\ db.docs[d].tree.avail \subseteq Nodes(db, d)
                    /\ db.docs[d].bodies \subseteq Rev
                    /\ db.docs[d].seq \in 0 .. db.updateSeq
  /\ db.updateSeq \in Nat
  /\ db.blobs \subseteq Digest
  /\ db.purgeSeq \in Nat /\ db.uuid \in 0 .. MaxUuid
  /\ db.changes \subseteq [seq : 1 .. db.updateSeq, id : Doc, deleted : BOOLEAN]

\* The changes log and the documents agree, whatever was rewritten, purged or
\* rejected half way: one entry for each document, at the sequence of its last
\* change, telling whether its winner is deleted (apply_write, purge).
FeedMatchesDocs ==
  db.changes = {[seq |-> db.docs[d].seq, id |-> d, deleted |-> IsDeleted(Nodes(db, d))] :
                  d \in {x \in Doc : Exists(db, x)}}

\* The bodies follow the tree, through edits under any limit, compaction and
\* purges: every leaf has one, so what the feed lists can be fetched; so has
\* every revision the tree calls available (revs_info); and a revision that
\* leaves the tree ("stemmed ... no longer exists", merge.rs:40) takes its body
\* along, unless it is the one the write stores.  (Such a body stays without
\* its revision; see the README.)
BodiesFollowTree ==
  [][\A d \in Doc :
       /\ LeafRevs(Nodes(db', d)) \union RevsOf(db'.docs[d].tree.avail) \subseteq db'.docs[d].bodies
       /\ \A r \in RevsOf(Nodes(db, d)) \ RevsOf(Nodes(db', d)) :
            r \in db'.docs[d].bodies =>
              \E limit \in Limits, U \in SUBSET Att[r] :
                \/ \E named \in BOOLEAN : Edit(d, r, named, U, limit)
                \/ \E q \in Anc[r] : Replicate(d, q, r, U, limit)]_db

\* Collecting unreferenced attachments never takes bytes that a stored
\* revision, of this document or another one, still names.
AttachmentsPresent == Referenced(db) \subseteq db.blobs

\* A reader of the changes feed that has seen everything up to updateSeq
\* misses nothing: whatever changes the leaves of a document records it
\* under a later sequence, and no earlier entry ever changes.
ChangesAreNews ==
  [][db'.uuid = db.uuid =>
       /\ \A c \in db'.changes \ db.changes : c.seq > db.updateSeq
       /\ \A d \in Doc :
            Exists(db', d) /\ LeafRevs(Nodes(db', d)) # LeafRevs(Nodes(db, d))
              => \E c \in db'.changes : c.id = d /\ c.seq > db.updateSeq]_db

\* A local edit never makes a conflict, and never loses one: it takes the place
\* of one leaf, and every leaf the document had is still one or has one below
\* it, those of the conflicts that replication made too.
EditMakesNoConflict ==
  [][\A d \in Doc, r \in Rev, named \in BOOLEAN, limit \in Limits :
       \A U \in SUBSET Att[r] : Edit(d, r, named, U, limit) =>
         LET old == LeafRevs(Nodes(db, d))
             new == LeafRevs(Nodes(db', d))
         IN  /\ Cardinality(new) <= IF old = {} THEN 1 ELSE Cardinality(old)
             /\ \A l \in old : \E n \in new : l \in Anc[n]]_db
=============================================================================
