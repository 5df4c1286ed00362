-------------------------------- MODULE Feed --------------------------------
(***************************************************************************)
(* A database under applications, as the readers of its changes feed see   *)
(* it: documents come, change, are deleted, purged and destroyed between   *)
(* any two calls of a reader.  They have no attachments, which no reader   *)
(* looks at.                                                               *)
(***************************************************************************)
EXTENDS Database, FiniteSetsExt

CONSTANTS
  MaxSeq,   \* bound: the last sequence number
  MaxUuid   \* bound: how many times the database is destroyed

ASSUME FeedAssumption ==
  /\ MaxSeq \in Nat /\ MaxUuid \in Nat
  /\ IsFiniteSet(Doc)
  /\ \A r \in Rev : Att[r] = {}

VARIABLE db

\* What a query of all documents finds of d: its winner, unless it is deleted.
Scan(d) == IF Exists(db, d) /\ ~IsDeleted(Nodes(db, d)) THEN {Winner(Nodes(db, d))} ELSE {}

NoScan == [d \in Doc |-> {}]

Scans == [d \in Doc |-> Scan(d)]

\* changes with include_docs: the documents listed after `since', each as it
\* is now, and the sequence read up to.
Events(since) == ChangesAfter(db, since, Cardinality(Doc))

ReadDocs(since) == [d \in {c.id : c \in Events(since)} |-> Scan(d)]

ReadUpTo(since) == Max({since} \union {c.seq : c \in Events(since)})

\* info: doc_count
DocCount == Cardinality({d \in Doc : Scan(d) # {}})

----------------------------------------------------------------------------
CanWrite == db.updateSeq < MaxSeq

Edit(d, r) ==
  /\ CanWrite
  /\ EditAccepted(db, d, r, Gen[r] > 1)
  /\ db' = NewEdit(db, d, r, {}, 0)

\* purgeSeq is not counted: no reader of the feed asks for it.
Purge(d, r) ==
  /\ CanWrite
  /\ db' = [PurgeEnd(db, PurgeDoc(db, d, {r})) EXCEPT !.purgeSeq = 0]

\* A purge request that fails after this document.
PurgeRejected(d, r) ==
  /\ CanWrite
  /\ db' = PurgeDoc(db, d, {r})

DestroyDb ==
  /\ db.uuid < MaxUuid
  /\ db' = Destroy(db, db.uuid + 1)

Writes == \E d \in Doc, r \in Rev : Edit(d, r) \/ Purge(d, r) \/ PurgeRejected(d, r)
=============================================================================
