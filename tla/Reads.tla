------------------------------- MODULE Reads -------------------------------
(***************************************************************************)
(* What the read operations of the in-memory adapter answer on a database  *)
(* (rouchdb-adapter-memory/src/lib.rs), down to the revisions, flags,      *)
(* conflicts, histories and attachments an answer holds.                   *)
(***************************************************************************)
EXTENDS Database, SequencesExt

CONSTANTS
  IdRank,   \* IdRank[d]: the place of document id d in the order of ids
  NoRev,    \* no revision asked for
  NoKey,    \* no key, bound or filter given
  NoLimit   \* a limit no answer reaches

ASSUME ReadsAssumption ==
  /\ IdRank \in [Doc -> Nat]
  /\ NoRev \notin Rev
  /\ NoLimit \in Nat

NotFound == [found |-> FALSE]

\* collect_conflicts: the live leaves after the first, which is the winner; a
\* winner that is a leaf under two roots is there twice.
Conflicts(N) ==
  {n[2] : n \in {m \in LeafNodes(N) :
    /\ m[2] \notin Deleted
    /\ m[2] # Winner(N) \/ \E x \in LeafNodes(N) : x # m /\ x[2] = m[2]}}

\* revs_info: the revisions of r's branch, and which of them are available.
RevsInfo(tree, r) ==
  LET root == FirstRoot(tree.nodes, r)
  IN  {<<s, <<root, s>> \in tree.avail>> : s \in Between(root, r)}

\* The answer that holds revision r of a document with this tree, whose bytes
\* are looked up in `blobs'.  A revision outside the tree has no history.
Holding(tree, r, blobs) ==
  LET known == r \in RevsOf(tree.nodes)
  IN  [found |-> TRUE, rev |-> r, deleted |-> r \in Deleted,
       conflicts |-> Conflicts(tree.nodes),
       history |-> IF known THEN Between(FirstRoot(tree.nodes, r), r) ELSE {},
       info |-> IF known THEN RevsInfo(tree, r) ELSE {},
       atts |-> Att[r], inlined |-> Att[r] \intersect blobs]

\* The revision get is about: the winner, the one asked for, or with `latest'
\* the leaf below it.
Target(N, rev, latest) ==
  CASE rev = NoRev                         -> Winner(N)
    [] rev # NoRev /\ latest /\ rev \in RevsOf(N) -> LatestLeaf(N, rev)
    [] OTHER                               -> rev

Get(db, d, rev, latest) ==
  LET r == Target(Nodes(db, d), rev, latest)
  IN  IF /\ Exists(db, d)
         /\ r \in db.docs[d].bodies
         /\ ~(r \in Deleted /\ rev = NoRev)
        THEN Holding(db.docs[d].tree, r, db.blobs)
        ELSE NotFound

\* bulk_get answers deleted winners too.
BulkGet(db, d, rev) ==
  LET r == Target(Nodes(db, d), rev, FALSE)
  IN  IF Exists(db, d) /\ r \in db.docs[d].bodies
        THEN Holding(db.docs[d].tree, r, db.blobs)
        ELSE NotFound

\* get_attachment: the bytes of digest x as attached to the revision.
GetAttachment(db, d, rev, x) ==
  LET r == Target(Nodes(db, d), rev, FALSE)
  IN  Exists(db, d) /\ r \in db.docs[d].bodies /\ x \in Att[r] /\ x \in db.blobs

RevsDiff(db, d, R) == MissingRevs(Nodes(db, d), R)

\* Live and deleted documents, counted one by one.
Info(db) ==
  LET stored == {d \in Doc : Exists(db, d)}
  IN  [docCount |-> Cardinality({d \in stored : ~IsDeleted(Nodes(db, d))}),
       delCount |-> Cardinality({d \in stored : IsDeleted(Nodes(db, d))}),
       updateSeq |-> db.updateSeq]

----------------------------------------------------------------------------
(* Listing documents: the options o are [keys, key, start, end, descending, *)
(* inclusive, skip, limit], where keys = NoKey, key = NoKey ... are absent  *)

\* The row of a document, with its winner and what include_docs adds.
RowOf(tree, d, hasBody) ==
  [id |-> d, rev |-> Winner(tree.nodes), deleted |-> IsDeleted(tree.nodes),
   doc |-> ~IsDeleted(tree.nodes) /\ hasBody, conflicts |-> Conflicts(tree.nodes)]

NotFoundRow(d) == [id |-> d, rev |-> NoRev, deleted |-> FALSE, doc |-> FALSE, conflicts |-> {}]

InOrder(S) == SetToSortSeq(S, LAMBDA d, e : IdRank[d] < IdRank[e])

\* The range test of a listing without keys, in either direction.
InRange(d, o) ==
  LET before(x, y) == IF o.descending THEN IdRank[x] > IdRank[y] ELSE IdRank[x] < IdRank[y]
  IN  /\ o.start = NoKey \/ ~before(d, o.start)
      /\ o.end = NoKey \/ before(d, o.end) \/ (o.inclusive /\ d = o.end)

TargetKeys(db, o) ==
  LET stored == InOrder({d \in Doc : Exists(db, d)})
  IN  CASE o.keys # NoKey -> IF o.descending THEN Reverse(o.keys) ELSE o.keys
        [] o.keys = NoKey /\ o.key # NoKey -> <<o.key>>
        [] OTHER -> SelectSeq(IF o.descending THEN Reverse(stored) ELSE stored,
                              LAMBDA d : InRange(d, o))

\* A deleted document has a row only where keys ask for it; an unknown key of
\* `keys' has one that says so.
ListedAsKey(db, o, d) == Exists(db, d) /\ (~IsDeleted(Nodes(db, d)) \/ o.keys # NoKey)

Page(rows, o) == SubSeq(rows, o.skip + 1, IF o.limit < Len(rows) - o.skip THEN o.skip + o.limit
                                                                        ELSE Len(rows))

AllDocs(db, o) ==
  LET rows(d) == IF ListedAsKey(db, o, d)
                   THEN <<RowOf(db.docs[d].tree, d, Winner(Nodes(db, d)) \in db.docs[d].bodies)>>
                   ELSE IF o.keys # NoKey THEN <<NotFoundRow(d)>> ELSE <<>>
      keys == TargetKeys(db, o)
  IN  [total |-> Info(db).docCount,
       rows |-> Page(FlattenSeq([i \in 1 .. Len(keys) |-> rows(keys[i])]), o),
       updateSeq |-> db.updateSeq]

----------------------------------------------------------------------------
(* The changes feed: the options o are [since, limit, descending, ids, style] *)

EventOf(tree, c, hasBody, style) ==
  [seq |-> c.seq, id |-> c.id, deleted |-> c.deleted, doc |-> hasBody,
   revs |-> IF style = "all_docs" THEN LeafRevs(tree.nodes) ELSE {Winner(tree.nodes)},
   conflicts |-> Conflicts(tree.nodes)]

\* The numbers of a finite set, in order; and what a sequence has at some of its
\* places (SetToSortSeq and SelectSeq, of which no prover knows a definition).
Ascending(I) == [k \in 1 .. Cardinality(I) |-> CHOOSE i \in I : Cardinality({j \in I : j <= i}) = k]

Pick(s, I) == [k \in 1 .. Cardinality(I) |-> s[Ascending(I)[k]]]

\* The entries after `since', in the direction asked for.
Entries(changes, o) ==
  LET seqs  == Ascending({c.seq : c \in {b \in changes : b.seq > o.since}})
      after == [k \in 1 .. Len(seqs) |-> CHOOSE c \in changes : c.seq = seqs[k]]
  IN  IF o.descending THEN Reverse(after) ELSE after

Wanted(c, o) == o.ids = NoKey \/ c.id \in o.ids

\* last_seq: of the last event; else the highest sequence looked at, so that a
\* feed whose filter lets nothing through moves on; else `since'.
LastSeq(events, scanned, o) ==
  CASE events # <<>> -> Last(events).seq
    [] events = <<>> /\ scanned # {} -> (CHOOSE c \in scanned : \A b \in scanned : b.seq <= c.seq).seq
    [] OTHER -> o.since

Changes(db, o) ==
  LET scanned == {c \in db.changes : c.seq > o.since}
      wanted  == Entries({c \in scanned : Wanted(c, o)}, o)
      shown   == SubSeq(wanted, 1, IF o.limit < Len(wanted) THEN o.limit ELSE Len(wanted))
      event(c) == EventOf(db.docs[c.id].tree, c,
                          Winner(Nodes(db, c.id)) \in db.docs[c.id].bodies, o.style)
      events  == [i \in 1 .. Len(shown) |-> event(shown[i])]
  IN  IF o.limit = 0
        THEN [events |-> <<>>, lastSeq |-> IF o.descending THEN db.updateSeq ELSE o.since]
        ELSE [events |-> events, lastSeq |-> LastSeq(events, scanned, o)]
=============================================================================
