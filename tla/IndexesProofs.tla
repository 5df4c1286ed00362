---------------------------- MODULE IndexesProofs ----------------------------
(***************************************************************************)
(* That an index of either kind answers for the database it indexes        *)
(* (Indexes), whatever is written, purged, created, deleted or destroyed   *)
(* between the calls of the adapter.                                       *)
(***************************************************************************)
EXTENDS Indexes, DatabaseProofs

----------------------------------------------------------------------------
(* Reading the feed *)

\* There are at most as many entries as documents, so changes lists every one
\* that is due.
LEMMA EventsIs ==
  ASSUME DbOk(db), NEW since \in Nat
  PROVE  Events(since) = {c \in db.changes : c.seq > since}
  <1> DEFINE C == db.changes
             Before(c) == {b \in C : since < b.seq /\ b.seq < c.seq}
  <1>1. Sequenced(C)
    BY FeedSequenced
  <1>2. IsFiniteSet(C) /\ \A c \in C : c.seq \in Nat
    BY <1>1 DEF Sequenced
  <1>3. IsFiniteSet(Doc)
    BY FeedAssumption
  <1>4. Cardinality(C) <= Cardinality(Doc)
    <2> DEFINE f == [c \in C |-> c.id]
    <2>1. \A c \in C : c.id \in Doc
      BY DEF DbOk, DbType
    <2>2. \A c, e \in C : c.id = e.id => c = e
      BY DEF DbOk, FeedOk, EntryOf
    <2>3. f \in Injection(C, Doc)
      BY <2>1, <2>2 DEF Injection, IsInjective
    <2> QED
      BY <1>3, <2>3, FS_Injection
  <1>5. ASSUME NEW c \in C
        PROVE  Cardinality(Before(c)) < Cardinality(Doc)
    <2>1. Before(c) \in SUBSET C /\ c \notin Before(c)
      BY <1>2
    <2>2. Cardinality(Before(c)) < Cardinality(C)
      <3> HIDE DEF Before
      <3>1. /\ IsFiniteSet(Before(c)) /\ Cardinality(Before(c)) <= Cardinality(C)
            /\ Cardinality(Before(c)) = Cardinality(C) => Before(c) = C
        BY <1>2, <2>1, FS_Subset
      <3>2. Cardinality(Before(c)) \in Nat /\ Cardinality(C) \in Nat
        BY <1>2, <3>1, FS_CardinalityType
      <3> QED
        BY <2>1, <3>1, <3>2
    <2>3. IsFiniteSet(Before(c))
      BY <1>2, <2>1, FS_Subset
    <2> HIDE DEF Before
    <2>4. Cardinality(Before(c)) \in Nat /\ Cardinality(C) \in Nat /\ Cardinality(Doc) \in Nat
      BY <1>2, <1>3, <2>3, FS_CardinalityType
    <2> QED
      BY <1>4, <2>2, <2>4
  <1> QED
    BY <1>5 DEF Events, ChangesAfter

\* What changes answers: each document that has changed after since, as it is
\* now, and a sequence that no document is beyond.
ReadIs(since, read, upTo) ==
  /\ DOMAIN read = {d \in Doc : Exists(db, d) /\ db.docs[d].seq > since}
  /\ \A d \in DOMAIN read : read[d] = Scan(d)
  /\ upTo \in Nat /\ since <= upTo
  /\ since <= db.updateSeq => upTo <= db.updateSeq
  /\ \A d \in Doc : Exists(db, d) => db.docs[d].seq <= upTo

LEMMA ReadsAre ==
  ASSUME DbOk(db), NEW since \in Nat
  PROVE  ReadIs(since, ReadDocs(since), ReadUpTo(since))
  <1> DEFINE E == {c \in db.changes : c.seq > since}
             S == {since} \union {c.seq : c \in E}
  <1>1. Events(since) = E
    BY EventsIs
  <1>2. /\ \A c \in E : c.id \in Doc /\ Exists(db, c.id) /\ c.seq = db.docs[c.id].seq /\ c.seq > since
        /\ \A d \in Doc : Exists(db, d) /\ db.docs[d].seq > since => EntryOf(db, d) \in E
    BY DEF DbOk, FeedOk, EntryOf
  <1>3. \A d \in Doc : EntryOf(db, d).id = d /\ EntryOf(db, d).seq = db.docs[d].seq
    BY DEF EntryOf
  <1>4. db.updateSeq \in Nat /\ \A d \in Doc : db.docs[d].seq \in Nat
    BY DocFields DEF DbOk, DbType
  <1>5. \A d \in Doc : Exists(db, d) => db.docs[d].seq <= db.updateSeq
    BY DEF DbOk, SeqsOk
  <1> HIDE DEF E
  <1>6. \E m \in S : \A n \in S : m >= n
    <2>1. CASE E = {}
      BY <2>1
    <2>2. CASE E # {}
      <3>1. Sequenced(E)
        BY FeedSequenced DEF E
      <3>2. PICK c \in E : \A e \in E : e.seq <= c.seq
        BY <2>2, <3>1, LastEntry
      <3>3. \A e \in E : e.seq \in Nat /\ since <= e.seq
        BY <1>2, <1>4
      <3> QED
        BY <3>2, <3>3
    <2> QED
      BY <2>1, <2>2
  <1>7. ReadUpTo(since) \in S /\ \A n \in S : ReadUpTo(since) >= n
    <2>1. ReadUpTo(since) = CHOOSE m \in S : \A n \in S : m >= n
      BY <1>1 DEF ReadUpTo, Max
    <2> HIDE DEF S
    <2> QED
      BY <1>6, <2>1
  <1> DEFINE D == {c.id : c \in E}
  <1>8. D = {d \in Doc : Exists(db, d) /\ db.docs[d].seq > since}
    BY <1>2, <1>3
  <1>9. ReadDocs(since) = [d \in D |-> Scan(d)]
    BY <1>1 DEF ReadDocs
  <1>10. DOMAIN ReadDocs(since) = D /\ \A d \in D : ReadDocs(since)[d] = Scan(d)
    <2> HIDE DEF D
    <2> QED
      BY <1>9
  <1>11. ReadUpTo(since) \in Nat /\ since <= ReadUpTo(since)
    BY <1>2, <1>4, <1>7
  <1>12. since <= db.updateSeq => ReadUpTo(since) <= db.updateSeq
    BY <1>2, <1>5, <1>7
  <1>13. ASSUME NEW d \in Doc, Exists(db, d)
         PROVE  db.docs[d].seq <= ReadUpTo(since)
    <2>1. CASE db.docs[d].seq > since
      <3>1. db.docs[d].seq \in S
        BY <1>2, <1>3, <1>13, <2>1
      <3> QED
        BY <1>4, <1>7, <1>11, <3>1
    <2>2. CASE ~(db.docs[d].seq > since)
      BY <1>4, <1>11, <2>2
    <2> QED
      BY <2>1, <2>2
  <1> HIDE DEF D
  <1> QED
    BY <1>8, <1>10, <1>11, <1>12, <1>13 DEF ReadIs

----------------------------------------------------------------------------
(* The steps of the applications *)

\* What a scan finds is among these.
Value == SUBSET {Best(R) : R \in SUBSET Rev}

LEMMA ScanIs ==
  ASSUME DbOk(db), NEW d \in Doc
  PROVE  Scan(d) \in Value
  <1>1. Nodes(db, d) \in SUBSET (Rev \X Rev)
    BY DocFields DEF DbOk, Nodes
  <1>2. LeafRevs(Nodes(db, d)) \in SUBSET Rev
    BY <1>1 DEF LeafRevs, LeafNodes, RevsOf
  <1> QED
    BY <1>2 DEF Scan, Winner, Value

\* A document is as it was, or later in the feed than all that was in it.
Later ==
  /\ db.updateSeq <= db'.updateSeq
  /\ db'.uuid = db.uuid
  /\ \A d \in Doc : Exists(db, d)' =>
       \/ db'.docs[d].seq > db.updateSeq
       \/ db'.docs[d].seq = db.docs[d].seq /\ Exists(db, d) /\ Scan(d)' = Scan(d)

LEMMA LaterIs ==
  ASSUME Follows(db, db'), db'.uuid = db.uuid
  PROVE  Later
  <1>1. ASSUME NEW d \in Doc, Nodes(db', d) = Nodes(db, d)
        PROVE  (Exists(db, d)' => Exists(db, d)) /\ Scan(d)' = Scan(d)
    BY <1>1 DEF Exists, Scan, Nodes
  <1> QED
    BY <1>1 DEF Later, Follows

LEMMA EditIs ==
  ASSUME DbOk(db), NEW d \in Doc, NEW r \in Rev, Edit(d, r)
  PROVE  DbOk(db') /\ Later
  <1>1. db' = ApplyWrite(db, d, EditStart(r), r, {}, 0)
    BY DEF Edit, NewEdit
  <1>2. EditStart(r) \in Anc[r]
    BY EditPath
  <1>3. Att[r] = {}
    BY FeedAssumption
  <1>4. DbOk(db') /\ Wrote(db, db', d, r)
    BY <1>1, <1>2, <1>3, ApplyWriteOk
  <1> QED
    BY <1>4, LaterIs DEF Wrote

\* The number of purges is of no account.
LEMMA UncountedOk ==
  ASSUME NEW b, DbOk(b), NEW c, c = [b EXCEPT !.purgeSeq = 0]
  PROVE  DbOk(c) /\ Follows(b, c) /\ c.uuid = b.uuid
  <1>1. b \in DbType
    BY DEF DbOk
  <1>2. c = [docs |-> b.docs, updateSeq |-> b.updateSeq, changes |-> b.changes,
             blobs |-> b.blobs, purgeSeq |-> 0, uuid |-> b.uuid]
    BY <1>1 DEF DbType
  <1>3. c \in DbType
    BY <1>1, <1>2 DEF DbType
  <1>4. /\ c.docs = b.docs /\ c.updateSeq = b.updateSeq /\ c.changes = b.changes
        /\ c.blobs = b.blobs /\ c.uuid = b.uuid
    BY <1>2
  <1>5. \A d \in Doc : /\ Nodes(c, d) = Nodes(b, d)
                       /\ Exists(c, d) <=> Exists(b, d)
                       /\ EntryOf(c, d) = EntryOf(b, d)
    BY <1>4 DEF Nodes, Exists, EntryOf
  <1>6. Referenced(c) = Referenced(b)
    BY <1>4 DEF Referenced
  <1>7. TreesOk(c) /\ BodiesOk(c) /\ SeqsOk(c) /\ FeedOk(c) /\ BlobsOk(c)
    BY <1>4, <1>5, <1>6 DEF DbOk, TreesOk, BodiesOk, SeqsOk, FeedOk, BlobsOk
  <1>8. b.updateSeq \in Nat
    BY <1>1 DEF DbType
  <1>9. Follows(b, c)
    <2>1. c.updateSeq \in Nat /\ b.updateSeq <= c.updateSeq
      BY <1>4, <1>8
    <2> QED
      BY <1>1, <1>4, <2>1, FollowsSelf
  <1> QED
    BY <1>3, <1>4, <1>7, <1>9 DEF DbOk

LEMMA PurgeIs ==
  ASSUME DbOk(db), NEW d \in Doc, NEW r \in Rev, Purge(d, r)
  PROVE  DbOk(db') /\ Later
  <1> SUFFICES ASSUME NEW b, b = PurgeDoc(db, d, {r}), NEW c, c = PurgeEnd(db, b)
               PROVE  DbOk(db') /\ Later
    OBVIOUS
  <1>1. DbOk(b) /\ Purged(db, b)
    BY PurgeDocOk
  <1>2. DbOk(c) /\ Purged(b, c)
    BY <1>1, PurgeEndOk
  <1>3. db' = [c EXCEPT !.purgeSeq = 0]
    BY DEF Purge
  <1>4. DbOk(db') /\ Follows(c, db') /\ db'.uuid = c.uuid
    BY <1>2, <1>3, UncountedOk
  <1>5. Follows(db, c)
    BY <1>1, <1>2, FollowsTrans DEF DbOk, Purged
  <1>6. Follows(db, db')
    BY <1>2, <1>4, <1>5, FollowsTrans DEF DbOk
  <1> QED
    BY <1>1, <1>2, <1>4, <1>6, LaterIs DEF Purged

LEMMA PurgeRejectedIs ==
  ASSUME DbOk(db), NEW d \in Doc, NEW r \in Rev, PurgeRejected(d, r)
  PROVE  DbOk(db') /\ Later
  <1>1. DbOk(db') /\ Purged(db, db')
    BY PurgeDocOk DEF PurgeRejected
  <1> QED
    BY <1>1, LaterIs DEF Purged

LEMMA WritesAre ==
  ASSUME DbOk(db), Writes
  PROVE  DbOk(db') /\ Later
  BY EditIs, PurgeIs, PurgeRejectedIs DEF Writes

LEMMA DestroyIs ==
  ASSUME DbOk(db), DestroyDb
  PROVE  /\ DbOk(db') /\ db'.uuid > db.uuid /\ db'.uuid \in Nat
         /\ \A d \in Doc : ~Exists(db, d)' /\ Scan(d)' = {}
  <1>1. db.uuid + 1 \in Nat /\ db.uuid \in Nat
    BY DEF DbOk, DbType
  <1>2. db' = EmptyDb(db.uuid + 1)
    BY DEF DestroyDb, Destroy
  <1>3. \A d \in Doc : db'.docs[d] = NoDoc
    BY <1>2 DEF EmptyDb
  <1>4. \A d \in Doc : ~Exists(db, d)'
    BY <1>3 DEF Exists, NoDoc, EmptyTree
  <1>5. db'.uuid = db.uuid + 1
    BY <1>2 DEF EmptyDb
  <1> QED
    BY <1>1, <1>2, <1>4, <1>5, EmptyDbOk DEF Scan

\* When the database is left alone, nothing of it changes.
LEMMA SameDb ==
  ASSUME db' = db
  PROVE  \A d \in Doc : /\ Scan(d)' = Scan(d)
                        /\ Exists(db, d)' <=> Exists(db, d)
  BY DEF Scan, Exists, Nodes

----------------------------------------------------------------------------
(* A Mango index *)

Finding == {"changes", "apply", "again"}

Building == {"build", "insert"}

IndexType == [exists : BOOLEAN, entries : [Doc -> Value], lastSeq : Nat]

Reads == UNION {[D -> Value] : D \in SUBSET Doc}

TaskType ==
  [pc : {"idle"} \union Finding \union Building, since : Nat, read : Reads, upTo : Nat,
   seen : [Doc -> SUBSET Value], missed : SUBSET Doc]

MangoTyped ==
  /\ DbOk(db)
  /\ index \in IndexType
  /\ task \in [Finder \union Creator -> TaskType]
  /\ destroying \in BOOLEAN

\* Nothing was missed, and no call is ahead of the feed.  Who builds the index
\* is the only one that does, so there is none meanwhile.
TaskOk(t) ==
  /\ task[t].missed = {}
  /\ task[t].pc \in Finding => t \in Finder
  /\ task[t].pc \in Building => t \in Creator /\ ~index.exists
  /\ IF Calling(t)
       THEN ~destroying /\ task[t].since <= db.updateSeq /\ task[t].upTo <= db.updateSeq
       ELSE task[t].since = 0 /\ task[t].upTo = 0
  /\ TaskAt(t, "apply") => task[t].since <= task[t].upTo

\* Since the sequence k a scan finds v of d: an index, one about to be
\* inserted, and an answer about to be applied have it if they are of k or later.
Anchored(d, v, k) ==
  /\ k <= db.updateSeq /\ k <= db.docs[d].seq
  /\ index.exists /\ k <= index.lastSeq => index.entries[d] = v
  /\ \A t \in DOMAIN task :
       /\ TaskAt(t, "insert") /\ k <= task[t].upTo => AppliedTo(NoScan, task[t].read)[d] = v
       /\ TaskAt(t, "apply") /\ k <= task[t].upTo =>
            IF d \in DOMAIN task[t].read THEN task[t].read[d] = v ELSE k <= task[t].since

\* The index, or the one about to be inserted, is of k or later.
Reached(k) ==
  /\ index.exists => k <= index.lastSeq
  /\ \A t \in DOMAIN task : TaskAt(t, "insert") => k <= task[t].upTo

IndexOk ==
  ~destroying =>
    /\ index.lastSeq <= db.updateSeq
    /\ \A d \in Doc : Scan(d) # {} => Anchored(d, Scan(d), db.docs[d].seq)

\* A document that a find has seen as v only will be in what it returns: it is
\* in the answer, or the index has it already and every later one will.
Ahead(t, d, v) ==
  /\ TaskAt(t, "changes") => db.docs[d].seq > task[t].since \/ Reached(db.docs[d].seq)
  /\ TaskAt(t, "apply") =>
       IF d \in DOMAIN task[t].read
         THEN task[t].read[d] = v
         ELSE \E k \in Nat : k <= task[t].since /\ Anchored(d, v, k) /\ Reached(k)

FinderOk(t) ==
  task[t].pc \in Finding =>
    \A d \in Doc : /\ Scan(d) \in task[t].seen[d]
                   /\ Scan(d) # {} /\ task[t].seen[d] = {Scan(d)} => Ahead(t, d, Scan(d))

MangoInv == MangoTyped /\ IndexOk /\ \A t \in DOMAIN task : TaskOk(t) /\ FinderOk(t)

\* What a step that leaves the anchors in place does.
AnchorsHold ==
  \A d \in Doc, k \in Nat :
    Scan(d) # {} /\ Scan(d)' = Scan(d) /\ Anchored(d, Scan(d), k) =>
      /\ Anchored(d, Scan(d), k)'
      /\ Reached(k) => Reached(k)'

LEMMA NoCallIs == NoCall \in TaskType
  <1>1. <<>> \in [{} -> Value]
    OBVIOUS
  <1>2. <<>> \in Reads
    BY <1>1 DEF Reads
  <1>3. [d \in Doc |-> {}] \in [Doc -> SUBSET Value]
    OBVIOUS
  <1> QED
    BY <1>2, <1>3 DEF NoCall, TaskType

LEMMA NoIndexIs == NoIndex \in IndexType
  BY DEF NoIndex, IndexType, NoScan, Value

\* What changes answers.
LEMMA ReadsTyped ==
  ASSUME DbOk(db), NEW since \in Nat
  PROVE  ReadDocs(since) \in Reads
  <1> DEFINE D == {c.id : c \in Events(since)}
  <1>1. D \in SUBSET Doc
    BY EventsIs DEF DbOk, DbType
  <1>2. \A d \in D : Scan(d) \in Value
    BY <1>1, ScanIs
  <1>3. ReadDocs(since) = [d \in D |-> Scan(d)]
    BY DEF ReadDocs
  <1> HIDE DEF D
  <1>4. ReadDocs(since) \in [D -> Value]
    BY <1>2, <1>3
  <1> QED
    BY <1>1, <1>4 DEF Reads

LEMMA AppliedIs ==
  ASSUME NEW entries \in [Doc -> Value], NEW read \in Reads
  PROVE  /\ AppliedTo(entries, read) \in [Doc -> Value]
         /\ \A d \in Doc : AppliedTo(entries, read)[d]
                             = IF d \in DOMAIN read THEN read[d] ELSE entries[d]
  <1>1. PICK D \in SUBSET Doc : read \in [D -> Value]
    BY DEF Reads
  <1> QED
    BY <1>1 DEF AppliedTo

\* A step that changes no answer that is to be applied or inserted, and the
\* index only by removing it.
Calm ==
  /\ index' = index \/ ~index'.exists
  /\ DOMAIN task' = DOMAIN task
  /\ \A t \in DOMAIN task :
       task'[t].pc \in {"insert", "apply"} =>
         /\ task'[t].pc = task[t].pc
         /\ task'[t].since = task[t].since
         /\ task'[t].read = task[t].read
         /\ task'[t].upTo = task[t].upTo

LEMMA LaterSelf ==
  ASSUME DbOk(db), db' = db
  PROVE  DbOk(db') /\ Later
  <1>1. db.updateSeq \in Nat
    BY DEF DbOk, DbType
  <1> QED
    BY <1>1, SameDb DEF Later

LEMMA CalmHolds ==
  ASSUME MangoInv, DbOk(db'), Later, Calm
  PROVE  AnchorsHold
  <1> SUFFICES ASSUME NEW d \in Doc, NEW k \in Nat, Scan(d) # {}, Scan(d)' = Scan(d),
                      Anchored(d, Scan(d), k)
               PROVE  /\ Anchored(d, Scan(d), k)'
                      /\ Reached(k) => Reached(k)'
    BY DEF AnchorsHold
  <1>1. /\ db.updateSeq \in Nat /\ db.docs[d].seq \in Nat
        /\ db'.updateSeq \in Nat /\ db'.docs[d].seq \in Nat
    BY DocFields DEF MangoInv, MangoTyped, DbOk, DbType
  <1>2. Exists(db, d)'
    BY DEF Scan
  <1>3. k <= db'.updateSeq /\ k <= db'.docs[d].seq
    BY <1>1, <1>2 DEF Anchored, Later
  <1>4. index'.exists /\ k <= index'.lastSeq => index'.entries[d] = Scan(d)
    BY DEF Calm, Anchored
  <1>5. ASSUME NEW t \in DOMAIN task
        PROVE  /\ task'[t].pc = "insert" /\ k <= task'[t].upTo =>
                    AppliedTo(NoScan, task'[t].read)[d] = Scan(d)
               /\ task'[t].pc = "apply" /\ k <= task'[t].upTo =>
                    IF d \in DOMAIN task'[t].read THEN task'[t].read[d] = Scan(d)
                                                  ELSE k <= task'[t].since
    <2>1. CASE task'[t].pc \notin {"insert", "apply"}
      BY <2>1
    <2>2. CASE task'[t].pc \in {"insert", "apply"}
      <3>1. /\ task'[t].pc = task[t].pc
            /\ task'[t].since = task[t].since
            /\ task'[t].read = task[t].read
            /\ task'[t].upTo = task[t].upTo
        BY <2>2 DEF Calm
      <3>2. /\ TaskAt(t, "insert") /\ k <= task[t].upTo => AppliedTo(NoScan, task[t].read)[d] = Scan(d)
            /\ TaskAt(t, "apply") /\ k <= task[t].upTo =>
                 IF d \in DOMAIN task[t].read THEN task[t].read[d] = Scan(d) ELSE k <= task[t].since
        BY DEF Anchored
      <3> QED
        BY <3>1, <3>2 DEF TaskAt
    <2> QED
      BY <2>1, <2>2
  <1>6. Anchored(d, Scan(d), k)'
    <2>1. DOMAIN task' = DOMAIN task
      BY DEF Calm
    <2>2. \A read : AppliedTo(NoScan, read)' = AppliedTo(NoScan, read)
      BY DEF AppliedTo, NoScan
    <2> QED
      BY <1>3, <1>4, <1>5, <2>1, <2>2 DEF Anchored, TaskAt
  <1>7. Reached(k) => Reached(k)'
    BY DEF Calm, Reached, TaskAt
  <1> QED
    BY <1>6, <1>7

\* The index is right for what is new in the feed, as it has not seen it, and
\* stays right for the rest.
LEMMA IndexStays ==
  ASSUME MangoInv, MangoTyped', Later, AnchorsHold, destroying' = destroying,
         DOMAIN task' = DOMAIN task,
         ~destroying => index'.lastSeq <= db'.updateSeq,
         \A d \in Doc : ~destroying /\ Scan(d)' # {} /\ db'.docs[d].seq > db.updateSeq =>
           Anchored(d, Scan(d), db.docs[d].seq)'
  PROVE  IndexOk'
  <1> SUFFICES ASSUME ~destroying, NEW d \in Doc, Scan(d)' # {}, ~(db'.docs[d].seq > db.updateSeq)
               PROVE  Anchored(d, Scan(d), db.docs[d].seq)'
    BY DEF IndexOk
  <1>1. Exists(db, d)'
    BY DEF Scan
  <1>2. db'.docs[d].seq = db.docs[d].seq /\ Scan(d)' = Scan(d)
    BY <1>1 DEF Later
  <1>3. Anchored(d, Scan(d), db.docs[d].seq)
    BY <1>2 DEF MangoInv, IndexOk
  <1>4. db.docs[d].seq \in Nat
    BY DocFields DEF MangoInv, MangoTyped, DbOk
  <1> QED
    BY <1>2, <1>3, <1>4 DEF AnchorsHold

\* Nothing is anchored yet at a new sequence.
LEMMA CalmIndex ==
  ASSUME MangoInv, MangoTyped', Later, Calm, destroying' = destroying,
         index'.exists \/ index'.lastSeq = 0
  PROVE  IndexOk' /\ AnchorsHold
  <1>0. DbOk(db)'
    BY DEF MangoTyped
  <1>1. AnchorsHold
    BY <1>0, CalmHolds
  <1>2. /\ db.updateSeq \in Nat /\ db'.updateSeq \in Nat /\ db.updateSeq <= db'.updateSeq
        /\ index.lastSeq \in Nat /\ index'.lastSeq \in Nat
        /\ \A d \in Doc : db'.docs[d].seq \in Nat
    BY <1>0, DocFields DEF MangoInv, MangoTyped, DbOk, DbType, IndexType, Later
  <1>3. ~destroying => /\ index'.lastSeq <= db'.updateSeq
                       /\ index'.exists => index'.lastSeq <= db.updateSeq
    BY <1>2 DEF MangoInv, IndexOk, Calm
  <1>4. ASSUME NEW d \in Doc, ~destroying, Scan(d)' # {}, db'.docs[d].seq > db.updateSeq
        PROVE  Anchored(d, Scan(d), db.docs[d].seq)'
    <2>1. db'.docs[d].seq <= db'.updateSeq
      BY <1>0, <1>4 DEF DbOk, SeqsOk, Scan
    <2>2. ~(index'.exists /\ db'.docs[d].seq <= index'.lastSeq)
      BY <1>2, <1>3, <1>4
    <2>3. ASSUME NEW t \in DOMAIN task, task'[t].pc \in {"insert", "apply"}
          PROVE  ~(db'.docs[d].seq <= task'[t].upTo)
      <3>1. task[t].pc = task'[t].pc /\ task'[t].upTo = task[t].upTo
        BY <2>3 DEF Calm
      <3>2. task[t].upTo <= db.updateSeq
        BY <2>3, <3>1 DEF MangoInv, TaskOk, Calling, TaskAt
      <3>3. task[t].upTo \in Nat
        BY DEF MangoInv, MangoTyped, TaskType
      <3> QED
        BY <1>2, <1>4, <3>1, <3>2, <3>3
    <2>4. DOMAIN task' = DOMAIN task
      BY DEF Calm
    <2> QED
      BY <1>2, <2>1, <2>2, <2>3, <2>4 DEF Anchored, TaskAt
  <1>5. DOMAIN task' = DOMAIN task
    BY DEF Calm
  <1>6. IndexOk'
    BY <1>1, <1>3, <1>4, <1>5, IndexStays
  <1> QED
    BY <1>1, <1>6

\* A find that a step leaves alone, but for what it has seen, is still right.
LEMMA FinderStays ==
  ASSUME MangoInv, DbOk(db'), Later, AnchorsHold, NEW t \in DOMAIN task,
         DOMAIN task' = DOMAIN task,
         task[t].pc \in Finding => ~destroying,
         task'[t].pc = task[t].pc, task'[t].since = task[t].since, task'[t].read = task[t].read,
         task[t].pc \in Finding =>
           \A d \in Doc : task[t].seen[d] \union {Scan(d)'} = task'[t].seen[d]
  PROVE  FinderOk(t)'
  <1> SUFFICES ASSUME task[t].pc \in Finding, NEW d \in Doc, Scan(d)' # {},
                      task'[t].seen[d] = {Scan(d)'}
               PROVE  Ahead(t, d, Scan(d))'
    BY DEF FinderOk
  <1>1. Scan(d) \in task[t].seen[d] /\ task[t].seen[d] \subseteq task'[t].seen[d]
    BY DEF MangoInv, FinderOk
  <1>2. Scan(d)' = Scan(d) /\ task[t].seen[d] = {Scan(d)}
    BY <1>1
  <1>3. Ahead(t, d, Scan(d))
    BY <1>2 DEF MangoInv, FinderOk
  <1>4. Anchored(d, Scan(d), db.docs[d].seq) /\ db.docs[d].seq \in Nat /\ db'.docs[d].seq \in Nat
    BY <1>2, DocFields DEF MangoInv, MangoTyped, IndexOk, DbOk
  <1>5. CASE TaskAt(t, "changes")
    <2>1. Exists(db, d)'
      BY DEF Scan
    <2>2. CASE db'.docs[d].seq > db.updateSeq
      <3>1. task[t].since <= db.updateSeq /\ task[t].since \in Nat /\ db.updateSeq \in Nat
        BY <1>5 DEF MangoInv, MangoTyped, TaskOk, Calling, TaskAt, TaskType, DbOk, DbType
      <3> QED
        BY <1>4, <1>5, <2>2, <3>1 DEF Ahead, TaskAt
    <2>3. CASE db'.docs[d].seq = db.docs[d].seq
      <3>1. db.docs[d].seq > task[t].since \/ Reached(db.docs[d].seq)
        BY <1>3, <1>5 DEF Ahead
      <3>2. Reached(db.docs[d].seq) => Reached(db.docs[d].seq)'
        BY <1>2, <1>4, <2>3 DEF AnchorsHold
      <3> QED
        BY <1>5, <2>3, <3>1, <3>2 DEF Ahead, TaskAt
    <2> QED
      BY <2>1, <2>2, <2>3 DEF Later
  <1>6. CASE TaskAt(t, "apply") /\ d \in DOMAIN task[t].read
    BY <1>2, <1>3, <1>6 DEF Ahead, TaskAt
  <1>7. CASE TaskAt(t, "apply") /\ d \notin DOMAIN task[t].read
    <2>1. PICK k \in Nat : k <= task[t].since /\ Anchored(d, Scan(d), k) /\ Reached(k)
      BY <1>3, <1>7 DEF Ahead
    <2>2. Anchored(d, Scan(d), k)' /\ Reached(k)'
      BY <1>2, <2>1 DEF AnchorsHold
    <2> QED
      BY <1>7, <2>1, <2>2 DEF Ahead, TaskAt
  <1>8. CASE TaskAt(t, "again")
    BY <1>8 DEF Ahead, TaskAt
  <1> QED
    BY <1>5, <1>6, <1>7, <1>8 DEF Finding, TaskAt

----------------------------------------------------------------------------
(* The steps of the calls *)

\* Index creations do not overlap.
OneCreator == \A c, e \in Creator : c = e

\* The call t has got to x; the others are where they were.
Moved(t, x) ==
  /\ x \in TaskType
  /\ task' = [task EXCEPT ![t] = x]

LEMMA MovedIs ==
  ASSUME MangoTyped, NEW t \in Finder \union Creator, NEW x, Moved(t, x)
  PROVE  /\ task' \in [Finder \union Creator -> TaskType]
         /\ DOMAIN task = Finder \union Creator /\ DOMAIN task' = DOMAIN task
         /\ task'[t] = x
         /\ \A u \in DOMAIN task \ {t} : task'[u] = task[u]
  BY DEF MangoTyped, Moved

LEMMA StepKeeps ==
  ASSUME MangoInv, db' = db, destroying' = destroying, index' \in IndexType,
         NEW t \in Finder \union Creator, NEW x, Moved(t, x), AnchorsHold,
         ~destroying => index'.lastSeq <= db.updateSeq,
         index'.exists => index.exists \/ \A u \in DOMAIN task \ {t} : task[u].pc \notin Building,
         TaskOk(t)', FinderOk(t)'
  PROVE  MangoInv'
  <1>1. MangoTyped
    BY DEF MangoInv
  <1>2. /\ task' \in [Finder \union Creator -> TaskType]
        /\ DOMAIN task = Finder \union Creator /\ DOMAIN task' = DOMAIN task
        /\ task'[t] = x
        /\ \A u \in DOMAIN task \ {t} : task'[u] = task[u]
    BY <1>1, MovedIs
  <1>3. MangoTyped'
    BY <1>1, <1>2 DEF MangoTyped
  <1>4. Later /\ DbOk(db')
    BY <1>1, LaterSelf DEF MangoTyped
  <1>5. ASSUME NEW u \in DOMAIN task \ {t}
        PROVE  TaskOk(u)' /\ FinderOk(u)'
    <2>1. task'[u] = task[u] /\ TaskOk(u) /\ FinderOk(u)
      BY <1>2, <1>5 DEF MangoInv
    <2>2. TaskOk(u)'
      BY <1>5, <2>1 DEF TaskOk, Calling, TaskAt
    <2>3. FinderOk(u)'
      <3>1. task[u].pc \in Finding => ~destroying
        BY <2>1 DEF TaskOk, Calling, TaskAt, Finding
      <3>2. ASSUME task[u].pc \in Finding, NEW d \in Doc
            PROVE  task[u].seen[d] \union {Scan(d)'} = task'[u].seen[d]
        <4>1. Scan(d)' = Scan(d) /\ Scan(d) \in task[u].seen[d]
          BY <2>1, <3>2, SameDb DEF FinderOk
        <4> QED
          BY <2>1, <4>1
      <3> QED
        BY <1>2, <1>4, <2>1, <3>1, <3>2, FinderStays
    <2> QED
      BY <2>2, <2>3
  <1>6. IndexOk'
    <2>1. ASSUME NEW d \in Doc, Scan(d)' # {}, db'.docs[d].seq > db.updateSeq
          PROVE  FALSE
      <3>1. Exists(db, d)
        BY <2>1, SameDb DEF Scan
      <3>2. db.docs[d].seq <= db.updateSeq /\ db.updateSeq \in Nat /\ db.docs[d].seq \in Nat
        BY <1>1, <3>1, DocFields DEF MangoTyped, DbOk, SeqsOk, DbType
      <3> QED
        BY <2>1, <3>2
    <2> QED
      BY <1>2, <1>3, <1>4, <2>1, IndexStays
  <1> QED
    BY <1>2, <1>3, <1>5, <1>6 DEF MangoInv

\* A call that leaves the index alone, and is not about to use an answer.
LEMMA CalmKeeps ==
  ASSUME MangoInv, db' = db, destroying' = destroying, index' = index,
         NEW t \in Finder \union Creator, NEW x, Moved(t, x), x.pc \notin {"insert", "apply"},
         TaskOk(t)', FinderOk(t)'
  PROVE  MangoInv'
  <1>1. MangoTyped
    BY DEF MangoInv
  <1>2. /\ task' \in [Finder \union Creator -> TaskType]
        /\ DOMAIN task = Finder \union Creator /\ DOMAIN task' = DOMAIN task
        /\ task'[t] = x
        /\ \A u \in DOMAIN task \ {t} : task'[u] = task[u]
    BY <1>1, MovedIs
  <1>3. MangoTyped'
    BY <1>1, <1>2 DEF MangoTyped
  <1>4. Later
    BY <1>1, LaterSelf DEF MangoTyped
  <1>5. Calm
    BY <1>2 DEF Calm
  <1>6. AnchorsHold
    BY <1>3, <1>4, <1>5, CalmHolds DEF MangoTyped
  <1>7. index' \in IndexType /\ (~destroying => index'.lastSeq <= db.updateSeq)
    BY <1>1 DEF MangoInv, MangoTyped, IndexOk
  <1> QED
    BY <1>6, <1>7, StepKeeps

\* A call that has ended, having missed nothing.
LEMMA EndedOk ==
  ASSUME NEW t, task'[t] = NoCall
  PROVE  TaskOk(t)' /\ FinderOk(t)'
  BY DEF TaskOk, FinderOk, NoCall, Calling, TaskAt, Finding, Building

\* A find that has asked for the sequence of the index.
LEMMA AsksKeeps ==
  ASSUME MangoInv, OneCreator, db' = db, NEW t \in Finder, ~destroying, UNCHANGED <<index, destroying>>,
         NEW c \in TaskType, Asks(t, c), c.missed = {}, c.upTo <= db.updateSeq,
         \A d \in Doc : Scan(d) \in c.seen[d]
  PROVE  MangoInv'
  <1> DEFINE x == [c EXCEPT !.pc = "changes", !.since = index.lastSeq]
  <1>1. MangoTyped /\ IndexOk /\ index.lastSeq \in Nat
    BY DEF MangoInv, MangoTyped, IndexType
  <1>2. CASE ~index.exists
    <2>1. Moved(t, NoCall) /\ task'[t] = NoCall
      BY <1>1, <1>2, NoCallIs DEF Asks, Moved, MangoTyped
    <2>2. TaskOk(t)' /\ FinderOk(t)'
      BY <2>1, EndedOk
    <2>3. NoCall.pc = "idle"
      BY DEF NoCall
    <2> QED
      BY <2>1, <2>2, <2>3, CalmKeeps
  <1>3. CASE index.exists
    <2>1. /\ x \in TaskType /\ x.pc = "changes" /\ x.since = index.lastSeq
          /\ x.upTo = c.upTo /\ x.seen = c.seen /\ x.missed = c.missed
      BY <1>1 DEF TaskType, Finding
    <2>2. Moved(t, x)
      BY <1>3, <2>1 DEF Asks, Moved
    <2> HIDE DEF x
    <2>3. task'[t] = x
      BY <1>1, <2>2, MovedIs
    <2>4. TaskOk(t)'
      BY <1>1, <2>1, <2>3 DEF TaskOk, Calling, TaskAt, Finding, Building, IndexOk
    <2>5. ASSUME NEW d \in Doc
          PROVE  db.docs[d].seq > index.lastSeq \/ Reached(db.docs[d].seq)'
      <3>1. db.docs[d].seq \in Nat
        BY <1>1, DocFields DEF MangoTyped, DbOk
      <3>2. ASSUME NEW u \in DOMAIN task', task'[u].pc = "insert"
            PROVE  FALSE
        <4>1. u \in DOMAIN task /\ u # t
          BY <1>1, <2>1, <2>2, <2>3, <3>2, MovedIs
        <4>2. task[u].pc = "insert"
          BY <1>1, <2>2, <3>2, <4>1, MovedIs
        <4> QED
          BY <1>3, <4>1, <4>2 DEF MangoInv, TaskOk, Building
      <3> QED
        BY <1>1, <3>1, <3>2 DEF Reached, TaskAt
    <2>6. FinderOk(t)'
      BY <2>1, <2>3, <2>5, SameDb DEF FinderOk, Ahead, TaskAt
    <2> QED
      BY <2>1, <2>2, <2>4, <2>6, CalmKeeps
  <1> QED
    BY <1>2, <1>3

LEMMA StartFindKeeps ==
  ASSUME MangoInv, OneCreator, Overlap = FALSE, db' = db, NEW t \in Finder, StartFind(t)
  PROVE  MangoInv'
  <1> DEFINE s == [d \in Doc |-> {Scan(d)}]
             c == [NoCall EXCEPT !.seen = s]
  <1>1. DbOk(db) /\ db.updateSeq \in Nat
    BY DEF MangoInv, MangoTyped, DbOk, DbType
  <1>2. s \in [Doc -> SUBSET Value] /\ \A d \in Doc : Scan(d) \in s[d]
    BY <1>1, ScanIs
  <1> HIDE DEF s
  <1>3. c \in TaskType /\ c.seen = s /\ c.missed = {} /\ c.upTo = 0
    BY <1>2, NoCallIs DEF NoCall, TaskType
  <1>4. Asks(t, c) /\ ~destroying /\ UNCHANGED <<index, destroying>>
    BY DEF StartFind, MayCall, s
  <1> HIDE DEF c
  <1> QED
    BY <1>1, <1>2, <1>3, <1>4, AsksKeeps

LEMMA FindAgainKeeps ==
  ASSUME MangoInv, OneCreator, db' = db, NEW t \in Finder, FindAgain(t)
  PROVE  MangoInv'
  <1>1. task[t] \in TaskType /\ t \in DOMAIN task
    BY DEF MangoInv, MangoTyped
  <1>2. task[t].pc = "again"
    BY DEF FindAgain, TaskAt
  <1>3. /\ task[t].missed = {} /\ task[t].upTo <= db.updateSeq /\ ~destroying
        /\ \A d \in Doc : Scan(d) \in task[t].seen[d]
    BY <1>1, <1>2 DEF MangoInv, TaskOk, FinderOk, Calling, TaskAt, Finding
  <1> QED
    BY <1>1, <1>3, AsksKeeps DEF FindAgain

LEMMA FindScansKeeps ==
  ASSUME MangoInv, db' = db, NEW t \in Finder, FindScans(t)
  PROVE  MangoInv'
  <1>1. Moved(t, NoCall) /\ task'[t] = NoCall /\ NoCall.pc = "idle"
    BY NoCallIs DEF FindScans, Moved, MangoInv, MangoTyped, NoCall
  <1>2. TaskOk(t)' /\ FinderOk(t)'
    BY <1>1, EndedOk
  <1> QED
    BY <1>1, <1>2, CalmKeeps DEF FindScans

LEMMA StartCreateKeeps ==
  ASSUME MangoInv, Overlap = FALSE, db' = db, NEW t \in Creator, StartCreate(t)
  PROVE  MangoInv'
  <1> DEFINE x == [task[t] EXCEPT !.pc = "build"]
  <1>1. MangoTyped /\ task[t] \in TaskType /\ t \in DOMAIN task
    BY DEF MangoInv, MangoTyped
  <1>2. /\ x \in TaskType /\ x.pc = "build" /\ x.since = task[t].since /\ x.upTo = task[t].upTo
        /\ x.missed = task[t].missed
    BY <1>1 DEF TaskType, Building
  <1>3. Moved(t, x)
    BY <1>2 DEF StartCreate, Moved
  <1> HIDE DEF x
  <1>4. task'[t] = x
    BY <1>1, <1>3, MovedIs
  <1>5. ~destroying /\ ~index.exists
    BY DEF StartCreate, MayCall
  <1>6. x.since <= db.updateSeq /\ x.upTo <= db.updateSeq /\ x.missed = {}
    <2>1. db.updateSeq \in Nat
      BY <1>1 DEF MangoTyped, DbOk, DbType
    <2> QED
      BY <1>1, <1>2, <2>1 DEF MangoInv, TaskOk
  <1>7. TaskOk(t)' /\ FinderOk(t)'
    BY <1>2, <1>4, <1>5, <1>6 DEF TaskOk, FinderOk, Calling, TaskAt, Finding, Building, StartCreate
  <1> QED
    BY <1>2, <1>3, <1>7, CalmKeeps DEF StartCreate

\* What the call t must see to when it moves to x, for the anchors to hold.
Hands(x) ==
  \A d \in Doc, k \in Nat :
    Scan(d) # {} /\ Anchored(d, Scan(d), k) =>
      /\ index'.exists /\ k <= index'.lastSeq => index'.entries[d] = Scan(d)
      /\ x.pc = "insert" /\ k <= x.upTo => AppliedTo(NoScan, x.read)[d] = Scan(d)
      /\ x.pc = "apply" /\ k <= x.upTo =>
           IF d \in DOMAIN x.read THEN x.read[d] = Scan(d) ELSE k <= x.since
      /\ Reached(k) => /\ index'.exists => k <= index'.lastSeq
                       /\ x.pc = "insert" => k <= x.upTo

LEMMA MovedHolds ==
  ASSUME MangoInv, db' = db, NEW t \in Finder \union Creator, NEW x, Moved(t, x), Hands(x)
  PROVE  AnchorsHold
  <1> SUFFICES ASSUME NEW d \in Doc, NEW k \in Nat, Scan(d) # {}, Scan(d)' = Scan(d),
                      Anchored(d, Scan(d), k)
               PROVE  /\ Anchored(d, Scan(d), k)'
                      /\ Reached(k) => Reached(k)'
    BY DEF AnchorsHold
  <1>1. /\ DOMAIN task' = DOMAIN task
        /\ task'[t] = x
        /\ \A u \in DOMAIN task \ {t} : task'[u] = task[u]
    BY MovedIs DEF MangoInv
  <1>2. /\ index'.exists /\ k <= index'.lastSeq => index'.entries[d] = Scan(d)
        /\ x.pc = "insert" /\ k <= x.upTo => AppliedTo(NoScan, x.read)[d] = Scan(d)
        /\ x.pc = "apply" /\ k <= x.upTo =>
             IF d \in DOMAIN x.read THEN x.read[d] = Scan(d) ELSE k <= x.since
        /\ Reached(k) => /\ index'.exists => k <= index'.lastSeq
                         /\ x.pc = "insert" => k <= x.upTo
    BY DEF Hands
  <1>3. k <= db'.updateSeq /\ k <= db'.docs[d].seq
    BY DEF Anchored
  <1>4. ASSUME NEW u \in DOMAIN task
        PROVE  /\ task'[u].pc = "insert" /\ k <= task'[u].upTo =>
                    AppliedTo(NoScan, task'[u].read)[d] = Scan(d)
               /\ task'[u].pc = "apply" /\ k <= task'[u].upTo =>
                    IF d \in DOMAIN task'[u].read THEN task'[u].read[d] = Scan(d)
                                                  ELSE k <= task'[u].since
    <2>1. CASE u = t
      BY <1>1, <1>2, <2>1
    <2>2. CASE u # t
      BY <1>1, <2>2 DEF Anchored, TaskAt
    <2> QED
      BY <2>1, <2>2
  <1>5. Anchored(d, Scan(d), k)'
    <2>1. \A read : AppliedTo(NoScan, read)' = AppliedTo(NoScan, read)
      BY DEF AppliedTo, NoScan
    <2> QED
      BY <1>1, <1>2, <1>3, <1>4, <2>1 DEF Anchored, TaskAt
  <1>6. Reached(k) => Reached(k)'
    BY <1>1, <1>2 DEF Reached, TaskAt
  <1> QED
    BY <1>5, <1>6

LEMMA ReadChangesKeeps ==
  ASSUME MangoInv, db' = db, NEW t \in Finder, ReadChanges(t)
  PROVE  MangoInv'
  <1> SUFFICES ASSUME NEW since, since = task[t].since,
                      NEW read, read = ReadDocs(since), NEW upTo, upTo = ReadUpTo(since)
               PROVE  MangoInv'
    OBVIOUS
  <1> DEFINE x == [task[t] EXCEPT !.pc = "apply", !.read = read, !.upTo = upTo]
  <1>1. MangoTyped /\ DbOk(db) /\ task[t] \in TaskType /\ t \in DOMAIN task /\ since \in Nat
    BY DEF MangoInv, MangoTyped, TaskType
  <1>2. ReadIs(since, read, upTo) /\ read \in Reads
    BY <1>1, ReadsAre, ReadsTyped
  <1>3. task[t].pc = "changes" /\ TaskOk(t) /\ FinderOk(t) /\ UNCHANGED <<index, destroying>>
    BY <1>1 DEF ReadChanges, TaskAt, MangoInv
  <1>4. /\ x \in TaskType /\ x.pc = "apply" /\ x.since = since /\ x.read = read
        /\ x.upTo = upTo /\ x.missed = task[t].missed /\ x.seen = task[t].seen
    BY <1>1, <1>2 DEF TaskType, Finding, ReadIs
  <1>5. Moved(t, x)
    BY <1>4 DEF ReadChanges, Moved
  <1> HIDE DEF x
  <1>6. task'[t] = x
    BY <1>1, <1>5, MovedIs
  <1>7. ~destroying /\ since <= db.updateSeq /\ upTo <= db.updateSeq
    BY <1>2, <1>3 DEF TaskOk, Calling, TaskAt, ReadIs
  <1>8. \A d \in Doc : db.docs[d].seq \in Nat /\ (Scan(d) # {} => Exists(db, d))
    BY <1>1, DocFields DEF DbOk, Scan
  <1>9. Hands(x)
    <2> SUFFICES ASSUME NEW d \in Doc, NEW k \in Nat, Scan(d) # {}, Anchored(d, Scan(d), k)
                 PROVE  /\ index.exists /\ k <= index.lastSeq => index.entries[d] = Scan(d)
                        /\ IF d \in DOMAIN read THEN read[d] = Scan(d) ELSE k <= since
                        /\ Reached(k) => (index.exists => k <= index.lastSeq)
      BY <1>3, <1>4 DEF Hands
    <2>1. d \in DOMAIN read => read[d] = Scan(d)
      BY <1>2 DEF ReadIs
    <2>2. d \notin DOMAIN read => k <= since
      BY <1>1, <1>2, <1>8 DEF ReadIs, Anchored
    <2> QED
      BY <2>1, <2>2 DEF Anchored, Reached
  <1>10. AnchorsHold
    BY <1>5, <1>9, MovedHolds
  <1>11. TaskOk(t)'
    BY <1>2, <1>3, <1>4, <1>6, <1>7 DEF ReadIs, TaskOk, Calling, TaskAt, Finding, Building
  <1>12. FinderOk(t)'
    <2> SUFFICES ASSUME NEW d \in Doc
                 PROVE  /\ Scan(d) \in x.seen[d]
                        /\ Scan(d) # {} /\ x.seen[d] = {Scan(d)} /\ d \notin DOMAIN read =>
                             \E k \in Nat : k <= since /\ Anchored(d, Scan(d), k)' /\ Reached(k)'
      BY <1>2, <1>4, <1>6, SameDb DEF FinderOk, Ahead, TaskAt, ReadIs
    <2>1. Scan(d) \in x.seen[d]
      BY <1>3, <1>4 DEF FinderOk, Finding
    <2>2. ASSUME Scan(d) # {}, x.seen[d] = {Scan(d)}, d \notin DOMAIN read
          PROVE  \E k \in Nat : k <= since /\ Anchored(d, Scan(d), k)' /\ Reached(k)'
      <3>1. db.docs[d].seq <= since /\ db.docs[d].seq \in Nat
        BY <1>1, <1>2, <1>8, <2>2 DEF ReadIs
      <3>2. Ahead(t, d, Scan(d))
        BY <1>3, <1>4, <2>2 DEF FinderOk, Finding
      <3>3. Reached(db.docs[d].seq)
        BY <1>1, <1>3, <3>1, <3>2 DEF Ahead, TaskAt
      <3>4. Anchored(d, Scan(d), db.docs[d].seq)
        BY <1>7, <2>2 DEF MangoInv, IndexOk
      <3>5. Scan(d)' = Scan(d)
        BY SameDb
      <3> QED
        BY <1>10, <2>2, <3>1, <3>3, <3>4, <3>5 DEF AnchorsHold
    <2> QED
      BY <2>1, <2>2
  <1>13. index' \in IndexType /\ (~destroying => index'.lastSeq <= db.updateSeq)
    BY <1>1, <1>3 DEF MangoInv, MangoTyped, IndexOk
  <1> QED
    BY <1>3, <1>5, <1>10, <1>11, <1>12, <1>13, StepKeeps

LEMMA BuildIndexKeeps ==
  ASSUME MangoInv, db' = db, NEW t \in Creator, BuildIndex(t)
  PROVE  MangoInv'
  <1> SUFFICES ASSUME NEW read, read = ReadDocs(0), NEW upTo, upTo = ReadUpTo(0)
               PROVE  MangoInv'
    OBVIOUS
  <1> DEFINE x == [task[t] EXCEPT !.pc = "insert", !.read = read, !.upTo = upTo]
  <1>1. MangoTyped /\ DbOk(db) /\ task[t] \in TaskType /\ t \in DOMAIN task
    BY DEF MangoInv, MangoTyped
  <1>2. ReadIs(0, read, upTo) /\ read \in Reads
    BY <1>1, ReadsAre, ReadsTyped
  <1>3. task[t].pc = "build" /\ TaskOk(t) /\ UNCHANGED <<index, destroying>>
    BY <1>1 DEF BuildIndex, TaskAt, MangoInv
  <1>4. /\ x \in TaskType /\ x.pc = "insert" /\ x.since = task[t].since /\ x.read = read
        /\ x.upTo = upTo /\ x.missed = task[t].missed
    BY <1>1, <1>2 DEF TaskType, Building, ReadIs
  <1>5. Moved(t, x)
    BY <1>4 DEF BuildIndex, Moved
  <1> HIDE DEF x
  <1>6. task'[t] = x
    BY <1>1, <1>5, MovedIs
  <1>7. upTo <= db.updateSeq
    BY <1>1, <1>2 DEF ReadIs, DbOk, DbType
  <1>8. Hands(x)
    <2> SUFFICES ASSUME NEW d \in Doc, NEW k \in Nat, Scan(d) # {}, Anchored(d, Scan(d), k)
                 PROVE  /\ index.exists /\ k <= index.lastSeq => index.entries[d] = Scan(d)
                        /\ AppliedTo(NoScan, read)[d] = Scan(d)
                        /\ Reached(k) => (index.exists => k <= index.lastSeq)
                        /\ k <= upTo
      BY <1>3, <1>4 DEF Hands
    <2>1. Exists(db, d) /\ db.docs[d].seq > 0 /\ db.docs[d].seq \in Nat
      BY <1>1, DocFields DEF DbOk, SeqsOk, Scan
    <2>2. d \in DOMAIN read /\ read[d] = Scan(d) /\ db.docs[d].seq <= upTo /\ upTo \in Nat
      BY <1>2, <2>1 DEF ReadIs
    <2>3. NoScan \in [Doc -> Value]
      BY DEF NoScan, Value
    <2>4. AppliedTo(NoScan, read)[d] = Scan(d)
      BY <1>2, <2>2, <2>3, AppliedIs
    <2>5. k <= upTo
      BY <2>1, <2>2 DEF Anchored
    <2> QED
      BY <2>4, <2>5 DEF Anchored, Reached
  <1>9. AnchorsHold
    BY <1>5, <1>8, MovedHolds
  <1>10. TaskOk(t)' /\ FinderOk(t)'
    BY <1>3, <1>4, <1>6, <1>7 DEF TaskOk, FinderOk, Calling, TaskAt, Finding, Building
  <1>11. index' \in IndexType /\ (~destroying => index'.lastSeq <= db.updateSeq)
    BY <1>1, <1>3 DEF MangoInv, MangoTyped, IndexOk
  <1> QED
    BY <1>3, <1>5, <1>9, <1>10, <1>11, StepKeeps

LEMMA InsertIndexKeeps ==
  ASSUME MangoInv, OneCreator, db' = db, NEW t \in Creator, InsertIndex(t)
  PROVE  MangoInv'
  <1> DEFINE entries == AppliedTo(NoScan, task[t].read)
             new == [exists |-> TRUE, entries |-> entries, lastSeq |-> task[t].upTo]
  <1>1. MangoTyped /\ DbOk(db) /\ task[t] \in TaskType /\ t \in DOMAIN task
    BY DEF MangoInv, MangoTyped
  <1>2. task[t].pc = "insert" /\ TaskOk(t) /\ UNCHANGED destroying
    BY <1>1 DEF InsertIndex, TaskAt, MangoInv
  <1>3. ~index.exists
    BY <1>2 DEF TaskOk, Building
  <1>4. entries \in [Doc -> Value]
    <2>1. NoScan \in [Doc -> Value]
      BY DEF NoScan, Value
    <2> QED
      BY <1>1, <2>1, AppliedIs DEF TaskType
  <1> HIDE DEF entries
  <1>5. index' = new
    BY <1>3 DEF InsertIndex, entries
  <1>6. /\ index' \in IndexType /\ index'.exists /\ index'.entries = entries
        /\ index'.lastSeq = task[t].upTo
    BY <1>1, <1>4, <1>5 DEF IndexType, TaskType
  <1>7. Moved(t, NoCall) /\ task'[t] = NoCall /\ NoCall.pc = "idle"
    BY <1>1, NoCallIs DEF InsertIndex, Moved, MangoTyped, NoCall
  <1>8. Hands(NoCall)
    <2> SUFFICES ASSUME NEW d \in Doc, NEW k \in Nat, Anchored(d, Scan(d), k)
                 PROVE  /\ k <= task[t].upTo => entries[d] = Scan(d)
                        /\ Reached(k) => k <= task[t].upTo
      BY <1>6, <1>7 DEF Hands
    <2> QED
      BY <1>1, <1>2 DEF Anchored, Reached, TaskAt, entries
  <1>9. AnchorsHold
    BY <1>7, <1>8, MovedHolds
  <1>10. TaskOk(t)' /\ FinderOk(t)'
    BY <1>7, EndedOk
  <1>11. index'.lastSeq <= db.updateSeq
    BY <1>2, <1>6 DEF TaskOk, Calling, TaskAt
  <1>12. \A u \in DOMAIN task \ {t} : task[u].pc \notin Building
    BY DEF MangoInv, TaskOk, OneCreator
  <1> QED
    BY <1>2, <1>6, <1>7, <1>9, <1>10, <1>11, <1>12, StepKeeps

\* A find that returns what the entries give misses nothing if they have every
\* document that was there, unchanged, all the time.
LEMMA FoundNothingMissed ==
  ASSUME MangoInv, NEW t \in Finder, TaskAt(t, "apply"), NEW entries, Found(t, entries),
         \A d \in Doc : Scan(d) # {} /\ task[t].seen[d] = {Scan(d)} => entries[d] = Scan(d)
  PROVE  Moved(t, NoCall) /\ task'[t] = NoCall /\ NoCall.pc = "idle"
  <1> DEFINE M == {d \in Doc : \E r \in Rev : task[t].seen[d] = {{r}} /\ entries[d] # {r}}
  <1>1. t \in DOMAIN task /\ task[t].pc \in Finding /\ FinderOk(t)
    BY DEF MangoInv, MangoTyped, TaskAt, Finding
  <1>2. M = {}
    <2> SUFFICES ASSUME NEW d \in Doc, NEW r \in Rev, task[t].seen[d] = {{r}}
                 PROVE  entries[d] = {r}
      OBVIOUS
    <2>1. Scan(d) \in task[t].seen[d]
      BY <1>1 DEF FinderOk
    <2> QED
      BY <2>1
  <1> HIDE DEF M
  <1>3. [NoCall EXCEPT !.missed = {}] = NoCall
    <2>1. NoCall \in TaskType /\ NoCall.missed = {}
      BY NoCallIs DEF NoCall
    <2>2. \A c \in TaskType : c.missed = {} => [c EXCEPT !.missed = {}] = c
      BY DEF TaskType
    <2> QED
      BY <2>1, <2>2
  <1>4. task' = [task EXCEPT ![t] = NoCall]
    BY <1>2, <1>3 DEF Found, M
  <1> QED
    BY <1>1, <1>4, NoCallIs DEF Moved, MangoInv, MangoTyped, NoCall

\* The index has what an answer does not list.
LEMMA IndexHas ==
  ASSUME MangoInv, NEW t \in Finder, TaskAt(t, "apply"), index.exists, NEW d \in Doc,
         Scan(d) # {}, task[t].seen[d] = {Scan(d)}
  PROVE  IF d \in DOMAIN task[t].read THEN task[t].read[d] = Scan(d)
                                      ELSE index.entries[d] = Scan(d)
  <1>1. t \in DOMAIN task /\ task[t].pc \in Finding
    BY DEF MangoInv, MangoTyped, TaskAt, Finding
  <1>2. Ahead(t, d, Scan(d))
    BY <1>1 DEF MangoInv, FinderOk
  <1> QED
    BY <1>2 DEF Ahead, Anchored, Reached

LEMMA FindUnchangedKeeps ==
  ASSUME MangoInv, db' = db, NEW t \in Finder, FindUnchanged(t)
  PROVE  MangoInv'
  <1>1. TaskAt(t, "apply") /\ index.exists /\ DOMAIN task[t].read = {} /\ Found(t, index.entries)
    BY DEF FindUnchanged
  <1>2. \A d \in Doc : Scan(d) # {} /\ task[t].seen[d] = {Scan(d)} => index.entries[d] = Scan(d)
    BY <1>1, IndexHas
  <1>3. Moved(t, NoCall) /\ task'[t] = NoCall /\ NoCall.pc = "idle"
    BY <1>1, <1>2, FoundNothingMissed
  <1>4. TaskOk(t)' /\ FinderOk(t)'
    BY <1>3, EndedOk
  <1> QED
    BY <1>3, <1>4, CalmKeeps DEF FindUnchanged

LEMMA FindChangedKeeps ==
  ASSUME MangoInv, db' = db, NEW t \in Finder, FindChanged(t)
  PROVE  MangoInv'
  <1>1. MangoTyped /\ DbOk(db) /\ task[t] \in TaskType /\ t \in DOMAIN task
    BY DEF MangoInv, MangoTyped
  <1>2. task[t].pc = "apply" /\ TaskOk(t) /\ FinderOk(t) /\ index.exists /\ UNCHANGED destroying
    BY <1>1 DEF FindChanged, TaskAt, MangoInv
  <1>3. CASE StillCurrent(t)
    <2> SUFFICES ASSUME NEW entries, entries = AppliedTo(index.entries, task[t].read)
                 PROVE  MangoInv'
      OBVIOUS
    <2>1. /\ entries \in [Doc -> Value]
          /\ \A d \in Doc : entries[d] = IF d \in DOMAIN task[t].read THEN task[t].read[d]
                                                                      ELSE index.entries[d]
      BY <1>1, AppliedIs DEF MangoTyped, IndexType, TaskType
    <2>2. index' = [index EXCEPT !.entries = entries, !.lastSeq = task[t].upTo] /\ Found(t, entries)
      BY <1>3 DEF FindChanged
    <2>3. /\ index' \in IndexType /\ index'.exists /\ index'.entries = entries
          /\ index'.lastSeq = task[t].upTo
      BY <1>1, <1>2, <2>1, <2>2 DEF MangoTyped, IndexType, TaskType
    <2>4. \A d \in Doc : Scan(d) # {} /\ task[t].seen[d] = {Scan(d)} => entries[d] = Scan(d)
      BY <1>2, <2>1, IndexHas DEF TaskAt
    <2>5. Moved(t, NoCall) /\ task'[t] = NoCall /\ NoCall.pc = "idle"
      BY <1>2, <2>2, <2>4, FoundNothingMissed DEF TaskAt
    <2>6. index.lastSeq = task[t].since /\ index.lastSeq \in Nat /\ task[t].upTo \in Nat
      BY <1>1, <1>3 DEF StillCurrent, MangoTyped, IndexType, TaskType
    <2>7. task[t].since <= task[t].upTo
      BY <1>2 DEF TaskOk, TaskAt
    <2>8. Hands(NoCall)
      <3> SUFFICES ASSUME NEW d \in Doc, NEW k \in Nat, Scan(d) # {}, Anchored(d, Scan(d), k)
                   PROVE  /\ k <= task[t].upTo => entries[d] = Scan(d)
                          /\ Reached(k) => k <= task[t].upTo
        BY <2>3, <2>5 DEF Hands, NoCall
      <3>1. k <= task[t].upTo =>
              IF d \in DOMAIN task[t].read THEN task[t].read[d] = Scan(d) ELSE k <= task[t].since
        BY <1>1, <1>2 DEF Anchored, TaskAt
      <3>2. k <= index.lastSeq => index.entries[d] = Scan(d)
        BY <1>2 DEF Anchored
      <3>3. Reached(k) => k <= index.lastSeq
        BY <1>2 DEF Reached
      <3> QED
        BY <2>1, <2>6, <2>7, <3>1, <3>2, <3>3
    <2>9. AnchorsHold
      BY <2>5, <2>8, MovedHolds
    <2>10. TaskOk(t)' /\ FinderOk(t)'
      BY <2>5, EndedOk
    <2>11. index'.lastSeq <= db.updateSeq
      BY <1>2, <2>3 DEF TaskOk, Calling, TaskAt
    <2> QED
      BY <1>2, <2>3, <2>5, <2>9, <2>10, <2>11, StepKeeps
  <1>4. CASE ~StillCurrent(t)
    <2> DEFINE x == [task[t] EXCEPT !.pc = "again"]
    <2>1. /\ x \in TaskType /\ x.pc = "again" /\ x.since = task[t].since /\ x.upTo = task[t].upTo
          /\ x.missed = task[t].missed /\ x.seen = task[t].seen
      BY <1>1 DEF TaskType, Finding
    <2>2. Moved(t, x) /\ index' = index
      BY <1>4, <2>1 DEF FindChanged, Moved
    <2> HIDE DEF x
    <2>3. task'[t] = x
      BY <1>1, <2>2, MovedIs
    <2>4. TaskOk(t)'
      BY <1>2, <2>1, <2>2, <2>3 DEF TaskOk, Calling, TaskAt, Finding, Building
    <2>5. FinderOk(t)'
      BY <1>2, <2>1, <2>3, SameDb DEF FinderOk, Ahead, TaskAt, Finding
    <2> QED
      BY <1>2, <2>1, <2>2, <2>4, <2>5, CalmKeeps
  <1> QED
    BY <1>3, <1>4

----------------------------------------------------------------------------
(* The other steps *)

LEMMA RemovedKeeps ==
  ASSUME MangoInv, db' = db, DeleteIndex \/ ClearIndexes
  PROVE  MangoInv'
  <1>1. MangoTyped
    BY DEF MangoInv
  <1>2. index' = NoIndex /\ index' \in IndexType /\ ~index'.exists /\ index'.lastSeq = 0 /\ task' = task
    <2>1. NoIndex.exists = FALSE /\ NoIndex.lastSeq = 0
      BY DEF NoIndex
    <2> QED
      BY <2>1, NoIndexIs DEF DeleteIndex, ClearIndexes
  <1>3. Later /\ DbOk(db')
    BY <1>1, LaterSelf DEF MangoTyped
  <1>4. MangoTyped'
    BY <1>1, <1>2, <1>3 DEF MangoTyped, DeleteIndex, ClearIndexes
  <1>5. Calm
    BY <1>2 DEF Calm
  <1>6. AnchorsHold
    BY <1>3, <1>5, CalmHolds
  <1>7. IndexOk'
    <2>1. CASE DeleteIndex
      BY <1>2, <1>3, <1>4, <1>5, <2>1, CalmIndex DEF DeleteIndex
    <2>2. CASE ClearIndexes
      <3>1. \A t \in DOMAIN task : ~Calling(t)
        BY <2>2 DEF ClearIndexes, MangoInv, TaskOk
      <3>2. ASSUME NEW d \in Doc, Scan(d)' # {}
            PROVE  Anchored(d, Scan(d), db.docs[d].seq)'
        <4>1. Exists(db, d)
          BY <3>2, SameDb DEF Scan
        <4>2. db.docs[d].seq <= db.updateSeq /\ db.docs[d].seq \in Nat
          BY <1>1, <4>1, DocFields DEF MangoTyped, DbOk, SeqsOk
        <4> QED
          BY <1>2, <3>1, <4>2 DEF Anchored, Calling, TaskAt
      <3>3. db.updateSeq \in Nat
        BY <1>1 DEF MangoTyped, DbOk, DbType
      <3> QED
        BY <1>2, <3>2, <3>3 DEF IndexOk
    <2> QED
      BY <2>1, <2>2
  <1>8. ASSUME NEW t \in DOMAIN task
        PROVE  TaskOk(t)' /\ FinderOk(t)'
    <2>1. TaskOk(t) /\ FinderOk(t)
      BY <1>8 DEF MangoInv
    <2>2. Calling(t) => ~destroying'
      BY <2>1 DEF TaskOk, DeleteIndex, ClearIndexes
    <2>3. TaskOk(t)'
      BY <1>2, <2>1, <2>2 DEF TaskOk, Calling, TaskAt
    <2>4. task[t].pc \in Finding => ~destroying
      BY <2>1 DEF TaskOk, Calling, TaskAt, Finding
    <2>5. ASSUME task[t].pc \in Finding, NEW d \in Doc
          PROVE  task[t].seen[d] \union {Scan(d)'} = task'[t].seen[d]
      BY <1>2, <2>1, <2>5, SameDb DEF FinderOk
    <2> QED
      BY <1>2, <1>3, <1>6, <2>3, <2>4, <2>5, FinderStays
  <1> QED
    BY <1>2, <1>4, <1>7, <1>8 DEF MangoInv

\* What MangoSees does to a call.
LEMMA SeesIs ==
  ASSUME MangoTyped, DbOk(db'), MangoSees
  PROVE  /\ task' \in [Finder \union Creator -> TaskType]
         /\ DOMAIN task' = DOMAIN task /\ DOMAIN task = Finder \union Creator
         /\ \A t \in DOMAIN task :
              /\ task'[t].pc = task[t].pc /\ task'[t].since = task[t].since
              /\ task'[t].read = task[t].read /\ task'[t].upTo = task[t].upTo
              /\ task'[t].missed = task[t].missed
              /\ t \in Finder /\ Calling(t) =>
                   \A d \in Doc : task'[t].seen[d] = task[t].seen[d] \union {Scan(d)'}
              /\ ~(t \in Finder /\ Calling(t)) => task'[t] = task[t]
  <1> DEFINE F(t) == IF t \in Finder /\ Calling(t)
                       THEN [task[t] EXCEPT !.seen = [d \in Doc |-> @[d] \union {Scan(d)'}]]
                       ELSE task[t]
  <1>1. DOMAIN task = Finder \union Creator /\ \A t \in DOMAIN task : task[t] \in TaskType
    BY DEF MangoTyped
  <1>2. task' = [t \in DOMAIN task |-> F(t)]
    BY DEF MangoSees
  <1>3. ASSUME NEW t \in DOMAIN task
        PROVE  /\ F(t) \in TaskType
               /\ F(t).pc = task[t].pc /\ F(t).since = task[t].since
               /\ F(t).read = task[t].read /\ F(t).upTo = task[t].upTo
               /\ F(t).missed = task[t].missed
               /\ t \in Finder /\ Calling(t) =>
                    \A d \in Doc : F(t).seen[d] = task[t].seen[d] \union {Scan(d)'}
    <2> DEFINE s == [d \in Doc |-> task[t].seen[d] \union {Scan(d)'}]
    <2>1. \A d \in Doc : Scan(d)' \in Value
      <3>1. ASSUME DbOk(db), NEW d \in Doc
            PROVE  Scan(d) \in Value
        BY <3>1, ScanIs
      <3>2. ASSUME NEW d \in Doc
            PROVE  Scan(d)' \in Value
        <4>1. Nodes(db', d) \in SUBSET (Rev \X Rev)
          BY DocFields DEF DbOk, Nodes
        <4>2. LeafRevs(Nodes(db', d)) \in SUBSET Rev
          BY <4>1 DEF LeafRevs, LeafNodes, RevsOf
        <4> QED
          BY <4>2 DEF Scan, Winner, Value
      <3> QED
        BY <3>2
    <2>2. task[t] \in TaskType /\ task[t].seen \in [Doc -> SUBSET Value]
      BY <1>1 DEF TaskType
    <2>3. s \in [Doc -> SUBSET Value] /\ \A d \in Doc : s[d] = task[t].seen[d] \union {Scan(d)'}
      BY <2>1, <2>2
    <2>4. CASE t \in Finder /\ Calling(t)
      <3>1. F(t) = [task[t] EXCEPT !.seen = s]
        BY <2>4
      <3> HIDE DEF s, F
      <3> QED
        BY <2>2, <2>3, <3>1 DEF TaskType
    <2>5. CASE ~(t \in Finder /\ Calling(t))
      BY <2>2, <2>5
    <2> QED
      BY <2>4, <2>5
  <1>4. \A t \in DOMAIN task : ~(t \in Finder /\ Calling(t)) => F(t) = task[t]
    OBVIOUS
  <1> HIDE DEF F
  <1> QED
    BY <1>1, <1>2, <1>3, <1>4

LEMMA WritesKeep ==
  ASSUME MangoInv, Writes, MangoSees, UNCHANGED <<index, destroying>>
  PROVE  MangoInv'
  <1>1. MangoTyped /\ DbOk(db) /\ db.updateSeq \in Nat
    BY DEF MangoInv, MangoTyped, DbOk, DbType
  <1>2. DbOk(db') /\ Later
    BY <1>1, WritesAre
  <1>3. /\ task' \in [Finder \union Creator -> TaskType]
        /\ DOMAIN task' = DOMAIN task /\ DOMAIN task = Finder \union Creator
    BY <1>1, <1>2, SeesIs
  <1>4. \A t \in DOMAIN task :
          /\ task'[t].pc = task[t].pc /\ task'[t].since = task[t].since
          /\ task'[t].read = task[t].read /\ task'[t].upTo = task[t].upTo
          /\ task'[t].missed = task[t].missed
          /\ t \in Finder /\ Calling(t) =>
               \A d \in Doc : task'[t].seen[d] = task[t].seen[d] \union {Scan(d)'}
    BY <1>1, <1>2, SeesIs
  <1>5. MangoTyped'
    BY <1>1, <1>2, <1>3 DEF MangoTyped
  <1>6. Calm
    BY <1>3, <1>4 DEF Calm
  <1>7. AnchorsHold
    BY <1>2, <1>6, CalmHolds
  <1>8. IndexOk'
    <2>1. db'.updateSeq \in Nat /\ db.updateSeq <= db'.updateSeq
      BY <1>2 DEF DbOk, DbType, Later
    <2>2. index.lastSeq \in Nat /\ ~destroying => index'.lastSeq <= db.updateSeq
      BY <1>1 DEF MangoTyped, IndexType, MangoInv, IndexOk
    <2>3. ~destroying => index'.lastSeq <= db'.updateSeq
      BY <1>1, <2>1 DEF MangoTyped, IndexType, MangoInv, IndexOk
    <2>4. ASSUME NEW d \in Doc, ~destroying, Scan(d)' # {}, db'.docs[d].seq > db.updateSeq
          PROVE  Anchored(d, Scan(d), db.docs[d].seq)'
      <3>1. db'.docs[d].seq <= db'.updateSeq /\ db'.docs[d].seq \in Nat
        BY <1>2, <2>4, DocFields DEF DbOk, SeqsOk, Scan
      <3>2. ~(db'.docs[d].seq <= index'.lastSeq)
        BY <1>1, <2>4, <3>1 DEF MangoTyped, IndexType, MangoInv, IndexOk
      <3>3. ASSUME NEW t \in DOMAIN task, task'[t].pc \in {"insert", "apply"}
            PROVE  ~(db'.docs[d].seq <= task'[t].upTo)
        <4>1. task[t].pc = task'[t].pc /\ task'[t].upTo = task[t].upTo
          BY <1>4
        <4>2. task[t].upTo <= db.updateSeq
          BY <3>3, <4>1 DEF MangoInv, TaskOk, Calling, TaskAt
        <4>3. task[t].upTo \in Nat
          BY <1>1 DEF MangoTyped, TaskType
        <4> QED
          BY <1>1, <2>4, <3>1, <4>1, <4>2, <4>3
      <3> QED
        BY <1>3, <3>1, <3>2, <3>3 DEF Anchored, TaskAt
    <2> QED
      BY <1>2, <1>3, <1>5, <1>7, <2>3, <2>4, IndexStays
  <1>9. ASSUME NEW t \in DOMAIN task
        PROVE  TaskOk(t)' /\ FinderOk(t)'
    <2>1. TaskOk(t) /\ FinderOk(t)
      BY <1>9 DEF MangoInv
    <2>2. /\ db'.updateSeq \in Nat /\ db.updateSeq <= db'.updateSeq
          /\ task[t].since \in Nat /\ task[t].upTo \in Nat
      BY <1>1, <1>2 DEF DbOk, DbType, Later, MangoTyped, TaskType
    <2>3. TaskOk(t)'
      BY <1>1, <1>4, <2>1, <2>2 DEF TaskOk, Calling, TaskAt
    <2>4. task[t].pc \in Finding => t \in Finder /\ Calling(t) /\ ~destroying
      BY <2>1 DEF TaskOk, Calling, TaskAt, Finding
    <2>5. task[t].pc \in Finding =>
            \A d \in Doc : task[t].seen[d] \union {Scan(d)'} = task'[t].seen[d]
      BY <1>4, <2>4
    <2>6. task'[t].pc = task[t].pc /\ task'[t].since = task[t].since /\ task'[t].read = task[t].read
      BY <1>4
    <2>7. task[t].pc \in Finding => ~destroying
      BY <2>4
    <2>8. FinderOk(t)'
      BY <1>2, <1>3, <1>7, <2>5, <2>6, <2>7, FinderStays
    <2> QED
      BY <2>3, <2>8
  <1> QED
    BY <1>3, <1>5, <1>8, <1>9 DEF MangoInv

LEMMA DestroyKeeps ==
  ASSUME MangoInv, Overlap = FALSE, DestroyData
  PROVE  MangoInv'
  <1>1. MangoTyped /\ DbOk(db)
    BY DEF MangoInv, MangoTyped
  <1>2. DbOk(db')
    BY <1>1, DestroyIs DEF DestroyData
  <1>3. \A t \in DOMAIN task : ~Calling(t)
    BY DEF DestroyData
  <1>4. /\ task' \in [Finder \union Creator -> TaskType] /\ DOMAIN task' = DOMAIN task
        /\ \A t \in DOMAIN task : task'[t] = task[t]
    BY <1>1, <1>2, <1>3, SeesIs DEF DestroyData
  <1>5. MangoTyped' /\ destroying'
    BY <1>1, <1>2, <1>4 DEF MangoTyped, DestroyData
  <1>6. IndexOk'
    BY <1>5 DEF IndexOk
  <1>7. ASSUME NEW t \in DOMAIN task
        PROVE  TaskOk(t)' /\ FinderOk(t)'
    BY <1>3, <1>4 DEF MangoInv, TaskOk, FinderOk, Calling, TaskAt, Finding, Building, DestroyData
  <1> QED
    BY <1>4, <1>5, <1>6, <1>7 DEF MangoInv

----------------------------------------------------------------------------
(* With a view there is no Mango index. *)
FindInv ==
  /\ kind \in {"view", "mango"}
  /\ IF kind = "mango"
       THEN MangoInv
       ELSE \A t \in Finder : task[t].missed = {}

LEMMA FindInvInit ==
  ASSUME Init
  PROVE  FindInv
  <1>1. db = EmptyDb(0) /\ DbOk(db)
    BY EmptyDbOk DEF Init, Unused
  <1>2. /\ index = NoIndex /\ destroying = FALSE
        /\ task = [t \in Finder \union Creator |-> NoCall]
    BY DEF Init, Unused, MangoInit
  <1>3. NoCall \in TaskType /\ NoIndex \in IndexType
    BY NoCallIs, NoIndexIs
  <1>4. \A t \in DOMAIN task : task[t] = NoCall
    BY <1>2
  <1>5. MangoTyped
    BY <1>1, <1>2, <1>3 DEF MangoTyped
  <1>6. IndexOk
    <2>1. \A d \in Doc : ~Exists(db, d)
      BY <1>1 DEF Exists, EmptyDb, NoDoc, EmptyTree
    <2>2. \A d \in Doc : Scan(d) = {}
      BY <2>1 DEF Scan
    <2>3. index.lastSeq = 0 /\ db.updateSeq = 0
      BY <1>1, <1>2 DEF NoIndex, EmptyDb
    <2> QED
      BY <2>2, <2>3 DEF IndexOk
  <1>7. \A t \in DOMAIN task : TaskOk(t) /\ FinderOk(t)
    BY <1>4 DEF TaskOk, FinderOk, NoCall, Calling, TaskAt, Finding, Building
  <1>8. kind \in {"view", "mango"}
    BY DEF Init
  <1>9. \A t \in Finder : task[t].missed = {}
    BY <1>2, <1>7 DEF TaskOk
  <1> QED
    BY <1>5, <1>6, <1>7, <1>8, <1>9 DEF FindInv, MangoInv

LEMMA FindInvNext ==
  ASSUME FindInv, OneCreator, Overlap = FALSE, [Next]_indexVars
  PROVE  FindInv'
  <1>1. CASE UNCHANGED <<mangoVars, kind>> /\ kind = "view"
    BY <1>1 DEF FindInv, mangoVars
  <1>2. CASE WithMango /\ UNCHANGED kind
    <2>1. MangoInv /\ kind' = "mango"
      BY <1>2 DEF FindInv, WithMango
    <2>2. MangoInv'
      <3>1. CASE Writes /\ MangoSees /\ UNCHANGED <<index, destroying>>
        BY <2>1, <3>1, WritesKeep
      <3>2. CASE DestroyData
        BY <2>1, <3>2, DestroyKeeps
      <3>3. CASE MangoStep /\ UNCHANGED db
        <4>1. ASSUME NEW t \in Finder, StartFind(t)
              PROVE  MangoInv'
          BY <2>1, <3>3, <4>1, StartFindKeeps
        <4>2. ASSUME NEW t \in Finder, FindAgain(t)
              PROVE  MangoInv'
          BY <2>1, <3>3, <4>2, FindAgainKeeps
        <4>3. ASSUME NEW t \in Finder, ReadChanges(t)
              PROVE  MangoInv'
          BY <2>1, <3>3, <4>3, ReadChangesKeeps
        <4>4. ASSUME NEW t \in Finder, FindScans(t)
              PROVE  MangoInv'
          BY <2>1, <3>3, <4>4, FindScansKeeps
        <4>5. ASSUME NEW t \in Finder, FindUnchanged(t)
              PROVE  MangoInv'
          BY <2>1, <3>3, <4>5, FindUnchangedKeeps
        <4>6. ASSUME NEW t \in Finder, FindChanged(t)
              PROVE  MangoInv'
          BY <2>1, <3>3, <4>6, FindChangedKeeps
        <4>7. ASSUME NEW t \in Creator, StartCreate(t)
              PROVE  MangoInv'
          BY <2>1, <3>3, <4>7, StartCreateKeeps
        <4>8. ASSUME NEW t \in Creator, BuildIndex(t)
              PROVE  MangoInv'
          BY <2>1, <3>3, <4>8, BuildIndexKeeps
        <4>9. ASSUME NEW t \in Creator, InsertIndex(t)
              PROVE  MangoInv'
          BY <2>1, <3>3, <4>9, InsertIndexKeeps
        <4>10. ASSUME DeleteIndex \/ ClearIndexes
               PROVE  MangoInv'
          BY <2>1, <3>3, <4>10, RemovedKeeps
        <4> QED
          BY <3>3, <4>1, <4>2, <4>3, <4>4, <4>5, <4>6, <4>7, <4>8, <4>9, <4>10 DEF MangoStep
      <3> QED
        BY <1>2, <3>1, <3>2, <3>3 DEF WithMango
    <2> QED
      BY <2>1, <2>2 DEF FindInv
  <1>3. CASE UNCHANGED indexVars
    <2>1. /\ db' = db /\ index' = index /\ task' = task
          /\ destroying' = destroying /\ kind' = kind
      BY <1>3 DEF indexVars, mangoVars
    <2>2. \A d \in Doc : Scan(d)' = Scan(d)
      BY <2>1, SameDb
    <2>3. ASSUME NEW d \in Doc, NEW v, NEW k
          PROVE  /\ Anchored(d, v, k)' <=> Anchored(d, v, k)
                 /\ Reached(k)' <=> Reached(k)
      BY <2>1 DEF Anchored, Reached, AppliedTo, NoScan, TaskAt
    <2>4. ASSUME NEW t, NEW d \in Doc
          PROVE  Ahead(t, d, Scan(d))' <=> Ahead(t, d, Scan(d))
      BY <2>1, <2>2, <2>3 DEF Ahead, TaskAt
    <2>5. MangoTyped' <=> MangoTyped
      BY <2>1 DEF MangoTyped
    <2>6. IndexOk' <=> IndexOk
      BY <2>1, <2>2, <2>3 DEF IndexOk
    <2>7. ASSUME NEW t
          PROVE  (TaskOk(t)' <=> TaskOk(t)) /\ (FinderOk(t)' <=> FinderOk(t))
      BY <2>1, <2>2, <2>4 DEF TaskOk, FinderOk, Calling, TaskAt
    <2>8. MangoInv' <=> MangoInv
      BY <2>1, <2>5, <2>6, <2>7 DEF MangoInv
    <2> QED
      BY <2>1, <2>8 DEF FindInv
  <1> QED
    BY <1>1, <1>2, <1>3 DEF Next, WithView

\* A find with an index misses no document that was there, unchanged, as long
\* as it lasted, whatever the other finds, the writes, the purges and the index
\* calls did meanwhile (Database::find and index_candidates, lib.rs).  Two
\* conditions are needed: destroy overlaps no other call, and no two calls
\* create the index at once.
THEOREM FindMissesNothing ==
  ASSUME Overlap = FALSE, OneCreator
  PROVE  Spec => []FindComplete
  <1>1. Init => FindInv
    BY FindInvInit
  <1>2. FindInv /\ [Next]_indexVars => FindInv'
    BY FindInvNext
  <1>3. FindInv => FindComplete
    <2> SUFFICES ASSUME FindInv, NEW t \in Finder
                 PROVE  task[t].missed = {}
      BY DEF FindComplete
    <2> QED
      BY DEF FindInv, MangoInv, MangoTyped, TaskOk
  <1> QED
    BY <1>1, <1>2, <1>3, PTL DEF Spec

----------------------------------------------------------------------------
(* A view *)

LastType ==
  [seq : Nat, id : Doc \union {0}, rev : {Best(R) : R \in SUBSET Rev} \union {0}]

ViewType ==
  [pc : {"idle", "catch_up", "settle", "rebuild", "baseline"}, exists : BOOLEAN,
   rows : [Doc -> Value], sorted : SUBSET [Doc -> Value], lastSeq : Nat, last : LastType,
   baseline : Int, count : Nat, seq : Nat, seen : [Doc -> SUBSET Value], quiet : BOOLEAN,
   began : Nat \union {NoDatabase}, uuid : Nat \union {NoDatabase}, wrong : SUBSET Doc]

\* The fields of w that are not about the rows are v's.
SameUpdate(v, w) ==
  /\ w.pc = v.pc /\ w.exists = v.exists /\ w.baseline = v.baseline /\ w.count = v.count
  /\ w.seq = v.seq /\ w.seen = v.seen /\ w.quiet = v.quiet /\ w.began = v.began
  /\ w.uuid = v.uuid /\ w.wrong = v.wrong

\* Those that are about the rows are.
SameRows(v, w) ==
  /\ w.rows = v.rows /\ w.sorted = v.sorted /\ w.lastSeq = v.lastSeq /\ w.last = v.last

\* w is v with other rows.
Rerowed(v, w, a, b, e) ==
  w \in ViewType /\ SameUpdate(v, w) /\ w.rows = a /\ w.sorted = b /\ w.lastSeq = e

LEMMA RerowedIs ==
  ASSUME NEW v \in ViewType, NEW a \in [Doc -> Value], NEW b \in SUBSET [Doc -> Value],
         NEW c \in LastType, NEW e \in Nat,
         NEW w, w = [v EXCEPT !.rows = a, !.sorted = b, !.last = c, !.lastSeq = e]
  PROVE  Rerowed(v, w, a, b, e)
  <1>1. w \in ViewType
    BY DEF ViewType
  <1>2. SameUpdate(v, w)
    BY DEF ViewType, SameUpdate
  <1>3. w.rows = a /\ w.sorted = b /\ w.lastSeq = e
    BY DEF ViewType
  <1> QED
    BY <1>1, <1>2, <1>3 DEF Rerowed

LEMMA NoRows == NoScan \in [Doc -> Value] /\ NoChange \in LastType /\ {} \in SUBSET [Doc -> Value]
  BY DEF NoScan, Value, NoChange, LastType

\* reset
LEMMA ResetIs ==
  ASSUME NEW v \in ViewType
  PROVE  Rerowed(v, Reset(v), NoScan, {}, 0)
  <1>1. Reset(v) = [v EXCEPT !.rows = NoScan, !.sorted = {}, !.last = NoChange, !.lastSeq = 0]
    BY DEF Reset, ViewType
  <1> QED
    BY <1>1, NoRows, RerowedIs

\* apply_changes: a document that is due has the row that a scan finds, and no
\* document is beyond where it has read to.
LEMMA AppliedView ==
  ASSUME DbOk(db), NEW v \in ViewType, v.sorted \subseteq {v.rows},
         NEW w, w = Applied(v)
  PROVE  \E a \in [Doc -> Value], b \in SUBSET [Doc -> Value], e \in Nat :
           /\ Rerowed(v, w, a, b, e)
           /\ b \subseteq {a}
           /\ \A d \in Doc : a[d] = IF Exists(db, d) /\ db.docs[d].seq > Since(v) THEN Scan(d)
                                                                               ELSE v.rows[d]
           /\ Since(v) <= v.lastSeq
           /\ v.lastSeq <= db.updateSeq => e <= db.updateSeq
           /\ \A d \in Doc : Exists(db, d) => db.docs[d].seq <= e
  <1> SUFFICES ASSUME NEW since, since = Since(v), NEW events, events = Events(since),
                      NEW read, read = ReadDocs(since), NEW upTo, upTo = ReadUpTo(since)
               PROVE  \E a \in [Doc -> Value], b \in SUBSET [Doc -> Value], e \in Nat :
                        /\ Rerowed(v, w, a, b, e)
                        /\ b \subseteq {a}
                        /\ \A d \in Doc : a[d] = IF Exists(db, d) /\ db.docs[d].seq > since THEN Scan(d)
                                                                                        ELSE v.rows[d]
                        /\ since <= v.lastSeq
                        /\ v.lastSeq <= db.updateSeq => e <= db.updateSeq
                        /\ \A d \in Doc : Exists(db, d) => db.docs[d].seq <= e
    OBVIOUS
  <1>1. v.lastSeq \in Nat /\ v.rows \in [Doc -> Value] /\ v.last \in LastType
        /\ v.sorted \in SUBSET [Doc -> Value]
    BY DEF ViewType
  <1>2. since \in Nat /\ since <= v.lastSeq
    BY <1>1 DEF Since
  <1>3. ReadIs(since, read, upTo) /\ read \in Reads
    BY <1>2, ReadsAre, ReadsTyped
  <1> DEFINE a == [d \in Doc |-> IF d \in DOMAIN read THEN read[d] ELSE v.rows[d]]
             b == IF events = {} THEN v.sorted ELSE {}
             newest == CHOOSE c \in events : \A x \in events : x.seq <= c.seq
             l == IF events = {} THEN v.last ELSE ChangeOf(newest)
  <1>4. w = [v EXCEPT !.rows = a, !.sorted = b, !.last = l, !.lastSeq = upTo]
    BY DEF Applied, ViewType
  <1>5. a \in [Doc -> Value]
    <2>1. PICK D \in SUBSET Doc : read \in [D -> Value]
      BY <1>3 DEF Reads
    <2> QED
      BY <1>1, <2>1
  <1>6. l \in LastType
    <2>1. CASE events = {}
      BY <1>1, <2>1
    <2>2. CASE events # {}
      <3>1. events \in SUBSET db.changes
        BY <1>2, EventsIs
      <3>2. \E c \in events : \A x \in events : x.seq <= c.seq
        BY <2>2, <3>1, FeedSequenced, LastEntry
      <3>3. newest \in events
        BY <3>2
      <3>4. newest.seq \in Nat /\ newest.id \in Doc
        BY <3>1, <3>3 DEF DbOk, DbType
      <3> HIDE DEF newest
      <3>5. LeafRevs(Nodes(db, newest.id)) \in SUBSET Rev
        <4>1. Nodes(db, newest.id) \in SUBSET (Rev \X Rev)
          BY <3>4, DocFields DEF DbOk, Nodes
        <4> QED
          BY <4>1 DEF LeafRevs, LeafNodes, RevsOf
      <3>6. ChangeOf(newest) \in LastType
        BY <3>4, <3>5 DEF ChangeOf, LastType, Winner
      <3> QED
        BY <2>2, <3>6
    <2> QED
      BY <2>1, <2>2
  <1>7. upTo \in Nat
    BY <1>3 DEF ReadIs
  <1>8. events = {} => DOMAIN read = {}
    BY DEF ReadDocs
  <1>9. b \subseteq {a}
    <2>1. CASE events = {}
      <3>1. a = v.rows
        BY <1>1, <1>8, <2>1
      <3> QED
        BY <2>1, <3>1
    <2>2. CASE events # {}
      BY <2>2
    <2> QED
      BY <2>1, <2>2
  <1>10. b \in SUBSET [Doc -> Value]
    BY <1>1
  <1>11. \A d \in Doc : a[d] = IF Exists(db, d) /\ db.docs[d].seq > since THEN Scan(d) ELSE v.rows[d]
    BY <1>3 DEF ReadIs
  <1>12. v.lastSeq <= db.updateSeq => upTo <= db.updateSeq
    BY <1>1, <1>2, <1>3 DEF ReadIs, DbOk, DbType
  <1> HIDE DEF a, b, l
  <1>13. Rerowed(v, w, a, b, upTo)
    BY <1>4, <1>5, <1>6, <1>7, <1>10, RerowedIs
  <1>14. \A d \in Doc : Exists(db, d) => db.docs[d].seq <= upTo
    BY <1>3 DEF ReadIs
  <1> QED
    BY <1>2, <1>5, <1>7, <1>9, <1>10, <1>11, <1>12, <1>13, <1>14

\* The rows are of the database that is there now.
Ours == IF ViewAt("baseline") THEN view.began = db.uuid ELSE view.uuid = db.uuid

\* The rows have every document up to the sequence upTo as it is.
RowsRight(rows, upTo) ==
  /\ upTo <= db.updateSeq
  /\ \A d \in Doc : Exists(db, d) /\ db.docs[d].seq <= upTo => rows[d] = Scan(d)

RowsInv == Ours => RowsRight(view.rows, view.lastSeq)

TimesInv ==
  /\ view.began <= db.uuid /\ view.uuid <= db.uuid
  /\ ViewAt("baseline") => view.uuid = NoDatabase

SeenInv ==
  Updating =>
    /\ \A d \in Doc : Scan(d) \in view.seen[d]
    /\ view.quiet => /\ view.seq = db.updateSeq /\ view.count = DocCount
                     /\ \A d \in Doc : view.seen[d] = {Scan(d)}

\* Documents that have gone without a new sequence leave fewer than info counted.
CountInv ==
  Updating /\ view.began = db.uuid =>
    view.seq <= db.updateSeq /\ (view.seq = db.updateSeq => DocCount <= view.count)

\* Building starts from nothing.
ScratchInv == ViewAt("rebuild") => view.rows = NoScan /\ view.lastSeq = 0

\* Caught up, only a document that was purged meanwhile, or before, is wrong.
SettleInv ==
  ViewAt("settle") /\ view.uuid = db.uuid =>
    \A d \in Doc : /\ view.rows[d] \in view.seen[d] \/ {} \in view.seen[d]
                   /\ view.quiet /\ Exists(db, d) => view.rows[d] = Scan(d)

\* Built from nothing, no document is; and there are no more than info counted,
\* if the counts can be compared.
BaselineInv ==
  ViewAt("baseline") /\ view.began = db.uuid =>
    /\ \A d \in Doc : view.rows[d] \in view.seen[d]
    /\ view.seq = db.updateSeq => Cardinality(Live(view)) <= view.count

\* So a baseline is never negative, and an index with a row too many differs
\* from any baseline.
FreshInv == view.uuid = db.uuid => view.wrong = {} /\ view.baseline >= 0

ViewInv ==
  /\ DbOk(db) /\ view \in ViewType /\ view.sorted \subseteq {view.rows}
  /\ RowsInv /\ TimesInv /\ SeenInv /\ CountInv
  /\ ScratchInv /\ SettleInv /\ BaselineInv /\ FreshInv

ScanDocs == {d \in Doc : Scan(d) # {}}

LEMMA CountsAre ==
  ASSUME NEW v
  PROVE  /\ IsFiniteSet(Live(v)) /\ Cardinality(Live(v)) \in Nat
         /\ IsFiniteSet(ScanDocs) /\ DocCount = Cardinality(ScanDocs) /\ DocCount \in Nat
  <1>1. IsFiniteSet(Doc) /\ Live(v) \in SUBSET Doc /\ ScanDocs \in SUBSET Doc
    BY FeedAssumption DEF Live, ScanDocs
  <1>2. IsFiniteSet(Live(v)) /\ IsFiniteSet(ScanDocs)
    BY <1>1, FS_Subset
  <1>3. DocCount = Cardinality(ScanDocs)
    BY DEF DocCount, ScanDocs
  <1> QED
    BY <1>2, <1>3, FS_CardinalityType

LEMMA ViewTyped ==
  ASSUME ViewInv
  PROVE  /\ view.lastSeq \in Nat /\ view.count \in Nat /\ view.seq \in Nat /\ view.baseline \in Int
         /\ view.rows \in [Doc -> Value] /\ view.seen \in [Doc -> SUBSET Value]
         /\ view.began \in Nat \union {-1} /\ view.uuid \in Nat \union {-1}
         /\ db.updateSeq \in Nat /\ db.uuid \in Nat
         /\ \A d \in Doc : db.docs[d].seq \in Nat
         /\ \A d \in Doc : Exists(db, d) => db.docs[d].seq >= 1 /\ db.docs[d].seq <= db.updateSeq
  <1>1. DbOk(db) /\ view \in ViewType
    BY DEF ViewInv
  <1>2. \A d \in Doc : db.docs[d].seq \in Nat
    BY <1>1, DocFields DEF DbOk
  <1>3. db.updateSeq \in Nat /\ db.uuid \in Nat
    BY <1>1 DEF DbOk, DbType
  <1>4. \A d \in Doc : Exists(db, d) => db.docs[d].seq >= 1 /\ db.docs[d].seq <= db.updateSeq
    BY <1>1 DEF DbOk, SeqsOk
  <1>5. /\ view.lastSeq \in Nat /\ view.count \in Nat /\ view.seq \in Nat /\ view.baseline \in Int
        /\ view.rows \in [Doc -> Value] /\ view.seen \in [Doc -> SUBSET Value]
        /\ view.began \in Nat \union {-1} /\ view.uuid \in Nat \union {-1}
    BY <1>1 DEF ViewType, NoDatabase
  <1> QED
    BY <1>2, <1>3, <1>4, <1>5

\* While an update goes on nothing but the view changes.
LEMMA SameFeed ==
  ASSUME db' = db
  PROVE  /\ DbOk(db)' <=> DbOk(db)
         /\ \A d \in Doc : Scan(d)' = Scan(d) /\ (Exists(db, d)' <=> Exists(db, d))
         /\ DocCount' = DocCount
         /\ \A rows, upTo : RowsRight(rows, upTo)' <=> RowsRight(rows, upTo)
  <1>1. \A d \in Doc : Scan(d)' = Scan(d) /\ (Exists(db, d)' <=> Exists(db, d))
    BY SameDb
  <1>2. DocCount' = DocCount
    BY <1>1 DEF DocCount
  <1>3. \A rows, upTo : RowsRight(rows, upTo)' <=> RowsRight(rows, upTo)
    BY <1>1 DEF RowsRight
  <1> QED
    BY <1>1, <1>2, <1>3

\* The update that begins with the index v.
LEMMA BeginsKeeps ==
  ASSUME ViewInv, db' = db, NEW v \in ViewType, SameUpdate(view, v), ~Updating,
         v.sorted \subseteq {v.rows}, view.uuid = db.uuid => RowsRight(v.rows, v.lastSeq),
         NEW pc \in {"rebuild", "catch_up"},
         pc = "rebuild" => v.rows = NoScan /\ v.lastSeq = 0,
         view' = [v EXCEPT !.exists = TRUE, !.pc = pc, !.count = DocCount, !.seq = db.updateSeq,
                           !.seen = [d \in Doc |-> {Scan(d)}], !.quiet = TRUE, !.began = db.uuid]
  PROVE  ViewInv'
  <1> DEFINE s == [d \in Doc |-> {Scan(d)}]
  <1>1. s \in [Doc -> SUBSET Value] /\ \A d \in Doc : s[d] = {Scan(d)}
    BY ScanIs DEF ViewInv
  <1>2. DocCount \in Nat /\ db.updateSeq \in Nat /\ db.uuid \in Nat
    BY CountsAre, ViewTyped
  <1> DEFINE u == [v EXCEPT !.exists = TRUE, !.pc = pc, !.count = DocCount]
             w == [u EXCEPT !.seq = db.updateSeq, !.seen = s]
             x == [w EXCEPT !.quiet = TRUE, !.began = db.uuid]
  <1>3. view' = x
    BY DEF ViewType
  <1> HIDE DEF s
  <1>4. /\ u \in ViewType /\ SameRows(v, u) /\ u.pc = pc /\ u.count = DocCount
        /\ u.uuid = v.uuid /\ u.wrong = v.wrong /\ u.baseline = v.baseline
    BY <1>2 DEF ViewType, SameRows
  <1> HIDE DEF u
  <1>5. /\ w \in ViewType /\ SameRows(v, w) /\ w.pc = pc /\ w.count = DocCount
        /\ w.uuid = v.uuid /\ w.wrong = v.wrong /\ w.baseline = v.baseline
        /\ w.seq = db.updateSeq /\ w.seen = s
    BY <1>1, <1>2, <1>4 DEF ViewType, SameRows
  <1> HIDE DEF w
  <1>6. /\ x \in ViewType /\ SameRows(v, x) /\ x.pc = pc /\ x.count = DocCount
        /\ x.uuid = v.uuid /\ x.wrong = v.wrong /\ x.baseline = v.baseline
        /\ x.seq = db.updateSeq /\ x.seen = s /\ x.quiet = TRUE /\ x.began = db.uuid
    BY <1>1, <1>2, <1>5 DEF ViewType, SameRows
  <1> HIDE DEF x
  <1>7. /\ view' \in ViewType /\ view'.pc = pc /\ view'.count = DocCount /\ view'.uuid = view.uuid
        /\ view'.wrong = view.wrong /\ view'.baseline = view.baseline /\ view'.seq = db.updateSeq
        /\ view'.seen = s /\ view'.began = db.uuid
        /\ view'.rows = v.rows /\ view'.lastSeq = v.lastSeq /\ view'.sorted \subseteq {view'.rows}
    BY <1>3, <1>6 DEF SameRows, SameUpdate
  <1>8. RowsInv'
    BY <1>7, SameFeed DEF RowsInv, Ours, ViewAt
  <1>9. TimesInv' /\ FreshInv'
    BY <1>2, <1>7 DEF ViewInv, TimesInv, FreshInv, ViewAt
  <1>10. SeenInv' /\ CountInv'
    BY <1>1, <1>2, <1>7, SameFeed DEF SeenInv, CountInv
  <1>11. SettleInv' /\ BaselineInv'
    BY <1>7 DEF SettleInv, BaselineInv, ViewAt
  <1>12. ScratchInv'
    BY <1>7 DEF ScratchInv, ViewAt, NoScan
  <1> QED
    BY <1>7, <1>8, <1>9, <1>10, <1>11, <1>12 DEF ViewInv

\* Rows that are taken away are right: there is no document at sequence 0.
LEMMA ResetRight ==
  ASSUME ViewInv
  PROVE  RowsRight(NoScan, 0)
  BY ViewTyped DEF RowsRight

LEMMA BeginUpdateKeeps ==
  ASSUME ViewInv, db' = db, BeginUpdate
  PROVE  ViewInv'
  <1>1. CASE view.lastSeq > db.updateSeq \/ view.lastSeq = 0
    <2>1. Rerowed(view, Reset(view), NoScan, {}, 0)
      BY ResetIs DEF ViewInv
    <2>2. RowsRight(NoScan, 0)
      BY ResetRight
    <2>3. /\ ~Updating
          /\ view' = [Reset(view) EXCEPT !.exists = TRUE, !.pc = "rebuild", !.count = DocCount,
                        !.seq = db.updateSeq, !.seen = [d \in Doc |-> {Scan(d)}], !.quiet = TRUE,
                        !.began = db.uuid]
      BY <1>1 DEF BeginUpdate
    <2> QED
      BY <2>1, <2>2, <2>3, BeginsKeeps DEF Rerowed
  <1>2. CASE ~(view.lastSeq > db.updateSeq \/ view.lastSeq = 0)
    <2>1. /\ ~Updating
          /\ view' = [view EXCEPT !.exists = TRUE, !.pc = "catch_up", !.count = DocCount,
                        !.seq = db.updateSeq, !.seen = [d \in Doc |-> {Scan(d)}], !.quiet = TRUE,
                        !.began = db.uuid]
      BY <1>2 DEF BeginUpdate
    <2>2. view.uuid = db.uuid => RowsRight(view.rows, view.lastSeq)
      BY <2>1 DEF ViewInv, RowsInv, Ours, Updating, ViewAt
    <2>3. view \in ViewType /\ SameUpdate(view, view) /\ view.sorted \subseteq {view.rows}
      BY DEF ViewInv, SameUpdate
    <2> QED
      BY <2>1, <2>2, <2>3, BeginsKeeps
  <1> QED
    BY <1>1, <1>2

\* The update moves on to pc: the rest of an update stays.
Advanced(v, w, pc) ==
  /\ w \in ViewType /\ SameRows(v, w) /\ w.pc = pc /\ w.exists = v.exists
  /\ w.baseline = v.baseline /\ w.count = v.count /\ w.seq = v.seq /\ w.seen = v.seen
  /\ w.quiet = v.quiet /\ w.began = v.began /\ w.uuid = v.uuid /\ w.wrong = v.wrong

LEMMA AdvancedIs ==
  ASSUME NEW v \in ViewType, NEW pc \in {"idle", "catch_up", "settle", "rebuild", "baseline"},
         NEW w, w = [v EXCEPT !.pc = pc]
  PROVE  Advanced(v, w, pc)
  BY DEF ViewType, Advanced, SameRows

\* The rows are taken away, and built again.
LEMMA RebuildKeeps ==
  ASSUME ViewInv, db' = db, Updating, view' = [Reset(view) EXCEPT !.pc = "rebuild"]
  PROVE  ViewInv'
  <1> SUFFICES ASSUME NEW v, v = Reset(view)
               PROVE  ViewInv'
    OBVIOUS
  <1>1. Rerowed(view, v, NoScan, {}, 0)
    BY ResetIs DEF ViewInv
  <1>2. Advanced(v, view', "rebuild")
    BY <1>1, AdvancedIs DEF Rerowed
  <1>3. /\ view' \in ViewType /\ view'.pc = "rebuild" /\ view'.rows = NoScan /\ view'.sorted = {}
        /\ view'.lastSeq = 0 /\ view'.baseline = view.baseline /\ view'.count = view.count
        /\ view'.seq = view.seq /\ view'.seen = view.seen /\ view'.quiet = view.quiet
        /\ view'.began = view.began /\ view'.uuid = view.uuid /\ view'.wrong = view.wrong
    BY <1>1, <1>2 DEF Rerowed, Advanced, SameUpdate, SameRows
  <1>4. RowsRight(NoScan, 0)'
    BY ResetRight, SameFeed
  <1>5. RowsInv'
    BY <1>3, <1>4 DEF RowsInv
  <1>6. TimesInv' /\ FreshInv'
    BY <1>3 DEF ViewInv, TimesInv, FreshInv, ViewAt
  <1>7. SeenInv' /\ CountInv'
    BY <1>3, SameFeed DEF ViewInv, SeenInv, CountInv, Updating, ViewAt
  <1>8. ScratchInv' /\ SettleInv' /\ BaselineInv'
    BY <1>3 DEF ScratchInv, SettleInv, BaselineInv, ViewAt, NoScan
  <1> QED
    BY <1>3, <1>5, <1>6, <1>7, <1>8 DEF ViewInv

LEMMA CatchUpKeeps ==
  ASSUME ViewInv, db' = db, CatchUp
  PROVE  ViewInv'
  <1>1. view.pc = "catch_up" /\ Updating
    BY DEF CatchUp, ViewAt, Updating
  <1>2. CASE Replaced(view)
    BY <1>1, <1>2, RebuildKeeps DEF CatchUp
  <1>3. CASE ~Replaced(view)
    <2> SUFFICES ASSUME NEW v, v = Applied(view)
                 PROVE  ViewInv'
      OBVIOUS
    <2>0. DbOk(db) /\ view \in ViewType /\ view.sorted \subseteq {view.rows}
      BY DEF ViewInv
    <2>1. PICK a \in [Doc -> Value], b \in SUBSET [Doc -> Value], e \in Nat :
            /\ Rerowed(view, v, a, b, e)
            /\ b \subseteq {a}
            /\ \A d \in Doc : a[d] = IF Exists(db, d) /\ db.docs[d].seq > Since(view) THEN Scan(d)
                                                                                ELSE view.rows[d]
            /\ Since(view) <= view.lastSeq
            /\ view.lastSeq <= db.updateSeq => e <= db.updateSeq
            /\ \A d \in Doc : Exists(db, d) => db.docs[d].seq <= e
      BY <2>0, AppliedView
    <2>2. Advanced(v, view', "settle")
      BY <1>3, <2>1, AdvancedIs DEF CatchUp, Rerowed
    <2>3. /\ view' \in ViewType /\ view'.pc = "settle" /\ view'.rows = a /\ view'.sorted = b
          /\ view'.lastSeq = e /\ view'.baseline = view.baseline /\ view'.count = view.count
          /\ view'.seq = view.seq /\ view'.seen = view.seen /\ view'.quiet = view.quiet
          /\ view'.began = view.began /\ view'.uuid = view.uuid /\ view'.wrong = view.wrong
      BY <2>1, <2>2 DEF Rerowed, Advanced, SameUpdate, SameRows
    <2>4. ASSUME view.uuid = db.uuid
          PROVE  e <= db.updateSeq /\ \A d \in Doc : Exists(db, d) => a[d] = Scan(d)
      <3>1. RowsRight(view.rows, view.lastSeq)
        BY <1>1, <2>4 DEF ViewInv, RowsInv, Ours, ViewAt
      <3>2. ASSUME NEW d \in Doc, Exists(db, d), ~(db.docs[d].seq > Since(view))
            PROVE  db.docs[d].seq <= view.lastSeq
        <4>1. Since(view) \in Int
          BY ViewTyped DEF Since
        <4> QED
          BY <2>1, <3>2, <4>1, ViewTyped
      <3> QED
        BY <2>1, <3>1, <3>2 DEF RowsRight
    <2>5. RowsInv'
      <3>1. view.uuid = db.uuid => RowsRight(a, e)
        BY <2>4 DEF RowsRight
      <3> QED
        BY <2>3, <3>1, SameFeed DEF RowsInv, Ours, ViewAt
    <2>6. TimesInv' /\ FreshInv'
      BY <2>3 DEF ViewInv, TimesInv, FreshInv, ViewAt
    <2>7. SeenInv' /\ CountInv'
      BY <1>1, <2>3, SameFeed DEF ViewInv, SeenInv, CountInv
    <2>8. SettleInv'
      <3> SUFFICES ASSUME view.uuid = db.uuid, NEW d \in Doc
                   PROVE  /\ a[d] \in view.seen[d] \/ {} \in view.seen[d]
                          /\ Exists(db, d) => a[d] = Scan(d)
        BY <2>3, SameFeed DEF SettleInv
      <3>1. Scan(d) \in view.seen[d]
        BY <1>1 DEF ViewInv, SeenInv
      <3>2. ~Exists(db, d) => Scan(d) = {}
        BY DEF Scan
      <3> QED
        BY <2>4, <3>1, <3>2
    <2>9. ScratchInv' /\ BaselineInv'
      BY <2>3 DEF ScratchInv, BaselineInv, ViewAt
    <2> QED
      BY <2>0, <2>1, <2>3, <2>5, <2>6, <2>7, <2>8, <2>9 DEF ViewInv
  <1> QED
    BY <1>2, <1>3

LEMMA FromScratchKeeps ==
  ASSUME ViewInv, db' = db, FromScratch
  PROVE  ViewInv'
  <1> SUFFICES ASSUME NEW v, v = Applied(view)
               PROVE  ViewInv'
    OBVIOUS
  <1>0. DbOk(db) /\ view \in ViewType /\ view.sorted \subseteq {view.rows}
    BY DEF ViewInv
  <1>1. view.pc = "rebuild" /\ Updating /\ view.rows = NoScan /\ view.lastSeq = 0
    BY DEF FromScratch, ViewAt, Updating, ViewInv, ScratchInv
  <1>2. PICK a \in [Doc -> Value], b \in SUBSET [Doc -> Value], e \in Nat :
          /\ Rerowed(view, v, a, b, e)
          /\ b \subseteq {a}
          /\ \A d \in Doc : a[d] = IF Exists(db, d) /\ db.docs[d].seq > Since(view) THEN Scan(d)
                                                                              ELSE view.rows[d]
          /\ Since(view) <= view.lastSeq
          /\ view.lastSeq <= db.updateSeq => e <= db.updateSeq
          /\ \A d \in Doc : Exists(db, d) => db.docs[d].seq <= e
    BY <1>0, AppliedView
  <1>3. /\ view' \in ViewType /\ view'.pc = "baseline" /\ view'.rows = a /\ view'.sorted = b
        /\ view'.lastSeq = e /\ view'.count = view.count
        /\ view'.seq = view.seq /\ view'.seen = view.seen /\ view'.quiet = view.quiet
        /\ view'.began = view.began /\ view'.uuid = NoDatabase
    <2>1. view' = [v EXCEPT !.pc = "baseline", !.uuid = NoDatabase]
      BY DEF FromScratch
    <2>2. v \in ViewType /\ SameUpdate(view, v) /\ v.rows = a /\ v.sorted = b /\ v.lastSeq = e
      BY <1>2 DEF Rerowed
    <2> QED
      BY <2>1, <2>2 DEF ViewType, SameUpdate
  <1>4. ASSUME NEW d \in Doc
        PROVE  a[d] = Scan(d)
    <2>1. Since(view) = 0
      BY <1>1 DEF Since
    <2>2. CASE Exists(db, d)
      BY <1>2, <2>1, <2>2, ViewTyped
    <2>3. CASE ~Exists(db, d)
      <3>1. Scan(d) = {} /\ view.rows[d] = {}
        BY <1>1, <2>3 DEF Scan, NoScan
      <3> QED
        BY <1>2, <2>3, <3>1
    <2> QED
      BY <2>2, <2>3
  <1>5. RowsInv'
    <2>1. RowsRight(a, e)
      BY <1>1, <1>2, <1>4, ViewTyped DEF RowsRight
    <2> QED
      BY <1>3, <2>1, SameFeed DEF RowsInv
  <1>6. TimesInv' /\ FreshInv'
    <2>1. view.began <= db.uuid /\ db.uuid \in Nat
      BY ViewTyped DEF ViewInv, TimesInv
    <2> QED
      BY <1>3, <2>1 DEF TimesInv, FreshInv, ViewAt, NoDatabase
  <1>7. SeenInv' /\ CountInv'
    BY <1>1, <1>3, SameFeed DEF ViewInv, SeenInv, CountInv
  <1>8. ScratchInv' /\ SettleInv'
    BY <1>3 DEF ScratchInv, SettleInv, ViewAt
  <1>9. BaselineInv'
    <2>1. \A d \in Doc : a[d] \in view.seen[d]
      BY <1>1, <1>4 DEF ViewInv, SeenInv
    <2>2. Live(view)' = ScanDocs
      BY <1>3, <1>4 DEF Live, ScanDocs
    <2>3. view.began = db.uuid /\ view.seq = db.updateSeq => Cardinality(ScanDocs) <= view.count
      BY <1>1, CountsAre DEF ViewInv, CountInv
    <2> QED
      BY <1>3, <2>1, <2>2, <2>3 DEF BaselineInv
  <1> QED
    BY <1>0, <1>2, <1>3, <1>5, <1>6, <1>7, <1>8, <1>9 DEF ViewInv

\* An update that ends keeps its rows, and leaves M wrong.
Ended(v, w, M) ==
  /\ w \in ViewType /\ SameRows(v, w) /\ w.pc = "idle" /\ w.began = NoDatabase
  /\ w.uuid = v.uuid /\ w.baseline = v.baseline /\ w.wrong = M

LEMMA EndedIs ==
  ASSUME NEW v \in ViewType, NEW M \in SUBSET Doc, NEW w, w = [Idle(v) EXCEPT !.wrong = M]
  PROVE  Ended(v, w, M)
  <1> DEFINE u == [v EXCEPT !.pc = "idle", !.count = 0, !.seq = 0]
             x == [u EXCEPT !.seen = Unseen, !.quiet = TRUE, !.began = NoDatabase]
  <1>1. w = [x EXCEPT !.wrong = M]
    BY DEF Idle, ViewType
  <1>2. /\ u \in ViewType /\ SameRows(v, u) /\ u.pc = "idle"
        /\ u.uuid = v.uuid /\ u.baseline = v.baseline
    BY DEF ViewType, SameRows
  <1> HIDE DEF u
  <1>3. Unseen \in [Doc -> SUBSET Value]
    BY DEF Unseen
  <1>4. /\ x \in ViewType /\ SameRows(v, x) /\ x.pc = "idle" /\ x.began = NoDatabase
        /\ x.uuid = v.uuid /\ x.baseline = v.baseline
    BY <1>2, <1>3 DEF ViewType, SameRows
  <1> HIDE DEF x
  <1> QED
    BY ZenonT(40), <1>1, <1>4 DEF ViewType, SameRows, Ended

\* The documents that are wrong when the update of v finishes.
Wrongs(v) == {d \in Doc : v.rows[d] \notin v.seen[d] /\ (v.quiet \/ {} \notin v.seen[d])}

\* An update that has ended is in order if its rows are right and, for the
\* database that was indexed, nothing is wrong.
LEMMA EndsKeep ==
  ASSUME ViewInv, db' = db, view' \in ViewType, SameRows(view, view'), view'.pc = "idle",
         view'.uuid <= db.uuid, view'.began = NoDatabase,
         view'.uuid = db.uuid => /\ RowsRight(view.rows, view.lastSeq)
                                 /\ view'.wrong = {} /\ view'.baseline >= 0
  PROVE  ViewInv'
  <1>1. DbOk(db) /\ db.uuid \in Nat /\ view.sorted \subseteq {view.rows}
    BY ViewTyped DEF ViewInv
  <1>2. view'.rows = view.rows /\ view'.lastSeq = view.lastSeq /\ view'.sorted = view.sorted
    BY DEF SameRows
  <1>3. RowsInv'
    BY <1>2, SameFeed DEF RowsInv, Ours, ViewAt
  <1>4. TimesInv' /\ FreshInv'
    BY <1>1 DEF TimesInv, FreshInv, ViewAt, NoDatabase
  <1>5. SeenInv' /\ CountInv' /\ ScratchInv' /\ SettleInv' /\ BaselineInv'
    BY DEF SeenInv, CountInv, ScratchInv, SettleInv, BaselineInv, Updating, ViewAt
  <1> QED
    BY <1>1, <1>2, <1>3, <1>4, <1>5 DEF ViewInv

LEMMA UpdateStoppedKeeps ==
  ASSUME ViewInv, db' = db, UpdateStopped
  PROVE  ViewInv'
  <1> DEFINE v == [view EXCEPT !.wrong = {}]
  <1>1. view \in ViewType
    BY DEF ViewInv
  <1>2. v \in ViewType /\ SameRows(view, v) /\ v.uuid = view.uuid /\ v.baseline = view.baseline /\ v.wrong = {}
    BY <1>1 DEF ViewType, SameRows
  <1>3. view' = Idle(v)
    BY DEF UpdateStopped
  <1> HIDE DEF v
  <1>4. Idle(v) = [Idle(v) EXCEPT !.wrong = {}]
    BY <1>2 DEF Idle, ViewType
  <1>5. /\ view' \in ViewType /\ SameRows(v, view') /\ view'.pc = "idle" /\ view'.began = NoDatabase
        /\ view'.uuid = v.uuid /\ view'.baseline = v.baseline /\ view'.wrong = {}
    BY SMTT(30), <1>2, <1>3, <1>4, EndedIs DEF Ended
  <1>6. SameRows(view, view')
    BY <1>2, <1>5 DEF SameRows
  <1>7. view.uuid <= db.uuid /\ (view.uuid = db.uuid => view.baseline >= 0)
    BY DEF ViewInv, TimesInv, FreshInv
  <1>8. view.uuid = db.uuid => RowsRight(view.rows, view.lastSeq)
    BY ViewTyped DEF ViewInv, RowsInv, Ours, TimesInv, NoDatabase
  <1> QED
    BY <1>2, <1>5, <1>6, <1>7, <1>8, EndsKeep

\* With as many rows as documents, and a row for each of them, no row is left
\* of another.
LEMMA NoneLeft ==
  ASSUME ViewInv, \A d \in Doc : Exists(db, d) => view.rows[d] = Scan(d),
         Cardinality(Live(view)) <= DocCount
  PROVE  \A d \in Doc : view.rows[d] = Scan(d)
  <1>1. ScanDocs \in SUBSET Live(view)
    BY DEF ScanDocs, Live, Scan
  <1>2. /\ IsFiniteSet(Live(view)) /\ Cardinality(Live(view)) \in Nat
        /\ DocCount = Cardinality(ScanDocs) /\ DocCount \in Nat
    BY CountsAre
  <1>3. Cardinality(ScanDocs) <= Cardinality(Live(view))
    BY <1>1, <1>2, FS_Subset
  <1>4. Cardinality(ScanDocs) = Cardinality(Live(view))
    BY <1>2, <1>3
  <1>5. ScanDocs = Live(view)
    BY <1>1, <1>2, <1>4, FS_Subset
  <1>6. ASSUME NEW d \in Doc, ~Exists(db, d)
        PROVE  view.rows[d] = Scan(d)
    <2>1. Scan(d) = {}
      BY <1>6 DEF Scan
    <2>2. d \notin Live(view)
      BY <1>5, <2>1 DEF ScanDocs
    <2> QED
      BY <2>1, <2>2 DEF Live
  <1> QED
    BY <1>6

LEMMA SettleKeeps ==
  ASSUME ViewInv, db' = db, Settle
  PROVE  ViewInv'
  <1>1. view.pc = "settle" /\ Updating /\ view \in ViewType
    BY DEF Settle, ViewAt, Updating, ViewInv
  <1>2. CASE Mismatched(view)
    BY <1>1, <1>2, RebuildKeeps DEF Settle
  <1>3. CASE ~Mismatched(view)
    <2>1. view' = [Idle(view) EXCEPT !.wrong = Wrongs(view)]
      BY <1>3 DEF Settle, Finished, Wrongs
    <2>2. /\ view' \in ViewType /\ SameRows(view, view') /\ view'.pc = "idle"
          /\ view'.began = NoDatabase /\ view'.uuid = view.uuid
          /\ view'.baseline = view.baseline /\ view'.wrong = Wrongs(view)
      <3>1. Wrongs(view) \in SUBSET Doc
        BY DEF Wrongs
      <3>2. Ended(view, view', Wrongs(view))
        BY <1>1, <2>1, <3>1, EndedIs
      <3> QED
        BY <3>2 DEF Ended
    <2>3. view.uuid <= db.uuid
      BY DEF ViewInv, TimesInv
    <2>4. ASSUME view.uuid = db.uuid
          PROVE  /\ RowsRight(view.rows, view.lastSeq)
                 /\ Wrongs(view) = {} /\ view.baseline >= 0
      <3>1. RowsRight(view.rows, view.lastSeq) /\ view.baseline >= 0
        BY <1>1, <2>4 DEF ViewInv, RowsInv, Ours, ViewAt, FreshInv
      <3>2. \A d \in Doc : /\ view.rows[d] \in view.seen[d] \/ {} \in view.seen[d]
                           /\ view.quiet /\ Exists(db, d) => view.rows[d] = Scan(d)
        BY <1>1, <2>4 DEF ViewInv, SettleInv, ViewAt
      <3>3. CASE view.quiet
        <4>1. /\ view.seq = db.updateSeq /\ view.count = DocCount
              /\ \A d \in Doc : view.seen[d] = {Scan(d)}
          BY <1>1, <3>3 DEF ViewInv, SeenInv
        <4>2. view.count - Cardinality(Live(view)) = view.baseline
          BY <1>3, <4>1 DEF Mismatched, Gap
        <4>3. Cardinality(Live(view)) <= DocCount
          BY <3>1, <4>1, <4>2, CountsAre, ViewTyped
        <4>4. \A d \in Doc : view.rows[d] = Scan(d)
          BY <3>2, <3>3, <4>3, NoneLeft
        <4> QED
          BY <3>1, <4>1, <4>4 DEF Wrongs
      <3>4. CASE ~view.quiet
        BY <3>1, <3>2, <3>4 DEF Wrongs
      <3> QED
        BY <3>3, <3>4
    <2> QED
      BY <2>2, <2>3, <2>4, EndsKeep
  <1> QED
    BY <1>2, <1>3

LEMMA BaselineKeeps ==
  ASSUME ViewInv, db' = db, Baseline
  PROVE  ViewInv'
  <1> DEFINE base == IF db.updateSeq = view.seq THEN Gap(view) ELSE 0
             uuid == IF db.uuid = view.began THEN db.uuid ELSE NoDatabase
             v == [view EXCEPT !.baseline = base, !.uuid = uuid]
  <1>1. view.pc = "baseline" /\ Updating /\ view \in ViewType
    BY DEF Baseline, ViewAt, Updating, ViewInv
  <1>2. base \in Int /\ uuid \in Nat \union {NoDatabase} /\ db.uuid \in Nat
    BY ViewTyped, CountsAre DEF Gap
  <1> HIDE DEF base, uuid
  <1>3. /\ v \in ViewType /\ SameRows(view, v) /\ v.uuid = uuid /\ v.baseline = base
        /\ v.seen = view.seen /\ v.quiet = view.quiet
    BY <1>1, <1>2 DEF ViewType, SameRows
  <1>4. view' = Finished(v)
    BY DEF Baseline, base, uuid
  <1> HIDE DEF v
  <1>5. view' = [Idle(v) EXCEPT !.wrong = Wrongs(v)]
    BY <1>4 DEF Finished, Wrongs
  <1>6. /\ view' \in ViewType /\ SameRows(v, view') /\ view'.pc = "idle"
        /\ view'.began = NoDatabase /\ view'.uuid = uuid /\ view'.baseline = base
        /\ view'.wrong = Wrongs(v)
    <2>1. Wrongs(v) \in SUBSET Doc
      BY DEF Wrongs
    <2>2. Ended(v, view', Wrongs(v))
      BY <1>3, <1>5, <2>1, EndedIs
    <2> QED
      BY <1>3, <2>2 DEF Ended
  <1>7. SameRows(view, view') /\ Wrongs(v) = Wrongs(view)
    BY <1>3, <1>6 DEF SameRows, Wrongs
  <1>8. uuid <= db.uuid
    BY <1>2 DEF uuid, NoDatabase
  <1>9. ASSUME uuid = db.uuid
        PROVE  RowsRight(view.rows, view.lastSeq) /\ Wrongs(view) = {} /\ base >= 0
    <2>1. view.began = db.uuid
      BY <1>2, <1>9 DEF uuid, NoDatabase
    <2>2. RowsRight(view.rows, view.lastSeq)
      BY <1>1, <2>1 DEF ViewInv, RowsInv, Ours, ViewAt
    <2>3. /\ \A d \in Doc : view.rows[d] \in view.seen[d]
          /\ view.seq = db.updateSeq => Cardinality(Live(view)) <= view.count
      BY <1>1, <2>1 DEF ViewInv, BaselineInv, ViewAt
    <2>4. base >= 0
      BY <2>3, CountsAre, ViewTyped DEF base, Gap
    <2> QED
      BY <2>2, <2>3, <2>4 DEF Wrongs
  <1> QED
    BY <1>6, <1>7, <1>8, <1>9, EndsKeep

LEMMA QueryKeeps ==
  ASSUME ViewInv, db' = db, QueryAnswers
  PROVE  ViewInv'
  <1> DEFINE b == IF view.sorted = {} THEN {view.rows} ELSE view.sorted
  <1>1. view \in ViewType /\ ~Updating /\ view.sorted \subseteq {view.rows}
    BY DEF QueryAnswers, ViewInv
  <1>2. b \in SUBSET [Doc -> Value] /\ b \subseteq {view.rows}
    BY <1>1, ViewTyped
  <1> HIDE DEF b
  <1>3. view' = [view EXCEPT !.sorted = b]
    BY <1>1 DEF QueryAnswers, ViewType, b
  <1>4. view' \in ViewType /\ SameUpdate(view, view') /\ view'.sorted = b
        /\ view'.rows = view.rows /\ view'.lastSeq = view.lastSeq
    BY <1>1, <1>2, <1>3 DEF ViewType, SameUpdate
  <1>5. view.pc = "idle"
    BY <1>1 DEF Updating, ViewAt
  <1>6. RowsInv'
    BY <1>4, <1>5, SameFeed DEF ViewInv, RowsInv, Ours, ViewAt, SameUpdate
  <1>7. TimesInv' /\ FreshInv'
    BY <1>4, <1>5 DEF ViewInv, TimesInv, FreshInv, ViewAt, SameUpdate
  <1>8. SeenInv' /\ CountInv' /\ ScratchInv' /\ SettleInv' /\ BaselineInv'
    BY <1>4, <1>5 DEF SeenInv, CountInv, ScratchInv, SettleInv, BaselineInv, Updating, ViewAt, SameUpdate
  <1> QED
    BY <1>2, <1>4, <1>6, <1>7, <1>8 DEF ViewInv

\* A new view is of no database.
LEMMA NewViewIs ==
  ASSUME DbOk(db), view = NewView
  PROVE  ViewInv
  <1>1. NewView \in ViewType
    BY NoRows DEF NewView, ViewType, Unseen, NoDatabase
  <1>2. /\ view.pc = "idle" /\ view.sorted = {} /\ view.uuid = NoDatabase /\ view.began = NoDatabase
    BY DEF NewView
  <1>3. db.uuid \in Nat
    BY DEF DbOk, DbType
  <1>4. RowsInv /\ TimesInv /\ FreshInv
    BY <1>2, <1>3 DEF RowsInv, Ours, TimesInv, FreshInv, ViewAt, NoDatabase
  <1>5. SeenInv /\ CountInv /\ ScratchInv /\ SettleInv /\ BaselineInv
    BY <1>2 DEF SeenInv, CountInv, ScratchInv, SettleInv, BaselineInv, Updating, ViewAt
  <1> QED
    BY <1>1, <1>2, <1>4, <1>5 DEF ViewInv

LEMMA RegisterKeeps ==
  ASSUME ViewInv, db' = db, Register
  PROVE  ViewInv'
  <1>1. DbOk(db') /\ view' = NewView
    BY DEF ViewInv, Register
  <1>2. NewView \in ViewType
    BY NoRows DEF NewView, ViewType, Unseen, NoDatabase
  <1>3. /\ view'.pc = "idle" /\ view'.sorted = {} /\ view'.uuid = NoDatabase
        /\ view'.began = NoDatabase
    BY <1>1 DEF NewView
  <1>4. db'.uuid \in Nat
    BY <1>1 DEF DbOk, DbType
  <1>5. RowsInv' /\ TimesInv' /\ FreshInv'
    BY <1>3, <1>4 DEF RowsInv, Ours, TimesInv, FreshInv, ViewAt, NoDatabase
  <1>6. SeenInv' /\ CountInv' /\ ScratchInv' /\ SettleInv' /\ BaselineInv'
    BY <1>3 DEF SeenInv, CountInv, ScratchInv, SettleInv, BaselineInv, Updating, ViewAt
  <1> QED
    BY <1>1, <1>2, <1>3, <1>5, <1>6 DEF ViewInv

----------------------------------------------------------------------------
(* The steps of the applications, seen by a view *)

\* What ViewSees does to the view.
LEMMA ViewSeesIs ==
  ASSUME ViewInv, DbOk(db'), ViewSees
  PROVE  /\ view' \in ViewType /\ SameRows(view, view') /\ view'.pc = view.pc
         /\ view'.baseline = view.baseline /\ view'.count = view.count /\ view'.seq = view.seq
         /\ view'.began = view.began /\ view'.uuid = view.uuid /\ view'.wrong = view.wrong
         /\ Updating => /\ view'.quiet = FALSE
                        /\ \A d \in Doc : view'.seen[d] = view.seen[d] \union {Scan(d)'}
  <1>0. view \in ViewType /\ view.seen \in [Doc -> SUBSET Value]
    BY ViewTyped DEF ViewInv
  <1>1. CASE ~Updating
    BY <1>0, <1>1 DEF ViewSees, SameRows
  <1>2. CASE Updating
    <2> DEFINE s == [d \in Doc |-> view.seen[d] \union {Scan(d)'}]
    <2>1. \A d \in Doc : Scan(d)' \in Value
      <3> SUFFICES ASSUME NEW d \in Doc
                   PROVE  Scan(d)' \in Value
        OBVIOUS
      <3>1. Nodes(db', d) \in SUBSET (Rev \X Rev)
        BY DocFields DEF DbOk, Nodes
      <3>2. LeafRevs(Nodes(db', d)) \in SUBSET Rev
        BY <3>1 DEF LeafRevs, LeafNodes, RevsOf
      <3> QED
        BY <3>2 DEF Scan, Winner, Value
    <2>2. s \in [Doc -> SUBSET Value] /\ \A d \in Doc : s[d] = view.seen[d] \union {Scan(d)'}
      BY <1>0, <2>1
    <2>3. view' = [view EXCEPT !.seen = s, !.quiet = FALSE]
      BY <1>0, <1>2 DEF ViewSees
    <2> HIDE DEF s
    <2> QED
      BY <1>0, <2>2, <2>3 DEF ViewType, SameRows
  <1> QED
    BY <1>1, <1>2

LEMMA ViewWritesKeep ==
  ASSUME ViewInv, Writes, ViewSees
  PROVE  ViewInv'
  <1>1. DbOk(db) /\ DbOk(db') /\ Later
    BY WritesAre DEF ViewInv
  <1>2. /\ view' \in ViewType /\ view'.pc = view.pc
        /\ view'.baseline = view.baseline /\ view'.count = view.count /\ view'.seq = view.seq
        /\ view'.began = view.began /\ view'.uuid = view.uuid /\ view'.wrong = view.wrong
        /\ view'.rows = view.rows /\ view'.lastSeq = view.lastSeq /\ view'.sorted = view.sorted
        /\ Updating => /\ view'.quiet = FALSE
                       /\ \A d \in Doc : view'.seen[d] = view.seen[d] \union {Scan(d)'}
    BY <1>1, ViewSeesIs DEF SameRows
  <1>3. /\ db'.updateSeq \in Nat /\ db.updateSeq <= db'.updateSeq /\ db'.uuid = db.uuid
        /\ \A d \in Doc : db'.docs[d].seq \in Nat
        /\ \A d \in Doc : Exists(db, d)' => db'.docs[d].seq <= db'.updateSeq
    BY <1>1, DocFields DEF DbOk, DbType, Later, SeqsOk
  <1>4. RowsInv'
    <2>1. Ours' => Ours
      BY <1>2, <1>3 DEF Ours, ViewAt
    <2>2. ASSUME RowsRight(view.rows, view.lastSeq)
          PROVE  RowsRight(view.rows, view.lastSeq)'
      <3>1. view.lastSeq <= db.updateSeq
        BY <2>2 DEF RowsRight
      <3>2. ASSUME NEW d \in Doc, Exists(db, d)', db'.docs[d].seq <= view.lastSeq
            PROVE  view.rows[d] = Scan(d)'
        <4>1. ~(db'.docs[d].seq > db.updateSeq)
          BY <1>3, <3>1, <3>2, ViewTyped
        <4> QED
          BY <1>1, <2>2, <3>2, <4>1 DEF Later, RowsRight
      <3> QED
        BY <1>2, <1>3, <3>1, <3>2, ViewTyped DEF RowsRight
    <2> QED
      BY <1>2, <2>1, <2>2 DEF ViewInv, RowsInv
  <1>5. TimesInv' /\ FreshInv'
    BY <1>2, <1>3 DEF ViewInv, TimesInv, FreshInv, ViewAt
  <1>6. SeenInv'
    BY <1>2 DEF SeenInv, Updating, ViewAt
  <1>7. CountInv'
    <2> SUFFICES ASSUME Updating, view.began = db.uuid
                 PROVE  /\ view.seq <= db'.updateSeq
                        /\ view.seq = db'.updateSeq => DocCount' <= view.count
      BY <1>2, <1>3 DEF CountInv, Updating, ViewAt
    <2>1. view.seq <= db.updateSeq /\ (view.seq = db.updateSeq => DocCount <= view.count)
      BY DEF ViewInv, CountInv
    <2>2. ASSUME view.seq = db'.updateSeq
          PROVE  DocCount' <= view.count
      <3>1. db.updateSeq = db'.updateSeq
        BY <1>3, <2>1, <2>2, ViewTyped
      <3>2. \A d \in Doc : Exists(db, d)' => Scan(d)' = Scan(d)
        BY <1>1, <1>3, <3>1 DEF Later
      <3> DEFINE S == {d \in Doc : Scan(d)' # {}}
      <3>3. S \in SUBSET ScanDocs
        BY <3>2 DEF ScanDocs, Scan
      <3>4. DocCount' = Cardinality(S)
        BY DEF DocCount
      <3> HIDE DEF S
      <3>5. Cardinality(S) <= Cardinality(ScanDocs) /\ IsFiniteSet(S)
        BY <3>3, CountsAre, FS_Subset
      <3>6. Cardinality(S) \in Nat
        BY <3>5, FS_CardinalityType
      <3> QED
        BY <2>1, <2>2, <3>1, <3>4, <3>5, <3>6, CountsAre, ViewTyped
    <2> QED
      BY <1>3, <2>1, <2>2, ViewTyped
  <1>8. ScratchInv'
    BY <1>2 DEF ViewInv, ScratchInv, ViewAt, NoScan
  <1>9. SettleInv'
    BY <1>2, <1>3 DEF ViewInv, SettleInv, ViewAt, Updating
  <1>10. BaselineInv'
    <2>1. Live(view)' = Live(view)
      BY <1>2 DEF Live
    <2>2. CASE view.pc = "baseline" /\ view.began = db.uuid
      <3>1. Updating
        BY <2>2 DEF Updating, ViewAt
      <3>2. view.seq <= db.updateSeq
        BY <2>2, <3>1 DEF ViewInv, CountInv
      <3>3. view.seq = db'.updateSeq => view.seq = db.updateSeq
        BY <1>3, <3>2, ViewTyped
      <3>4. /\ \A d \in Doc : view.rows[d] \in view.seen[d]
            /\ view.seq = db.updateSeq => Cardinality(Live(view)) <= view.count
        BY <2>2 DEF ViewInv, BaselineInv, ViewAt
      <3> QED
        BY <1>2, <2>1, <3>1, <3>3, <3>4 DEF BaselineInv
    <2> QED
      BY <1>2, <1>3, <2>2 DEF BaselineInv, ViewAt
  <1> QED
    BY <1>1, <1>2, <1>4, <1>5, <1>6, <1>7, <1>8, <1>9, <1>10 DEF ViewInv

\* No view is of the database that follows a destroyed one.
LEMMA DestroyViewedKeeps ==
  ASSUME ViewInv, DestroyViewed
  PROVE  ViewInv'
  <1>1. DbOk(db) /\ DbOk(db') /\ db'.uuid > db.uuid /\ db'.uuid \in Nat
    BY DestroyIs DEF ViewInv, DestroyViewed
  <1>2. /\ view' \in ViewType /\ view'.pc = view.pc
        /\ view'.baseline = view.baseline /\ view'.count = view.count /\ view'.seq = view.seq
        /\ view'.began = view.began /\ view'.uuid = view.uuid /\ view'.wrong = view.wrong
        /\ view'.rows = view.rows /\ view'.lastSeq = view.lastSeq /\ view'.sorted = view.sorted
        /\ Updating => /\ view'.quiet = FALSE
                       /\ \A d \in Doc : view'.seen[d] = view.seen[d] \union {Scan(d)'}
    BY <1>1, ViewSeesIs DEF SameRows, DestroyViewed
  <1>3. view.began < db'.uuid /\ view.uuid < db'.uuid
    BY <1>1, ViewTyped DEF ViewInv, TimesInv
  <1>4. view'.began # db'.uuid /\ view'.uuid # db'.uuid
    BY <1>1, <1>2, <1>3, ViewTyped
  <1>5. RowsInv' /\ FreshInv' /\ SettleInv' /\ BaselineInv' /\ CountInv'
    BY <1>4 DEF RowsInv, Ours, FreshInv, SettleInv, BaselineInv, CountInv
  <1>6. TimesInv'
    BY <1>1, <1>2, <1>3, ViewTyped DEF ViewInv, TimesInv, ViewAt
  <1>7. SeenInv'
    BY <1>2 DEF SeenInv, Updating, ViewAt
  <1>8. ScratchInv'
    BY <1>2 DEF ViewInv, ScratchInv, ViewAt, NoScan
  <1> QED
    BY <1>1, <1>2, <1>5, <1>6, <1>7, <1>8 DEF ViewInv

----------------------------------------------------------------------------
(* With a Mango index there is no view. *)
FreshIndex ==
  /\ kind \in {"view", "mango"}
  /\ IF kind = "view" THEN ViewInv ELSE view = NewView

LEMMA FreshIndexNext ==
  ASSUME FreshIndex, [Next]_indexVars
  PROVE  FreshIndex'
  <1>1. CASE WithMango /\ UNCHANGED kind
    BY <1>1 DEF FreshIndex, WithMango
  <1>2. CASE WithView /\ UNCHANGED kind
    <2>1. ViewInv /\ kind' = "view"
      BY <1>2 DEF FreshIndex, WithView
    <2>2. CASE Writes /\ ViewSees
      BY <2>1, <2>2, ViewWritesKeep DEF FreshIndex
    <2>3. CASE DestroyViewed
      BY <2>1, <2>3, DestroyViewedKeeps DEF FreshIndex
    <2>4. CASE ViewStep /\ UNCHANGED db
      <3>1. ViewInv'
        BY <2>1, <2>4, BeginUpdateKeeps, CatchUpKeeps, SettleKeeps, FromScratchKeeps, BaselineKeeps,
           UpdateStoppedKeeps, QueryKeeps, RegisterKeeps DEF ViewStep
      <3> QED
        BY <2>1, <3>1 DEF FreshIndex
    <2> QED
      BY <1>2, <2>2, <2>3, <2>4 DEF WithView
  <1>3. CASE UNCHANGED indexVars
    <2>1. db' = db /\ view' = view /\ kind' = kind
      BY <1>3 DEF indexVars
    <2>2. RowsInv' <=> RowsInv
      BY <2>1, SameFeed DEF RowsInv, Ours, ViewAt
    <2>3. (TimesInv' <=> TimesInv) /\ (FreshInv' <=> FreshInv) /\ (ScratchInv' <=> ScratchInv)
      BY <2>1 DEF TimesInv, FreshInv, ScratchInv, ViewAt, NoScan
    <2>4. (SeenInv' <=> SeenInv) /\ (CountInv' <=> CountInv)
      BY <2>1, SameFeed DEF SeenInv, CountInv, Updating, ViewAt
    <2>5. (SettleInv' <=> SettleInv) /\ (BaselineInv' <=> BaselineInv)
      BY <2>1, SameFeed DEF SettleInv, BaselineInv, ViewAt, Live
    <2> QED
      BY <2>1, <2>2, <2>3, <2>4, <2>5 DEF FreshIndex, ViewInv
  <1> QED
    BY <1>1, <1>2, <1>3 DEF Next

\* A view that an update has brought up to date has, for each document, the row
\* that a scan during the update would have given, or, of a document that was
\* purged while it ran, the one it had; and what a query keeps in order is what
\* the index holds (ViewEngine::update_index and query, engine.rs).
THEOREM ViewsAreFresh == Spec => []ViewFresh
  <1>1. Init => FreshIndex
    <2> SUFFICES ASSUME Init
                 PROVE  FreshIndex
      OBVIOUS
    <2>1. DbOk(db) /\ view = NewView
      BY EmptyDbOk DEF Init, Unused, ViewInit
    <2> QED
      BY <2>1, NewViewIs DEF Init, FreshIndex
  <1>2. FreshIndex /\ [Next]_indexVars => FreshIndex'
    BY FreshIndexNext
  <1>3. FreshIndex => ViewFresh
    <2>1. ViewInv => ViewFresh
      BY DEF ViewInv, FreshInv, ViewFresh
    <2>2. view = NewView => ViewFresh
      BY DEF ViewFresh, NewView
    <2> QED
      BY <2>1, <2>2 DEF FreshIndex
  <1> QED
    BY <1>1, <1>2, <1>3, PTL DEF Spec
=============================================================================
