------------------------ MODULE MemoryAdapterProofs ------------------------
(***************************************************************************)
(* The properties of MemoryAdapter, for every set of documents, universe   *)
(* of revisions, set of revision limits and length of a run.               *)
(***************************************************************************)
EXTENDS MemoryAdapter, DatabaseProofs

\* What every reachable database is.
DbInv == DbOk(db) /\ db.uuid \in 0 .. MaxUuid

----------------------------------------------------------------------------
(* A purge request *)

\* The database after each document of a request is well defined.
LEMMA AfterDefined ==
  ASSUME NEW b, NEW request, NEW n \in Nat
  PROVE  \E f : f = [i \in 0 .. n |->
                       IF i = 0 THEN b ELSE PurgeDoc(f[i - 1], request[i].id, request[i].revs)]
  <1> DEFINE Step(f, i) == PurgeDoc(f[i - 1], request[i].id, request[i].revs)
             Good(f, m) == f = [i \in 0 .. m |-> IF i = 0 THEN b ELSE Step(f, i)]
             S == {m \in Nat : \E f : Good(f, m)}
  <1>1. 0 \in S
    <2> DEFINE f == [i \in 0 .. 0 |-> b]
    <2>1. \A i \in 0 .. 0 : i = 0
      OBVIOUS
    <2>2. Good(f, 0)
      BY <2>1
    <2> QED
      BY <2>2
  <1>2. ASSUME NEW m \in Nat, m \in S
        PROVE  m + 1 \in S
    <2>1. PICK f : Good(f, m)
      BY <1>2
    <2> DEFINE g == [i \in 0 .. m + 1 |-> IF i = m + 1 THEN Step(f, i) ELSE f[i]]
    <2>2. \A i \in 0 .. m : g[i] = f[i]
      OBVIOUS
    <2>3. ASSUME NEW i \in 0 .. m + 1
          PROVE  g[i] = IF i = 0 THEN b ELSE Step(g, i)
      <3>1. CASE i = 0
        BY <2>1, <2>2, <3>1
      <3>2. CASE i # 0 /\ i # m + 1
        <4>1. i \in 0 .. m /\ i - 1 \in 0 .. m
          BY <3>2
        <4>2. f[i] = Step(f, i)
          BY <2>1, <3>2, <4>1
        <4> QED
          BY <2>2, <3>2, <4>1, <4>2
      <3>3. CASE i = m + 1
        <4>1. i - 1 \in 0 .. m /\ g[i] = Step(f, i)
          BY <3>3
        <4> QED
          BY <2>2, <3>3, <4>1
      <3> QED
        BY <3>1, <3>2, <3>3
    <2>4. Good(g, m + 1)
      BY <2>3
    <2> HIDE DEF g
    <2> QED
      BY <2>4
  <1> HIDE DEF S
  <1>3. n \in S
    BY <1>1, <1>2, Induction
  <1> QED
    BY <1>3 DEF S

\* The documents of a request are purged one after the other.
LEMMA PurgeDocsOk ==
  ASSUME DbOk(db), NEW request \in PurgeRequests
  PROVE  DbOk(PurgeDocs(request)) /\ Purged(db, PurgeDocs(request))
  <1>1. Len(request) \in Nat /\ \A i \in 1 .. Len(request) : request[i].id \in Doc
    <2>1. PICK n \in 1 .. MaxPurge : request \in [1 .. n -> PurgeItems]
      BY DEF PurgeRequests
    <2>2. request \in Seq(PurgeItems) /\ Len(request) = n
      BY <2>1, LimitsAssumption
    <2> QED
      BY <2>1, <2>2 DEF PurgeItems
  <1> DEFINE n == Len(request)
             after == CHOOSE f : f = [i \in 0 .. n |->
                        IF i = 0 THEN db ELSE PurgeDoc(f[i - 1], request[i].id, request[i].revs)]
  <1>2. after = [i \in 0 .. n |->
                   IF i = 0 THEN db ELSE PurgeDoc(after[i - 1], request[i].id, request[i].revs)]
    BY <1>1, AfterDefined
  <1>3. PurgeDocs(request) = after[n]
    BY DEF PurgeDocs
  <1> HIDE DEF after, n
  <1> DEFINE S == {m \in Nat : m \in 0 .. n => DbOk(after[m]) /\ Purged(db, after[m])}
  <1>4. 0 \in S
    <2>1. 0 \in 0 .. n => after[0] = db
      BY <1>2
    <2> QED
      BY <2>1, PurgedSelf
  <1>5. ASSUME NEW m \in Nat, m \in S
        PROVE  m + 1 \in S
    <2> SUFFICES ASSUME m + 1 \in 0 .. n
                 PROVE  DbOk(after[m + 1]) /\ Purged(db, after[m + 1])
      OBVIOUS
    <2>1. n \in Nat
      BY <1>1 DEF n
    <2>2. DbOk(after[m]) /\ Purged(db, after[m])
      BY <1>5, <2>1
    <2>3. after[m + 1] = PurgeDoc(after[m], request[m + 1].id, request[m + 1].revs)
      BY <1>2, <2>1
    <2>4. request[m + 1].id \in Doc
      BY <1>1, <2>1 DEF n
    <2>5. DbOk(after[m + 1]) /\ Purged(after[m], after[m + 1])
      BY <2>2, <2>3, <2>4, PurgeDocOk
    <2> QED
      BY <2>2, <2>5, PurgedTrans
  <1> HIDE DEF S
  <1>6. n \in S
    BY <1>1, <1>4, <1>5, Induction DEF n
  <1> QED
    BY <1>1, <1>3, <1>6 DEF S, n

----------------------------------------------------------------------------
(* The steps *)

\* Every step is a write, a purge (compaction is one of nothing), a destroy or
\* nothing, and keeps the database in order.
LEMMA NextOk ==
  ASSUME DbInv, [Next]_db
  PROVE  /\ DbInv'
         /\ \/ \E d \in Doc, r \in Rev, limit \in Limits : \E U \in SUBSET Att[r] :
                 /\ Wrote(db, db', d, r)
                 /\ \/ \E named \in BOOLEAN : Edit(d, r, named, U, limit)
                    \/ \E q \in Anc[r] : Replicate(d, q, r, U, limit)
            \/ Purged(db, db')
            \/ db' = EmptyDb(db.uuid + 1)
  <1> DEFINE Step == \/ \E d \in Doc, r \in Rev, limit \in Limits : \E U \in SUBSET Att[r] :
                          /\ Wrote(db, db', d, r)
                          /\ \/ \E named \in BOOLEAN : Edit(d, r, named, U, limit)
                             \/ \E q \in Anc[r] : Replicate(d, q, r, U, limit)
                     \/ Purged(db, db')
                     \/ db' = EmptyDb(db.uuid + 1)
  <1> SUFFICES DbInv' /\ Step
    OBVIOUS
  <1>0. DbOk(db) /\ db.uuid \in 0 .. MaxUuid /\ Purged(db, db)
    BY PurgedSelf DEF DbInv
  <1>1. ASSUME NEW d \in Doc, NEW r \in Rev, NEW named \in BOOLEAN, NEW limit \in Limits,
               NEW U \in SUBSET Att[r], Edit(d, r, named, U, limit)
        PROVE  DbInv' /\ Step
    <2>1. DbOk(db') /\ Wrote(db, db', d, r)
      BY <1>0, <1>1, EditOk, LimitsAssumption DEF Edit
    <2>2. DbInv'
      BY <1>0, <2>1 DEF DbInv, Wrote
    <2> QED
      BY <1>1, <2>1, <2>2
  <1>2. ASSUME NEW d \in Doc, NEW r \in Rev, NEW limit \in Limits,
               NEW q \in Anc[r], NEW U \in SUBSET Att[r], Replicate(d, q, r, U, limit)
        PROVE  DbInv' /\ Step
    <2>1. CASE db' = db
      BY <1>0, <2>1 DEF DbInv
    <2>2. CASE DbOk(db') /\ Wrote(db, db', d, r)
      <3>1. DbInv'
        BY <1>0, <2>2 DEF DbInv, Wrote
      <3> QED
        BY <1>2, <2>2, <3>1
    <2> QED
      BY <1>0, <1>2, <2>1, <2>2, ReplicateOk, LimitsAssumption DEF Replicate
  <1>3. CASE CompactAll
    <2>1. DbOk(db') /\ Purged(db, db')
      BY <1>0, <1>3, CompactOk DEF CompactAll
    <2> QED
      BY <1>0, <2>1 DEF DbInv, Purged
  <1>4. ASSUME NEW request \in PurgeRequests, Purge(request) \/ PurgeRejected(request)
        PROVE  DbInv' /\ Step
    <2>1. DbOk(PurgeDocs(request)) /\ Purged(db, PurgeDocs(request))
      BY <1>0, PurgeDocsOk
    <2>2. DbOk(db') /\ Purged(db, db')
      <3>1. CASE Purge(request)
        <4>1. DbOk(db') /\ Purged(PurgeDocs(request), db')
          BY <2>1, <3>1, PurgeEndOk DEF Purge
        <4> QED
          BY <1>0, <2>1, <4>1, PurgedTrans
      <3>2. CASE PurgeRejected(request)
        BY <2>1, <3>2 DEF PurgeRejected
      <3> QED
        BY <1>4, <3>1, <3>2
    <2> QED
      BY <1>0, <2>2 DEF DbInv, Purged
  <1>5. CASE DestroyDb
    <2>1. db' = EmptyDb(db.uuid + 1) /\ db.uuid + 1 \in 0 .. MaxUuid
      BY <1>0, <1>5, LimitsAssumption DEF DestroyDb, Destroy
    <2>2. DbOk(db')
      BY <2>1, EmptyDbOk
    <2>3. db'.uuid = db.uuid + 1
      BY <2>1 DEF EmptyDb
    <2> QED
      BY <2>1, <2>2, <2>3 DEF DbInv
  <1>6. CASE UNCHANGED db
    BY <1>0, <1>6 DEF DbInv
  <1> HIDE DEF Step
  <1> QED
    BY <1>1, <1>2, <1>3, <1>4, <1>5, <1>6 DEF Next

\* The database is in order from the beginning on.
LEMMA Ordered == Spec => []DbInv
  <1>1. Init => DbInv
    <2>1. EmptyDb(0).uuid = 0
      BY DEF EmptyDb
    <2> QED
      BY <2>1, EmptyDbOk, LimitsAssumption DEF Init, DbInv
  <1>2. DbInv /\ [Next]_db => DbInv'
    BY NextOk
  <1> QED
    BY <1>1, <1>2, PTL DEF Spec

----------------------------------------------------------------------------
(* The theorems *)

\* The database is well typed.
THEOREM TypeCorrect == Spec => []TypeOK
  <1>1. DbInv => TypeOK
    <2> SUFFICES ASSUME DbOk(db), db.uuid \in 0 .. MaxUuid
                 PROVE  TypeOK
      BY DEF DbInv
    <2>1. db \in DbType /\ TreesOk(db) /\ SeqsOk(db) /\ FeedOk(db)
      BY DEF DbOk
    <2>2. /\ db.updateSeq \in Nat /\ db.blobs \subseteq Digest /\ db.purgeSeq \in Nat
      BY <2>1 DEF DbType
    <2>3. ASSUME NEW d \in Doc
          PROVE  /\ Nodes(db, d) \subseteq Rev \X Rev
                 /\ db.docs[d].tree.avail \subseteq Nodes(db, d)
                 /\ db.docs[d].bodies \subseteq Rev
                 /\ db.docs[d].seq \in 0 .. db.updateSeq
      <3>1. Nodes(db, d) \subseteq Rev \X Rev /\ db.docs[d].tree.avail \subseteq Nodes(db, d)
        BY <2>1 DEF TreesOk, TreeOk, Shaped, Nodes
      <3>2. db.docs[d].bodies \subseteq Rev
        BY <2>1, DocFields
      <3>3. db.docs[d].seq \in 0 .. db.updateSeq
        BY <2>1, <2>2 DEF SeqsOk
      <3> QED
        BY <3>1, <3>2, <3>3
    <2>4. ASSUME NEW c \in db.changes
          PROVE  c \in [seq : 1 .. db.updateSeq, id : Doc, deleted : BOOLEAN]
      <3>1. PICK d \in Doc : Exists(db, d) /\ c = EntryOf(db, d)
        BY <2>1 DEF FeedOk
      <3>2. db.docs[d].seq \in 1 .. db.updateSeq
        BY <2>1, <3>1 DEF SeqsOk
      <3> QED
        BY <3>1, <3>2 DEF EntryOf, IsDeleted
    <2> QED
      BY <2>2, <2>3, <2>4 DEF TypeOK
  <1> QED
    BY <1>1, Ordered, PTL

\* The changes log has one entry for each document, at its last change, right
\* about its winner, whatever was written, purged or rejected half way.
THEOREM FeedIsRight == Spec => []FeedMatchesDocs
  <1>1. DbInv => FeedMatchesDocs
    BY DEF DbInv, DbOk, FeedOk, FeedMatchesDocs, EntryOf
  <1> QED
    BY <1>1, Ordered, PTL

\* Compactions and purges never collect the bytes of an attachment that a
\* stored revision still names.
THEOREM AttachmentsStay == Spec => []AttachmentsPresent
  <1>1. DbInv => AttachmentsPresent
    BY DEF DbInv, DbOk, BlobsOk, AttachmentsPresent
  <1> QED
    BY <1>1, Ordered, PTL

\* A write, a purge, a compaction or a destroy leaves every leaf and every
\* available revision with its body, and drops the body of every revision that
\* it drops, but the one it stores.
THEOREM BodiesFollow == Spec => BodiesFollowTree
  <1>1. ASSUME DbInv, [Next]_db, NEW d \in Doc
        PROVE  /\ LeafRevs(Nodes(db', d)) \union RevsOf(db'.docs[d].tree.avail)
                    \subseteq db'.docs[d].bodies
               /\ \A r \in RevsOf(Nodes(db, d)) \ RevsOf(Nodes(db', d)) :
                    r \in db'.docs[d].bodies =>
                      \E limit \in Limits, U \in SUBSET Att[r] :
                        \/ \E named \in BOOLEAN : Edit(d, r, named, U, limit)
                        \/ \E q \in Anc[r] : Replicate(d, q, r, U, limit)
    <2>1. DbInv'
      BY <1>1, NextOk
    <2>2. LeafRevs(Nodes(db', d)) \union RevsOf(db'.docs[d].tree.avail) \subseteq db'.docs[d].bodies
      BY <2>1 DEF DbInv, DbOk, BodiesOk, HasBodies, Nodes
    <2> SUFFICES ASSUME NEW r \in RevsOf(Nodes(db, d)) \ RevsOf(Nodes(db', d)),
                        r \in db'.docs[d].bodies
                 PROVE  \E limit \in Limits, U \in SUBSET Att[r] :
                          \/ \E named \in BOOLEAN : Edit(d, r, named, U, limit)
                          \/ \E q \in Anc[r] : Replicate(d, q, r, U, limit)
      BY <2>2
    <2>3. ASSUME NEW e \in Doc, NEW s \in Rev, Wrote(db, db', e, s)
          PROVE  e = d /\ s = r
      <3>1. CASE e # d
        BY <2>3, <3>1 DEF Wrote, Nodes
      <3>2. CASE e = d
        BY <2>3, <3>2 DEF Wrote
      <3> QED
        BY <3>1, <3>2
    <2>4. CASE \E e \in Doc, s \in Rev, limit \in Limits : \E U \in SUBSET Att[s] :
                 /\ Wrote(db, db', e, s)
                 /\ \/ \E named \in BOOLEAN : Edit(e, s, named, U, limit)
                    \/ \E q \in Anc[s] : Replicate(e, q, s, U, limit)
      <3>1. PICK e \in Doc, s \in Rev, limit \in Limits : \E U \in SUBSET Att[s] :
                 /\ Wrote(db, db', e, s)
                 /\ \/ \E named \in BOOLEAN : Edit(e, s, named, U, limit)
                    \/ \E q \in Anc[s] : Replicate(e, q, s, U, limit)
        BY <2>4
      <3>2. e = d /\ s = r
        BY <2>3, <3>1
      <3> QED
        BY <3>1, <3>2
    <2>5. CASE Purged(db, db')
      BY <2>5 DEF Purged
    <2>6. CASE db' = EmptyDb(db.uuid + 1)
      BY <2>6 DEF EmptyDb, NoDoc
    <2> QED
      BY <1>1, <2>4, <2>5, <2>6, NextOk
  <1>2. DbInv /\ [Next]_db =>
          [\A d \in Doc :
             /\ LeafRevs(Nodes(db', d)) \union RevsOf(db'.docs[d].tree.avail) \subseteq db'.docs[d].bodies
             /\ \A r \in RevsOf(Nodes(db, d)) \ RevsOf(Nodes(db', d)) :
                  r \in db'.docs[d].bodies =>
                    \E limit \in Limits, U \in SUBSET Att[r] :
                      \/ \E named \in BOOLEAN : Edit(d, r, named, U, limit)
                      \/ \E q \in Anc[r] : Replicate(d, q, r, U, limit)]_db
    BY <1>1
  <1> QED
    BY <1>2, Ordered, PTL DEF Spec, BodiesFollowTree

\* Whoever has read the feed up to its end finds every later change of a
\* document's leaves behind it.
THEOREM FeedReadersMissNothing == Spec => ChangesAreNews
  <1>1. ASSUME DbInv, [Next]_db, db'.uuid = db.uuid
        PROVE  /\ \A c \in db'.changes \ db.changes : c.seq > db.updateSeq
               /\ \A d \in Doc :
                    Exists(db', d) /\ LeafRevs(Nodes(db', d)) # LeafRevs(Nodes(db, d))
                      => \E c \in db'.changes : c.id = d /\ c.seq > db.updateSeq
    <2>1. DbOk(db')
      BY <1>1, NextOk DEF DbInv
    <2>2. Follows(db, db')
      <3>1. db' # EmptyDb(db.uuid + 1)
        BY <1>1 DEF EmptyDb, DbInv
      <3> QED
        BY <1>1, <3>1, NextOk DEF Wrote, Purged
    <2>3. ASSUME NEW d \in Doc, Exists(db', d), LeafRevs(Nodes(db', d)) # LeafRevs(Nodes(db, d))
          PROVE  \E c \in db'.changes : c.id = d /\ c.seq > db.updateSeq
      <3>1. db'.docs[d].seq > db.updateSeq
        BY <2>2, <2>3 DEF Follows
      <3>2. EntryOf(db', d) \in db'.changes
        BY <2>1, <2>3 DEF DbOk, FeedOk
      <3>3. EntryOf(db', d).id = d /\ EntryOf(db', d).seq = db'.docs[d].seq
        BY DEF EntryOf
      <3> QED
        BY <3>1, <3>2, <3>3
    <2> QED
      BY <2>2, <2>3 DEF Follows
  <1>2. DbInv /\ [Next]_db =>
          [db'.uuid = db.uuid =>
             /\ \A c \in db'.changes \ db.changes : c.seq > db.updateSeq
             /\ \A d \in Doc :
                  Exists(db', d) /\ LeafRevs(Nodes(db', d)) # LeafRevs(Nodes(db, d))
                    => \E c \in db'.changes : c.id = d /\ c.seq > db.updateSeq]_db
    BY <1>1
  <1> QED
    BY <1>2, Ordered, PTL DEF Spec, ChangesAreNews

\* An edit takes its parent from the leaves of the merged tree: every root that
\* holds the parent holds the edit below it.
LEMMA ParentNoLeaf ==
  ASSUME NEW N, Shaped(N), NEW r \in Rev, Gen[r] > 1, NEW p, p = Parent(r),
         NEW M, M = MergeNodes(N, p, r, Absorbed(N, p, r))
  PROVE  p \notin LeafRevs(M)
  <1> DEFINE A == Absorbed(N, p, r)
  <1>0. p \in Rev /\ p \in Anc[r] /\ p # r
    BY ParentBasics, RevAssumption
  <1>1. r \in Grown(N, p, r, A)
    BY <1>0, BetweenBasics DEF Grown
  <1> SUFFICES ASSUME NEW n \in LeafNodes(M), n[2] = p
               PROVE  FALSE
    BY DEF LeafRevs, RevsOf
  <1>2. n \in M
    BY DEF LeafNodes
  <1>3. n[1] \in Targets(N, p, A)
    <2>1. CASE n \in N /\ n[1] \notin A
      <3>1. n = <<n[1], p>> /\ n[1] \in Roots(N)
        BY <2>1, RootPresent DEF Shaped
      <3> QED
        BY <2>1, <3>1 DEF Hosts, Targets
    <2> QED
      BY <1>2, <2>1 DEF MergeNodes
  <1> DEFINE m == <<n[1], r>>
  <1>4. m \in M /\ m[1] = n[1] /\ m[2] = r
    BY <1>1, <1>3 DEF MergeNodes
  <1> HIDE DEF m
  <1>5. m = n
    BY <1>0, <1>4 DEF LeafNodes
  <1> QED
    BY <1>0, <1>4, <1>5

\* The leaves after an edit.
LEMMA EditLeaves ==
  ASSUME DbOk(db), NEW d \in Doc, NEW r \in Rev, NEW named \in BOOLEAN, NEW limit \in Limits,
         NEW U \in SUBSET Att[r], Edit(d, r, named, U, limit),
         NEW old, old = LeafRevs(Nodes(db, d)), NEW new, new = LeafRevs(Nodes(db', d))
  PROVE  /\ new \subseteq old \union {r}
         /\ \A l \in old : \E n \in new : l \in Anc[n]
         /\ old # {} => Gen[r] > 1 /\ Parent(r) \in old /\ Parent(r) \notin new
  <1> DEFINE q == EditStart(r)
  <1> SUFFICES ASSUME NEW t, t = db.docs[d].tree, NEW u, u = MergeAndStem(t, q, r, limit)
               PROVE  /\ new \subseteq old \union {r}
                      /\ \A l \in old : \E n \in new : l \in Anc[n]
                      /\ old # {} => Gen[r] > 1 /\ Parent(r) \in old /\ Parent(r) \notin new
    OBVIOUS
  <1>0. /\ q \in Anc[r] /\ limit \in Nat /\ db \in DbType /\ TreeOk(t)
        /\ U \in SUBSET Digest /\ old = LeafRevs(t.nodes)
    BY EditPath, LimitsAssumption, AttAssumption DEF DbOk, TreesOk, Nodes
  <1>1. db' = ApplyWrite(db, d, q, r, U, limit) /\ EditAccepted(db, d, r, named)
    BY DEF Edit, NewEdit
  <1>2. new = LeafRevs(u.nodes)
    <2>1. Recorded(db, db', d, u,
            (db.docs[d].bodies \ Stemmed(db.docs[d].tree, q, r, limit)) \union {r}, U)
      <3> HIDE DEF q
      <3> QED
        BY <1>0, <1>1, ApplyWriteFields
    <2> QED
      BY <2>1 DEF Recorded, Nodes
  <1> HIDE DEF q
  <1>3. new \subseteq old \union {r}
    <2>1. LeafRevs(u.nodes) \subseteq LeafRevs(t.nodes) \union {r}
      BY <1>0, StoreEffect
    <2> QED
      BY <1>0, <1>2, <2>1
  <1>4. \A l \in old : \E n \in new : l \in Anc[n]
    <2>1. \A s \in RevsOf(t.nodes) \union Between(q, r) : \E l \in LeafRevs(u.nodes) : s \in Anc[l]
      BY <1>0, StoreEffect
    <2>2. LeafRevs(t.nodes) \subseteq RevsOf(t.nodes)
      BY <1>0, LeafExists DEF TreeOk
    <2> QED
      BY <1>0, <1>2, <2>1, <2>2
  <1>5. ASSUME old # {}
        PROVE  Gen[r] > 1 /\ Parent(r) \in old /\ Parent(r) \notin new
    <2>0. t.nodes # {}
      BY <1>0, <1>5, LeafExists DEF TreeOk
    <2>1. Gen[r] # 1 /\ ExtendsLeaf(t.nodes, Parent(r), r)
      BY <1>1, <2>0 DEF EditAccepted, Exists, Nodes
    <2>2. Gen[r] > 1 /\ q = Parent(r)
      BY <2>1, RevAssumption DEF q, EditStart
    <2>3. Parent(r) \in old
      BY <1>0, <2>0, <2>1 DEF ExtendsLeaf, LeafRevs, RevsOf
    <2>4. TreeOk(Merge(t, q, r)) /\ Merge(t, q, r).nodes = MergeNodes(t.nodes, q, r, Absorbed(t.nodes, q, r))
      BY <1>0, MergeOk DEF Merge
    <2>5. q \notin LeafRevs(Merge(t, q, r).nodes)
      BY <1>0, <2>2, <2>4, ParentNoLeaf DEF TreeOk
    <2>6. new \subseteq LeafRevs(Merge(t, q, r).nodes)
      <3>1. CASE limit = 0
        BY <1>2, <3>1 DEF MergeAndStem
      <3>2. CASE limit # 0
        <4>1. u = Stem(Merge(t, q, r), limit) /\ limit \in Nat \ {0}
          BY <1>0, <3>2 DEF MergeAndStem
        <4>2. Shaped(Merge(t, q, r).nodes)
          BY <2>4 DEF TreeOk
        <4> QED
          BY <1>2, <4>1, <4>2, StemLeaves
      <3> QED
        BY <3>1, <3>2
    <2> QED
      BY <2>2, <2>3, <2>5, <2>6
  <1> QED
    BY <1>3, <1>4, <1>5

\* A local edit takes the place of one leaf: it never adds to the conflicts of
\* a document, and never loses one.
THEOREM EditsMakeNoConflict == Spec => EditMakesNoConflict
  <1>1. ASSUME DbInv, NEW d \in Doc, NEW r \in Rev, NEW named \in BOOLEAN, NEW limit \in Limits,
               NEW U \in SUBSET Att[r], Edit(d, r, named, U, limit),
               NEW old, old = LeafRevs(Nodes(db, d)), NEW new, new = LeafRevs(Nodes(db', d))
        PROVE  /\ Cardinality(new) <= IF old = {} THEN 1 ELSE Cardinality(old)
               /\ \A l \in old : \E n \in new : l \in Anc[n]
    <2>1. DbOk(db) /\ IsFiniteSet(old)
      BY <1>1 DEF DbInv, DbOk, TreesOk
    <2>2. new \subseteq old \union {r} /\ \A l \in old : \E n \in new : l \in Anc[n]
      BY <1>1, <2>1, EditLeaves
    <2>3. CASE old = {}
      <3>1. new \subseteq {r}
        BY <2>2, <2>3
      <3>2. Cardinality({r}) = 1 /\ IsFiniteSet({r})
        BY FS_Singleton
      <3>3. Cardinality(new) <= 1
        BY <3>1, <3>2, FS_Subset
      <3> QED
        BY <2>2, <2>3, <3>3
    <2>4. CASE old # {}
      <3> DEFINE rest == old \ {Parent(r)}
      <3>1. Parent(r) \in old /\ Parent(r) \notin new
        BY <1>1, <2>1, <2>4, EditLeaves
      <3>2. IsFiniteSet(rest) /\ Cardinality(rest) = Cardinality(old) - 1
        BY <2>1, <3>1, FS_RemoveElement
      <3>3. new \subseteq rest \union {r}
        BY <2>2, <3>1
      <3>4. /\ IsFiniteSet(rest \union {r})
            /\ Cardinality(rest \union {r}) <= Cardinality(rest) + 1
        <4>1. Cardinality(rest) \in Nat
          BY <3>2, FS_CardinalityType
        <4> HIDE DEF rest
        <4>2. IsFiniteSet(rest \union {r})
          BY <3>2, FS_AddElement
        <4>3. Cardinality(rest \union {r}) = IF r \in rest THEN Cardinality(rest) ELSE Cardinality(rest) + 1
          BY <3>2, FS_AddElement
        <4> QED
          BY <4>1, <4>2, <4>3
      <3>5. Cardinality(new) <= Cardinality(rest \union {r})
        BY <3>3, <3>4, FS_Subset
      <3>6. /\ Cardinality(new) \in Nat /\ Cardinality(old) \in Nat
            /\ Cardinality(rest \union {r}) \in Nat
        BY <2>1, <3>3, <3>4, FS_Subset, FS_CardinalityType
      <3>7. Cardinality(new) <= Cardinality(old)
        BY <3>2, <3>4, <3>5, <3>6
      <3> QED
        BY <2>2, <2>4, <3>7
    <2> QED
      BY <2>3, <2>4
  <1>2. DbInv /\ [Next]_db =>
          [\A d \in Doc, r \in Rev, named \in BOOLEAN, limit \in Limits :
             \A U \in SUBSET Att[r] : Edit(d, r, named, U, limit) =>
               LET old == LeafRevs(Nodes(db, d))
                   new == LeafRevs(Nodes(db', d))
               IN  /\ Cardinality(new) <= IF old = {} THEN 1 ELSE Cardinality(old)
                   /\ \A l \in old : \E n \in new : l \in Anc[n]]_db
    BY <1>1
  <1> QED
    BY <1>2, Ordered, PTL DEF Spec, EditMakesNoConflict
=============================================================================
