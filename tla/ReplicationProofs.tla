-------------------------- MODULE ReplicationProofs --------------------------
(***************************************************************************)
(* Replication never skips a revision: the properties of Replication, and  *)
(* of LiveReplication, for every set of databases, documents, revisions,   *)
(* replicators and batch size.                                             *)
(*                                                                         *)
(* A run may resume from a sequence when the target has the leaves of all  *)
(* documents that the source has changed up to it (Good).  That stays true *)
(* of a sequence while the source moves on, as a document changed again    *)
(* gets a later sequence, and while the target gains revisions (Evolve);   *)
(* a destroyed database has a new identity, so that nothing found before   *)
(* is looked up again.  The rest is that every sequence a run stores, or   *)
(* moves on to, is good.                                                   *)
(***************************************************************************)
EXTENDS LiveReplication, DatabaseProofs, SequenceTheorems

\* The identities of x's databases.
IdsIn(dbs, x) == <<<<Source[x], dbs[Source[x]].uuid>>, <<Target[x], dbs[Target[x]].uuid>>>>

\* No application takes anything from x's target, and what x reads may only be
\* restored if it stores x's checkpoints.
Keeps(p, x) ==
  /\ Target[x] \notin p.purged \union p.restorable
  /\ Source[x] \in p.restorable => Source[x] \notin p.readOnly

\* The ids are, or were, those of x's databases.
Known(dbs, ids, x) ==
  \E u \in 0 .. dbs[Source[x]].uuid, v \in 0 .. dbs[Target[x]].uuid :
    ids = <<<<Source[x], u>>, <<Target[x], v>>>>

----------------------------------------------------------------------------
(* What a run may rely on, with the source S, the target T, the filter f and *)
(* the documents den that T denies                                           *)

\* The documents f lets through.
Passed(f, den) == f.ids \ den

\* The target has the leaves of the documents changed up to s, but for those in
\* due.
Covered(S, T, den, f, s, due) ==
  \A d \in Doc : Exists(S, d) /\ S.docs[d].seq <= s /\ d \in Passed(f, den) =>
    \A l \in LeafRevs(Nodes(S, d)) \intersect f.revs :
      l \in RevsOf(Nodes(T, d)) \/ <<d, l>> \in due

\* A sequence that a run may resume from.
Good(S, T, den, f, s) == s \in Nat /\ s <= S.updateSeq /\ Covered(S, T, den, f, s, {})

Entry == [last : Nat, session : Nat]

IsCheckpoint(cp) == cp.last \in Nat /\ cp.session \in Nat /\ cp.history \in Seq(Entry)

GoodHistory(S, T, den, f, h) == \A i \in DOMAIN h : Good(S, T, den, f, h[i].last)

GoodCheckpoint(S, T, den, f, cp) ==
  Good(S, T, den, f, cp.last) /\ GoodHistory(S, T, den, f, cp.history)

\* The documents changed when the run started have been scanned up to s.
EndsAt(S, r, s) ==
  \A d \in Doc : Exists(S, d) /\ S.docs[d].seq <= r.goal /\ d \in r.filter.ids => S.docs[d].seq <= s

BatchPcs == {"diff", "get", "check", "write", "written"}
SavePcs == {"history", "cp_target", "cp_source"}

\* What the batch still has to bring to the target.
Due(r) ==
  {<<w.id, w.rev>> : w \in IF r.pc = "get" THEN r.wanted ELSE {}}
    \union {<<w.id, w.rev>> : w \in IF r.pc = "check" THEN r.gone ELSE {}}
    \union {<<w.id, w.rev>> : w \in IF r.pc \in {"check", "write"} THEN r.docs ELSE {}}
    \union UNION {{b.id} \X b.revs : b \in IF r.pc = "diff" THEN r.batch ELSE {}}

\* What is true of a run at any time: where it is, and what its checkpoints say.
Core(S, T, p, x, r) ==
  /\ Good(S, T, p.denied, r.filter, r.since)
  /\ r.goal \in Nat /\ r.goal <= S.updateSeq
  /\ GoodHistory(S, T, p.denied, r.filter, r.prior)
  /\ Source[x] \notin p.restorable => GoodCheckpoint(S, T, p.denied, r.filter, r.tcp)

\* A batch: what it brings completes what the target has up to its end, and it
\* is the last one unless it is full.
BatchSound(S, T, den, r, due) ==
  /\ r.last <= S.updateSeq
  /\ ~r.failed => Covered(S, T, den, r.filter, r.last, due)
  /\ ~r.full => EndsAt(S, r, r.last)

Phase(S, T, p, r) ==
  /\ r.pc \in BatchPcs => BatchSound(S, T, p.denied, r, Due(r))
  /\ r.pc \in SavePcs /\ (~r.full \/ r.final) /\ ~r.failed => EndsAt(S, r, r.since)
  /\ r.pc = "done" /\ ~r.failed => EndsAt(S, r, r.since)

\* The data a run carries.
Wanted == [id : Doc, rev : Rev]

Carried(r) ==
  /\ \A b \in r.batch : b.id \in Doc /\ b.revs \in SUBSET Rev /\ IsFiniteSet(b.revs)
  /\ IsFiniteSet(r.batch)
  /\ r.wanted \in SUBSET Wanted /\ IsFiniteSet(r.wanted)
  /\ r.gone \in SUBSET Wanted
  /\ \A w \in r.docs : w.id \in Doc /\ w.rev \in Rev /\ w.start \in Anc[w.rev]
  /\ IsFiniteSet(r.docs)
  /\ r.session \in Nat /\ r.since \in Nat /\ r.last \in Nat
  /\ r.prior \in Seq(Entry) /\ IsCheckpoint(r.tcp)

\* Only the end of a run is final, and a run with a failure goes there.
Flags(r) ==
  /\ r.pc \notin SavePcs => ~r.final
  /\ r.pc \in {"read_target", "read_source", "probe", "changes", "diff", "get"} => ~r.failed
  /\ r.pc \in SavePcs /\ r.failed => r.final

Fields ==
  {"pc", "ids", "filter", "session", "readOnly", "tcp", "since", "saved", "goal", "batch", "last",
   "full", "wanted", "docs", "gone", "failed", "prior", "final"}

\* The data of a run, and what it may rely on as long as its databases are
\* there: what does not depend on where it is.
Base(dbs, p, x, r) ==
  /\ DOMAIN r = Fields
  /\ Carried(r)
  /\ Keeps(p, x) /\ Known(dbs, r.ids, x)
  /\ r.readOnly => Source[x] \in p.readOnly
  /\ r.ids = IdsIn(dbs, x) => Core(dbs[Source[x]], dbs[Target[x]], p, x, r)

RunOk(dbs, p, x, r) ==
  IF r.pc = "idle"
    THEN DOMAIN r = Fields /\ (r.readOnly => Source[x] \in p.readOnly)
    ELSE /\ Base(dbs, p, x, r)
         /\ Flags(r)
         /\ r.ids = IdsIn(dbs, x) => Phase(dbs[Source[x]], dbs[Target[x]], p, r)

----------------------------------------------------------------------------
(* The invariant *)

\* A database keeps no body of a revision it does not know.
DbFine(b) ==
  DbOk(b) /\ \A d \in Doc : b.docs[d].bodies \subseteq RevsOf(Nodes(b, d))

\* The checkpoint cp of x at its source or its target, for the filter f.
KeptAt(dbs, p, x, n, ids, f, cp) ==
  /\ Keeps(p, x) /\ Known(dbs, ids, x)
  /\ ids = IdsIn(dbs, x) /\ (n = Source[x] \/ Source[x] \notin p.restorable) =>
       GoodCheckpoint(dbs[Source[x]], dbs[Target[x]], p.denied, f, cp)

\* The checkpoints L that n stores.
StoredOk(dbs, p, n, L) ==
  \A k \in DOMAIN L :
    /\ IsCheckpoint(L[k])
    /\ \E x \in Replicator : KeptAt(dbs, p, x, n, k[1], k[2], L[k])

\* The same of what a restore of n brings back.
BackupOk(dbs, p, n, b) ==
  n \in p.restorable /\ dbs[n].uuid = 0 =>
    /\ DbFine(b.db) /\ b.db.uuid = 0
    /\ StoredOk([dbs EXCEPT ![n] = b.db], p, n, b.local)

Sound(dbs, locs, runs, last, backups, p) ==
  /\ p \in Situations
  /\ DOMAIN dbs = Node /\ \A n \in Node : DbFine(dbs[n])
  /\ DOMAIN locs = Node /\ \A n \in Node : StoredOk(dbs, p, n, locs[n])
  /\ DOMAIN runs = Replicator /\ \A x \in Replicator : RunOk(dbs, p, x, runs[x])
  /\ last \in Nat
  /\ DOMAIN backups = Node /\ \A n \in Node : BackupOk(dbs, p, n, backups[n])

ReplInv == Sound(db, local, run, sessions, backup, policy)

----------------------------------------------------------------------------
(* Databases *)

\* The database c is b some steps later: it has not been destroyed.
Moved(b, c) == DbFine(c) /\ Follows(b, c) /\ c.uuid = b.uuid

\* It knows all the revisions it knew.
Gained(b, c) == \A d \in Doc : RevsOf(Nodes(b, d)) \subseteq RevsOf(Nodes(c, d))

LEMMA MovedSelf ==
  ASSUME NEW b, DbFine(b)
  PROVE  Moved(b, b) /\ Gained(b, b)
  <1>1. b \in DbType /\ b.updateSeq \in Nat
    BY DEF DbFine, DbOk, DbType
  <1> QED
    BY <1>1, FollowsSelf DEF Moved, Gained

LEMMA MovedTrans ==
  ASSUME NEW a, DbFine(a), NEW b, NEW c, Moved(a, b), Moved(b, c)
  PROVE  Moved(a, c) /\ (Gained(a, b) /\ Gained(b, c) => Gained(a, c))
  <1>1. Follows(a, c)
    BY FollowsTrans DEF DbFine, DbOk, Moved
  <1> QED
    BY <1>1 DEF Moved, Gained

\* An empty database.
LEMMA EmptyFine ==
  ASSUME NEW u \in Nat
  PROVE  DbFine(EmptyDb(u)) /\ EmptyDb(u).uuid = u
  BY EmptyDbOk DEF DbFine, EmptyDb, NoDoc

\* Without a limit a write adds its path, and stores its last revision.
LEMMA UnlimitedWrite ==
  ASSUME NEW b, DbFine(b), NEW d \in Doc, NEW r \in Rev, NEW q \in Anc[r],
         NEW c, c = ApplyWrite(b, d, q, r, {}, 0)
  PROVE  Moved(b, c) /\ Gained(b, c) /\ r \in RevsOf(Nodes(c, d))
  <1> SUFFICES ASSUME NEW t, t = b.docs[d].tree, NEW u, u = MergeAndStem(t, q, r, 0)
               PROVE  Moved(b, c) /\ Gained(b, c) /\ r \in RevsOf(Nodes(c, d))
    OBVIOUS
  <1>0. b \in DbType /\ TreeOk(t) /\ Att[r] = {} /\ {} \in SUBSET Digest /\ 0 \in Nat
    BY ReplicationAssumption DEF DbFine, DbOk, TreesOk
  <1>1. DbOk(c) /\ Wrote(b, c, d, r)
    BY <1>0, ApplyWriteOk DEF DbFine
  <1>2. RevsOf(u.nodes) = RevsOf(t.nodes) \union Between(q, r)
    <2>1. u.nodes = MergeNodes(t.nodes, q, r, Absorbed(t.nodes, q, r))
      BY DEF MergeAndStem, Merge
    <2> QED
      BY <1>0, <2>1, MergeRevs DEF TreeOk
  <1>3. Recorded(b, c, d, u, (b.docs[d].bodies \ Stemmed(t, q, r, 0)) \union {r}, {})
    BY <1>0, ApplyWriteFields
  <1>4. r \in Between(q, r)
    BY BetweenBasics
  <1>5. /\ Nodes(c, d) = u.nodes /\ c.docs[d].bodies \subseteq b.docs[d].bodies \union {r}
        /\ \A e \in Doc \ {d} : c.docs[e] = b.docs[e]
    BY <1>3 DEF Recorded, Nodes
  <1>6. ASSUME NEW e \in Doc
        PROVE  /\ RevsOf(Nodes(b, e)) \subseteq RevsOf(Nodes(c, e))
               /\ c.docs[e].bodies \subseteq RevsOf(Nodes(c, e))
    <2>1. b.docs[e].bodies \subseteq RevsOf(Nodes(b, e))
      BY DEF DbFine
    <2>2. CASE e = d
      BY <1>2, <1>4, <1>5, <2>1, <2>2 DEF Nodes
    <2>3. CASE e # d
      BY <1>5, <2>1, <2>3 DEF Nodes
    <2> QED
      BY <2>2, <2>3
  <1> QED
    BY <1>1, <1>2, <1>4, <1>5, <1>6 DEF Moved, Gained, DbFine, Wrote

LEMMA ReplicatedWrite ==
  ASSUME NEW b, DbFine(b), NEW d \in Doc, NEW r \in Rev, NEW q \in Anc[r],
         NEW c, c = ReplicatedEdit(b, d, q, r, {}, 0)
  PROVE  Moved(b, c) /\ Gained(b, c) /\ r \in RevsOf(Nodes(c, d))
  <1>1. StubsPresent(b, r, {})
    BY ReplicationAssumption DEF StubsPresent
  <1>2. CASE AlreadyStored(b, d, r)
    BY <1>2, MovedSelf DEF ReplicatedEdit, AlreadyStored
  <1>3. CASE ~AlreadyStored(b, d, r)
    <2>1. c = ApplyWrite(b, d, q, r, {}, 0)
      BY <1>1, <1>3 DEF ReplicatedEdit
    <2> QED
      BY <2>1, UnlimitedWrite
  <1> QED
    BY <1>2, <1>3

LEMMA EditMoves ==
  ASSUME NEW b, DbFine(b), NEW d \in Doc, NEW r \in Rev, NEW c, c = NewEdit(b, d, r, {}, 0)
  PROVE  Moved(b, c) /\ Gained(b, c)
  BY EditPath, UnlimitedWrite DEF NewEdit

\* What a purge leaves.
LEMMA PurgedMoves ==
  ASSUME NEW b, DbFine(b), NEW c, DbOk(c), Purged(b, c)
  PROVE  Moved(b, c)
  <1>1. ASSUME NEW d \in Doc
        PROVE  c.docs[d].bodies \subseteq RevsOf(Nodes(c, d))
    BY DEF Purged, DbFine
  <1> QED
    BY <1>1 DEF Moved, DbFine, Purged

LEMMA PurgeMoves ==
  ASSUME NEW b, DbFine(b), NEW d \in Doc, NEW R, NEW c, c = PurgeEnd(b, PurgeDoc(b, d, R))
  PROVE  Moved(b, c)
  <1> DEFINE e == PurgeDoc(b, d, R)
  <1>1. DbOk(e) /\ Purged(b, e)
    BY PurgeDocOk DEF DbFine
  <1> HIDE DEF e
  <1>2. DbOk(c) /\ Purged(e, c)
    BY <1>1, PurgeEndOk DEF e
  <1> QED
    BY <1>1, <1>2, PurgedTrans, PurgedMoves DEF DbFine

LEMMA CompactMoves ==
  ASSUME NEW b, DbFine(b), NEW c, c = Compact(b)
  PROVE  Moved(b, c) /\ Gained(b, c)
  <1>1. DbOk(c) /\ Purged(b, c)
    BY CompactOk DEF DbFine
  <1>2. ASSUME NEW d \in Doc
        PROVE  Nodes(c, d) = Nodes(b, d)
    <2>1. b \in DbType /\ b.docs[d] \in DocState
      BY DEF DbFine, DbOk, DbType
    <2> DEFINE new(e) == [b.docs[e] EXCEPT !.bodies = @ \intersect LeafRevs(Nodes(b, e)),
                                           !.tree = MarkNonLeavesMissing(@)]
    <2>2. Compacted(b.docs[d], new(d), LeafRevs(Nodes(b, d)))
      BY <2>1, CompactDoc
    <2>3. c = CollectBlobs([b EXCEPT !.docs = [e \in Doc |-> new(e)]])
      BY DEF Compact
    <2> HIDE DEF new
    <2>4. c.docs[d] = new(d)
      BY <2>1, <2>3 DEF CollectBlobs, DbType
    <2> QED
      BY <2>2, <2>4 DEF Compacted, Nodes
  <1> QED
    BY <1>1, <1>2, PurgedMoves DEF Gained

----------------------------------------------------------------------------
(* What stays true while databases move on *)

LEMMA SeqFields ==
  ASSUME NEW b, DbFine(b)
  PROVE  b.updateSeq \in Nat /\ b.uuid \in Nat /\ \A d \in Doc : b.docs[d].seq \in Nat
  BY DocFields DEF DbFine, DbOk, DbType

\* A document whose sequence is an old one is as it was.
LEMMA OldSequence ==
  ASSUME NEW S, DbFine(S), NEW S2, Moved(S, S2), NEW s \in Nat, s <= S.updateSeq,
         NEW d \in Doc, Exists(S2, d), S2.docs[d].seq <= s
  PROVE  Exists(S, d) /\ S.docs[d].seq = S2.docs[d].seq /\ Nodes(S, d) = Nodes(S2, d)
  <1>1. S.updateSeq \in Nat /\ S2.docs[d].seq \in Nat
    BY SeqFields DEF Moved
  <1>2. ~(S2.docs[d].seq > S.updateSeq)
    BY <1>1
  <1>3. S.docs[d].seq = S2.docs[d].seq /\ Nodes(S, d) = Nodes(S2, d)
    BY <1>2 DEF Moved, Follows
  <1> QED
    BY <1>3 DEF Exists, Nodes

LEMMA CoveredKept ==
  ASSUME NEW S, DbFine(S), NEW S2, Moved(S, S2), NEW T, NEW T2, Gained(T, T2),
         NEW den, NEW f, NEW s \in Nat, s <= S.updateSeq, NEW due, Covered(S, T, den, f, s, due)
  PROVE  Covered(S2, T2, den, f, s, due)
  <1> SUFFICES ASSUME NEW d \in Doc, Exists(S2, d), S2.docs[d].seq <= s, d \in Passed(f, den),
                      NEW l \in LeafRevs(Nodes(S2, d)) \intersect f.revs
               PROVE  l \in RevsOf(Nodes(T2, d)) \/ <<d, l>> \in due
    BY DEF Covered
  <1>1. Exists(S, d) /\ S.docs[d].seq = S2.docs[d].seq /\ Nodes(S, d) = Nodes(S2, d)
    BY OldSequence
  <1>2. l \in RevsOf(Nodes(T, d)) \/ <<d, l>> \in due
    BY <1>1 DEF Covered
  <1> QED
    BY <1>2 DEF Gained

LEMMA GoodKept ==
  ASSUME NEW S, DbFine(S), NEW S2, Moved(S, S2), NEW T, NEW T2, Gained(T, T2),
         NEW den, NEW f, NEW s, Good(S, T, den, f, s)
  PROVE  Good(S2, T2, den, f, s)
  <1>1. S.updateSeq \in Nat /\ S2.updateSeq \in Nat /\ S.updateSeq <= S2.updateSeq
    BY SeqFields DEF Moved, Follows
  <1> QED
    BY <1>1, CoveredKept DEF Good

LEMMA GoodHistoryKept ==
  ASSUME NEW S, DbFine(S), NEW S2, Moved(S, S2), NEW T, NEW T2, Gained(T, T2),
         NEW den, NEW f, NEW h, GoodHistory(S, T, den, f, h)
  PROVE  GoodHistory(S2, T2, den, f, h)
  BY GoodKept DEF GoodHistory

LEMMA GoodCheckpointKept ==
  ASSUME NEW S, DbFine(S), NEW S2, Moved(S, S2), NEW T, NEW T2, Gained(T, T2),
         NEW den, NEW f, NEW cp, GoodCheckpoint(S, T, den, f, cp)
  PROVE  GoodCheckpoint(S2, T2, den, f, cp)
  BY GoodKept, GoodHistoryKept DEF GoodCheckpoint

LEMMA EndsAtKept ==
  ASSUME NEW S, DbFine(S), NEW S2, Moved(S, S2), NEW r, r.goal \in Nat, r.goal <= S.updateSeq,
         NEW s, EndsAt(S, r, s)
  PROVE  EndsAt(S2, r, s)
  <1> SUFFICES ASSUME NEW d \in Doc, Exists(S2, d), S2.docs[d].seq <= r.goal, d \in r.filter.ids
               PROVE  S2.docs[d].seq <= s
    BY DEF EndsAt
  <1>1. Exists(S, d) /\ S.docs[d].seq = S2.docs[d].seq
    BY OldSequence
  <1> QED
    BY <1>1 DEF EndsAt

LEMMA CoreKept ==
  ASSUME NEW S, DbFine(S), NEW S2, Moved(S, S2), NEW T, NEW T2, Gained(T, T2),
         NEW p, NEW x, NEW r, Core(S, T, p, x, r)
  PROVE  Core(S2, T2, p, x, r)
  <1>1. S.updateSeq \in Nat /\ S2.updateSeq \in Nat /\ S.updateSeq <= S2.updateSeq
    BY SeqFields DEF Moved, Follows
  <1>2. Good(S2, T2, p.denied, r.filter, r.since)
    BY GoodKept DEF Core
  <1>3. r.goal \in Nat /\ r.goal <= S2.updateSeq
    BY <1>1 DEF Core
  <1>4. GoodHistory(S2, T2, p.denied, r.filter, r.prior)
    BY GoodHistoryKept DEF Core
  <1>5. Source[x] \notin p.restorable => GoodCheckpoint(S2, T2, p.denied, r.filter, r.tcp)
    BY GoodCheckpointKept DEF Core
  <1> QED
    BY <1>2, <1>3, <1>4, <1>5 DEF Core

LEMMA PhaseKept ==
  ASSUME NEW S, DbFine(S), NEW S2, Moved(S, S2), NEW T, NEW T2, Gained(T, T2),
         NEW p, NEW x, NEW r, Carried(r), Core(S, T, p, x, r), Phase(S, T, p, r)
  PROVE  Phase(S2, T2, p, r)
  <1>1. S.updateSeq \in Nat /\ S2.updateSeq \in Nat /\ S.updateSeq <= S2.updateSeq
    BY SeqFields DEF Moved, Follows
  <1>2. r.goal \in Nat /\ r.goal <= S.updateSeq
    BY DEF Core
  <1>3. r.pc \in BatchPcs => BatchSound(S2, T2, p.denied, r, Due(r))
    BY <1>1, <1>2, CoveredKept, EndsAtKept DEF Phase, BatchSound, Carried
  <1>4. r.pc \in SavePcs /\ (~r.full \/ r.final) /\ ~r.failed => EndsAt(S2, r, r.since)
    BY <1>2, EndsAtKept DEF Phase
  <1>5. r.pc = "done" /\ ~r.failed => EndsAt(S2, r, r.since)
    BY <1>2, EndsAtKept DEF Phase
  <1> QED
    BY <1>3, <1>4, <1>5 DEF Phase

----------------------------------------------------------------------------
(* What stays true of the replicators and their checkpoints *)

\* The databases some steps later: each has been destroyed, or has moved on, and
\* lost nothing unless applications purge it.
EvolveAt(dbs, next, p, n) ==
  /\ DbFine(dbs[n]) /\ DbFine(next[n])
  /\ \/ next[n].uuid > dbs[n].uuid
     \/ Moved(dbs[n], next[n]) /\ (n \in p.purged \/ Gained(dbs[n], next[n]))

Evolve(dbs, next, p) ==
  /\ DOMAIN dbs = Node /\ DOMAIN next = Node
  /\ \A n \in Node : EvolveAt(dbs, next, p, n)

LEMMA Endpoints ==
  ASSUME NEW x \in Replicator
  PROVE  Source[x] \in Node /\ Target[x] \in Node /\ Source[x] # Target[x]
  BY ReplicationAssumption

\* The identities of x's databases, later: the same, while neither is destroyed.
LEMMA IdsKept ==
  ASSUME NEW dbs, NEW next, NEW p, Evolve(dbs, next, p), NEW x \in Replicator, Keeps(p, x),
         NEW ids, Known(dbs, ids, x)
  PROVE  /\ Known(next, ids, x)
         /\ ids = IdsIn(next, x) =>
              /\ ids = IdsIn(dbs, x)
              /\ DbFine(dbs[Source[x]]) /\ Moved(dbs[Source[x]], next[Source[x]])
              /\ Gained(dbs[Target[x]], next[Target[x]])
  <1> SUFFICES ASSUME NEW m, m = Source[x], NEW n, n = Target[x]
               PROVE  /\ Known(next, ids, x)
                      /\ ids = IdsIn(next, x) =>
                           /\ ids = IdsIn(dbs, x)
                           /\ DbFine(dbs[m]) /\ Moved(dbs[m], next[m])
                           /\ Gained(dbs[n], next[n])
    OBVIOUS
  <1>1. m \in Node /\ n \in Node /\ n \notin p.purged
    BY Endpoints DEF Keeps
  <1>2. EvolveAt(dbs, next, p, m) /\ EvolveAt(dbs, next, p, n)
    BY <1>1 DEF Evolve
  <1>3. /\ dbs[m].uuid \in Nat /\ next[m].uuid \in Nat
        /\ dbs[n].uuid \in Nat /\ next[n].uuid \in Nat
    BY <1>2, SeqFields DEF EvolveAt
  <1>4. /\ next[m].uuid >= dbs[m].uuid /\ next[n].uuid >= dbs[n].uuid
        /\ next[m].uuid = dbs[m].uuid => Moved(dbs[m], next[m])
        /\ next[n].uuid = dbs[n].uuid => Gained(dbs[n], next[n])
    BY <1>1, <1>2, <1>3 DEF EvolveAt, Moved
  <1>5. PICK u \in 0 .. dbs[m].uuid, v \in 0 .. dbs[n].uuid : ids = <<<<m, u>>, <<n, v>>>>
    BY DEF Known
  <1>6. u \in 0 .. next[m].uuid /\ v \in 0 .. next[n].uuid
    BY <1>3, <1>4, <1>5
  <1>7. Known(next, ids, x)
    BY <1>5, <1>6 DEF Known
  <1>8. ASSUME ids = IdsIn(next, x)
        PROVE  u = next[m].uuid /\ v = next[n].uuid
    BY <1>5, <1>8 DEF IdsIn
  <1>9. ASSUME ids = IdsIn(next, x)
        PROVE  next[m].uuid = dbs[m].uuid /\ next[n].uuid = dbs[n].uuid
    BY <1>3, <1>4, <1>5, <1>8, <1>9
  <1>10. ids = IdsIn(next, x) => ids = IdsIn(dbs, x)
    BY <1>9 DEF IdsIn
  <1> QED
    BY <1>2, <1>4, <1>7, <1>9, <1>10 DEF EvolveAt

LEMMA BaseKept ==
  ASSUME NEW dbs, NEW next, NEW p, Evolve(dbs, next, p), NEW x \in Replicator, NEW r,
         Base(dbs, p, x, r)
  PROVE  Base(next, p, x, r)
  <1>1. Keeps(p, x) /\ Known(dbs, r.ids, x)
    BY DEF Base
  <1>2. Known(next, r.ids, x)
    BY <1>1, IdsKept
  <1>3. ASSUME r.ids = IdsIn(next, x)
        PROVE  Core(next[Source[x]], next[Target[x]], p, x, r)
    BY <1>1, <1>3, IdsKept, CoreKept DEF Base
  <1> QED
    BY <1>1, <1>2, <1>3 DEF Base

LEMMA RunKept ==
  ASSUME NEW dbs, NEW next, NEW p, Evolve(dbs, next, p), NEW x \in Replicator, NEW r,
         RunOk(dbs, p, x, r)
  PROVE  RunOk(next, p, x, r)
  <1>1. CASE r.pc = "idle"
    BY <1>1 DEF RunOk
  <1>2. CASE r.pc # "idle"
    <2>1. Base(dbs, p, x, r) /\ Flags(r)
      BY <1>2 DEF RunOk
    <2>2. Keeps(p, x) /\ Known(dbs, r.ids, x)
      BY <2>1 DEF Base
    <2>3. ASSUME r.ids = IdsIn(next, x)
          PROVE  Phase(next[Source[x]], next[Target[x]], p, r)
      <3>1. /\ r.ids = IdsIn(dbs, x)
            /\ DbFine(dbs[Source[x]]) /\ Moved(dbs[Source[x]], next[Source[x]])
            /\ Gained(dbs[Target[x]], next[Target[x]])
        BY <2>2, <2>3, IdsKept
      <3>2. /\ Core(dbs[Source[x]], dbs[Target[x]], p, x, r)
            /\ Phase(dbs[Source[x]], dbs[Target[x]], p, r)
            /\ Carried(r)
        BY <1>2, <2>1, <3>1 DEF RunOk, Base
      <3> QED
        BY <3>1, <3>2, PhaseKept
    <2> QED
      BY <1>2, <2>1, <2>3, BaseKept DEF RunOk
  <1> QED
    BY <1>1, <1>2

LEMMA StoredKept ==
  ASSUME NEW dbs, NEW next, NEW p, Evolve(dbs, next, p), NEW n, NEW L, StoredOk(dbs, p, n, L)
  PROVE  StoredOk(next, p, n, L)
  <1> SUFFICES ASSUME NEW k \in DOMAIN L
               PROVE  /\ IsCheckpoint(L[k])
                      /\ \E x \in Replicator : KeptAt(next, p, x, n, k[1], k[2], L[k])
    BY DEF StoredOk
  <1>1. PICK x \in Replicator : KeptAt(dbs, p, x, n, k[1], k[2], L[k])
    BY DEF StoredOk
  <1>2. Keeps(p, x) /\ Known(dbs, k[1], x)
    BY <1>1 DEF KeptAt
  <1>3. Known(next, k[1], x)
    BY <1>2, IdsKept
  <1>4. ASSUME k[1] = IdsIn(next, x), n = Source[x] \/ Source[x] \notin p.restorable
        PROVE  GoodCheckpoint(next[Source[x]], next[Target[x]], p.denied, k[2], L[k])
    <2>1. /\ k[1] = IdsIn(dbs, x)
          /\ DbFine(dbs[Source[x]]) /\ Moved(dbs[Source[x]], next[Source[x]])
          /\ Gained(dbs[Target[x]], next[Target[x]])
      BY <1>2, <1>4, IdsKept
    <2>2. GoodCheckpoint(dbs[Source[x]], dbs[Target[x]], p.denied, k[2], L[k])
      BY <1>1, <1>4, <2>1 DEF KeptAt
    <2> QED
      BY <2>1, <2>2, GoodCheckpointKept
  <1>5. KeptAt(next, p, x, n, k[1], k[2], L[k])
    BY <1>2, <1>3, <1>4 DEF KeptAt
  <1> QED
    BY <1>5 DEF StoredOk

LEMMA BackedUp ==
  ASSUME NEW dbs, NEW next, NEW p, Evolve(dbs, next, p), NEW n \in Node, NEW b,
         BackupOk(dbs, p, n, b)
  PROVE  BackupOk(next, p, n, b)
  <1> SUFFICES ASSUME n \in p.restorable, next[n].uuid = 0
               PROVE  /\ DbFine(b.db) /\ b.db.uuid = 0
                      /\ StoredOk([next EXCEPT ![n] = b.db], p, n, b.local)
    BY DEF BackupOk
  <1>1. dbs[n].uuid = 0
    <2>1. EvolveAt(dbs, next, p, n)
      BY DEF Evolve
    <2>2. dbs[n].uuid \in Nat
      BY <2>1, SeqFields DEF EvolveAt
    <2> QED
      BY <2>1, <2>2 DEF EvolveAt, Moved
  <1>2. /\ DbFine(b.db) /\ b.db.uuid = 0
        /\ StoredOk([dbs EXCEPT ![n] = b.db], p, n, b.local)
    BY <1>1 DEF BackupOk
  <1> DEFINE before == [dbs EXCEPT ![n] = b.db]
             after == [next EXCEPT ![n] = b.db]
  <1>3. Evolve(before, after, p)
    <2>1. DOMAIN before = Node /\ DOMAIN after = Node
      BY DEF Evolve
    <2>2. ASSUME NEW m \in Node
          PROVE  EvolveAt(before, after, p, m)
      <3>1. CASE m = n
        <4>1. before[m] = b.db /\ after[m] = b.db
          BY <3>1 DEF Evolve
        <4> HIDE DEF before, after
        <4> QED
          BY <1>2, <4>1, MovedSelf DEF EvolveAt
      <3>2. CASE m # n
        <4>1. before[m] = dbs[m] /\ after[m] = next[m] /\ EvolveAt(dbs, next, p, m)
          BY <3>2 DEF Evolve
        <4> HIDE DEF before, after
        <4> QED
          BY <4>1 DEF EvolveAt
      <3> QED
        BY <3>1, <3>2
    <2> HIDE DEF before, after
    <2> QED
      BY <2>1, <2>2 DEF Evolve
  <1> HIDE DEF before, after
  <1>4. StoredOk(after, p, n, b.local)
    BY <1>2, <1>3, StoredKept DEF before
  <1> QED
    BY <1>2, <1>4 DEF after

----------------------------------------------------------------------------
(* Checkpoints *)

\* The entries kept of a history are well defined.
KeptOf(session, prior, n, f) ==
  f = [i \in 0 .. n |->
         IF i = 0 THEN <<>>
         ELSE IF prior[i].session = session THEN f[i - 1] ELSE Append(f[i - 1], prior[i])]

LEMMA OthersDefined ==
  ASSUME NEW session, NEW prior, NEW n \in Nat
  PROVE  \E f : KeptOf(session, prior, n, f)
  <1> DEFINE Next1(f, i) == IF prior[i].session = session THEN f[i - 1] ELSE Append(f[i - 1], prior[i])
             Fits(f, m) == f = [i \in 0 .. m |-> IF i = 0 THEN <<>> ELSE Next1(f, i)]
             S == {m \in Nat : \E f : Fits(f, m)}
  <1>1. 0 \in S
    <2> DEFINE f == [i \in 0 .. 0 |-> <<>>]
    <2>1. \A i \in 0 .. 0 : i = 0
      OBVIOUS
    <2>2. Fits(f, 0)
      BY <2>1
    <2> QED
      BY <2>2
  <1>2. ASSUME NEW m \in Nat, m \in S
        PROVE  m + 1 \in S
    <2>1. PICK f : Fits(f, m)
      BY <1>2
    <2> DEFINE g == [i \in 0 .. m + 1 |-> IF i = m + 1 THEN Next1(f, i) ELSE f[i]]
    <2>2. \A i \in 0 .. m : g[i] = f[i]
      OBVIOUS
    <2>3. ASSUME NEW i \in 0 .. m + 1
          PROVE  g[i] = IF i = 0 THEN <<>> ELSE Next1(g, i)
      <3>1. CASE i = 0
        BY <2>1, <2>2, <3>1
      <3>2. CASE i # 0 /\ i # m + 1
        <4>1. i \in 0 .. m /\ i - 1 \in 0 .. m
          BY <3>2
        <4>2. f[i] = Next1(f, i)
          BY <2>1, <3>2, <4>1
        <4>3. g[i] = f[i] /\ g[i - 1] = f[i - 1]
          BY <2>2, <4>1
        <4> HIDE DEF g
        <4> QED
          BY <3>2, <4>2, <4>3
      <3>3. CASE i = m + 1
        <4>1. i - 1 \in 0 .. m /\ g[i] = Next1(f, i)
          BY <3>3
        <4>2. g[i - 1] = f[i - 1]
          BY <2>2, <4>1
        <4> HIDE DEF g
        <4> QED
          BY <3>3, <4>1, <4>2
      <3> QED
        BY <3>1, <3>2, <3>3
    <2>4. Fits(g, m + 1)
      <3> HIDE DEF Next1
      <3> QED
        BY <2>3
    <2> HIDE DEF g
    <2> QED
      BY <2>4
  <1> HIDE DEF S
  <1>3. n \in S
    BY <1>1, <1>2, Induction
  <1> QED
    BY <1>3 DEF S, KeptOf

\* They are entries of it.
LEMMA OthersIs ==
  ASSUME NEW E, NEW prior \in Seq(E), NEW session
  PROVE  OthersOf(session, prior) \in Seq(E)
  <1> DEFINE n == Len(prior)
             kept == CHOOSE f : KeptOf(session, prior, n, f)
  <1>1. n \in Nat
    OBVIOUS
  <1>2. KeptOf(session, prior, n, kept)
    BY <1>1, OthersDefined
  <1>3. OthersOf(session, prior) = kept[n]
    BY DEF OthersOf, KeptOf
  <1>4. \A i \in 1 .. n : prior[i] \in E
    OBVIOUS
  <1> HIDE DEF kept, n
  <1> DEFINE S == {m \in Nat : m \in 0 .. n => kept[m] \in Seq(E)}
  <1>5. 0 \in S
    <2>1. 0 \in 0 .. n => kept[0] = <<>>
      BY <1>2 DEF KeptOf
    <2> QED
      BY <2>1, EmptySeq
  <1>6. ASSUME NEW m \in Nat, m \in S
        PROVE  m + 1 \in S
    <2> SUFFICES ASSUME m + 1 \in 0 .. n
                 PROVE  kept[m + 1] \in Seq(E)
      OBVIOUS
    <2>1. kept[m] \in Seq(E) /\ m + 1 \in 1 .. n
      BY <1>1, <1>6
    <2>2. kept[m + 1] = IF prior[m + 1].session = session THEN kept[m] ELSE Append(kept[m], prior[m + 1])
      <3>1. m + 1 \in 0 .. n /\ m + 1 # 0 /\ (m + 1) - 1 = m
        OBVIOUS
      <3>2. kept[m + 1] = IF prior[m + 1].session = session
                            THEN kept[(m + 1) - 1] ELSE Append(kept[(m + 1) - 1], prior[m + 1])
        BY <1>2, <3>1 DEF KeptOf
      <3> QED
        BY <3>1, <3>2
    <2>3. prior[m + 1] \in E
      BY <1>4, <2>1
    <2> QED
      BY <2>1, <2>2, <2>3
  <1> HIDE DEF S
  <1>7. n \in S
    BY <1>1, <1>5, <1>6, Induction
  <1> QED
    BY <1>1, <1>3, <1>7 DEF S

\* A new checkpoint: its history has this session's entry and entries of the
\* prior one.
LEMMA BuildIs ==
  ASSUME NEW E \in SUBSET Entry, NEW prior \in Seq(E), NEW session \in Nat, NEW last \in Nat,
         [last |-> last, session |-> session] \in E,
         NEW cp, cp = BuildCheckpoint(session, last, prior)
  PROVE  /\ cp.last = last /\ cp.session = session /\ cp.history \in Seq(E)
         /\ IsCheckpoint(cp)
  <1> DEFINE entry == [last |-> last, session |-> session]
             others == OthersOf(session, prior)
             all == <<entry>> \o others
             n == IF Len(all) < MaxHistory THEN Len(all) ELSE MaxHistory
  <1>1. others \in Seq(E)
    BY OthersIs
  <1>2. all \in Seq(E)
    <2> HIDE DEF entry, others
    <2>1. <<entry>> \in Seq(E)
      BY DEF entry
    <2> QED
      BY <1>1, <2>1
  <1>3. cp = [last |-> last, session |-> session, history |-> SubSeq(all, 1, n)]
    BY DEF BuildCheckpoint
  <1> HIDE DEF all
  <1>4. SubSeq(all, 1, n) \in Seq(E)
    <2>1. n \in 0 .. Len(all)
      BY <1>2, ReplicationAssumption
    <2> HIDE DEF n
    <2>2. \A i \in 1 .. n : all[i] \in E
      BY <1>2, <2>1, ElementOfSeq
    <2>3. n \in Int /\ 1 \in Int
      BY <1>2, <2>1
    <2> QED
      BY <2>2, <2>3, SubSeqProperties
  <1> DEFINE h == SubSeq(all, 1, n)
  <1>5. cp.last = last /\ cp.session = session /\ cp.history = h
    <2> HIDE DEF h
    <2>1. cp = [last |-> last, session |-> session, history |-> h]
      BY <1>3 DEF h
    <2> QED
      BY <2>1
  <1> HIDE DEF h
  <1>6. h \in Seq(E)
    BY <1>4 DEF h
  <1>7. h \in Seq(Entry)
    BY <1>6, SeqMonotonic
  <1> QED
    BY <1>5, <1>6, <1>7 DEF IsCheckpoint

\* What a run may resume from, it may resume from earlier.
LEMMA GoodBelow ==
  ASSUME NEW S, DbFine(S), NEW T, NEW den, NEW f, NEW s, Good(S, T, den, f, s), NEW t \in Nat, t <= s
  PROVE  Good(S, T, den, f, t)
  <1>1. S.updateSeq \in Nat /\ s \in Nat /\ \A d \in Doc : S.docs[d].seq \in Nat
    BY SeqFields DEF Good
  <1>2. t <= S.updateSeq
    BY <1>1 DEF Good
  <1>3. \A d \in Doc : S.docs[d].seq <= t => S.docs[d].seq <= s
    BY <1>1
  <1> QED
    BY <1>2, <1>3 DEF Good, Covered

\* The beginning.
LEMMA GoodZero ==
  ASSUME NEW S, DbFine(S), NEW T, NEW den, NEW f
  PROVE  Good(S, T, den, f, 0)
  <1>1. S.updateSeq \in Nat /\ \A d \in Doc : Exists(S, d) => S.docs[d].seq \in 1 .. S.updateSeq
    BY SeqFields DEF DbFine, DbOk, SeqsOk
  <1>2. \A d \in Doc : ~(Exists(S, d) /\ S.docs[d].seq <= 0)
    BY <1>1
  <1> QED
    BY <1>1, <1>2 DEF Good, Covered

LEMMA NoCheckpointGood ==
  ASSUME NEW S, DbFine(S), NEW T, NEW den, NEW f
  PROVE  IsCheckpoint(NoCheckpoint) /\ GoodCheckpoint(S, T, den, f, NoCheckpoint)
  <1>1. NoCheckpoint.last = 0 /\ NoCheckpoint.session = 0 /\ NoCheckpoint.history = <<>>
    BY DEF NoCheckpoint
  <1>2. DOMAIN <<>> = {} /\ <<>> \in Seq(Entry)
    OBVIOUS
  <1> QED
    BY <1>1, <1>2, GoodZero DEF IsCheckpoint, GoodCheckpoint, GoodHistory

\* A new checkpoint of a good sequence and a good history is good.
LEMMA BuildGood ==
  ASSUME NEW S, DbFine(S), NEW T, NEW den, NEW f, NEW prior \in Seq(Entry),
         GoodHistory(S, T, den, f, prior), NEW session \in Nat, NEW last, Good(S, T, den, f, last),
         NEW cp, cp = BuildCheckpoint(session, last, prior)
  PROVE  GoodCheckpoint(S, T, den, f, cp)
  <1> DEFINE E == {e \in Entry : Good(S, T, den, f, e.last)}
             entry == [last |-> last, session |-> session]
  <1>1. last \in Nat /\ entry \in Entry /\ entry.last = last
    BY DEF Good, Entry
  <1>2. entry \in E
    BY <1>1
  <1>3. prior \in Seq(E)
    <2>1. \A i \in 1 .. Len(prior) : prior[i] \in Entry /\ Good(S, T, den, f, prior[i].last)
      BY DEF GoodHistory
    <2>2. \A i \in 1 .. Len(prior) : prior[i] \in E
      BY <2>1
    <2> HIDE DEF E
    <2> QED
      BY <2>2
  <1>4. E \in SUBSET Entry
    OBVIOUS
  <1> HIDE DEF E
  <1>5. cp.last = last /\ cp.history \in Seq(E)
    BY <1>1, <1>2, <1>3, <1>4, BuildIs
  <1>6. \A i \in DOMAIN cp.history : cp.history[i] \in E
    BY <1>5
  <1>7. GoodHistory(S, T, den, f, cp.history)
    BY <1>6 DEF GoodHistory, E
  <1> QED
    BY <1>5, <1>7 DEF GoodCheckpoint

\* What two checkpoints agree on is no later than something in the source's.
LEMMA CompareIs ==
  ASSUME NEW scp, IsCheckpoint(scp), NEW tcp, IsCheckpoint(tcp),
         NEW s, s = CompareCheckpoints(scp, tcp)
  PROVE  /\ s \in Nat
         /\ s = 0 \/ s <= scp.last \/ \E i \in DOMAIN scp.history : s <= scp.history[i].last
  <1> DEFINE H == scp.history
             K == tcp.history
             common == {p \in (DOMAIN H) \X (DOMAIN K) : H[p[1]].session = K[p[2]].session}
             IsFirst(p) == \A o \in common : p[1] < o[1] \/ (p[1] = o[1] /\ p[2] <= o[2])
             first == CHOOSE p \in common : IsFirst(p)
  <1>1. H \in Seq(Entry) /\ K \in Seq(Entry) /\ scp.last \in Nat /\ tcp.last \in Nat
    BY DEF IsCheckpoint
  <1>2. s = IF scp.session = tcp.session
              THEN PickCommon(scp.last, tcp.last)
              ELSE IF common = {} THEN 0 ELSE PickCommon(H[first[1]].last, K[first[2]].last)
    BY DEF CompareCheckpoints
  <1> HIDE DEF H, K
  <1>3. /\ DOMAIN H = 1 .. Len(H) /\ DOMAIN K = 1 .. Len(K)
        /\ DOMAIN H \in SUBSET Nat /\ DOMAIN K \in SUBSET Nat
        /\ \A i \in DOMAIN H : H[i] \in Entry
        /\ \A i \in DOMAIN K : K[i] \in Entry
    <2>1. DOMAIN H = 1 .. Len(H) /\ DOMAIN K = 1 .. Len(K) /\ Len(H) \in Nat /\ Len(K) \in Nat
      BY <1>1
    <2>2. (\A i \in 1 .. Len(H) : H[i] \in Entry) /\ \A i \in 1 .. Len(K) : K[i] \in Entry
      BY <1>1, ElementOfSeq
    <2> QED
      BY <2>1, <2>2
  <1>4. ASSUME common # {}
        PROVE  first \in common
    <2> DEFINE I == {p[1] : p \in common}
    <2>1. I \in SUBSET Nat /\ I # {}
      BY <1>3, <1>4
    <2>2. PICK i \in I : \A j \in I : i <= j
      <3> HIDE DEF I
      <3> QED
        BY <2>1, Least
    <2> DEFINE J == {p[2] : p \in {o \in common : o[1] = i}}
    <2>3. J \in SUBSET Nat /\ J # {}
      BY <1>3, <2>2
    <2>4. PICK j \in J : \A k \in J : j <= k
      <3> HIDE DEF J
      <3> QED
        BY <2>3, Least
    <2>5. PICK p \in common : p[1] = i /\ p[2] = j
      BY <2>4
    <2>6. IsFirst(p)
      <3> SUFFICES ASSUME NEW o \in common
                   PROVE  p[1] < o[1] \/ (p[1] = o[1] /\ p[2] <= o[2])
        OBVIOUS
      <3>1. o[1] \in Nat /\ o[2] \in Nat /\ i \in Nat /\ j \in Nat
        BY <1>3, <2>1, <2>2, <2>3, <2>4
      <3>2. i <= o[1]
        BY <2>2
      <3>3. o[1] = i => j <= o[2]
        BY <2>4
      <3> QED
        BY <2>5, <3>1, <3>2, <3>3
    <2> HIDE DEF common, IsFirst
    <2> QED
      BY <2>6
  <1>5. CASE scp.session = tcp.session
    BY <1>1, <1>2, <1>5 DEF PickCommon
  <1>6. CASE scp.session # tcp.session /\ common = {}
    <2> HIDE DEF common
    <2> QED
      BY <1>2, <1>6
  <1>7. CASE scp.session # tcp.session /\ common # {}
    <2>1. first[1] \in DOMAIN H /\ first[2] \in DOMAIN K
      <3> HIDE DEF first
      <3> QED
        BY <1>4, <1>7
    <2>2. s = PickCommon(H[first[1]].last, K[first[2]].last)
      <3> HIDE DEF common, first
      <3> QED
        BY <1>2, <1>7
    <2> HIDE DEF first
    <2>3. H[first[1]].last \in Nat /\ K[first[2]].last \in Nat
      BY <1>3, <2>1 DEF Entry
    <2> QED
      BY <2>1, <2>2, <2>3 DEF PickCommon, H
  <1> QED
    BY <1>5, <1>6, <1>7

\* So a run may resume from it.
LEMMA CompareGood ==
  ASSUME NEW S, DbFine(S), NEW T, NEW den, NEW f, NEW scp, IsCheckpoint(scp),
         GoodCheckpoint(S, T, den, f, scp), NEW tcp, IsCheckpoint(tcp)
  PROVE  Good(S, T, den, f, CompareCheckpoints(scp, tcp))
  <1> DEFINE s == CompareCheckpoints(scp, tcp)
  <1>1. /\ s \in Nat
        /\ s = 0 \/ s <= scp.last \/ \E i \in DOMAIN scp.history : s <= scp.history[i].last
    BY CompareIs
  <1> HIDE DEF s
  <1>2. CASE s = 0
    BY <1>2, GoodZero DEF s
  <1>3. CASE s <= scp.last
    BY <1>1, <1>3, GoodBelow DEF GoodCheckpoint, s
  <1>4. CASE \E i \in DOMAIN scp.history : s <= scp.history[i].last
    BY <1>1, <1>4, GoodBelow DEF GoodCheckpoint, GoodHistory, s
  <1> QED
    BY <1>1, <1>2, <1>3, <1>4

----------------------------------------------------------------------------
(* Storing a batch *)

\* The databases after each document are well defined.
StoredBy(b, docs, n, f) ==
  f = [i \in 0 .. n |->
         IF i = 0 THEN b
         ELSE ReplicatedEdit(f[i - 1], docs[i].id, docs[i].start, docs[i].rev, {}, 0)]

LEMMA StoreDefined ==
  ASSUME NEW b, NEW docs, NEW n \in Nat
  PROVE  \E f : StoredBy(b, docs, n, f)
  <1> DEFINE Next1(f, i) == ReplicatedEdit(f[i - 1], docs[i].id, docs[i].start, docs[i].rev, {}, 0)
             Fits(f, m) == f = [i \in 0 .. m |-> IF i = 0 THEN b ELSE Next1(f, i)]
             S == {m \in Nat : \E f : Fits(f, m)}
  <1>1. 0 \in S
    <2> DEFINE f == [i \in 0 .. 0 |-> b]
    <2>1. \A i \in 0 .. 0 : i = 0
      OBVIOUS
    <2>2. Fits(f, 0)
      BY <2>1
    <2> QED
      BY <2>2
  <1>2. ASSUME NEW m \in Nat, m \in S
        PROVE  m + 1 \in S
    <2>1. PICK f : Fits(f, m)
      BY <1>2
    <2> DEFINE g == [i \in 0 .. m + 1 |-> IF i = m + 1 THEN Next1(f, i) ELSE f[i]]
    <2>2. \A i \in 0 .. m : g[i] = f[i]
      OBVIOUS
    <2>3. ASSUME NEW i \in 0 .. m + 1
          PROVE  g[i] = IF i = 0 THEN b ELSE Next1(g, i)
      <3>1. CASE i = 0
        BY <2>1, <2>2, <3>1
      <3>2. CASE i # 0 /\ i # m + 1
        <4>1. i \in 0 .. m /\ i - 1 \in 0 .. m
          BY <3>2
        <4>2. f[i] = Next1(f, i)
          BY <2>1, <3>2, <4>1
        <4>3. g[i] = f[i] /\ g[i - 1] = f[i - 1]
          BY <2>2, <4>1
        <4> HIDE DEF g
        <4> QED
          BY <3>2, <4>2, <4>3
      <3>3. CASE i = m + 1
        <4>1. i - 1 \in 0 .. m /\ g[i] = Next1(f, i)
          BY <3>3
        <4>2. g[i - 1] = f[i - 1]
          BY <2>2, <4>1
        <4> HIDE DEF g
        <4> QED
          BY <3>3, <4>1, <4>2
      <3> QED
        BY <3>1, <3>2, <3>3
    <2>4. Fits(g, m + 1)
      <3> HIDE DEF Next1
      <3> QED
        BY <2>3
    <2> HIDE DEF g
    <2> QED
      BY <2>4
  <1> HIDE DEF S
  <1>3. n \in S
    BY <1>1, <1>2, Induction
  <1> QED
    BY <1>3 DEF S, StoredBy

\* The target c is b some documents later, and knows the first m of them.
Stores(b, c, docs, m) ==
  /\ Moved(b, c) /\ Gained(b, c)
  /\ \A i \in 1 .. m : docs[i].rev \in RevsOf(Nodes(c, docs[i].id))

IsWrite(w) == w.id \in Doc /\ w.rev \in Rev /\ w.start \in Anc[w.rev]

LEMMA StoreAllIs ==
  ASSUME NEW b, DbFine(b), NEW docs, Len(docs) \in Nat, \A i \in 1 .. Len(docs) : IsWrite(docs[i])
  PROVE  Stores(b, StoreAll(b, docs), docs, Len(docs))
  <1> DEFINE n == Len(docs)
             after == CHOOSE f : StoredBy(b, docs, n, f)
  <1>1. StoredBy(b, docs, n, after)
    BY StoreDefined
  <1>2. StoreAll(b, docs) = after[n]
    BY DEF StoreAll, StoredBy
  <1>3. n \in Nat /\ \A i \in 1 .. n : IsWrite(docs[i])
    OBVIOUS
  <1> HIDE DEF after, n
  <1> DEFINE S == {m \in Nat : m \in 0 .. n => Stores(b, after[m], docs, m)}
  <1>4. 0 \in S
    <2>1. 0 \in 0 .. n => after[0] = b
      BY <1>1 DEF StoredBy
    <2>2. Stores(b, b, docs, 0)
      BY MovedSelf DEF Stores
    <2> QED
      BY <2>1, <2>2
  <1>5. ASSUME NEW m \in Nat, m \in S
        PROVE  m + 1 \in S
    <2> SUFFICES ASSUME m + 1 \in 0 .. n
                 PROVE  Stores(b, after[m + 1], docs, m + 1)
      OBVIOUS
    <2>1. Stores(b, after[m], docs, m) /\ m + 1 \in 1 .. n
      BY <1>3, <1>5
    <2> DEFINE w == docs[m + 1]
               a == after[m]
               c == after[m + 1]
    <2>2. c = ReplicatedEdit(a, w.id, w.start, w.rev, {}, 0)
      <3>1. m + 1 \in 0 .. n /\ m + 1 # 0 /\ (m + 1) - 1 = m
        OBVIOUS
      <3>2. c = ReplicatedEdit(after[(m + 1) - 1], w.id, w.start, w.rev, {}, 0)
        BY <1>1, <3>1 DEF StoredBy
      <3> QED
        BY <3>1, <3>2
    <2>3. w.id \in Doc /\ w.rev \in Rev /\ w.start \in Anc[w.rev]
      BY <1>3, <2>1 DEF IsWrite
    <2> HIDE DEF w, a, c
    <2>4. DbFine(a) /\ Moved(b, a) /\ Gained(b, a)
      BY <2>1 DEF Stores, Moved, a
    <2>5. Moved(a, c) /\ Gained(a, c) /\ w.rev \in RevsOf(Nodes(c, w.id))
      BY <2>2, <2>3, <2>4, ReplicatedWrite
    <2>6. Moved(b, c) /\ Gained(b, c)
      BY <2>4, <2>5, MovedTrans
    <2>7. ASSUME NEW i \in 1 .. m + 1
          PROVE  docs[i].rev \in RevsOf(Nodes(c, docs[i].id))
      <3>1. CASE i = m + 1
        BY <2>5, <3>1 DEF w
      <3>2. CASE i # m + 1
        <4>1. i \in 1 .. m /\ i \in 1 .. n
          BY <1>3, <2>1, <3>2
        <4>2. docs[i].rev \in RevsOf(Nodes(a, docs[i].id)) /\ docs[i].id \in Doc
          BY <1>3, <2>1, <4>1 DEF Stores, IsWrite, a
        <4> QED
          BY <2>5, <4>2 DEF Gained
      <3> QED
        BY <3>1, <3>2
    <2> QED
      BY <2>6, <2>7 DEF Stores, c
  <1> HIDE DEF S
  <1>6. n \in S
    BY <1>3, <1>4, <1>5, Induction
  <1> QED
    BY <1>2, <1>3, <1>6 DEF S, n

\* A sequence of a set has all of it.
LEMMA OrderIs ==
  ASSUME NEW D, IsFiniteSet(D), NEW order \in SetToSeqs(D)
  PROVE  /\ Len(order) \in Nat
         /\ \A i \in 1 .. Len(order) : order[i] \in D
         /\ \A d \in D : \E i \in 1 .. Len(order) : order[i] = d
  <1> DEFINE k == Cardinality(D)
  <1>1. k \in Nat
    BY FS_CardinalityType
  <1>2. order \in [1 .. k -> D] /\ \A i, j \in 1 .. k : i # j => order[i] # order[j]
    BY DEF SetToSeqs
  <1>3. Len(order) = k
    BY <1>1, <1>2
  <1>4. order \in Injection(1 .. k, D)
    BY <1>2 DEF Injection, IsInjective
  <1>5. IsFiniteSet(1 .. k) /\ Cardinality(1 .. k) = k
    BY <1>1, FS_Interval
  <1>6. order \in Surjection(1 .. k, D)
    BY <1>4, <1>5, FS_Injection
  <1> QED
    BY <1>1, <1>2, <1>3, <1>6 DEF Surjection

----------------------------------------------------------------------------
(* The moves of a run *)

LEMMA IdleIs ==
  /\ DOMAIN Idle = Fields
  /\ Idle.pc = "idle" /\ Idle.ids = <<>> /\ Idle.session = 0 /\ Idle.readOnly = FALSE
  /\ Idle.tcp = NoCheckpoint /\ Idle.since = 0 /\ Idle.goal = 0 /\ Idle.batch = {} /\ Idle.last = 0
  /\ Idle.full = FALSE /\ Idle.wanted = {} /\ Idle.docs = {} /\ Idle.gone = {} /\ Idle.failed = FALSE
  /\ Idle.prior = <<>> /\ Idle.final = FALSE /\ Idle.filter = NoFilter
  BY DEF Idle, Fields

LEMMA NothingCarried ==
  ASSUME NEW r, r.batch = {}, r.wanted = {}, r.gone = {}, r.docs = {}, r.session \in Nat,
         r.since \in Nat, r.last \in Nat, r.prior = <<>>, r.tcp = NoCheckpoint
  PROVE  Carried(r)
  <1>1. IsFiniteSet({})
    BY FS_EmptySet
  <1>2. <<>> \in Seq(Entry)
    OBVIOUS
  <1>3. IsCheckpoint(NoCheckpoint)
    BY <1>2 DEF IsCheckpoint, NoCheckpoint
  <1> QED
    BY <1>1, <1>2, <1>3 DEF Carried

\* The databases and where x's run is among them.
LEMMA BaseMoves ==
  ASSUME NEW dbs, NEW p, NEW x, NEW r, Base(dbs, p, x, r),
         NEW next, DOMAIN next = Fields, Carried(next), next.ids = r.ids, next.filter = r.filter,
         next.readOnly = r.readOnly, next.since = r.since, next.goal = r.goal,
         next.prior = r.prior, next.tcp = r.tcp
  PROVE  Base(dbs, p, x, next)
  BY DEF Base, Core

\* A run that ends, or starts from the feed again, has no prior history.
LEMMA BaseEnds ==
  ASSUME NEW dbs, NEW p, NEW x, NEW r, Base(dbs, p, x, r), DbFine(dbs[Source[x]]),
         NEW next, DOMAIN next = Fields, Carried(next), next.ids = r.ids, next.filter = r.filter,
         next.readOnly = r.readOnly, next.since = r.since, next.goal = r.goal,
         next.prior = <<>> \/ next.prior = r.prior, next.tcp = NoCheckpoint \/ next.tcp = r.tcp
  PROVE  Base(dbs, p, x, next)
  <1>1. ASSUME r.ids = IdsIn(dbs, x)
        PROVE  Core(dbs[Source[x]], dbs[Target[x]], p, x, next)
    <2>1. Core(dbs[Source[x]], dbs[Target[x]], p, x, r)
      BY <1>1 DEF Base
    <2>2. GoodCheckpoint(dbs[Source[x]], dbs[Target[x]], p.denied, r.filter, NoCheckpoint)
      BY NoCheckpointGood
    <2>3. GoodHistory(dbs[Source[x]], dbs[Target[x]], p.denied, r.filter, <<>>)
      BY <2>2 DEF GoodCheckpoint, NoCheckpoint
    <2> QED
      BY <2>1, <2>2, <2>3 DEF Core
  <1> QED
    BY <1>1 DEF Base

LEMMA EndedIs ==
  ASSUME NEW r, NEW e, e = Ended(r)
  PROVE  /\ DOMAIN e = Fields
         /\ e.pc = "done" /\ e.ids = r.ids /\ e.filter = r.filter /\ e.since = r.since
         /\ e.goal = r.goal /\ e.failed = r.failed /\ e.readOnly = r.readOnly
         /\ e.batch = {} /\ e.wanted = {} /\ e.gone = {} /\ e.docs = {} /\ e.session = 0
         /\ e.last = 0 /\ e.prior = <<>> /\ e.tcp = NoCheckpoint /\ e.final = FALSE
  <1> DEFINE a == [Idle EXCEPT !.pc = "done", !.ids = r.ids, !.filter = r.filter, !.since = r.since]
  <1>1. e = [a EXCEPT !.goal = r.goal, !.failed = r.failed, !.readOnly = r.readOnly]
    BY DEF Ended
  <1>2. /\ DOMAIN a = Fields
        /\ a.pc = "done" /\ a.ids = r.ids /\ a.filter = r.filter /\ a.since = r.since
        /\ a.batch = {} /\ a.wanted = {} /\ a.gone = {} /\ a.docs = {} /\ a.session = 0
        /\ a.last = 0 /\ a.prior = <<>> /\ a.tcp = NoCheckpoint /\ a.final = FALSE
    BY IdleIs DEF Fields
  <1> HIDE DEF a
  <1> QED
    BY <1>1, <1>2 DEF Fields

\* A run that ends without a failure has scanned what was there when it started.
LEMMA EndedOk ==
  ASSUME NEW dbs, NEW p, NEW x, NEW r, Base(dbs, p, x, r), DbFine(dbs[Source[x]]),
         r.ids = IdsIn(dbs, x) /\ ~r.failed => EndsAt(dbs[Source[x]], r, r.since)
  PROVE  RunOk(dbs, p, x, Ended(r))
  <1> SUFFICES ASSUME NEW e, e = Ended(r)
               PROVE  RunOk(dbs, p, x, e)
    OBVIOUS
  <1>1. /\ DOMAIN e = Fields
        /\ e.pc = "done" /\ e.ids = r.ids /\ e.filter = r.filter /\ e.since = r.since
        /\ e.goal = r.goal /\ e.failed = r.failed /\ e.readOnly = r.readOnly
        /\ e.batch = {} /\ e.wanted = {} /\ e.gone = {} /\ e.docs = {} /\ e.session = 0
        /\ e.last = 0 /\ e.prior = <<>> /\ e.tcp = NoCheckpoint /\ e.final = FALSE
    BY ZenonT(40), EndedIs
  <1>2. Carried(e)
    <2>1. e.session \in Nat /\ e.since \in Nat /\ e.last \in Nat
      BY <1>1 DEF Base, Carried
    <2> QED
      BY <1>1, <2>1, NothingCarried
  <1>3. Base(dbs, p, x, e)
    BY <1>1, <1>2, BaseEnds
  <1>4. Flags(e)
    BY <1>1 DEF Flags, SavePcs
  <1>5. e.ids = IdsIn(dbs, x) => Phase(dbs[Source[x]], dbs[Target[x]], p, e)
    BY <1>1 DEF Phase, BatchPcs, SavePcs, EndsAt
  <1> QED
    BY <1>1, <1>3, <1>4, <1>5 DEF RunOk

LEMMA FinishOk ==
  ASSUME NEW dbs, NEW p, NEW x, NEW r, Base(dbs, p, x, r), DbFine(dbs[Source[x]]),
         r.ids = IdsIn(dbs, x) /\ ~r.failed => EndsAt(dbs[Source[x]], r, r.since)
  PROVE  RunOk(dbs, p, x, Finish(r))
  <1>1. CASE Finish(r) = Ended(r)
    BY <1>1, EndedOk
  <1>2. CASE Finish(r) = [r EXCEPT !.pc = "history", !.final = TRUE]
    <2> SUFFICES ASSUME NEW e, e = [r EXCEPT !.pc = "history", !.final = TRUE]
                 PROVE  RunOk(dbs, p, x, e)
      BY <1>2
    <2>1. DOMAIN r = Fields /\ Carried(r)
      BY DEF Base
    <2>2. /\ DOMAIN e = Fields
          /\ e.pc = "history" /\ e.ids = r.ids /\ e.filter = r.filter /\ e.since = r.since
          /\ e.goal = r.goal /\ e.failed = r.failed /\ e.readOnly = r.readOnly
          /\ e.batch = r.batch /\ e.wanted = r.wanted /\ e.gone = r.gone /\ e.docs = r.docs
          /\ e.session = r.session /\ e.last = r.last /\ e.prior = r.prior /\ e.tcp = r.tcp
          /\ e.final = TRUE
      BY <2>1 DEF Fields
    <2>3. Carried(e)
      BY <2>1, <2>2 DEF Carried
    <2>4. Base(dbs, p, x, e)
      BY <2>2, <2>3, BaseMoves
    <2>5. Flags(e)
      BY <2>2 DEF Flags, SavePcs
    <2>6. e.ids = IdsIn(dbs, x) => Phase(dbs[Source[x]], dbs[Target[x]], p, e)
      BY <2>2 DEF Phase, BatchPcs, SavePcs, EndsAt
    <2> QED
      BY <2>2, <2>4, <2>5, <2>6 DEF RunOk
  <1> QED
    BY <1>1, <1>2 DEF Finish

\* A scan from a good sequence.
LEMMA FromOk ==
  ASSUME NEW dbs, NEW p, NEW x, NEW r, Base(dbs, p, x, r), DbFine(dbs[Source[x]]),
         ~r.failed, ~r.final, NEW seq \in Nat,
         r.ids = IdsIn(dbs, x) => Good(dbs[Source[x]], dbs[Target[x]], p.denied, r.filter, seq),
         NEW readOnly, readOnly => Source[x] \in p.readOnly,
         NEW e, e = From(r, seq) \/ (readOnly /\ e = [From(r, seq) EXCEPT !.readOnly = TRUE])
  PROVE  RunOk(dbs, p, x, e)
  <1>1. DOMAIN r = Fields /\ Carried(r)
    BY DEF Base
  <1> DEFINE a == From(r, seq)
  <1>2. /\ DOMAIN a = Fields
        /\ a.pc = "changes" /\ a.ids = r.ids /\ a.filter = r.filter /\ a.since = seq
        /\ a.goal = r.goal /\ a.failed = r.failed /\ a.readOnly = r.readOnly
        /\ a.batch = r.batch /\ a.wanted = r.wanted /\ a.gone = r.gone /\ a.docs = r.docs
        /\ a.session = r.session /\ a.last = r.last /\ a.prior = r.prior /\ a.tcp = NoCheckpoint
        /\ a.final = r.final
    BY <1>1 DEF Fields, From
  <1> HIDE DEF a
  <1>3. /\ DOMAIN e = Fields
        /\ e.pc = "changes" /\ e.ids = r.ids /\ e.filter = r.filter /\ e.since = seq
        /\ e.goal = r.goal /\ e.failed = r.failed
        /\ e.batch = r.batch /\ e.wanted = r.wanted /\ e.gone = r.gone /\ e.docs = r.docs
        /\ e.session = r.session /\ e.last = r.last /\ e.prior = r.prior /\ e.tcp = NoCheckpoint
        /\ e.final = r.final
        /\ e.readOnly = r.readOnly \/ (readOnly /\ e.readOnly = TRUE)
    <2>1. CASE e = a
      BY <1>2, <2>1
    <2>2. CASE readOnly /\ e = [a EXCEPT !.readOnly = TRUE]
      BY <1>2, <2>2 DEF Fields
    <2> QED
      BY <2>1, <2>2 DEF a
  <1>4. IsCheckpoint(NoCheckpoint)
    BY NoCheckpointGood
  <1>5. Carried(e)
    BY <1>1, <1>3, <1>4 DEF Carried
  <1>6. ASSUME r.ids = IdsIn(dbs, x)
        PROVE  Core(dbs[Source[x]], dbs[Target[x]], p, x, e)
    <2>1. Core(dbs[Source[x]], dbs[Target[x]], p, x, r)
      BY <1>6 DEF Base
    <2>2. GoodCheckpoint(dbs[Source[x]], dbs[Target[x]], p.denied, r.filter, NoCheckpoint)
      BY NoCheckpointGood
    <2> QED
      BY <1>3, <1>6, <2>1, <2>2 DEF Core
  <1>7. Base(dbs, p, x, e)
    BY <1>3, <1>5, <1>6 DEF Base
  <1>8. Flags(e)
    BY <1>3 DEF Flags, SavePcs
  <1>9. Phase(dbs[Source[x]], dbs[Target[x]], p, e)
    BY <1>3 DEF Phase, BatchPcs, SavePcs
  <1> QED
    BY <1>3, <1>7, <1>8, <1>9 DEF RunOk

\* A batch that is dealt with.
LEMMA SkipOk ==
  ASSUME NEW dbs, NEW p, NEW x, NEW r, Base(dbs, p, x, r), DbFine(dbs[Source[x]]),
         ~r.failed, ~r.final,
         r.ids = IdsIn(dbs, x) => BatchSound(dbs[Source[x]], dbs[Target[x]], p.denied, r, {})
  PROVE  RunOk(dbs, p, x, Skip(r))
  <1> DEFINE S == dbs[Source[x]]
             T == dbs[Target[x]]
             n == [r EXCEPT !.since = r.last, !.batch = {}]
  <1>1. DOMAIN r = Fields /\ Carried(r)
    BY DEF Base
  <1>2. /\ DOMAIN n = Fields
        /\ n.ids = r.ids /\ n.filter = r.filter /\ n.since = r.last
        /\ n.goal = r.goal /\ n.failed = r.failed /\ n.readOnly = r.readOnly
        /\ n.batch = {} /\ n.wanted = r.wanted /\ n.gone = r.gone /\ n.docs = r.docs
        /\ n.session = r.session /\ n.last = r.last /\ n.prior = r.prior /\ n.tcp = r.tcp
        /\ n.final = r.final /\ n.full = r.full
    BY <1>1 DEF Fields
  <1>3. Skip(r) = IF r.full THEN [n EXCEPT !.pc = "changes"] ELSE Finish(n)
    BY DEF Skip
  <1> HIDE DEF n
  <1>4. Carried(n)
    BY <1>1, <1>2, FS_EmptySet DEF Carried
  <1>5. Base(dbs, p, x, n)
    <2>1. ASSUME r.ids = IdsIn(dbs, x)
          PROVE  Core(S, T, p, x, n)
      <3>1. Core(S, T, p, x, r) /\ BatchSound(S, T, p.denied, r, {})
        BY <2>1 DEF Base
      <3>2. Good(S, T, p.denied, r.filter, r.last)
        BY <1>1, <3>1 DEF BatchSound, Good, Carried
      <3> QED
        BY <1>2, <3>1, <3>2 DEF Core
    <2> QED
      BY <1>2, <1>4, <2>1 DEF Base
  <1>6. CASE r.full
    <2> DEFINE e == [n EXCEPT !.pc = "changes"]
    <2>1. /\ DOMAIN e = Fields /\ e.pc = "changes"
          /\ e.ids = n.ids /\ e.filter = n.filter /\ e.since = n.since
          /\ e.goal = n.goal /\ e.failed = n.failed /\ e.readOnly = n.readOnly
          /\ e.batch = {} /\ e.wanted = n.wanted /\ e.gone = n.gone /\ e.docs = n.docs
          /\ e.session = n.session /\ e.last = n.last /\ e.prior = n.prior /\ e.tcp = n.tcp
          /\ e.final = n.final
      BY <1>2 DEF Fields
    <2> HIDE DEF e
    <2>2. Carried(e)
      BY <1>2, <1>4, <2>1 DEF Carried
    <2>3. Base(dbs, p, x, e)
      BY <1>5, <2>1, <2>2, BaseMoves
    <2>4. Flags(e)
      BY <1>2, <2>1 DEF Flags, SavePcs
    <2>5. Phase(S, T, p, e)
      BY <2>1 DEF Phase, BatchPcs, SavePcs
    <2>6. Skip(r) = e
      BY <1>3, <1>6 DEF e
    <2> QED
      BY <2>1, <2>3, <2>4, <2>5, <2>6 DEF RunOk
  <1>7. CASE ~r.full
    <2>1. r.ids = IdsIn(dbs, x) => EndsAt(S, n, n.since)
      BY <1>2, <1>7 DEF BatchSound, EndsAt
    <2>2. RunOk(dbs, p, x, Finish(n))
      BY <1>2, <1>5, <2>1, FinishOk
    <2> QED
      BY <1>3, <1>7, <2>2
  <1> QED
    BY <1>6, <1>7

\* A batch that is written.
LEMMA WrittenOk ==
  ASSUME NEW dbs, NEW p, NEW x, NEW r, Base(dbs, p, x, r), DbFine(dbs[Source[x]]), ~r.final,
         r.ids = IdsIn(dbs, x) => BatchSound(dbs[Source[x]], dbs[Target[x]], p.denied, r, {})
  PROVE  RunOk(dbs, p, x, Written(r))
  <1> DEFINE S == dbs[Source[x]]
             T == dbs[Target[x]]
  <1>1. CASE r.failed
    BY <1>1, FinishOk DEF Written
  <1>2. CASE ~r.failed /\ Written(r) = Skip(r)
    BY <1>2, SkipOk
  <1>3. CASE ~r.failed /\ Written(r) = [r EXCEPT !.pc = "history", !.since = r.last]
    <2> SUFFICES ASSUME NEW e, e = [r EXCEPT !.pc = "history", !.since = r.last]
                 PROVE  RunOk(dbs, p, x, e)
      BY <1>3
    <2>1. DOMAIN r = Fields /\ Carried(r)
      BY DEF Base
    <2>2. /\ DOMAIN e = Fields
          /\ e.pc = "history" /\ e.ids = r.ids /\ e.filter = r.filter /\ e.since = r.last
          /\ e.goal = r.goal /\ e.failed = r.failed /\ e.readOnly = r.readOnly
          /\ e.batch = r.batch /\ e.wanted = r.wanted /\ e.gone = r.gone /\ e.docs = r.docs
          /\ e.session = r.session /\ e.last = r.last /\ e.prior = r.prior /\ e.tcp = r.tcp
          /\ e.final = r.final /\ e.full = r.full
      BY <2>1 DEF Fields
    <2>3. Carried(e)
      BY <2>1, <2>2 DEF Carried
    <2>4. ASSUME r.ids = IdsIn(dbs, x)
          PROVE  Core(S, T, p, x, e)
      <3>1. Core(S, T, p, x, r) /\ BatchSound(S, T, p.denied, r, {})
        BY <2>4 DEF Base
      <3>2. Good(S, T, p.denied, r.filter, r.last)
        BY <1>3, <2>1, <3>1 DEF BatchSound, Good, Carried
      <3> QED
        BY <2>2, <3>1, <3>2 DEF Core
    <2>5. Base(dbs, p, x, e)
      BY <2>2, <2>3, <2>4 DEF Base
    <2>6. Flags(e)
      BY <1>3, <2>2 DEF Flags, SavePcs
    <2>7. e.ids = IdsIn(dbs, x) => Phase(S, T, p, e)
      BY <2>2 DEF Phase, BatchSound, BatchPcs, SavePcs, EndsAt
    <2> QED
      BY <2>2, <2>5, <2>6, <2>7 DEF RunOk
  <1> QED
    BY <1>1, <1>2, <1>3 DEF Written

\* A batch that is fetched: what is left of it is looked at or written.
LEMMA FetchedOk ==
  ASSUME NEW dbs, NEW p, NEW x, NEW r, Base(dbs, p, x, r), DbFine(dbs[Source[x]]), ~r.final,
         NEW due, due = {<<w.id, w.rev>> : w \in r.gone} \union {<<w.id, w.rev>> : w \in r.docs},
         r.ids = IdsIn(dbs, x) => BatchSound(dbs[Source[x]], dbs[Target[x]], p.denied, r, due)
  PROVE  RunOk(dbs, p, x, Fetched(r))
  <1> DEFINE S == dbs[Source[x]]
             T == dbs[Target[x]]
             pc == IF r.gone # {} THEN "check" ELSE IF r.docs # {} THEN "write" ELSE "written"
             e == [r EXCEPT !.pc = pc]
  <1>1. DOMAIN r = Fields /\ Carried(r)
    BY DEF Base
  <1>2. Fetched(r) = e
    BY DEF Fetched
  <1>3. pc \in {"check", "write", "written"}
    OBVIOUS
  <1> HIDE DEF pc
  <1>4. /\ DOMAIN e = Fields
        /\ e.pc = pc /\ e.ids = r.ids /\ e.filter = r.filter /\ e.since = r.since
        /\ e.goal = r.goal /\ e.failed = r.failed /\ e.readOnly = r.readOnly
        /\ e.batch = r.batch /\ e.wanted = r.wanted /\ e.gone = r.gone /\ e.docs = r.docs
        /\ e.session = r.session /\ e.last = r.last /\ e.prior = r.prior /\ e.tcp = r.tcp
        /\ e.final = r.final /\ e.full = r.full
    BY <1>1 DEF Fields
  <1> HIDE DEF e
  <1>5. Carried(e)
    BY <1>1, <1>4 DEF Carried
  <1>6. Base(dbs, p, x, e)
    BY <1>4, <1>5, BaseMoves
  <1>7. Flags(e)
    BY <1>3, <1>4 DEF Flags, SavePcs
  <1>8. Due(e) = due
    <2>1. CASE pc = "check"
      BY <1>4, <2>1 DEF Due
    <2>2. CASE pc = "write" /\ r.gone = {}
      BY <1>4, <2>2 DEF Due
    <2>3. CASE pc = "written" /\ r.gone = {} /\ r.docs = {}
      BY <1>4, <2>3 DEF Due
    <2> QED
      BY <2>1, <2>2, <2>3 DEF pc
  <1>9. e.ids = IdsIn(dbs, x) => Phase(S, T, p, e)
    BY <1>3, <1>4, <1>8 DEF Phase, BatchSound, BatchPcs, SavePcs, EndsAt
  <1> QED
    BY <1>2, <1>3, <1>4, <1>6, <1>7, <1>9 DEF RunOk

\* A checkpoint that is stored.
LEMMA SavedOk ==
  ASSUME NEW dbs, NEW p, NEW x, NEW r, Base(dbs, p, x, r), DbFine(dbs[Source[x]]),
         r.failed => r.final,
         r.ids = IdsIn(dbs, x) /\ (~r.full \/ r.final) /\ ~r.failed => EndsAt(dbs[Source[x]], r, r.since)
  PROVE  RunOk(dbs, p, x, Saved(r))
  <1> DEFINE n == [r EXCEPT !.saved = r.since, !.prior = <<>>]
  <1>1. DOMAIN r = Fields /\ Carried(r)
    BY DEF Base
  <1>2. /\ DOMAIN n = Fields
        /\ n.ids = r.ids /\ n.filter = r.filter /\ n.since = r.since
        /\ n.goal = r.goal /\ n.failed = r.failed /\ n.readOnly = r.readOnly
        /\ n.batch = r.batch /\ n.wanted = r.wanted /\ n.gone = r.gone /\ n.docs = r.docs
        /\ n.session = r.session /\ n.last = r.last /\ n.prior = <<>> /\ n.tcp = r.tcp
        /\ n.final = r.final /\ n.full = r.full
    BY <1>1 DEF Fields
  <1>3. Saved(r) = IF r.full /\ ~r.final THEN [n EXCEPT !.pc = "changes"] ELSE Ended(n)
    BY DEF Saved
  <1> HIDE DEF n
  <1>4. Carried(n)
    BY <1>1, <1>2 DEF Carried
  <1>5. Base(dbs, p, x, n)
    BY <1>2, <1>4, BaseEnds
  <1>6. CASE r.full /\ ~r.final
    <2> DEFINE e == [n EXCEPT !.pc = "changes"]
    <2>1. /\ DOMAIN e = Fields /\ e.pc = "changes"
          /\ e.ids = n.ids /\ e.filter = n.filter /\ e.since = n.since
          /\ e.goal = n.goal /\ e.failed = n.failed /\ e.readOnly = n.readOnly
          /\ e.batch = n.batch /\ e.wanted = n.wanted /\ e.gone = n.gone /\ e.docs = n.docs
          /\ e.session = n.session /\ e.last = n.last /\ e.prior = n.prior /\ e.tcp = n.tcp
          /\ e.final = n.final
      BY <1>2 DEF Fields
    <2> HIDE DEF e
    <2>2. Carried(e)
      BY <1>4, <2>1 DEF Carried
    <2>3. Base(dbs, p, x, e)
      BY <1>5, <2>1, <2>2, BaseMoves
    <2>4. Flags(e)
      BY <1>2, <1>6, <2>1 DEF Flags, SavePcs
    <2>5. Phase(dbs[Source[x]], dbs[Target[x]], p, e)
      BY <2>1 DEF Phase, BatchPcs, SavePcs
    <2>6. Saved(r) = e
      BY <1>3, <1>6 DEF e
    <2> QED
      BY <2>1, <2>3, <2>4, <2>5, <2>6 DEF RunOk
  <1>7. CASE ~(r.full /\ ~r.final)
    <2>1. n.ids = IdsIn(dbs, x) /\ ~n.failed => EndsAt(dbs[Source[x]], n, n.since)
      BY <1>2, <1>7 DEF EndsAt
    <2>2. RunOk(dbs, p, x, Ended(n))
      BY <1>5, <2>1, EndedOk
    <2> QED
      BY <1>3, <1>7, <2>2
  <1> QED
    BY <1>6, <1>7

----------------------------------------------------------------------------
(* The calls of a run that change neither database *)

LEMMA Busy ==
  ASSUME NEW dbs, NEW p, NEW x, NEW r, RunOk(dbs, p, x, r), r.pc # "idle"
  PROVE  /\ Base(dbs, p, x, r) /\ Flags(r) /\ DOMAIN r = Fields /\ Carried(r)
         /\ Keeps(p, x) /\ Known(dbs, r.ids, x)
         /\ r.readOnly => Source[x] \in p.readOnly
         /\ r.ids = IdsIn(dbs, x) =>
              /\ Core(dbs[Source[x]], dbs[Target[x]], p, x, r)
              /\ Phase(dbs[Source[x]], dbs[Target[x]], p, r)
  BY DEF RunOk, Base

\* Before the first batch, and between two of them, a run promises no more.
LEMMA CalmOk ==
  ASSUME NEW dbs, NEW p, NEW x, NEW r, Base(dbs, p, x, r), ~r.failed, ~r.final,
         r.pc \in {"read_target", "read_source", "probe", "changes"}
  PROVE  RunOk(dbs, p, x, r)
  <1>1. Flags(r) /\ Phase(dbs[Source[x]], dbs[Target[x]], p, r)
    BY DEF Flags, Phase, BatchPcs, SavePcs
  <1> QED
    BY <1>1 DEF RunOk

LEMMA IdleOk ==
  ASSUME NEW dbs, NEW p, NEW x, NEW readOnly, readOnly => Source[x] \in p.readOnly,
         NEW e, e = Idle \/ e = [Idle EXCEPT !.readOnly = readOnly]
  PROVE  RunOk(dbs, p, x, e)
  <1>1. /\ DOMAIN Idle = Fields /\ Idle.pc = "idle" /\ Idle.readOnly = FALSE
    BY IdleIs
  <1>2. DOMAIN e = Fields /\ e.pc = "idle" /\ (e.readOnly = FALSE \/ e.readOnly = readOnly)
    BY <1>1 DEF Fields
  <1> QED
    BY <1>2 DEF RunOk

LEMMA KnownNow ==
  ASSUME NEW dbs, NEW x, DbFine(dbs[Source[x]]), DbFine(dbs[Target[x]])
  PROVE  Known(dbs, IdsIn(dbs, x), x)
  <1>1. dbs[Source[x]].uuid \in Nat /\ dbs[Target[x]].uuid \in Nat
    BY SeqFields
  <1>2. /\ dbs[Source[x]].uuid \in 0 .. dbs[Source[x]].uuid
        /\ dbs[Target[x]].uuid \in 0 .. dbs[Target[x]].uuid
    BY <1>1
  <1> QED
    BY <1>2 DEF Known, IdsIn

\* A run that starts.
LEMMA FreshBase ==
  ASSUME NEW dbs, NEW p, NEW x, DbFine(dbs[Source[x]]), Keeps(p, x),
         NEW r, DOMAIN r = Fields, Known(dbs, r.ids, x), r.session \in Nat,
         r.goal \in Nat, r.goal <= dbs[Source[x]].updateSeq,
         r.readOnly => Source[x] \in p.readOnly, r.since = 0, r.last = 0,
         r.batch = {}, r.wanted = {}, r.gone = {}, r.docs = {}, r.prior = <<>>, r.tcp = NoCheckpoint
  PROVE  Base(dbs, p, x, r)
  <1>1. Carried(r)
    <2>1. r.since \in Nat /\ r.last \in Nat
      OBVIOUS
    <2> QED
      BY <2>1, NothingCarried
  <1>2. Core(dbs[Source[x]], dbs[Target[x]], p, x, r)
    <2>1. Good(dbs[Source[x]], dbs[Target[x]], p.denied, r.filter, 0)
      BY GoodZero
    <2>2. GoodCheckpoint(dbs[Source[x]], dbs[Target[x]], p.denied, r.filter, NoCheckpoint)
      BY NoCheckpointGood
    <2>3. GoodHistory(dbs[Source[x]], dbs[Target[x]], p.denied, r.filter, <<>>)
      BY <2>2 DEF GoodCheckpoint, NoCheckpoint
    <2> QED
      BY <2>1, <2>2, <2>3 DEF Core
  <1> QED
    BY <1>1, <1>2 DEF Base

\* A run that looks for checkpoints, or scans the feed from the beginning.
LEMMA BeginOk ==
  ASSUME NEW dbs, NEW p, NEW x, DbFine(dbs[Source[x]]),
         NEW r, Base(dbs, p, x, r), ~r.failed, ~r.final,
         NEW e, e = [r EXCEPT !.pc = "read_target"] \/ e = From(r, 0)
  PROVE  RunOk(dbs, p, x, e)
  <1>1. CASE e = [r EXCEPT !.pc = "read_target"]
    <2>1. DOMAIN r = Fields /\ Carried(r)
      BY DEF Base
    <2>2. /\ DOMAIN e = Fields
          /\ e.pc = "read_target" /\ e.ids = r.ids /\ e.filter = r.filter /\ e.since = r.since
          /\ e.goal = r.goal /\ e.failed = r.failed /\ e.readOnly = r.readOnly
          /\ e.batch = r.batch /\ e.wanted = r.wanted /\ e.gone = r.gone /\ e.docs = r.docs
          /\ e.session = r.session /\ e.last = r.last /\ e.prior = r.prior /\ e.tcp = r.tcp
          /\ e.final = r.final
      BY <1>1, <2>1 DEF Fields
    <2>3. Carried(e)
      BY <2>1, <2>2 DEF Carried
    <2>4. Base(dbs, p, x, e)
      BY <2>2, <2>3, BaseMoves
    <2> QED
      BY <2>2, <2>4, CalmOk
  <1>2. CASE e = From(r, 0)
    <2>1. Good(dbs[Source[x]], dbs[Target[x]], p.denied, r.filter, 0) /\ 0 \in Nat
      BY GoodZero
    <2>2. FALSE => Source[x] \in p.readOnly
      OBVIOUS
    <2> QED
      BY <1>2, <2>1, <2>2, FromOk
  <1> QED
    BY <1>1, <1>2

\* A run is known by its databases.
LEMMA SamePeers ==
  ASSUME NEW dbs, NEW x, NEW y, NEW ids, Known(dbs, ids, x), Known(dbs, ids, y)
  PROVE  Source[x] = Source[y] /\ Target[x] = Target[y]
  <1>1. PICK u, v : ids = <<<<Source[x], u>>, <<Target[x], v>>>>
    BY DEF Known
  <1>2. PICK w, z : ids = <<<<Source[y], w>>, <<Target[y], z>>>>
    BY DEF Known
  <1> QED
    BY <1>1, <1>2

\* What a run reads of the checkpoints L of n.
LEMMA ReadGood ==
  ASSUME NEW dbs, NEW p, NEW x, DbFine(dbs[Source[x]]), NEW ids, Known(dbs, ids, x),
         NEW n, NEW L, StoredOk(dbs, p, n, L), NEW f,
         NEW cp, cp = IF <<ids, f>> \in DOMAIN L THEN L[<<ids, f>>] ELSE NoCheckpoint
  PROVE  /\ IsCheckpoint(cp)
         /\ ids = IdsIn(dbs, x) /\ (n = Source[x] \/ Source[x] \notin p.restorable) =>
              GoodCheckpoint(dbs[Source[x]], dbs[Target[x]], p.denied, f, cp)
  <1>1. CASE <<ids, f>> \in DOMAIN L
    <2> DEFINE k == <<ids, f>>
    <2>1. k[1] = ids /\ k[2] = f
      OBVIOUS
    <2> HIDE DEF k
    <2>2. IsCheckpoint(L[k]) /\ \E y \in Replicator : KeptAt(dbs, p, y, n, k[1], k[2], L[k])
      BY <1>1 DEF StoredOk, k
    <2>3. PICK y \in Replicator : KeptAt(dbs, p, y, n, ids, f, L[k])
      BY <2>1, <2>2
    <2>4. Source[x] = Source[y] /\ Target[x] = Target[y]
      BY <2>3, SamePeers DEF KeptAt
    <2>5. cp = L[k]
      BY <1>1 DEF k
    <2> QED
      BY <2>2, <2>3, <2>4, <2>5 DEF KeptAt, IdsIn
  <1>2. CASE <<ids, f>> \notin DOMAIN L
    BY <1>2, NoCheckpointGood
  <1> QED
    BY <1>1, <1>2

\* A checkpoint that is put among others.
Put(L, k, cp) == [i \in DOMAIN L \union {k} |-> IF i = k THEN cp ELSE L[i]]

LEMMA PutOk ==
  ASSUME NEW dbs, NEW p, NEW x \in Replicator, Keeps(p, x), NEW ids, Known(dbs, ids, x),
         NEW n, NEW L, StoredOk(dbs, p, n, L), NEW f, NEW cp, IsCheckpoint(cp),
         ids = IdsIn(dbs, x) /\ (n = Source[x] \/ Source[x] \notin p.restorable) =>
           GoodCheckpoint(dbs[Source[x]], dbs[Target[x]], p.denied, f, cp)
  PROVE  StoredOk(dbs, p, n, Put(L, <<ids, f>>, cp))
  <1> DEFINE M == Put(L, <<ids, f>>, cp)
  <1> SUFFICES ASSUME NEW k \in DOMAIN M
               PROVE  /\ IsCheckpoint(M[k])
                      /\ \E y \in Replicator : KeptAt(dbs, p, y, n, k[1], k[2], M[k])
    BY DEF StoredOk
  <1>1. CASE k = <<ids, f>>
    <2>1. M[k] = cp /\ k[1] = ids /\ k[2] = f
      BY <1>1 DEF Put
    <2>2. KeptAt(dbs, p, x, n, ids, f, cp)
      BY DEF KeptAt
    <2> QED
      BY <2>1, <2>2
  <1>2. CASE k # <<ids, f>>
    <2>1. k \in DOMAIN L /\ M[k] = L[k]
      BY <1>2 DEF Put
    <2> QED
      BY <2>1 DEF StoredOk
  <1> QED
    BY <1>1, <1>2

\* read_checkpoint: the target's is remembered.
LEMMA TargetReadOk ==
  ASSUME NEW dbs, NEW p, NEW x, DbFine(dbs[Source[x]]),
         NEW r, RunOk(dbs, p, x, r), r.pc = "read_target",
         NEW cp, IsCheckpoint(cp),
         r.ids = IdsIn(dbs, x) /\ Source[x] \notin p.restorable =>
           GoodCheckpoint(dbs[Source[x]], dbs[Target[x]], p.denied, r.filter, cp),
         NEW e, e = From(r, 0) \/ e = [r EXCEPT !.pc = "read_source", !.tcp = cp]
  PROVE  RunOk(dbs, p, x, e)
  <1>1. Base(dbs, p, x, r) /\ Flags(r) /\ DOMAIN r = Fields /\ Carried(r)
    BY Busy
  <1>2. ~r.failed /\ ~r.final
    BY <1>1 DEF Flags, SavePcs
  <1>3. CASE e = From(r, 0)
    BY <1>1, <1>2, <1>3, BeginOk
  <1>4. CASE e = [r EXCEPT !.pc = "read_source", !.tcp = cp]
    <2>1. /\ DOMAIN e = Fields
          /\ e.pc = "read_source" /\ e.ids = r.ids /\ e.filter = r.filter /\ e.since = r.since
          /\ e.goal = r.goal /\ e.failed = r.failed /\ e.readOnly = r.readOnly
          /\ e.batch = r.batch /\ e.wanted = r.wanted /\ e.gone = r.gone /\ e.docs = r.docs
          /\ e.session = r.session /\ e.last = r.last /\ e.prior = r.prior /\ e.tcp = cp
          /\ e.final = r.final
      BY <1>1, <1>4 DEF Fields
    <2>2. Carried(e)
      BY <1>1, <2>1 DEF Carried
    <2>3. r.ids = IdsIn(dbs, x) => Core(dbs[Source[x]], dbs[Target[x]], p, x, e)
      BY <1>1, <2>1 DEF Base, Core
    <2>4. Base(dbs, p, x, e)
      BY <1>1, <2>1, <2>2, <2>3 DEF Base
    <2> QED
      BY <1>2, <2>1, <2>4, CalmOk
  <1> QED
    BY <1>3, <1>4

\* A source without a checkpoint is probed; else the two are compared.
LEMMA SourceReadOk ==
  ASSUME NEW dbs, NEW p, NEW x, DbFine(dbs[Source[x]]),
         NEW r, RunOk(dbs, p, x, r), r.pc = "read_source",
         NEW cp, IsCheckpoint(cp),
         r.ids = IdsIn(dbs, x) => GoodCheckpoint(dbs[Source[x]], dbs[Target[x]], p.denied, r.filter, cp),
         NEW e, e = [r EXCEPT !.pc = "probe"] \/ e = From(r, CompareCheckpoints(cp, r.tcp))
  PROVE  RunOk(dbs, p, x, e)
  <1>1. Base(dbs, p, x, r) /\ Flags(r) /\ DOMAIN r = Fields /\ Carried(r)
    BY Busy
  <1>2. ~r.failed /\ ~r.final
    BY <1>1 DEF Flags, SavePcs
  <1>3. CASE e = [r EXCEPT !.pc = "probe"]
    <2>1. /\ DOMAIN e = Fields
          /\ e.pc = "probe" /\ e.ids = r.ids /\ e.filter = r.filter /\ e.since = r.since
          /\ e.goal = r.goal /\ e.failed = r.failed /\ e.readOnly = r.readOnly
          /\ e.batch = r.batch /\ e.wanted = r.wanted /\ e.gone = r.gone /\ e.docs = r.docs
          /\ e.session = r.session /\ e.last = r.last /\ e.prior = r.prior /\ e.tcp = r.tcp
          /\ e.final = r.final
      BY <1>1, <1>3 DEF Fields
    <2>2. Carried(e)
      BY <1>1, <2>1 DEF Carried
    <2>3. Base(dbs, p, x, e)
      BY <1>1, <2>1, <2>2, BaseMoves
    <2> QED
      BY <1>2, <2>1, <2>3, CalmOk
  <1>4. CASE e = From(r, CompareCheckpoints(cp, r.tcp))
    <2> DEFINE seq == CompareCheckpoints(cp, r.tcp)
    <2>1. IsCheckpoint(r.tcp)
      BY <1>1 DEF Carried
    <2>2. seq \in Nat
      BY <2>1, CompareIs
    <2>3. r.ids = IdsIn(dbs, x) => Good(dbs[Source[x]], dbs[Target[x]], p.denied, r.filter, seq)
      BY <2>1, CompareGood
    <2> HIDE DEF seq
    <2>4. FALSE => Source[x] \in p.readOnly
      OBVIOUS
    <2> QED
      BY <1>1, <1>2, <1>4, <2>2, <2>3, <2>4, FromOk DEF seq
  <1> QED
    BY <1>3, <1>4

\* A source that stores no checkpoints: the target's alone counts.
LEMMA ProbedOk ==
  ASSUME NEW dbs, NEW p, NEW x, DbFine(dbs[Source[x]]),
         NEW r, RunOk(dbs, p, x, r), r.pc = "probe",
         NEW e, \/ e = From(r, 0)
                \/ Source[x] \in p.readOnly /\ e = [From(r, r.tcp.last) EXCEPT !.readOnly = TRUE]
  PROVE  RunOk(dbs, p, x, e)
  <1>1. Base(dbs, p, x, r) /\ Flags(r) /\ Carried(r) /\ Keeps(p, x)
    BY Busy
  <1>2. ~r.failed /\ ~r.final
    BY <1>1 DEF Flags, SavePcs
  <1>3. CASE e = From(r, 0)
    BY <1>1, <1>2, <1>3, BeginOk
  <1>4. CASE Source[x] \in p.readOnly /\ e = [From(r, r.tcp.last) EXCEPT !.readOnly = TRUE]
    <2>1. r.tcp.last \in Nat
      BY <1>1 DEF Carried, IsCheckpoint
    <2>2. r.ids = IdsIn(dbs, x) =>
            Good(dbs[Source[x]], dbs[Target[x]], p.denied, r.filter, r.tcp.last)
      BY <1>1, <1>4 DEF Base, Core, Keeps, GoodCheckpoint
    <2>3. TRUE => Source[x] \in p.readOnly
      BY <1>4
    <2> QED
      BY <1>1, <1>2, <1>4, <2>1, <2>2, <2>3, FromOk
  <1> QED
    BY <1>3, <1>4

----------------------------------------------------------------------------
(* A batch: what is listed, compared, fetched and looked at *)

LEMMA ImageFinite ==
  ASSUME NEW f, IsFiniteSet(DOMAIN f)
  PROVE  IsFiniteSet({f[i] : i \in DOMAIN f})
  <1> DEFINE D == DOMAIN f
             X == {f[i] : i \in D}
             g == [i \in D |-> f[i]]
  <1>1. g \in Surjection(D, X)
    BY DEF Surjection
  <1> HIDE DEF D, X
  <1>2. IsFiniteSet(X)
    BY <1>1, FS_Surjection DEF D
  <1> QED
    BY <1>2 DEF X, D

\* The highest sequence of some changes.
LEMMA LastSeqIs ==
  ASSUME NEW C, C # {}, \E c \in C : \A e \in C : e.seq <= c.seq
  PROVE  /\ \E c \in C : LastSeq(C) = c.seq
         /\ \A c \in C : c.seq <= LastSeq(C)
  <1> DEFINE X == {c.seq : c \in C}
             IsLast(s) == \A c \in C : c.seq <= s
  <1>1. \E s \in X : IsLast(s)
    OBVIOUS
  <1>2. LastSeq(C) = CHOOSE s \in X : IsLast(s)
    BY DEF LastSeq
  <1> HIDE DEF IsLast
  <1>3. LastSeq(C) \in X /\ IsLast(LastSeq(C))
    BY <1>1, <1>2
  <1> QED
    BY <1>3 DEF IsLast

\* What the source lists after `since' for f is no gap: R is the page of it, s
\* where it ends.
Lists(S, f, since, R, s) ==
  /\ s \in Nat /\ since <= s
  /\ since <= S.updateSeq => s <= S.updateSeq
  /\ \A c \in R : c.id \in Doc
  /\ IsFiniteSet(R)
  /\ \A d \in Doc : Exists(S, d) /\ d \in f.ids /\ S.docs[d].seq <= s =>
       S.docs[d].seq <= since \/ EntryOf(S, d) \in R
  /\ Cardinality(R) # BatchSize =>
       \A d \in Doc : Exists(S, d) /\ d \in f.ids => S.docs[d].seq <= s

LEMMA OfferedIs ==
  ASSUME NEW S, DbFine(S), NEW f
  PROVE  /\ Offered(S, f).changes \in SUBSET S.changes
         /\ \A c \in S.changes : c.id \in f.ids => c \in Offered(S, f).changes
  <1>1. S \in DbType
    BY DEF DbFine, DbOk
  <1>2. CASE f.kind = "doc_ids"
    <2>1. Offered(S, f).changes = {c \in S.changes : c.id \in f.ids}
      BY <1>1, <1>2 DEF Offered, DbType
    <2> QED
      BY <2>1
  <1>3. CASE f.kind # "doc_ids"
    BY <1>3 DEF Offered
  <1> QED
    BY <1>2, <1>3

\* The page that is offered.
LEMMA OfferedPage ==
  ASSUME NEW S, DbFine(S), NEW f, NEW since \in Nat,
         NEW R, R = ChangesAfter(Offered(S, f), since, BatchSize)
  PROVE  /\ Paged(Offered(S, f).changes, since, BatchSize, R)
         /\ R \in SUBSET Offered(S, f).changes /\ Sequenced(R)
         /\ \A c \in R : c.seq > since
  <1> DEFINE C == Offered(S, f).changes
  <1>1. C \in SUBSET S.changes
    BY OfferedIs
  <1>2. Sequenced(C)
    BY <1>1, FeedSequenced DEF DbFine
  <1>3. R = PageOf(C, since, BatchSize)
    BY DEF ChangesAfter, PageOf
  <1> HIDE DEF C
  <1>4. Paged(C, since, BatchSize, R)
    BY <1>2, <1>3, PageIs, ReplicationAssumption
  <1>5. R \in SUBSET C /\ \A c \in R : c.seq > since
    BY <1>3 DEF PageOf
  <1>6. R \in SUBSET S.changes
    BY <1>1, <1>5
  <1>7. Sequenced(R)
    BY <1>6, FeedSequenced DEF DbFine
  <1> QED
    BY <1>4, <1>5, <1>7 DEF C

\* The entries of the feed.
LEMMA FeedEntries ==
  ASSUME NEW S, DbFine(S)
  PROVE  /\ \A d \in Doc : Exists(S, d) => EntryOf(S, d) \in S.changes
         /\ \A d \in Doc : EntryOf(S, d).seq = S.docs[d].seq /\ EntryOf(S, d).id = d
         /\ \A c \in S.changes : /\ c.id \in Doc /\ Exists(S, c.id) /\ c.seq = S.docs[c.id].seq
                                 /\ c.seq \in Nat /\ c.seq <= S.updateSeq
  <1>1. S \in DbType /\ FeedOk(S) /\ SeqsOk(S) /\ S.updateSeq \in Nat
    BY DEF DbFine, DbOk, DbType
  <1>2. \A d \in Doc : EntryOf(S, d).seq = S.docs[d].seq /\ EntryOf(S, d).id = d
    BY DEF EntryOf
  <1>3. \A d \in Doc : Exists(S, d) => EntryOf(S, d) \in S.changes
    BY <1>1 DEF FeedOk
  <1>4. ASSUME NEW c \in S.changes
        PROVE  /\ c.id \in Doc /\ Exists(S, c.id) /\ c.seq = S.docs[c.id].seq
               /\ c.seq \in Nat /\ c.seq <= S.updateSeq
    <2>1. PICK d \in Doc : Exists(S, d) /\ c = EntryOf(S, d)
      BY <1>1 DEF FeedOk
    <2>2. S.docs[d].seq \in 1 .. S.updateSeq
      BY <1>1, <2>1 DEF SeqsOk
    <2> QED
      BY <1>1, <1>2, <2>1, <2>2
  <1> QED
    BY <1>2, <1>3, <1>4

\* An empty page: the scan passes what it was not offered.
LEMMA ScannedLists ==
  ASSUME NEW S, DbFine(S), NEW f, NEW since \in Nat,
         ChangesAfter(Offered(S, f), since, BatchSize) = {}
  PROVE  /\ Lists(S, f, since, {}, Scanned(S, since))
         /\ \A d \in Doc : Exists(S, d) /\ d \in f.ids => S.docs[d].seq <= since
  <1> DEFINE B == {c \in S.changes : c.seq > since}
             A == {[seq |-> since]} \union B
             s == Scanned(S, since)
             here == [seq |-> since]
  <1>0. S.updateSeq \in Nat /\ here.seq = since /\ \A d \in Doc : S.docs[d].seq \in Nat
    BY SeqFields
  <1>1. \E c \in A : \A e \in A : e.seq <= c.seq
    <2>1. CASE B = {}
      <3>1. A = {here}
        BY <2>1
      <3> HIDE DEF A, here
      <3>2. here.seq <= here.seq
        BY <1>0
      <3> QED
        BY <3>1, <3>2
    <2>2. CASE B # {}
      <3>1. Sequenced(B)
        <4>1. B \in SUBSET S.changes
          OBVIOUS
        <4> HIDE DEF B
        <4> QED
          BY <4>1, FeedSequenced DEF DbFine
      <3>2. PICK c \in B : \A e \in B : e.seq <= c.seq
        <4> HIDE DEF B
        <4> QED
          BY <2>2, <3>1, LastEntry
      <3>3. c.seq \in Nat /\ c.seq > since
        BY FeedEntries
      <3>4. since <= c.seq
        BY <3>3
      <3> QED
        BY <1>0, <3>2, <3>4
    <2> QED
      BY <2>1, <2>2
  <1>2. A # {} /\ here \in A /\ \A c \in A : c.seq = since \/ c \in S.changes
    BY <1>0
  <1>3. s = LastSeq(A)
    BY DEF Scanned
  <1> HIDE DEF A, s
  <1>4. (\E c \in A : s = c.seq) /\ \A c \in A : c.seq <= s
    BY <1>1, <1>2, <1>3, LastSeqIs
  <1>5. s = since \/ (s \in Nat /\ s <= S.updateSeq)
    BY <1>2, <1>4, FeedEntries
  <1>6. since <= s
    BY <1>0, <1>2, <1>4
  <1>7. ASSUME NEW d \in Doc, Exists(S, d), d \in f.ids
        PROVE  S.docs[d].seq <= since
    <2>1. /\ EntryOf(S, d) \in S.changes /\ EntryOf(S, d).id = d
          /\ EntryOf(S, d).seq = S.docs[d].seq
      BY <1>7, FeedEntries
    <2>2. EntryOf(S, d) \in Offered(S, f).changes
      <3>1. \A c \in S.changes : c.id \in f.ids => c \in Offered(S, f).changes
        BY OfferedIs
      <3> QED
        BY <1>7, <2>1, <3>1
    <2>3. Paged(Offered(S, f).changes, since, BatchSize, {})
      BY OfferedPage
    <2> QED
      BY <2>1, <2>2, <2>3 DEF Paged
  <1>8. \A d \in Doc : Exists(S, d) /\ d \in f.ids => S.docs[d].seq <= s
    BY <1>0, <1>5, <1>6, <1>7
  <1>9. s \in Nat /\ (since <= S.updateSeq => s <= S.updateSeq)
    BY <1>5
  <1>10. IsFiniteSet({})
    BY FS_EmptySet
  <1>11. Lists(S, f, since, {}, s)
    BY <1>6, <1>7, <1>8, <1>9, <1>10 DEF Lists
  <1> QED
    BY <1>7, <1>11 DEF s

\* A page that is not empty ends at its last entry.
LEMMA PageLists ==
  ASSUME NEW S, DbFine(S), NEW f, NEW since \in Nat,
         NEW R, R = ChangesAfter(Offered(S, f), since, BatchSize), R # {}
  PROVE  Lists(S, f, since, R, LastSeq(R))
  <1> DEFINE s == LastSeq(R)
             C == Offered(S, f).changes
  <1>1. /\ Paged(C, since, BatchSize, R) /\ R \in SUBSET C /\ Sequenced(R)
        /\ \A c \in R : c.seq > since
    BY OfferedPage
  <1>2. \E c \in R : \A e \in R : e.seq <= c.seq
    BY <1>1, LastEntry
  <1>3. (\E c \in R : s = c.seq) /\ \A c \in R : c.seq <= s
    BY <1>2, LastSeqIs
  <1> HIDE DEF s
  <1>4. PICK z \in R : s = z.seq
    BY <1>3
  <1>5. /\ \A c \in R : c \in S.changes
        /\ \A d \in Doc : Exists(S, d) /\ d \in f.ids =>
             /\ EntryOf(S, d) \in C /\ EntryOf(S, d).seq = S.docs[d].seq
    <2>1. C \in SUBSET S.changes
      BY OfferedIs
    <2>2. \A d \in Doc : Exists(S, d) /\ d \in f.ids =>
            /\ EntryOf(S, d) \in S.changes /\ EntryOf(S, d).id \in f.ids
            /\ EntryOf(S, d).seq = S.docs[d].seq
      BY FeedEntries
    <2>3. \A c \in S.changes : c.id \in f.ids => c \in C
      BY OfferedIs
    <2> HIDE DEF C
    <2> QED
      BY <1>1, <2>1, <2>2, <2>3
  <1> HIDE DEF C
  <1>6. /\ s \in Nat /\ s <= S.updateSeq /\ since < s /\ \A c \in R : c.id \in Doc
    BY <1>1, <1>4, <1>5, FeedEntries
  <1>7. S.updateSeq \in Nat /\ \A d \in Doc : S.docs[d].seq \in Nat
    BY SeqFields
  <1>8. ASSUME NEW d \in Doc, Exists(S, d), d \in f.ids, S.docs[d].seq <= s
        PROVE  S.docs[d].seq <= since \/ EntryOf(S, d) \in R
    <2> DEFINE c == EntryOf(S, d)
    <2>1. c \in C /\ c.seq = S.docs[d].seq
      BY <1>5, <1>8
    <2> HIDE DEF c
    <2>2. since < c.seq /\ c.seq <= z.seq => c \in R
      BY <1>1, <2>1 DEF Paged
    <2> QED
      BY <1>4, <1>7, <1>8, <2>1, <2>2 DEF c
  <1>9. ASSUME Cardinality(R) # BatchSize, NEW d \in Doc, Exists(S, d), d \in f.ids
        PROVE  S.docs[d].seq <= s
    <2> DEFINE c == EntryOf(S, d)
    <2>1. c \in C /\ c.seq = S.docs[d].seq
      BY <1>5, <1>9
    <2> HIDE DEF c
    <2>2. since < c.seq => c \in R
      BY <1>1, <1>9, <2>1 DEF Paged
    <2> QED
      BY <1>3, <1>6, <1>7, <2>1, <2>2
  <1>10. IsFiniteSet(R) /\ since <= s
    BY <1>1, <1>6 DEF Sequenced
  <1> QED
    BY <1>6, <1>8, <1>9, <1>10 DEF Lists, s

\* The scan moves on past what was not offered, which ends it.
LEMMA ScannedOk ==
  ASSUME NEW dbs, NEW p, NEW x, DbFine(dbs[Source[x]]),
         NEW r, RunOk(dbs, p, x, r), r.pc = "changes",
         ChangesAfter(Offered(dbs[Source[x]], r.filter), r.since, BatchSize) = {}
  PROVE  RunOk(dbs, p, x, Finish([r EXCEPT !.since = Scanned(dbs[Source[x]], @)]))
  <1> DEFINE S == dbs[Source[x]]
             T == dbs[Target[x]]
             s == Scanned(S, r.since)
             n == [r EXCEPT !.since = s]
  <1>1. Base(dbs, p, x, r) /\ Flags(r) /\ DOMAIN r = Fields /\ Carried(r)
    BY Busy
  <1>2. r.since \in Nat
    BY <1>1 DEF Carried
  <1>3. /\ Lists(S, r.filter, r.since, {}, s)
        /\ \A d \in Doc : Exists(S, d) /\ d \in r.filter.ids => S.docs[d].seq <= r.since
    BY <1>2, ScannedLists
  <1> HIDE DEF s
  <1>4. /\ DOMAIN n = Fields
        /\ n.pc = r.pc /\ n.ids = r.ids /\ n.filter = r.filter /\ n.since = s
        /\ n.goal = r.goal /\ n.failed = r.failed /\ n.readOnly = r.readOnly
        /\ n.batch = r.batch /\ n.wanted = r.wanted /\ n.gone = r.gone /\ n.docs = r.docs
        /\ n.session = r.session /\ n.last = r.last /\ n.prior = r.prior /\ n.tcp = r.tcp
        /\ n.final = r.final /\ n.full = r.full
    BY <1>1 DEF Fields
  <1> HIDE DEF n
  <1>5. s \in Nat /\ r.since <= s /\ (r.since <= S.updateSeq => s <= S.updateSeq)
    BY <1>3 DEF Lists
  <1>6. Carried(n)
    BY <1>1, <1>4, <1>5 DEF Carried
  <1>7. ASSUME r.ids = IdsIn(dbs, x)
        PROVE  Core(S, T, p, x, n)
    <2>1. Core(S, T, p, x, r)
      BY <1>1, <1>7 DEF Base
    <2>2. Good(S, T, p.denied, r.filter, s)
      <3>1. Good(S, T, p.denied, r.filter, r.since)
        BY <2>1 DEF Core
      <3>2. Covered(S, T, p.denied, r.filter, s, {})
        BY <1>3, <3>1 DEF Good, Covered, Passed
      <3> QED
        BY <1>5, <3>1, <3>2 DEF Good
    <2> QED
      BY <1>4, <2>1, <2>2 DEF Core
  <1>8. Base(dbs, p, x, n)
    BY <1>1, <1>4, <1>6, <1>7 DEF Base
  <1>9. EndsAt(S, n, n.since)
    <2>1. \A d \in Doc : S.docs[d].seq \in Nat
      BY SeqFields
    <2> QED
      BY <1>2, <1>3, <1>4, <1>5, <2>1 DEF EndsAt
  <1>10. RunOk(dbs, p, x, Finish(n))
    BY <1>8, <1>9, FinishOk
  <1> QED
    BY <1>10 DEF n, s

\* What is listed of a page, to be compared.
BatchOf(S, f, R) == {[id |-> c.id, revs |-> ListedRevs(S, c.id)] : c \in {b \in R : b.id \in f.ids}}

LEMMA BatchIs ==
  ASSUME NEW S, DbFine(S), NEW f, NEW R, IsFiniteSet(R), \A c \in R : c.id \in Doc,
         NEW B, B = BatchOf(S, f, R)
  PROVE  /\ \A b \in B : b.id \in Doc /\ b.revs \in SUBSET Rev /\ IsFiniteSet(b.revs)
         /\ IsFiniteSet(B)
         /\ \A d \in Doc : EntryOf(S, d) \in R /\ d \in f.ids =>
              \A l \in LeafRevs(Nodes(S, d)) : <<d, l>> \in UNION {{b.id} \X b.revs : b \in B}
  <1> DEFINE C == {b \in R : b.id \in f.ids}
             item == [c \in C |-> [id |-> c.id, revs |-> ListedRevs(S, c.id)]]
  <1>1. ASSUME NEW d \in Doc
        PROVE  LeafRevs(Nodes(S, d)) \in SUBSET Rev /\ IsFiniteSet(LeafRevs(Nodes(S, d)))
    <2>1. S \in DbType /\ TreesOk(S)
      BY DEF DbFine, DbOk
    <2>2. S.docs[d].tree.nodes \in SUBSET (Rev \X Rev)
      BY <2>1, DocFields
    <2>3. LeafRevs(Nodes(S, d)) \in SUBSET Rev
      BY <2>2 DEF LeafRevs, LeafNodes, RevsOf, Nodes
    <2> QED
      BY <2>1, <2>3 DEF TreesOk
  <1>2. ASSUME NEW b \in B
        PROVE  b.id \in Doc /\ b.revs \in SUBSET Rev /\ IsFiniteSet(b.revs)
    <2>1. PICK c \in C : b = [id |-> c.id, revs |-> ListedRevs(S, c.id)]
      BY DEF BatchOf
    <2>2. b.id = c.id /\ b.revs = LeafRevs(Nodes(S, c.id)) /\ c.id \in Doc
      BY <2>1 DEF ListedRevs
    <2> QED
      BY <1>1, <2>2
  <1>3. IsFiniteSet(B)
    <2>1. B = {item[c] : c \in DOMAIN item}
      BY DEF BatchOf
    <2>2. IsFiniteSet(DOMAIN item)
      BY FS_Subset
    <2> HIDE DEF item
    <2> QED
      BY <2>1, <2>2, ImageFinite
  <1>4. ASSUME NEW d \in Doc, EntryOf(S, d) \in R, d \in f.ids, NEW l \in LeafRevs(Nodes(S, d))
        PROVE  <<d, l>> \in UNION {{b.id} \X b.revs : b \in B}
    <2> DEFINE b == [id |-> d, revs |-> LeafRevs(Nodes(S, d))]
    <2>1. EntryOf(S, d).id = d
      BY DEF EntryOf
    <2>2. b \in B
      BY <1>4, <2>1 DEF BatchOf, ListedRevs
    <2>3. <<d, l>> \in {b.id} \X b.revs
      BY <1>4
    <2> HIDE DEF b
    <2> QED
      BY <2>2, <2>3
  <1> QED
    BY <1>2, <1>3, <1>4

\* What is listed covers the scan up to the end of the page.
LEMMA ListedOk ==
  ASSUME NEW dbs, NEW p, NEW x, DbFine(dbs[Source[x]]),
         NEW r, RunOk(dbs, p, x, r), r.pc = "changes",
         NEW R, R = ChangesAfter(Offered(dbs[Source[x]], r.filter), r.since, BatchSize), R # {},
         NEW n, n = Listed(dbs[Source[x]], r, R)
  PROVE  RunOk(dbs, p, x, IF n.batch = {} THEN Skip(n) ELSE n)
  <1> DEFINE S == dbs[Source[x]]
             T == dbs[Target[x]]
             B == BatchOf(S, r.filter, R)
             s == LastSeq(R)
             full == (Cardinality(R) = BatchSize)
             due == UNION {{b.id} \X b.revs : b \in B}
  <1>1. Base(dbs, p, x, r) /\ Flags(r) /\ DOMAIN r = Fields /\ Carried(r)
    BY Busy
  <1>2. ~r.failed /\ ~r.final /\ r.since \in Nat
    BY <1>1 DEF Flags, SavePcs, Carried
  <1>3. Lists(S, r.filter, r.since, R, s)
    BY <1>2, PageLists
  <1>4. n = [r EXCEPT !.pc = "diff", !.batch = B, !.last = s, !.full = full]
    BY DEF Listed, BatchOf, BatchEnd
  <1>5. /\ \A b \in B : b.id \in Doc /\ b.revs \in SUBSET Rev /\ IsFiniteSet(b.revs)
        /\ IsFiniteSet(B)
        /\ \A d \in Doc : EntryOf(S, d) \in R /\ d \in r.filter.ids =>
             \A l \in LeafRevs(Nodes(S, d)) : <<d, l>> \in due
    BY <1>3, BatchIs DEF Lists
  <1> HIDE DEF B, s, full
  <1>6. /\ DOMAIN n = Fields
        /\ n.pc = "diff" /\ n.ids = r.ids /\ n.filter = r.filter /\ n.since = r.since
        /\ n.goal = r.goal /\ n.failed = r.failed /\ n.readOnly = r.readOnly
        /\ n.batch = B /\ n.wanted = r.wanted /\ n.gone = r.gone /\ n.docs = r.docs
        /\ n.session = r.session /\ n.last = s /\ n.prior = r.prior /\ n.tcp = r.tcp
        /\ n.final = r.final /\ n.full = full
    <2> DEFINE m == [r EXCEPT !.pc = "diff", !.batch = B]
    <2>1. n = [m EXCEPT !.last = s, !.full = full]
      BY <1>4
    <2>2. /\ DOMAIN m = Fields
          /\ m.pc = "diff" /\ m.ids = r.ids /\ m.filter = r.filter /\ m.since = r.since
          /\ m.goal = r.goal /\ m.failed = r.failed /\ m.readOnly = r.readOnly
          /\ m.batch = B /\ m.wanted = r.wanted /\ m.gone = r.gone /\ m.docs = r.docs
          /\ m.session = r.session /\ m.prior = r.prior /\ m.tcp = r.tcp /\ m.final = r.final
      BY <1>1 DEF Fields
    <2> HIDE DEF m
    <2> QED
      BY <2>1, <2>2 DEF Fields
  <1>7. Carried(n)
    BY <1>1, <1>3, <1>5, <1>6 DEF Carried, Lists
  <1>8. Base(dbs, p, x, n)
    BY <1>1, <1>6, <1>7, BaseMoves
  <1>9. Due(n) = due
    BY <1>6 DEF Due
  <1>10. ASSUME r.ids = IdsIn(dbs, x)
         PROVE  BatchSound(S, T, p.denied, n, due)
    <2>1. Good(S, T, p.denied, r.filter, r.since)
      BY <1>1, <1>10 DEF Base, Core
    <2>2. s <= S.updateSeq
      BY <1>3, <2>1 DEF Lists, Good
    <2>3. Covered(S, T, p.denied, r.filter, s, due)
      <3> SUFFICES ASSUME NEW d \in Doc, Exists(S, d), S.docs[d].seq <= s,
                          d \in r.filter.ids, d \notin p.denied,
                          NEW l \in LeafRevs(Nodes(S, d)) \intersect r.filter.revs
                   PROVE  l \in RevsOf(Nodes(T, d)) \/ <<d, l>> \in due
        BY DEF Covered, Passed
      <3>1. CASE S.docs[d].seq <= r.since
        BY <2>1, <3>1 DEF Good, Covered, Passed
      <3>2. CASE EntryOf(S, d) \in R
        BY <1>5, <3>2
      <3> QED
        BY <1>3, <3>1, <3>2 DEF Lists
    <2>4. ~full => EndsAt(S, n, s)
      BY <1>3, <1>6 DEF Lists, EndsAt, full
    <2> QED
      BY <1>6, <2>2, <2>3, <2>4 DEF BatchSound
  <1>11. CASE n.batch = {}
    <2>1. due = {}
      BY <1>6, <1>11
    <2> QED
      BY <1>2, <1>6, <1>8, <1>10, <1>11, <2>1, SkipOk
  <1>12. CASE n.batch # {}
    <2>1. Flags(n)
      BY <1>2, <1>6 DEF Flags, SavePcs
    <2>2. n.ids = IdsIn(dbs, x) => Phase(S, T, p, n)
      BY <1>6, <1>9, <1>10 DEF Phase, SavePcs
    <2> QED
      BY <1>6, <1>8, <1>12, <2>1, <2>2 DEF RunOk
  <1> QED
    BY <1>11, <1>12

\* changes
LEMMA FetchOk ==
  ASSUME NEW dbs, NEW p, NEW x, DbFine(dbs[Source[x]]),
         NEW r, RunOk(dbs, p, x, r), r.pc = "changes",
         NEW e, e = AfterChanges(dbs[Source[x]], r,
                      ChangesAfter(Offered(dbs[Source[x]], r.filter), r.since, BatchSize))
  PROVE  RunOk(dbs, p, x, e)
  BY ScannedOk, ListedOk DEF AfterChanges

\* revs_diff
LEMMA DiffOk ==
  ASSUME NEW dbs, NEW p, NEW x, DbFine(dbs[Source[x]]),
         NEW r, RunOk(dbs, p, x, r), r.pc = "diff",
         NEW M, M = UNION {{[id |-> b.id, rev |-> v] : v \in MissingRevs(Nodes(dbs[Target[x]], b.id), b.revs)} :
                             b \in r.batch},
         NEW e, e = IF M = {} THEN Skip(r) ELSE [r EXCEPT !.pc = "get", !.wanted = M, !.batch = {}]
  PROVE  RunOk(dbs, p, x, e)
  <1> DEFINE S == dbs[Source[x]]
             T == dbs[Target[x]]
             due == UNION {{b.id} \X b.revs : b \in r.batch}
             left == {<<w.id, w.rev>> : w \in M}
  <1>1. /\ Base(dbs, p, x, r) /\ Flags(r) /\ DOMAIN r = Fields /\ Carried(r)
        /\ r.ids = IdsIn(dbs, x) => Phase(S, T, p, r)
    BY Busy
  <1>2. ~r.failed /\ ~r.final
    BY <1>1 DEF Flags, SavePcs
  <1>3. Due(r) = due
    BY DEF Due
  <1>4. ASSUME NEW d, NEW l, <<d, l>> \in due
        PROVE  l \in RevsOf(Nodes(T, d)) \/ <<d, l>> \in left
    <2>1. PICK b \in r.batch : d = b.id /\ l \in b.revs
      BY <1>4
    <2>2. CASE l \notin RevsOf(Nodes(T, d))
      <3> DEFINE w == [id |-> b.id, rev |-> l]
      <3>1. w \in M
        BY <2>1, <2>2 DEF MissingRevs
      <3>2. w.id = d /\ w.rev = l
        BY <2>1
      <3> HIDE DEF w
      <3> QED
        BY <3>1, <3>2
    <2> QED
      BY <2>2
  <1>5. ASSUME r.ids = IdsIn(dbs, x)
        PROVE  BatchSound(S, T, p.denied, r, left)
    <2>1. BatchSound(S, T, p.denied, r, due)
      BY <1>1, <1>3, <1>5 DEF Phase, BatchPcs
    <2>2. Covered(S, T, p.denied, r.filter, r.last, due)
      BY <1>2, <2>1 DEF BatchSound
    <2> HIDE DEF due, left
    <2>3. Covered(S, T, p.denied, r.filter, r.last, left)
      BY <1>4, <2>2 DEF Covered
    <2> QED
      BY <2>1, <2>3 DEF BatchSound
  <1>6. M \in SUBSET Wanted /\ IsFiniteSet(M)
    <2> DEFINE item(b) == {[id |-> b.id, rev |-> v] : v \in MissingRevs(Nodes(T, b.id), b.revs)}
               items == [b \in r.batch |-> item(b)]
    <2>1. ASSUME NEW b \in r.batch
          PROVE  IsFiniteSet(item(b)) /\ item(b) \in SUBSET Wanted
      <3> DEFINE X == MissingRevs(Nodes(T, b.id), b.revs)
                 f == [v \in X |-> [id |-> b.id, rev |-> v]]
      <3>1. b.id \in Doc /\ b.revs \in SUBSET Rev /\ IsFiniteSet(b.revs)
        BY <1>1 DEF Carried
      <3>2. IsFiniteSet(X) /\ X \in SUBSET Rev
        BY <3>1, FS_Subset DEF MissingRevs
      <3> HIDE DEF X
      <3>3. DOMAIN f = X /\ item(b) = {f[v] : v \in DOMAIN f}
        BY DEF X
      <3>4. item(b) \in SUBSET Wanted
        BY <3>1, <3>2 DEF X, Wanted
      <3> HIDE DEF f, item
      <3> QED
        BY <3>2, <3>3, <3>4, ImageFinite
    <2>0. M = UNION {item(b) : b \in r.batch}
      OBVIOUS
    <2>2. M = UNION {items[b] : b \in DOMAIN items}
      <3>1. {items[b] : b \in DOMAIN items} = {item(b) : b \in r.batch}
        <4> HIDE DEF item
        <4> QED
          OBVIOUS
      <3> HIDE DEF item, items
      <3> QED
        BY <2>0, <3>1
    <2>3. DOMAIN items = r.batch /\ \A b \in r.batch : items[b] = item(b)
      OBVIOUS
    <2> HIDE DEF items, item
    <2>4. IsFiniteSet({items[b] : b \in DOMAIN items})
      BY <1>1, <2>3, ImageFinite DEF Carried
    <2>5. \A X \in {items[b] : b \in DOMAIN items} : IsFiniteSet(X) /\ X \in SUBSET Wanted
      BY <2>1, <2>3
    <2>6. IsFiniteSet(M)
      BY <2>2, <2>4, <2>5, FS_UNION
    <2> QED
      BY <2>2, <2>5, <2>6
  <1>7. CASE M = {}
    <2>1. left = {}
      BY <1>7
    <2> QED
      BY <1>1, <1>2, <1>5, <1>7, <2>1, SkipOk
  <1>8. CASE M # {}
    <2>1. e = [r EXCEPT !.pc = "get", !.wanted = M, !.batch = {}]
      BY <1>8
    <2>2. /\ DOMAIN e = Fields
          /\ e.pc = "get" /\ e.ids = r.ids /\ e.filter = r.filter /\ e.since = r.since
          /\ e.goal = r.goal /\ e.failed = r.failed /\ e.readOnly = r.readOnly
          /\ e.batch = {} /\ e.wanted = M /\ e.gone = r.gone /\ e.docs = r.docs
          /\ e.session = r.session /\ e.last = r.last /\ e.prior = r.prior /\ e.tcp = r.tcp
          /\ e.final = r.final /\ e.full = r.full
      BY <1>1, <2>1 DEF Fields
    <2>3. Carried(e)
      BY <1>1, <1>6, <2>2, FS_EmptySet DEF Carried
    <2>4. Base(dbs, p, x, e)
      BY <1>1, <2>2, <2>3, BaseMoves
    <2>5. Flags(e)
      BY <1>2, <2>2 DEF Flags, SavePcs
    <2>6. Due(e) = left
      BY <2>2 DEF Due
    <2> HIDE DEF left
    <2>7. e.ids = IdsIn(dbs, x) => Phase(S, T, p, e)
      BY <1>5, <2>2, <2>6 DEF Phase, BatchSound, EndsAt, SavePcs
    <2> QED
      BY <2>2, <2>4, <2>5, <2>7 DEF RunOk
  <1> QED
    BY <1>7, <1>8

\* A history starts at an ancestor.
LEMMA StartIs ==
  ASSUME NEW S, DbFine(S), NEW d \in Doc, NEW v, v \in RevsOf(Nodes(S, d))
  PROVE  v \in Rev /\ HistoryStart(Nodes(S, d), v) \in Anc[v]
  <1> DEFINE N == Nodes(S, d)
             P == {n[1] : n \in {m \in N : m[2] = v}}
             Before(p, q) == Gen[p] < Gen[q] \/ (Gen[p] = Gen[q] /\ HashRank[p] < HashRank[q])
             IsFirst(p) == \A q \in P \ {p} : Before(p, q)
  <1>1. Shaped(N)
    BY DEF DbFine, DbOk, TreesOk, TreeOk, Nodes
  <1>2. P # {} /\ v \in Rev /\ P \in SUBSET Anc[v]
    BY <1>1 DEF RevsOf, Shaped
  <1>3. P \in SUBSET Rev /\ \A q \in P : Gen[q] \in Nat /\ HashRank[q] \in Nat
    BY <1>2, RevAssumption
  <1>4. HistoryStart(N, v) = CHOOSE p \in P : IsFirst(p)
    BY DEF HistoryStart, FirstRoot, FirstOf
  <1> HIDE DEF P, N
  <1>5. PICK g \in {Gen[q] : q \in P} : \A h \in {Gen[q] : q \in P} : g <= h
    <2> DEFINE G == {Gen[q] : q \in P}
    <2>1. G \in SUBSET Nat /\ G # {}
      BY <1>2, <1>3
    <2> HIDE DEF G
    <2> QED
      BY <2>1, Least DEF G
  <1> DEFINE Q == {q \in P : Gen[q] = g}
             H == {HashRank[q] : q \in Q}
  <1>6. PICK h \in H : \A k \in H : h <= k
    <2>1. H \in SUBSET Nat /\ H # {}
      BY <1>3, <1>5
    <2> HIDE DEF H
    <2> QED
      BY <2>1, Least
  <1>7. PICK p \in P : Gen[p] = g /\ HashRank[p] = h
    BY <1>6
  <1>8. IsFirst(p)
    <2> SUFFICES ASSUME NEW q \in P, q # p
                 PROVE  Before(p, q)
      OBVIOUS
    <2>1. /\ Gen[p] \in Nat /\ Gen[q] \in Nat /\ HashRank[p] \in Nat /\ HashRank[q] \in Nat
          /\ Gen[p] <= Gen[q]
      BY <1>3, <1>5, <1>7
    <2>2. Gen[q] = Gen[p] => HashRank[p] <= HashRank[q]
      BY <1>6, <1>7
    <2>3. ~(Gen[q] = Gen[p] /\ HashRank[q] = HashRank[p])
      BY <1>3, RevAssumption
    <2> QED
      BY <2>1, <2>2, <2>3
  <1> HIDE DEF IsFirst
  <1>9. HistoryStart(N, v) \in P
    BY <1>4, <1>8
  <1> QED
    BY <1>2, <1>9 DEF N

\* bulk_get
LEMMA GetOk ==
  ASSUME NEW dbs, NEW p, NEW x, DbFine(dbs[Source[x]]),
         NEW r, RunOk(dbs, p, x, r), r.pc = "get",
         NEW F, F = {w \in r.wanted : Readable(dbs[Source[x]], w.id, w.rev)},
         NEW D, D = {[id |-> w.id, rev |-> w.rev,
                      start |-> HistoryStart(Nodes(dbs[Source[x]], w.id), w.rev)] : w \in F},
         NEW n, n = [r EXCEPT !.wanted = {}, !.gone = r.wanted \ F, !.docs = D]
  PROVE  RunOk(dbs, p, x, Fetched(n))
  <1> DEFINE S == dbs[Source[x]]
             T == dbs[Target[x]]
             G == r.wanted \ F
  <1>1. /\ Base(dbs, p, x, r) /\ Flags(r) /\ DOMAIN r = Fields /\ Carried(r)
        /\ r.ids = IdsIn(dbs, x) => Phase(S, T, p, r)
    BY Busy
  <1>2. ~r.failed /\ ~r.final
    BY <1>1 DEF Flags, SavePcs
  <1>3. r.wanted \in SUBSET Wanted /\ IsFiniteSet(r.wanted) /\ F \in SUBSET r.wanted
    BY <1>1 DEF Carried
  <1>4. ASSUME NEW w \in D
        PROVE  w.id \in Doc /\ w.rev \in Rev /\ w.start \in Anc[w.rev]
    <2>1. PICK v \in F : w = [id |-> v.id, rev |-> v.rev, start |-> HistoryStart(Nodes(S, v.id), v.rev)]
      OBVIOUS
    <2>2. /\ w.id = v.id /\ w.rev = v.rev /\ w.start = HistoryStart(Nodes(S, v.id), v.rev)
          /\ v.id \in Doc /\ v.rev \in Rev
      BY <1>3, <2>1 DEF Wanted
    <2>3. v.rev \in RevsOf(Nodes(S, v.id))
      BY <2>2 DEF DbFine, Readable
    <2> QED
      BY <2>2, <2>3, StartIs
  <1>5. IsFiniteSet(D)
    <2> DEFINE f == [w \in F |-> [id |-> w.id, rev |-> w.rev,
                                  start |-> HistoryStart(Nodes(S, w.id), w.rev)]]
    <2>1. IsFiniteSet(F)
      BY <1>3, FS_Subset
    <2>2. DOMAIN f = F /\ D = {f[w] : w \in DOMAIN f}
      OBVIOUS
    <2> HIDE DEF f
    <2> QED
      BY <2>1, <2>2, ImageFinite
  <1>6. /\ DOMAIN n = Fields
        /\ n.pc = r.pc /\ n.ids = r.ids /\ n.filter = r.filter /\ n.since = r.since
        /\ n.goal = r.goal /\ n.failed = r.failed /\ n.readOnly = r.readOnly
        /\ n.batch = r.batch /\ n.wanted = {} /\ n.gone = G /\ n.docs = D
        /\ n.session = r.session /\ n.last = r.last /\ n.prior = r.prior /\ n.tcp = r.tcp
        /\ n.final = r.final /\ n.full = r.full
    <2> DEFINE m == [r EXCEPT !.wanted = {}, !.gone = G]
    <2>1. n = [m EXCEPT !.docs = D]
      OBVIOUS
    <2> HIDE DEF G
    <2>2. /\ DOMAIN m = Fields
          /\ m.pc = r.pc /\ m.ids = r.ids /\ m.filter = r.filter /\ m.since = r.since
          /\ m.goal = r.goal /\ m.failed = r.failed /\ m.readOnly = r.readOnly
          /\ m.batch = r.batch /\ m.wanted = {} /\ m.gone = G
          /\ m.session = r.session /\ m.last = r.last /\ m.prior = r.prior /\ m.tcp = r.tcp
          /\ m.final = r.final /\ m.full = r.full
      BY <1>1 DEF Fields
    <2> HIDE DEF m
    <2> QED
      BY <2>1, <2>2 DEF Fields
  <1>7. Carried(n)
    <2>1. G \in SUBSET Wanted
      BY <1>3
    <2> HIDE DEF G
    <2> QED
      BY <1>1, <1>3, <1>4, <1>5, <1>6, <2>1, FS_EmptySet DEF Carried
  <1>8. Base(dbs, p, x, n)
    BY <1>1, <1>6, <1>7, BaseMoves
  <1> DEFINE due == {<<w.id, w.rev>> : w \in G} \union {<<w.id, w.rev>> : w \in D}
             want == {<<w.id, w.rev>> : w \in r.wanted}
  <1>9. \A u \in want : u \in due
    <2> SUFFICES ASSUME NEW w \in r.wanted
                 PROVE  <<w.id, w.rev>> \in due
      OBVIOUS
    <2>1. CASE w \in F
      <3> DEFINE v == [id |-> w.id, rev |-> w.rev, start |-> HistoryStart(Nodes(S, w.id), w.rev)]
      <3>1. v \in D /\ v.id = w.id /\ v.rev = w.rev
        BY <2>1
      <3> HIDE DEF v
      <3> QED
        BY <3>1
    <2>2. CASE w \notin F
      BY <2>2
    <2> QED
      BY <2>1, <2>2
  <1>10. Due(r) = want
    BY DEF Due
  <1> HIDE DEF due, want
  <1>11. r.ids = IdsIn(dbs, x) => BatchSound(S, T, p.denied, n, due)
    <2>1. r.ids = IdsIn(dbs, x) => BatchSound(S, T, p.denied, r, want)
      BY <1>1, <1>10 DEF Phase, BatchPcs
    <2> QED
      BY <1>6, <1>9, <2>1 DEF BatchSound, Covered, EndsAt
  <1>12. due = {<<w.id, w.rev>> : w \in n.gone} \union {<<w.id, w.rev>> : w \in n.docs}
    BY <1>6 DEF due
  <1> QED
    BY <1>2, <1>6, <1>8, <1>11, <1>12, FetchedOk

\* is_leaf
LEMMA CheckOk ==
  ASSUME NEW dbs, NEW p, NEW x, DbFine(dbs[Source[x]]),
         NEW r, RunOk(dbs, p, x, r), r.pc = "check", NEW g \in r.gone,
         NEW n, n = [r EXCEPT !.gone = @ \ {g}, !.failed = @ \/ g.rev \in ListedRevs(dbs[Source[x]], g.id)]
  PROVE  RunOk(dbs, p, x, Fetched(n))
  <1> DEFINE S == dbs[Source[x]]
             T == dbs[Target[x]]
             failed == r.failed \/ g.rev \in ListedRevs(S, g.id)
  <1>1. /\ Base(dbs, p, x, r) /\ Flags(r) /\ DOMAIN r = Fields /\ Carried(r)
        /\ r.ids = IdsIn(dbs, x) => Phase(S, T, p, r)
    BY Busy
  <1>2. ~r.final
    BY <1>1 DEF Flags, SavePcs
  <1>3. n = [r EXCEPT !.gone = r.gone \ {g}, !.failed = failed]
    BY <1>1 DEF Fields
  <1> HIDE DEF failed
  <1>6. /\ DOMAIN n = Fields
        /\ n.pc = r.pc /\ n.ids = r.ids /\ n.filter = r.filter /\ n.since = r.since
        /\ n.goal = r.goal /\ n.failed = failed /\ n.readOnly = r.readOnly
        /\ n.batch = r.batch /\ n.wanted = r.wanted /\ n.gone = r.gone \ {g} /\ n.docs = r.docs
        /\ n.session = r.session /\ n.last = r.last /\ n.prior = r.prior /\ n.tcp = r.tcp
        /\ n.final = r.final /\ n.full = r.full
    BY <1>1, <1>3 DEF Fields
  <1>7. Carried(n)
    BY <1>1, <1>6 DEF Carried
  <1>8. Base(dbs, p, x, n)
    BY <1>1, <1>6, <1>7, BaseMoves
  <1> DEFINE due == {<<w.id, w.rev>> : w \in n.gone} \union {<<w.id, w.rev>> : w \in n.docs}
             before == {<<w.id, w.rev>> : w \in r.gone} \union {<<w.id, w.rev>> : w \in r.docs}
  <1>9. \A u \in before : u \in due \/ u = <<g.id, g.rev>>
    BY <1>6
  <1>10. Due(r) = before
    BY DEF Due
  <1> HIDE DEF due, before
  <1>11. ASSUME r.ids = IdsIn(dbs, x)
         PROVE  BatchSound(S, T, p.denied, n, due)
    <2>1. BatchSound(S, T, p.denied, r, before)
      BY <1>1, <1>10, <1>11 DEF Phase, BatchPcs
    <2>2. ASSUME ~failed
          PROVE  Covered(S, T, p.denied, r.filter, r.last, due)
      <3>1. ~r.failed /\ g.rev \notin LeafRevs(Nodes(S, g.id))
        BY <2>2 DEF failed, ListedRevs
      <3>2. Covered(S, T, p.denied, r.filter, r.last, before)
        BY <2>1, <3>1 DEF BatchSound
      <3>3. ASSUME NEW d, NEW l \in LeafRevs(Nodes(S, d)), <<d, l>> \in before
            PROVE  <<d, l>> \in due
        <4>1. <<d, l>> # <<g.id, g.rev>>
          BY <3>1, <3>3
        <4> QED
          BY <1>9, <3>3, <4>1
      <3> QED
        BY <3>2, <3>3 DEF Covered
    <2> QED
      BY <1>6, <2>1, <2>2 DEF BatchSound, EndsAt
  <1> QED
    BY <1>2, <1>6, <1>8, <1>11, FetchedOk DEF due

\* bulk_docs: T is what the target has become, D what was written to it.
LEMMA WriteOk ==
  ASSUME NEW dbs, NEW next, NEW p, NEW x \in Replicator, Evolve(dbs, next, p),
         next[Source[x]] = dbs[Source[x]],
         NEW r, RunOk(dbs, p, x, r), r.pc = "write", NEW lost, lost \in SUBSET r.docs,
         \A w \in r.docs : \/ w \in lost \/ w.rev \notin r.filter.revs \/ w.id \in p.denied
                           \/ w.rev \in RevsOf(Nodes(next[Target[x]], w.id)),
         NEW n, n = [r EXCEPT !.docs = {}, !.failed = @ \/ BatchFailed(r.docs, lost)]
  PROVE  RunOk(next, p, x, Written(n))
  <1> DEFINE S == dbs[Source[x]]
             T == dbs[Target[x]]
             U == next[Target[x]]
             failed == r.failed \/ lost # {}
             due == {<<w.id, w.rev>> : w \in r.docs}
  <1>1. /\ Base(dbs, p, x, r) /\ Flags(r) /\ DOMAIN r = Fields /\ Carried(r)
        /\ Keeps(p, x) /\ Known(dbs, r.ids, x)
        /\ r.ids = IdsIn(dbs, x) => Phase(S, T, p, r)
    BY Busy
  <1>2. ~r.final
    BY <1>1 DEF Flags, SavePcs
  <1>3. n = [r EXCEPT !.docs = {}, !.failed = failed]
    BY <1>1 DEF Fields, BatchFailed
  <1> HIDE DEF failed
  <1>4. /\ DOMAIN n = Fields
        /\ n.pc = r.pc /\ n.ids = r.ids /\ n.filter = r.filter /\ n.since = r.since
        /\ n.goal = r.goal /\ n.failed = failed /\ n.readOnly = r.readOnly
        /\ n.batch = r.batch /\ n.wanted = r.wanted /\ n.gone = r.gone /\ n.docs = {}
        /\ n.session = r.session /\ n.last = r.last /\ n.prior = r.prior /\ n.tcp = r.tcp
        /\ n.final = r.final /\ n.full = r.full
    BY <1>1, <1>3 DEF Fields
  <1>5. Carried(n)
    BY <1>1, <1>4, FS_EmptySet DEF Carried
  <1>6. Base(next, p, x, n)
    <2>1. Base(next, p, x, r)
      BY <1>1, BaseKept
    <2> QED
      BY <1>4, <1>5, <2>1, BaseMoves
  <1>7. DbFine(next[Source[x]])
    BY Endpoints DEF Evolve, EvolveAt
  <1>8. Due(r) = due
    BY DEF Due
  <1>9. ASSUME r.ids = IdsIn(next, x)
        PROVE  BatchSound(S, U, p.denied, n, {})
    <2>1. r.ids = IdsIn(dbs, x) /\ Gained(T, U)
      BY <1>1, <1>9, IdsKept
    <2>2. BatchSound(S, T, p.denied, r, due)
      BY <1>1, <1>8, <2>1 DEF Phase, BatchPcs
    <2>3. ASSUME ~failed
          PROVE  Covered(S, U, p.denied, r.filter, r.last, {})
      <3>1. ~r.failed /\ lost = {}
        BY <2>3 DEF failed
      <3>2. Covered(S, T, p.denied, r.filter, r.last, due)
        BY <2>2, <3>1 DEF BatchSound
      <3>3. ASSUME NEW d \in Doc, d \in Passed(r.filter, p.denied), NEW l \in r.filter.revs,
                   <<d, l>> \in due
            PROVE  l \in RevsOf(Nodes(U, d))
        <4>1. PICK w \in r.docs : w.id = d /\ w.rev = l
          BY <3>3
        <4> QED
          BY <3>1, <3>3, <4>1 DEF Passed
      <3> HIDE DEF due
      <3> QED
        BY <2>1, <3>2, <3>3 DEF Covered, Gained
    <2> QED
      BY <1>4, <2>2, <2>3 DEF BatchSound, EndsAt
  <1> QED
    BY <1>2, <1>4, <1>6, <1>7, <1>9, WrittenOk

LEMMA NothingOk ==
  ASSUME NEW dbs, NEW p, NEW x, DbFine(dbs[Source[x]]), NEW r, RunOk(dbs, p, x, r), r.pc = "written"
  PROVE  RunOk(dbs, p, x, Written(r))
  <1>1. /\ Base(dbs, p, x, r) /\ Flags(r)
        /\ r.ids = IdsIn(dbs, x) => Phase(dbs[Source[x]], dbs[Target[x]], p, r)
    BY Busy
  <1>2. ~r.final
    BY <1>1 DEF Flags, SavePcs
  <1>3. Due(r) = {}
    BY DEF Due
  <1>4. r.ids = IdsIn(dbs, x) => BatchSound(dbs[Source[x]], dbs[Target[x]], p.denied, r, {})
    BY <1>1, <1>3 DEF Phase, BatchPcs
  <1> QED
    BY <1>1, <1>2, <1>4, WrittenOk

----------------------------------------------------------------------------
(* Saving a checkpoint *)

\* write_checkpoint: the history of what it extends.
LEMMA HistoryOk ==
  ASSUME NEW dbs, NEW p, NEW x, NEW r, RunOk(dbs, p, x, r), r.pc = "history",
         NEW h, h \in Seq(Entry),
         r.ids = IdsIn(dbs, x) =>
           GoodHistory(dbs[Source[x]], dbs[Target[x]], p.denied, r.filter, h),
         NEW e, e = [r EXCEPT !.pc = "cp_target", !.prior = h] \/ e = [r EXCEPT !.pc = "cp_target"]
  PROVE  RunOk(dbs, p, x, e)
  <1> DEFINE S == dbs[Source[x]]
             T == dbs[Target[x]]
  <1>1. /\ Base(dbs, p, x, r) /\ Flags(r) /\ DOMAIN r = Fields /\ Carried(r)
        /\ r.ids = IdsIn(dbs, x) => Core(S, T, p, x, r) /\ Phase(S, T, p, r)
    BY Busy
  <1>2. /\ DOMAIN e = Fields
        /\ e.pc = "cp_target" /\ e.ids = r.ids /\ e.filter = r.filter /\ e.since = r.since
        /\ e.goal = r.goal /\ e.failed = r.failed /\ e.readOnly = r.readOnly
        /\ e.batch = r.batch /\ e.wanted = r.wanted /\ e.gone = r.gone /\ e.docs = r.docs
        /\ e.session = r.session /\ e.last = r.last /\ (e.prior = r.prior \/ e.prior = h)
        /\ e.tcp = r.tcp /\ e.final = r.final /\ e.full = r.full
    BY ZenonT(40), <1>1 DEF Fields
  <1>3. Carried(e)
    BY <1>1, <1>2 DEF Carried
  <1>4. r.ids = IdsIn(dbs, x) => Core(S, T, p, x, e)
    BY <1>1, <1>2 DEF Core
  <1>5. Base(dbs, p, x, e)
    BY <1>1, <1>2, <1>3, <1>4 DEF Base
  <1>6. Flags(e)
    BY <1>1, <1>2 DEF Flags, SavePcs
  <1>7. e.ids = IdsIn(dbs, x) => Phase(S, T, p, e)
    BY <1>1, <1>2 DEF Phase, BatchPcs, SavePcs, EndsAt
  <1> QED
    BY <1>2, <1>5, <1>6, <1>7 DEF RunOk

\* What is stored.
LEMMA NewCheckpointOk ==
  ASSUME NEW dbs, NEW p, NEW x, DbFine(dbs[Source[x]]), NEW r, RunOk(dbs, p, x, r), r.pc # "idle",
         NEW cp, \/ cp = BuildCheckpoint(r.session, r.since, r.prior)
                 \/ cp = BuildCheckpoint(r.session, 0, <<>>)
  PROVE  /\ IsCheckpoint(cp)
         /\ r.ids = IdsIn(dbs, x) =>
              GoodCheckpoint(dbs[Source[x]], dbs[Target[x]], p.denied, r.filter, cp)
  <1> DEFINE S == dbs[Source[x]]
             T == dbs[Target[x]]
  <1>1. /\ Carried(r) /\ r.ids = IdsIn(dbs, x) => Core(S, T, p, x, r)
    BY Busy
  <1>2. /\ r.session \in Nat /\ r.since \in Nat /\ 0 \in Nat
        /\ r.prior \in Seq(Entry) /\ <<>> \in Seq(Entry)
    <2>1. Carried(r)
      BY Busy
    <2> QED
      BY <2>1 DEF Carried
  <1>3. \A s \in Nat : [last |-> s, session |-> r.session] \in Entry
    BY <1>2 DEF Entry
  <1>4. IsCheckpoint(cp)
    <2>1. Entry \in SUBSET Entry
      OBVIOUS
    <2>2. CASE cp = BuildCheckpoint(r.session, r.since, r.prior)
      <3>1. [last |-> r.since, session |-> r.session] \in Entry
        BY <1>2, <1>3
      <3> QED
        BY <1>2, <2>1, <2>2, <3>1, BuildIs
    <2>3. CASE cp = BuildCheckpoint(r.session, 0, <<>>)
      BY ZenonT(40), <1>2, <1>3, <2>1, <2>3, BuildIs
    <2> QED
      BY <2>2, <2>3
  <1>5. ASSUME r.ids = IdsIn(dbs, x)
        PROVE  GoodCheckpoint(S, T, p.denied, r.filter, cp)
    <2>1. Good(S, T, p.denied, r.filter, r.since) /\ GoodHistory(S, T, p.denied, r.filter, r.prior)
      BY <1>5, Busy DEF Core
    <2>2. Good(S, T, p.denied, r.filter, 0) /\ GoodHistory(S, T, p.denied, r.filter, <<>>)
      <3>1. GoodCheckpoint(S, T, p.denied, r.filter, NoCheckpoint)
        BY NoCheckpointGood
      <3> QED
        BY <3>1 DEF GoodCheckpoint, NoCheckpoint
    <2>3. CASE cp = BuildCheckpoint(r.session, r.since, r.prior)
      BY <1>2, <2>1, <2>3, BuildGood
    <2>4. CASE cp = BuildCheckpoint(r.session, 0, <<>>)
      BY <1>2, <2>2, <2>4, BuildGood
    <2> QED
      BY <2>3, <2>4
  <1> QED
    BY <1>4, <1>5

\* After the target's checkpoint comes the source's, if it stores any.
LEMMA CpOk ==
  ASSUME NEW dbs, NEW p, NEW x, DbFine(dbs[Source[x]]),
         NEW r, RunOk(dbs, p, x, r), r.pc \in {"cp_target", "cp_source"},
         NEW e, \/ e = Saved(r)
                \/ r.pc = "cp_target" /\ e = [r EXCEPT !.pc = "cp_source"]
                \/ Source[x] \in p.readOnly /\ e = Saved([r EXCEPT !.readOnly = TRUE])
  PROVE  RunOk(dbs, p, x, e)
  <1> DEFINE S == dbs[Source[x]]
             T == dbs[Target[x]]
  <1>1. /\ Base(dbs, p, x, r) /\ Flags(r) /\ DOMAIN r = Fields /\ Carried(r)
        /\ r.ids = IdsIn(dbs, x) => Phase(S, T, p, r)
    BY Busy
  <1>2. /\ r.failed => r.final
        /\ r.ids = IdsIn(dbs, x) /\ (~r.full \/ r.final) /\ ~r.failed => EndsAt(S, r, r.since)
    BY <1>1 DEF Flags, Phase, SavePcs
  <1>3. CASE e = Saved(r)
    BY <1>1, <1>2, <1>3, SavedOk
  <1>4. CASE r.pc = "cp_target" /\ e = [r EXCEPT !.pc = "cp_source"]
    <2>1. /\ DOMAIN e = Fields
          /\ e.pc = "cp_source" /\ e.ids = r.ids /\ e.filter = r.filter /\ e.since = r.since
          /\ e.goal = r.goal /\ e.failed = r.failed /\ e.readOnly = r.readOnly
          /\ e.batch = r.batch /\ e.wanted = r.wanted /\ e.gone = r.gone /\ e.docs = r.docs
          /\ e.session = r.session /\ e.last = r.last /\ e.prior = r.prior
          /\ e.tcp = r.tcp /\ e.final = r.final /\ e.full = r.full
      BY <1>1, <1>4 DEF Fields
    <2>2. Carried(e)
      BY <1>1, <2>1 DEF Carried
    <2>3. Base(dbs, p, x, e)
      BY <1>1, <2>1, <2>2, BaseMoves
    <2>4. Flags(e)
      BY <1>1, <1>4, <2>1 DEF Flags, SavePcs
    <2>5. e.ids = IdsIn(dbs, x) => Phase(S, T, p, e)
      BY <1>1, <1>4, <2>1 DEF Phase, BatchPcs, SavePcs, EndsAt
    <2> QED
      BY <2>1, <2>3, <2>4, <2>5 DEF RunOk
  <1>5. CASE Source[x] \in p.readOnly /\ e = Saved([r EXCEPT !.readOnly = TRUE])
    <2> DEFINE m == [r EXCEPT !.readOnly = TRUE]
    <2>1. /\ DOMAIN m = Fields
          /\ m.pc = r.pc /\ m.ids = r.ids /\ m.filter = r.filter /\ m.since = r.since
          /\ m.goal = r.goal /\ m.failed = r.failed /\ m.readOnly = TRUE
          /\ m.batch = r.batch /\ m.wanted = r.wanted /\ m.gone = r.gone /\ m.docs = r.docs
          /\ m.session = r.session /\ m.last = r.last /\ m.prior = r.prior
          /\ m.tcp = r.tcp /\ m.final = r.final /\ m.full = r.full
      BY <1>1 DEF Fields
    <2> HIDE DEF m
    <2>2. Carried(m)
      BY <1>1, <2>1 DEF Carried
    <2>3. Base(dbs, p, x, m)
      BY <1>1, <1>5, <2>1, <2>2 DEF Base, Core
    <2>4. RunOk(dbs, p, x, Saved(m))
      BY <1>2, <2>1, <2>3, SavedOk DEF EndsAt
    <2> QED
      BY <1>5, <2>4 DEF m
  <1> QED
    BY <1>3, <1>4, <1>5

----------------------------------------------------------------------------
(* The steps of the system *)

LEMMA SoundAt ==
  ASSUME NEW dbs, NEW locs, NEW runs, NEW last, NEW backups, NEW p,
         Sound(dbs, locs, runs, last, backups, p), NEW x \in Replicator
  PROVE  /\ Source[x] \in Node /\ Target[x] \in Node /\ Source[x] # Target[x]
         /\ DbFine(dbs[Source[x]]) /\ DbFine(dbs[Target[x]])
         /\ StoredOk(dbs, p, Source[x], locs[Source[x]])
         /\ StoredOk(dbs, p, Target[x], locs[Target[x]])
         /\ RunOk(dbs, p, x, runs[x])
  BY Endpoints DEF Sound

\* A replicator moves.
LEMMA RunMoves ==
  ASSUME NEW dbs, NEW locs, NEW runs, NEW last, NEW backups, NEW p,
         Sound(dbs, locs, runs, last, backups, p), NEW x \in Replicator,
         NEW e, RunOk(dbs, p, x, e), NEW more \in Nat,
         NEW after, after = [runs EXCEPT ![x] = e]
  PROVE  Sound(dbs, locs, after, more, backups, p)
  <1>1. DOMAIN after = Replicator /\ \A y \in Replicator : RunOk(dbs, p, y, after[y])
    BY DEF Sound
  <1> QED
    BY <1>1 DEF Sound

\* A checkpoint is stored.
LEMMA LocalMoves ==
  ASSUME NEW dbs, NEW locs, NEW runs, NEW last, NEW backups, NEW p,
         Sound(dbs, locs, runs, last, backups, p), NEW n \in Node,
         NEW L, StoredOk(dbs, p, n, L), NEW after, after = [locs EXCEPT ![n] = L]
  PROVE  Sound(dbs, after, runs, last, backups, p)
  <1>1. DOMAIN after = Node /\ \A m \in Node : StoredOk(dbs, p, m, after[m])
    BY DEF Sound
  <1> QED
    BY <1>1 DEF Sound

\* Databases move on.
LEMMA WorldMoves ==
  ASSUME NEW dbs, NEW locs, NEW runs, NEW last, NEW backups, NEW p,
         Sound(dbs, locs, runs, last, backups, p), NEW next, Evolve(dbs, next, p)
  PROVE  Sound(next, locs, runs, last, backups, p)
  <1>1. DOMAIN next = Node /\ \A n \in Node : DbFine(next[n])
    BY DEF Evolve, EvolveAt
  <1>2. \A n \in Node : StoredOk(next, p, n, locs[n])
    BY StoredKept DEF Sound
  <1>3. \A x \in Replicator : RunOk(next, p, x, runs[x])
    BY RunKept DEF Sound
  <1>4. \A n \in Node : BackupOk(next, p, n, backups[n])
    BY BackedUp DEF Sound
  <1> QED
    BY <1>1, <1>2, <1>3, <1>4 DEF Sound

\* One of them does.
LEMMA EvolveOne ==
  ASSUME NEW dbs, DOMAIN dbs = Node, \A n \in Node : DbFine(dbs[n]), NEW p, NEW n \in Node,
         NEW c, DbFine(c),
         \/ c.uuid > dbs[n].uuid
         \/ Moved(dbs[n], c) /\ (n \in p.purged \/ Gained(dbs[n], c)),
         NEW next, next = [dbs EXCEPT ![n] = c]
  PROVE  Evolve(dbs, next, p)
  <1>1. ASSUME NEW m \in Node
        PROVE  EvolveAt(dbs, next, p, m)
    <2>1. CASE m = n
      BY <2>1 DEF EvolveAt
    <2>2. CASE m # n
      <3>1. next[m] = dbs[m]
        BY <2>2
      <3> QED
        BY <3>1, MovedSelf DEF EvolveAt
    <2> QED
      BY <2>1, <2>2
  <1> QED
    BY <1>1 DEF Evolve

----------------------------------------------------------------------------
(* The steps of a replicator *)

LEMMA StartStep ==
  ASSUME ReplInv, NEW x \in Replicator, NEW f, Keeps(policy, x), Start(x, f)
  PROVE  ReplInv'
  <1> DEFINE r == [Idle EXCEPT !.ids = Ids(x), !.filter = f, !.session = sessions + 1,
                               !.goal = db[Source[x]].updateSeq]
  <1>1. DbFine(db[Source[x]]) /\ DbFine(db[Target[x]]) /\ sessions + 1 \in Nat
    <2>1. sessions \in Nat
      BY DEF ReplInv, Sound
    <2> QED
      BY <2>1, SoundAt DEF ReplInv
  <1>2. /\ DOMAIN r = Fields
        /\ r.ids = IdsIn(db, x) /\ r.filter = f /\ r.session = sessions + 1
        /\ r.goal = db[Source[x]].updateSeq /\ r.readOnly = FALSE /\ r.since = 0 /\ r.last = 0
        /\ r.batch = {} /\ r.wanted = {} /\ r.gone = {} /\ r.docs = {} /\ r.prior = <<>>
        /\ r.tcp = NoCheckpoint /\ r.failed = FALSE /\ r.final = FALSE
    <2> DEFINE m == [Idle EXCEPT !.ids = Ids(x), !.filter = f]
    <2>1. r = [m EXCEPT !.session = sessions + 1, !.goal = db[Source[x]].updateSeq]
      OBVIOUS
    <2>2. /\ DOMAIN m = Fields /\ m.ids = IdsIn(db, x) /\ m.filter = f /\ m.readOnly = FALSE
          /\ m.since = 0 /\ m.last = 0
          /\ m.batch = {} /\ m.wanted = {} /\ m.gone = {} /\ m.docs = {} /\ m.prior = <<>>
          /\ m.tcp = NoCheckpoint /\ m.failed = FALSE /\ m.final = FALSE
      BY IdleIs DEF Fields, Ids, Id, IdsIn
    <2> HIDE DEF m
    <2> QED
      BY <2>1, <2>2 DEF Fields
  <1>3. run' = [run EXCEPT ![x] = Begin(r)] /\ sessions' = sessions + 1
        /\ UNCHANGED <<db, local, backup, policy>>
    BY DEF Start
  <1> HIDE DEF r
  <1>4. Known(db, r.ids, x)
    BY <1>1, <1>2, KnownNow
  <1>5. r.goal \in Nat /\ r.goal <= db[Source[x]].updateSeq
    BY <1>1, <1>2, SeqFields
  <1>6. Base(db, policy, x, r)
    BY <1>1, <1>2, <1>4, <1>5, FreshBase
  <1>7. Begin(r) = [r EXCEPT !.pc = "read_target"] \/ Begin(r) = From(r, 0)
    BY DEF Begin
  <1>8. RunOk(db, policy, x, Begin(r))
    BY <1>1, <1>2, <1>6, <1>7, BeginOk
  <1> QED
    BY <1>1, <1>3, <1>8, RunMoves DEF ReplInv

\* Steps that only read.
LEMMA ReadStep ==
  ASSUME ReplInv, NEW x \in Replicator, NEW e, RunOk(db, policy, x, e), run' = [run EXCEPT ![x] = e],
         UNCHANGED <<db, local, sessions, backup, policy>>
  PROVE  ReplInv'
  <1>1. sessions \in Nat
    BY DEF ReplInv, Sound
  <1> QED
    BY <1>1, RunMoves DEF ReplInv

\* Steps that store a checkpoint.
LEMMA SaveStep ==
  ASSUME ReplInv, NEW x \in Replicator, NEW e, RunOk(db, policy, x, e), run' = [run EXCEPT ![x] = e],
         NEW n \in Node, NEW L, StoredOk(db, policy, n, L), local' = [local EXCEPT ![n] = L],
         UNCHANGED <<db, sessions, backup, policy>>
  PROVE  ReplInv'
  <1>1. sessions \in Nat
    BY DEF ReplInv, Sound
  <1>2. Sound(db, local, run', sessions, backup, policy)
    BY <1>1, RunMoves DEF ReplInv
  <1>3. Sound(db, local', run', sessions, backup, policy)
    BY <1>2, LocalMoves
  <1> QED
    BY <1>3 DEF ReplInv

LEMMA ReadTargetStep ==
  ASSUME ReplInv, NEW x \in Replicator, ReadTarget(x)
  PROVE  ReplInv'
  <1> DEFINE r == run[x]
             L == local[Target[x]]
             cp == ReadFrom(Target[x], Key(x))
             e == IF cp = NoCheckpoint THEN From(r, 0) ELSE [r EXCEPT !.pc = "read_source", !.tcp = cp]
  <1>1. /\ DbFine(db[Source[x]]) /\ RunOk(db, policy, x, r) /\ r.pc = "read_target"
        /\ StoredOk(db, policy, Target[x], L)
    BY SoundAt DEF ReplInv, ReadTarget, At
  <1>2. Known(db, r.ids, x)
    BY <1>1, Busy
  <1>3. cp = IF <<r.ids, r.filter>> \in DOMAIN L THEN L[<<r.ids, r.filter>>] ELSE NoCheckpoint
    BY DEF ReadFrom, Key, ReplicationId, Fingerprint
  <1>4. run' = [run EXCEPT ![x] = e] /\ UNCHANGED <<db, local, sessions, backup, policy>>
    BY DEF ReadTarget, Reads
  <1> HIDE DEF cp, L, r
  <1>5. /\ IsCheckpoint(cp)
        /\ r.ids = IdsIn(db, x) /\ Source[x] \notin policy.restorable =>
             GoodCheckpoint(db[Source[x]], db[Target[x]], policy.denied, r.filter, cp)
    BY <1>1, <1>2, <1>3, ReadGood
  <1>6. e = From(r, 0) \/ e = [r EXCEPT !.pc = "read_source", !.tcp = cp]
    OBVIOUS
  <1> HIDE DEF e
  <1>7. RunOk(db, policy, x, e)
    BY <1>1, <1>5, <1>6, TargetReadOk
  <1> QED
    BY <1>4, <1>7, ReadStep

LEMMA ReadSourceStep ==
  ASSUME ReplInv, NEW x \in Replicator, ReadSource(x)
  PROVE  ReplInv'
  <1> DEFINE r == run[x]
             L == local[Source[x]]
             cp == ReadFrom(Source[x], Key(x))
             e == IF cp = NoCheckpoint THEN [r EXCEPT !.pc = "probe"]
                                       ELSE From(r, CompareCheckpoints(cp, r.tcp))
  <1>1. /\ DbFine(db[Source[x]]) /\ RunOk(db, policy, x, r) /\ r.pc = "read_source"
        /\ StoredOk(db, policy, Source[x], L)
    BY SoundAt DEF ReplInv, ReadSource, At
  <1>2. Known(db, r.ids, x)
    BY <1>1, Busy
  <1>3. cp = IF <<r.ids, r.filter>> \in DOMAIN L THEN L[<<r.ids, r.filter>>] ELSE NoCheckpoint
    BY DEF ReadFrom, Key, ReplicationId, Fingerprint
  <1>4. run' = [run EXCEPT ![x] = e] /\ UNCHANGED <<db, local, sessions, backup, policy>>
    BY DEF ReadSource, Reads
  <1> HIDE DEF cp, L, r
  <1>5. /\ IsCheckpoint(cp)
        /\ r.ids = IdsIn(db, x) =>
             GoodCheckpoint(db[Source[x]], db[Target[x]], policy.denied, r.filter, cp)
    BY <1>1, <1>2, <1>3, ReadGood
  <1>6. e = [r EXCEPT !.pc = "probe"] \/ e = From(r, CompareCheckpoints(cp, r.tcp))
    OBVIOUS
  <1> HIDE DEF e
  <1>7. RunOk(db, policy, x, e)
    BY <1>1, <1>5, <1>6, SourceReadOk
  <1> QED
    BY <1>4, <1>7, ReadStep

LEMMA ProbeStep ==
  ASSUME ReplInv, NEW x \in Replicator, Probe(x) \/ ProbeLost(x)
  PROVE  ReplInv'
  <1> DEFINE r == run[x]
             L == local[Source[x]]
             cp == BuildCheckpoint(r.session, 0, <<>>)
             k == <<r.ids, r.filter>>
             M == Put(L, k, cp)
             denied == Source[x] \in policy.readOnly
  <1>1. /\ DbFine(db[Source[x]]) /\ RunOk(db, policy, x, r) /\ r.pc = "probe"
        /\ StoredOk(db, policy, Source[x], L) /\ Source[x] \in Node
    BY SoundAt DEF ReplInv, Probe, ProbeLost, At
  <1>2. Known(db, r.ids, x) /\ Keeps(policy, x)
    BY <1>1, Busy
  <1>3. \/ /\ run' = [run EXCEPT ![x] = From(r, 0)]
           /\ UNCHANGED <<db, local, sessions, backup, policy>>
        \/ /\ denied /\ run' = [run EXCEPT ![x] = [From(r, r.tcp.last) EXCEPT !.readOnly = TRUE]]
           /\ UNCHANGED <<db, local, sessions, backup, policy>>
        \/ /\ run' = [run EXCEPT ![x] = From(r, 0)]
           /\ local' = [local EXCEPT ![Source[x]] = M]
           /\ UNCHANGED <<db, sessions, backup, policy>>
    <2>1. CASE ProbeLost(x)
      BY <2>1 DEF ProbeLost, ReplInv, Sound
    <2>2. CASE Probe(x) /\ denied
      BY <2>2 DEF Probe, Reads
    <2>3. CASE Probe(x) /\ ~denied
      BY <2>3 DEF Probe, PutLocal, Put, Key, ReplicationId, Fingerprint
    <2> QED
      BY <2>1, <2>2, <2>3
  <1> HIDE DEF r, L, cp
  <1>4. RunOk(db, policy, x, From(r, 0))
    BY <1>1, ProbedOk
  <1>5. denied => RunOk(db, policy, x, [From(r, r.tcp.last) EXCEPT !.readOnly = TRUE])
    BY <1>1, ProbedOk
  <1>6. StoredOk(db, policy, Source[x], M)
    <2>1. /\ IsCheckpoint(cp)
          /\ r.ids = IdsIn(db, x) =>
               GoodCheckpoint(db[Source[x]], db[Target[x]], policy.denied, r.filter, cp)
      BY <1>1, NewCheckpointOk DEF cp
    <2> QED
      BY <1>1, <1>2, <2>1, PutOk
  <1> HIDE DEF M, denied
  <1> QED
    BY <1>1, <1>3, <1>4, <1>5, <1>6, ReadStep, SaveStep

LEMMA FetchStep ==
  ASSUME ReplInv, NEW x \in Replicator, FetchChanges(x)
  PROVE  ReplInv'
  <1> DEFINE r == run[x]
             S == db[Source[x]]
             e == AfterChanges(S, r, ChangesAfter(Offered(S, r.filter), r.since, BatchSize))
  <1>1. DbFine(S) /\ RunOk(db, policy, x, r) /\ r.pc = "changes"
    BY SoundAt DEF ReplInv, FetchChanges, At
  <1>2. run' = [run EXCEPT ![x] = e] /\ UNCHANGED <<db, local, sessions, backup, policy>>
    BY DEF FetchChanges, Reads
  <1>3. RunOk(db, policy, x, e)
    BY <1>1, FetchOk
  <1> HIDE DEF e
  <1> QED
    BY <1>2, <1>3, ReadStep

LEMMA DiffStep ==
  ASSUME ReplInv, NEW x \in Replicator, Diff(x)
  PROVE  ReplInv'
  <1> DEFINE r == run[x]
             M == UNION {{[id |-> b.id, rev |-> v] :
                            v \in MissingRevs(Nodes(db[Target[x]], b.id), b.revs)} : b \in r.batch}
             e == IF M = {} THEN Skip(r) ELSE [r EXCEPT !.pc = "get", !.wanted = M, !.batch = {}]
  <1>1. DbFine(db[Source[x]]) /\ RunOk(db, policy, x, r) /\ r.pc = "diff"
    BY SoundAt DEF ReplInv, Diff, At
  <1>2. run' = [run EXCEPT ![x] = e] /\ UNCHANGED <<db, local, sessions, backup, policy>>
    BY DEF Diff, Reads
  <1>3. RunOk(db, policy, x, e)
    BY <1>1, DiffOk
  <1> HIDE DEF e
  <1> QED
    BY <1>2, <1>3, ReadStep

LEMMA GetStep ==
  ASSUME ReplInv, NEW x \in Replicator, Get(x)
  PROVE  ReplInv'
  <1> DEFINE r == run[x]
             S == db[Source[x]]
             F == {w \in r.wanted : Readable(S, w.id, w.rev)}
             D == {[id |-> w.id, rev |-> w.rev,
                    start |-> HistoryStart(Nodes(S, w.id), w.rev)] : w \in F}
             n == [r EXCEPT !.wanted = {}, !.gone = r.wanted \ F, !.docs = D]
             e == Fetched(n)
  <1>1. DbFine(S) /\ RunOk(db, policy, x, r) /\ r.pc = "get"
    BY SoundAt DEF ReplInv, Get, At
  <1>2. run' = [run EXCEPT ![x] = e] /\ UNCHANGED <<db, local, sessions, backup, policy>>
    BY DEF Get, Reads
  <1>3. RunOk(db, policy, x, e)
    BY <1>1, GetOk
  <1> HIDE DEF e
  <1> QED
    BY <1>2, <1>3, ReadStep

LEMMA CheckStep ==
  ASSUME ReplInv, NEW x \in Replicator, Check(x)
  PROVE  ReplInv'
  <1>1. DbFine(db[Source[x]]) /\ RunOk(db, policy, x, run[x]) /\ run[x].pc = "check"
    BY SoundAt DEF ReplInv, Check, At
  <1>2. PICK g \in run[x].gone :
          Reads(x, Fetched([run[x] EXCEPT
            !.gone = @ \ {g}, !.failed = @ \/ g.rev \in ListedRevs(db[Source[x]], g.id)]))
    BY DEF Check
  <1> DEFINE n == [run[x] EXCEPT
                     !.gone = @ \ {g}, !.failed = @ \/ g.rev \in ListedRevs(db[Source[x]], g.id)]
             e == Fetched(n)
  <1>3. RunOk(db, policy, x, e)
    BY <1>1, CheckOk
  <1>4. run' = [run EXCEPT ![x] = e] /\ UNCHANGED <<db, local, sessions, backup, policy>>
    BY <1>2 DEF Reads
  <1> HIDE DEF e
  <1> QED
    BY <1>3, <1>4, ReadStep

\* The target gets the documents that were not lost.
LEMMA WriteStep ==
  ASSUME ReplInv, NEW x \in Replicator, NEW lost, lost \in SUBSET run[x].docs, WriteDocs(x, lost)
  PROVE  ReplInv' /\ Evolve(db, db', policy)
  <1> DEFINE r == run[x]
             D == {d \in r.docs \ lost : d.rev \in r.filter.revs /\ d.id \notin policy.denied}
             T == db[Target[x]]
             n == [r EXCEPT !.docs = {}, !.failed = @ \/ BatchFailed(r.docs, lost)]
             e == Written(n)
  <1>1. /\ DbFine(db[Source[x]]) /\ DbFine(T) /\ RunOk(db, policy, x, r) /\ r.pc = "write"
        /\ Source[x] \in Node /\ Target[x] \in Node /\ Source[x] # Target[x]
        /\ DOMAIN db = Node /\ (\A m \in Node : DbFine(db[m])) /\ sessions \in Nat
    BY SoundAt DEF ReplInv, Sound, WriteDocs, At
  <1>2. PICK order \in SetToSeqs(D) : db' = [db EXCEPT ![Target[x]] = StoreAll(@, order)]
    BY DEF WriteDocs
  <1>3. run' = [run EXCEPT ![x] = e] /\ UNCHANGED <<local, sessions, backup, policy>>
    BY DEF WriteDocs
  <1>4. IsFiniteSet(D) /\ \A w \in D : IsWrite(w)
    <2>1. IsFiniteSet(r.docs) /\ \A w \in r.docs : IsWrite(w)
      BY <1>1, Busy DEF Carried, IsWrite
    <2> HIDE DEF r
    <2> QED
      BY <2>1, FS_Subset
  <1> DEFINE U == StoreAll(T, order)
  <1>5. /\ Moved(T, U) /\ Gained(T, U)
        /\ \A w \in D : w.rev \in RevsOf(Nodes(U, w.id))
    <2> HIDE DEF D, T, r
    <2>1. /\ Len(order) \in Nat /\ \A i \in 1 .. Len(order) : order[i] \in D
          /\ \A w \in D : \E i \in 1 .. Len(order) : order[i] = w
      BY <1>4, OrderIs
    <2>2. Stores(T, U, order, Len(order))
      BY <1>1, <1>4, <2>1, StoreAllIs
    <2> HIDE DEF U
    <2> QED
      BY <2>1, <2>2 DEF Stores
  <1>6. db' = [db EXCEPT ![Target[x]] = U]
    BY <1>2
  <1> HIDE DEF U
  <1>7. db'[Source[x]] = db[Source[x]] /\ db'[Target[x]] = U
    BY <1>1, <1>6
  <1>8. Evolve(db, db', policy)
    BY <1>1, <1>5, <1>6, EvolveOne DEF Moved
  <1>9. \A w \in r.docs : \/ w \in lost \/ w.rev \notin r.filter.revs \/ w.id \in policy.denied
                          \/ w.rev \in RevsOf(Nodes(db'[Target[x]], w.id))
    BY <1>5, <1>7
  <1> HIDE DEF D, T
  <1>10. RunOk(db', policy, x, e)
    BY <1>1, <1>7, <1>8, <1>9, WriteOk
  <1> HIDE DEF e
  <1>11. Sound(db', local, run, sessions, backup, policy)
    BY <1>8, WorldMoves DEF ReplInv
  <1>12. Sound(db', local, run', sessions, backup, policy)
    BY <1>1, <1>3, <1>10, <1>11, RunMoves
  <1> QED
    BY <1>3, <1>8, <1>12 DEF ReplInv

LEMMA NothingStep ==
  ASSUME ReplInv, NEW x \in Replicator, NothingWritten(x)
  PROVE  ReplInv'
  <1>1. DbFine(db[Source[x]]) /\ RunOk(db, policy, x, run[x]) /\ run[x].pc = "written"
    BY SoundAt DEF ReplInv, NothingWritten, At
  <1>2. /\ run' = [run EXCEPT ![x] = Written(run[x])]
        /\ UNCHANGED <<db, local, sessions, backup, policy>>
    BY DEF NothingWritten, Reads
  <1> QED
    BY <1>1, <1>2, NothingOk, ReadStep

LEMMA HistoryStep ==
  ASSUME ReplInv, NEW x \in Replicator, ReadHistory(x) \/ HistoryUnread(x)
  PROVE  ReplInv'
  <1> DEFINE r == run[x]
             side == IF r.readOnly THEN Target[x] ELSE Source[x]
             L == local[side]
             cp == ReadFrom(side, Key(x))
             h == cp.history
  <1>1. /\ DbFine(db[Source[x]]) /\ RunOk(db, policy, x, r) /\ r.pc = "history"
        /\ StoredOk(db, policy, side, L)
    BY SoundAt DEF ReplInv, ReadHistory, HistoryUnread, At
  <1>2. /\ Known(db, r.ids, x) /\ Keeps(policy, x)
        /\ r.readOnly => Source[x] \in policy.readOnly
    BY <1>1, Busy
  <1>3. cp = IF <<r.ids, r.filter>> \in DOMAIN L THEN L[<<r.ids, r.filter>>] ELSE NoCheckpoint
    BY DEF ReadFrom, Key, ReplicationId, Fingerprint
  <1>4. side = Source[x] \/ Source[x] \notin policy.restorable
    BY <1>2 DEF Keeps
  <1>5. /\ \/ run' = [run EXCEPT ![x] = [r EXCEPT !.pc = "cp_target", !.prior = h]]
           \/ run' = [run EXCEPT ![x] = [r EXCEPT !.pc = "cp_target"]]
        /\ UNCHANGED <<db, local, sessions, backup, policy>>
    BY DEF ReadHistory, HistoryUnread, Reads, ReplInv, Sound
  <1> HIDE DEF cp, L, r, side
  <1>6. /\ IsCheckpoint(cp)
        /\ r.ids = IdsIn(db, x) =>
             GoodCheckpoint(db[Source[x]], db[Target[x]], policy.denied, r.filter, cp)
    BY <1>1, <1>2, <1>3, <1>4, ReadGood
  <1>7. /\ h \in Seq(Entry)
        /\ r.ids = IdsIn(db, x) =>
             GoodHistory(db[Source[x]], db[Target[x]], policy.denied, r.filter, h)
    BY <1>6 DEF IsCheckpoint, GoodCheckpoint
  <1> HIDE DEF h
  <1>8. /\ RunOk(db, policy, x, [r EXCEPT !.pc = "cp_target", !.prior = h])
        /\ RunOk(db, policy, x, [r EXCEPT !.pc = "cp_target"])
    BY <1>1, <1>7, HistoryOk
  <1> QED
    BY <1>5, <1>8, ReadStep

LEMMA CheckpointStep ==
  ASSUME ReplInv, NEW x \in Replicator, CheckpointTarget(x) \/ CheckpointSource(x)
  PROVE  ReplInv'
  <1> DEFINE r == run[x]
             cp == BuildCheckpoint(r.session, r.since, r.prior)
             k == <<r.ids, r.filter>>
             M(n) == Put(local[n], k, cp)
             refused == Source[x] \in policy.readOnly
  <1>1. /\ DbFine(db[Source[x]]) /\ RunOk(db, policy, x, r) /\ r.pc \in {"cp_target", "cp_source"}
        /\ StoredOk(db, policy, Source[x], local[Source[x]]) /\ Source[x] \in Node
        /\ StoredOk(db, policy, Target[x], local[Target[x]]) /\ Target[x] \in Node
    BY SoundAt DEF ReplInv, CheckpointTarget, CheckpointSource, At
  <1>2. Known(db, r.ids, x) /\ Keeps(policy, x)
    BY <1>1, Busy
  <1>3. /\ IsCheckpoint(cp)
        /\ r.ids = IdsIn(db, x) =>
             GoodCheckpoint(db[Source[x]], db[Target[x]], policy.denied, r.filter, cp)
    BY <1>1, NewCheckpointOk
  <1>4. StoredOk(db, policy, Source[x], M(Source[x])) /\ StoredOk(db, policy, Target[x], M(Target[x]))
    <2> HIDE DEF r, cp
    <2> QED
      BY <1>1, <1>2, <1>3, PutOk
  <1>5. CASE CheckpointTarget(x)
    <2> DEFINE e == IF r.readOnly THEN Saved(r) ELSE [r EXCEPT !.pc = "cp_source"]
    <2>1. r.pc = "cp_target"
      BY <1>5 DEF CheckpointTarget, At
    <2>2. /\ run' = [run EXCEPT ![x] = e] /\ local' = [local EXCEPT ![Target[x]] = M(Target[x])]
          /\ UNCHANGED <<db, sessions, backup, policy>>
      BY <1>5 DEF CheckpointTarget, PutLocal, Put, Key, ReplicationId, Fingerprint, NewCheckpoint, ReplInv, Sound
    <2>3. e = Saved(r) \/ e = [r EXCEPT !.pc = "cp_source"]
      OBVIOUS
    <2> HIDE DEF e, M
    <2>4. RunOk(db, policy, x, e)
      BY <1>1, <2>1, <2>3, CpOk
    <2> QED
      BY <1>1, <1>4, <2>2, <2>4, SaveStep
  <1>6. CASE CheckpointSource(x) /\ refused
    <2> DEFINE e == Saved([r EXCEPT !.readOnly = TRUE])
    <2>1. run' = [run EXCEPT ![x] = e] /\ UNCHANGED <<db, local, sessions, backup, policy>>
      BY <1>6 DEF CheckpointSource, ReplInv, Sound
    <2>2. RunOk(db, policy, x, e)
      BY <1>1, <1>6, CpOk
    <2> HIDE DEF e
    <2> QED
      BY <2>1, <2>2, ReadStep
  <1>7. CASE CheckpointSource(x) /\ ~refused
    <2>1. /\ run' = [run EXCEPT ![x] = Saved(r)]
          /\ local' = [local EXCEPT ![Source[x]] = M(Source[x])]
          /\ UNCHANGED <<db, sessions, backup, policy>>
      BY <1>7 DEF CheckpointSource, PutLocal, Put, Key, ReplicationId, Fingerprint, NewCheckpoint, ReplInv, Sound
    <2>2. RunOk(db, policy, x, Saved(r))
      BY <1>1, CpOk
    <2> HIDE DEF M
    <2> QED
      BY <1>1, <1>4, <2>1, <2>2, SaveStep
  <1> QED
    BY <1>5, <1>6, <1>7

LEMMA StopStep ==
  ASSUME ReplInv, NEW x \in Replicator, Stop(x)
  PROVE  ReplInv'
  <1>1. RunOk(db, policy, x, Idle)
    <2>1. FALSE => Source[x] \in policy.readOnly
      OBVIOUS
    <2> QED
      BY <2>1, IdleOk
  <1> QED
    BY <1>1, ReadStep DEF Stop

LEMMA SameWorld ==
  ASSUME ReplInv, db' = db
  PROVE  Evolve(db, db', policy)
  <1>1. DOMAIN db = Node /\ \A n \in Node : DbFine(db[n])
    BY DEF ReplInv, Sound
  <1> QED
    BY <1>1, MovedSelf DEF Evolve, EvolveAt

\* A call of a replicator.
LEMMA ReplStep ==
  ASSUME ReplInv, NEW x \in Replicator, Step(x)
  PROVE  ReplInv' /\ Evolve(db, db', policy)
  <1>1. CASE \E lost \in SUBSET run[x].docs : WriteDocs(x, lost)
    BY <1>1, WriteStep
  <1>2. CASE ReadTarget(x) \/ ReadSource(x) \/ Probe(x) \/ ProbeLost(x)
    <2>1. db' = db
      BY <1>2 DEF ReadTarget, ReadSource, Probe, ProbeLost, Reads
    <2> QED
      BY <1>2, <2>1, SameWorld, ReadTargetStep, ReadSourceStep, ProbeStep
  <1>3. CASE FetchChanges(x) \/ Diff(x) \/ Get(x) \/ Check(x)
    <2>1. db' = db
      BY <1>3 DEF FetchChanges, Diff, Get, Check, Reads
    <2> QED
      BY <1>3, <2>1, SameWorld, FetchStep, DiffStep, GetStep, CheckStep
  <1>4. CASE NothingWritten(x) \/ ReadHistory(x) \/ HistoryUnread(x)
               \/ CheckpointTarget(x) \/ CheckpointSource(x)
    <2>1. db' = db
      BY <1>4 DEF NothingWritten, ReadHistory, HistoryUnread, CheckpointTarget, CheckpointSource, Reads
    <2> QED
      BY <1>4, <2>1, SameWorld, NothingStep, HistoryStep, CheckpointStep
  <1> QED
    BY <1>1, <1>2, <1>3, <1>4 DEF Step

----------------------------------------------------------------------------
(* The steps of the applications *)

\* A database moves on.
LEMMA WorldStep ==
  ASSUME ReplInv, NEW n \in Node, NEW c, DbFine(c),
         \/ c.uuid > db[n].uuid
         \/ Moved(db[n], c) /\ (n \in policy.purged \/ Gained(db[n], c)),
         db' = [db EXCEPT ![n] = c], UNCHANGED <<run, sessions, backup, policy>>
  PROVE  Sound(db', local, run', sessions', backup', policy') /\ Evolve(db, db', policy)
  <1>1. DOMAIN db = Node /\ \A m \in Node : DbFine(db[m])
    BY DEF ReplInv, Sound
  <1>2. Evolve(db, db', policy)
    BY <1>1, EvolveOne
  <1> QED
    BY <1>2, WorldMoves DEF ReplInv

LEMMA EditStep ==
  ASSUME ReplInv, NEW n \in Node, NEW d \in Doc, NEW r \in Rev,
         Edit(n, d, r) \/ PurgeNode(n, d, r) \/ CompactNode(n)
  PROVE  ReplInv' /\ Evolve(db, db', policy)
  <1>1. DbFine(db[n])
    BY DEF ReplInv, Sound
  <1>2. CASE Edit(n, d, r)
    <2> DEFINE c == NewEdit(db[n], d, r, {}, 0)
    <2>1. Moved(db[n], c) /\ Gained(db[n], c)
      BY <1>1, EditMoves
    <2>2. db' = [db EXCEPT ![n] = c] /\ UNCHANGED <<local, run, sessions, backup, policy>>
      BY <1>2 DEF Edit, Becomes
    <2> HIDE DEF c
    <2> QED
      BY <2>1, <2>2, WorldStep DEF ReplInv, Moved
  <1>3. CASE CompactNode(n)
    <2> DEFINE c == Compact(db[n])
    <2>1. Moved(db[n], c) /\ Gained(db[n], c)
      BY <1>1, CompactMoves
    <2>2. db' = [db EXCEPT ![n] = c] /\ UNCHANGED <<local, run, sessions, backup, policy>>
      BY <1>3 DEF CompactNode, Becomes
    <2> HIDE DEF c
    <2> QED
      BY <2>1, <2>2, WorldStep DEF ReplInv, Moved
  <1>4. CASE PurgeNode(n, d, r)
    <2> DEFINE c == PurgeEnd(db[n], PurgeDoc(db[n], d, {r}))
    <2>1. Moved(db[n], c)
      BY <1>1, PurgeMoves
    <2>2. /\ db' = [db EXCEPT ![n] = c] /\ UNCHANGED <<local, run, sessions, backup, policy>>
          /\ n \in policy.purged
      BY <1>4 DEF PurgeNode, Becomes
    <2> HIDE DEF c
    <2> QED
      BY <2>1, <2>2, WorldStep DEF ReplInv, Moved
  <1> QED
    BY <1>2, <1>3, <1>4

LEMMA DestroyStep ==
  ASSUME ReplInv, NEW n \in Node, DestroyNode(n)
  PROVE  ReplInv' /\ Evolve(db, db', policy)
  <1> DEFINE u == db[n].uuid + 1
             none == [i \in {} |-> NoCheckpoint]
  <1>1. u \in Nat /\ u > db[n].uuid
    <2>1. db[n].uuid \in Nat
      BY SeqFields DEF ReplInv, Sound
    <2> QED
      BY <2>1
  <1>2. /\ db' = [db EXCEPT ![n] = EmptyDb(u)] /\ local' = [local EXCEPT ![n] = none]
        /\ UNCHANGED <<run, sessions, backup, policy>>
    BY DEF DestroyNode, Destroy
  <1> HIDE DEF u
  <1>3. DbFine(EmptyDb(u)) /\ EmptyDb(u).uuid > db[n].uuid
    BY <1>1, EmptyFine
  <1>4. Sound(db', local, run', sessions', backup', policy') /\ Evolve(db, db', policy)
    BY <1>2, <1>3, WorldStep
  <1>5. StoredOk(db', policy', n, none)
    BY DEF StoredOk
  <1> HIDE DEF none
  <1>6. Sound(db', local', run', sessions', backup', policy')
    BY <1>2, <1>4, <1>5, LocalMoves
  <1> QED
    BY <1>4, <1>6 DEF ReplInv

LEMMA BackupStep ==
  ASSUME ReplInv, NEW n \in Node, TakeBackup(n)
  PROVE  ReplInv'
  <1> DEFINE b == [db |-> db[n], local |-> local[n]]
  <1>1. /\ backup' = [backup EXCEPT ![n] = b]
        /\ UNCHANGED <<db, local, run, sessions, policy>>
    BY DEF TakeBackup
  <1>2. DbFine(db[n]) /\ StoredOk(db, policy, n, local[n]) /\ DOMAIN db = Node /\ DOMAIN backup = Node
    BY DEF ReplInv, Sound
  <1>3. b.db = db[n] /\ b.local = local[n]
    OBVIOUS
  <1> HIDE DEF b
  <1>4. BackupOk(db, policy, n, b)
    <2> DEFINE there == [db EXCEPT ![n] = b.db]
    <2>1. \A m \in Node : DbFine(db[m])
      BY DEF ReplInv, Sound
    <2>2. Moved(db[n], db[n]) /\ Gained(db[n], db[n])
      BY <1>2, MovedSelf
    <2>3. Evolve(db, there, policy)
      BY <1>2, <1>3, <2>1, <2>2, EvolveOne
    <2> HIDE DEF there
    <2>4. StoredOk(there, policy, n, local[n])
      BY <1>2, <2>3, StoredKept
    <2> QED
      BY <1>2, <1>3, <2>4 DEF BackupOk, there
  <1>5. \A m \in Node : BackupOk(db, policy, m, backup'[m])
    BY <1>1, <1>2, <1>4 DEF ReplInv, Sound
  <1>6. DOMAIN backup' = Node
    BY <1>1, <1>2
  <1> QED
    BY <1>1, <1>5, <1>6 DEF ReplInv, Sound

\* A restore of n leaves the other databases' checkpoints as good as they were.
LEMMA RestoredElsewhere ==
  ASSUME NEW dbs, DOMAIN dbs = Node, NEW p, NEW n \in Node, n \in p.restorable,
         NEW c, c.uuid = dbs[n].uuid, NEW m, m # n, NEW L, StoredOk(dbs, p, m, L)
  PROVE  StoredOk([dbs EXCEPT ![n] = c], p, m, L)
  <1> DEFINE next == [dbs EXCEPT ![n] = c]
  <1>1. \A i \in Node : next[i].uuid = dbs[i].uuid /\ (i # n => next[i] = dbs[i])
    OBVIOUS
  <1> SUFFICES ASSUME NEW k \in DOMAIN L
               PROVE  /\ IsCheckpoint(L[k])
                      /\ \E x \in Replicator : KeptAt(next, p, x, m, k[1], k[2], L[k])
    BY DEF StoredOk
  <1> HIDE DEF next
  <1>2. PICK x \in Replicator : KeptAt(dbs, p, x, m, k[1], k[2], L[k])
    BY DEF StoredOk
  <1>3. Source[x] \in Node /\ Target[x] \in Node /\ Target[x] # n /\ Keeps(p, x)
    BY <1>2, Endpoints DEF KeptAt, Keeps
  <1>4. Known(next, k[1], x)
    BY <1>1, <1>2, <1>3 DEF KeptAt, Known
  <1>5. IdsIn(next, x) = IdsIn(dbs, x)
    BY <1>1, <1>3 DEF IdsIn
  <1>6. ASSUME m = Source[x] \/ Source[x] \notin p.restorable
        PROVE  next[Source[x]] = dbs[Source[x]] /\ next[Target[x]] = dbs[Target[x]]
    BY <1>1, <1>3, <1>6
  <1>7. KeptAt(next, p, x, m, k[1], k[2], L[k])
    BY <1>2, <1>3, <1>4, <1>5, <1>6 DEF KeptAt
  <1> QED
    BY <1>7 DEF StoredOk

LEMMA RestoreStep ==
  ASSUME ReplInv, NEW n \in Node, Restore(n)
  PROVE  ReplInv'
  <1> DEFINE b == backup[n]
             next == [db EXCEPT ![n] = b.db]
  <1>1. /\ DOMAIN db = Node /\ \A m \in Node : DbFine(db[m])
        /\ DOMAIN local = Node /\ \A m \in Node : StoredOk(db, policy, m, local[m])
        /\ DOMAIN backup = Node /\ \A m \in Node : BackupOk(db, policy, m, backup[m])
        /\ policy \in Situations /\ sessions \in Nat
    BY DEF ReplInv, Sound
  <1>2. /\ n \in policy.restorable /\ db[n].uuid = 0
        /\ db' = next /\ local' = [local EXCEPT ![n] = b.local]
        /\ run' = [x \in Replicator |-> Idle]
        /\ UNCHANGED <<sessions, backup, policy>>
    BY DEF Restore, NeverDestroyed
  <1>3. /\ DbFine(b.db) /\ b.db.uuid = 0 /\ StoredOk(next, policy, n, b.local)
    BY <1>1, <1>2 DEF BackupOk
  <1> HIDE DEF b
  <1>4. DOMAIN next = Node /\ \A m \in Node : DbFine(next[m])
    BY <1>1, <1>3
  <1>5. \A m \in Node : StoredOk(next, policy, m, local'[m])
    <2> SUFFICES ASSUME NEW m \in Node
                 PROVE  StoredOk(next, policy, m, local'[m])
      OBVIOUS
    <2>1. CASE m = n
      <3>1. local'[m] = b.local
        BY <1>1, <1>2, <2>1
      <3> HIDE DEF next
      <3> QED
        BY <1>3, <2>1, <3>1
    <2>2. CASE m # n
      <3>1. local'[m] = local[m] /\ StoredOk(db, policy, m, local[m])
        BY <1>1, <1>2, <2>2
      <3>2. StoredOk([db EXCEPT ![n] = b.db], policy, m, local[m])
        BY <1>1, <1>2, <1>3, <2>2, <3>1, RestoredElsewhere
      <3> QED
        BY <3>1, <3>2
    <2> QED
      BY <2>1, <2>2
  <1>6. \A x \in Replicator : RunOk(next, policy, x, Idle)
    <2>1. \A x \in Replicator : FALSE => Source[x] \in policy.readOnly
      OBVIOUS
    <2> HIDE DEF next
    <2> QED
      BY <2>1, IdleOk
  <1>7. \A m \in Node : BackupOk(next, policy, m, backup[m])
    <2> SUFFICES ASSUME NEW m \in Node, m \in policy.restorable, next[m].uuid = 0
                 PROVE  /\ DbFine(backup[m].db) /\ backup[m].db.uuid = 0
                        /\ StoredOk([next EXCEPT ![m] = backup[m].db], policy, m, backup[m].local)
      BY DEF BackupOk
    <2>1. CASE m = n
      <3>1. [next EXCEPT ![m] = backup[m].db] = next
        BY <1>1, <2>1 DEF b
      <3> HIDE DEF next
      <3> QED
        BY <1>3, <2>1, <3>1 DEF b
    <2>2. CASE m # n
      <3>1. db[m].uuid = 0
        BY <1>1, <2>2
      <3> DEFINE c == backup[m].db
                 there == [db EXCEPT ![m] = c]
      <3>2. DbFine(c) /\ c.uuid = 0 /\ StoredOk(there, policy, m, backup[m].local)
        BY <1>1, <3>1 DEF BackupOk
      <3>3. /\ DOMAIN there = Node /\ there[n] = db[n]
            /\ [next EXCEPT ![m] = c] = [there EXCEPT ![n] = b.db]
        BY <1>1, <2>2
      <3> HIDE DEF next, there, c
      <3>4. StoredOk([there EXCEPT ![n] = b.db], policy, m, backup[m].local)
        BY <1>2, <1>3, <2>2, <3>2, <3>3, RestoredElsewhere
      <3>5. StoredOk([next EXCEPT ![m] = c], policy, m, backup[m].local)
        BY <3>3, <3>4
      <3> QED
        BY <3>2, <3>5 DEF c
    <2> QED
      BY <2>1, <2>2
  <1>8. DOMAIN local' = Node /\ DOMAIN run' = Replicator
    BY <1>1, <1>2
  <1> HIDE DEF next
  <1> QED
    BY <1>1, <1>2, <1>4, <1>5, <1>6, <1>7, <1>8 DEF ReplInv, Sound

\* A step of the applications, which only a restore takes back.
LEMMA ApplicationStep ==
  ASSUME ReplInv, Applications
  PROVE  ReplInv' /\ (policy.restorable = {} => Evolve(db, db', policy) /\ run' = run)
  <1>1. ASSUME NEW n \in Node, CompactNode(n)
        PROVE  ReplInv' /\ Evolve(db, db', policy) /\ run' = run
    <2>1. PICK e \in policy.edits : e[1] = n
      BY <1>1 DEF CompactNode
    <2>2. e[2] \in Doc /\ e[3] \in Rev
      BY <2>1, ReplicationAssumption DEF ReplInv, Sound
    <2> QED
      BY <1>1, <2>2, EditStep DEF CompactNode, Becomes
  <1>2. ASSUME NEW n \in Node, NEW d \in Doc, NEW r \in Rev, Edit(n, d, r) \/ PurgeNode(n, d, r)
        PROVE  ReplInv' /\ Evolve(db, db', policy) /\ run' = run
    <2>1. run' = run
      BY <1>2 DEF Edit, PurgeNode, Becomes
    <2> QED
      BY <1>2, <2>1, EditStep
  <1>3. ASSUME NEW n \in Node, DestroyNode(n)
        PROVE  ReplInv' /\ Evolve(db, db', policy) /\ run' = run
    <2>1. run' = run
      BY <1>3 DEF DestroyNode
    <2> QED
      BY <1>3, <2>1, DestroyStep
  <1>4. ASSUME NEW n \in Node, TakeBackup(n)
        PROVE  ReplInv' /\ Evolve(db, db', policy) /\ run' = run
    <2>1. run' = run /\ db' = db
      BY <1>4 DEF TakeBackup
    <2> QED
      BY <1>4, <2>1, BackupStep, SameWorld
  <1>5. ASSUME NEW n \in Node, Restore(n)
        PROVE  ReplInv' /\ policy.restorable # {}
    <2>1. n \in policy.restorable
      BY <1>5 DEF Restore
    <2> QED
      BY <1>5, <2>1, RestoreStep
  <1> QED
    BY <1>1, <1>2, <1>3, <1>4, <1>5 DEF Applications

----------------------------------------------------------------------------
(* The invariant holds *)

LEMMA InitialRuns ==
  ASSUME Init
  PROVE  ReplInv
  <1> DEFINE none == [i \in {} |-> NoCheckpoint]
  <1>1. \A n \in Node : db[n] = EmptyDb(0) /\ local[n] = none
    BY DEF Init
  <1>2. DbFine(EmptyDb(0)) /\ EmptyDb(0).uuid = 0
    BY EmptyFine
  <1>3. \A dbs, p, n : StoredOk(dbs, p, n, none)
    BY DEF StoredOk
  <1>4. \A x \in Replicator : RunOk(db, policy, x, Idle)
    <2>1. \A x \in Replicator : FALSE => Source[x] \in policy.readOnly
      OBVIOUS
    <2> QED
      BY <2>1, IdleOk
  <1>5. /\ DOMAIN db = Node /\ DOMAIN local = Node /\ DOMAIN backup = Node
        /\ run = [x \in Replicator |-> Idle] /\ policy \in Situations /\ sessions = 0
        /\ \A n \in Node : backup[n] = [db |-> db[n], local |-> local[n]]
    BY DEF Init
  <1> HIDE DEF none
  <1>6. \A n \in Node : BackupOk(db, policy, n, backup[n])
    BY <1>1, <1>2, <1>3, <1>5 DEF BackupOk
  <1>7. \A n \in Node : DbFine(db[n]) /\ StoredOk(db, policy, n, local[n])
    BY <1>1, <1>2, <1>3
  <1> QED
    BY <1>4, <1>5, <1>6, <1>7 DEF ReplInv, Sound

\* Every run keeps what the invariant is about.
AllKeep == \A p \in Situations : \A x \in p.runs : Keeps(p, x)

LEMMA NextKeeps ==
  ASSUME AllKeep, ReplInv, [Next]_vars
  PROVE  ReplInv'
  <1>1. ASSUME NEW x \in Replicator, NEW f \in policy.filters, Start(x, f)
        PROVE  ReplInv'
    <2>1. Keeps(policy, x)
      BY <1>1 DEF AllKeep, Start, ReplInv, Sound
    <2> QED
      BY <1>1, <2>1, StartStep
  <1>2. CASE UNCHANGED vars
    BY <1>2 DEF vars, ReplInv
  <1> QED
    BY <1>1, <1>2, ReplStep, StopStep, ApplicationStep DEF Next

LEMMA ReplInvHolds ==
  ASSUME AllKeep
  PROVE  Spec => []ReplInv
  <1>1. Init => ReplInv
    BY InitialRuns
  <1>2. ReplInv /\ [Next]_vars => ReplInv'
    BY NextKeeps
  <1> QED
    BY <1>1, <1>2, PTL DEF Spec

----------------------------------------------------------------------------
(* What it says of the checkpoints and the runs *)

LEMMA GoodCopied ==
  ASSUME NEW x, DbFine(db[Source[x]]), NEW f, NEW s, Good(db[Source[x]], db[Target[x]], policy.denied, f, s)
  PROVE  CopiedUpTo(x, f, s)
  <1> DEFINE S == db[Source[x]]
             T == db[Target[x]]
  <1> SUFFICES ASSUME NEW c \in S.changes, c.seq <= s, c.id \in f.ids \ policy.denied
               PROVE  LeafRevs(Nodes(S, c.id)) \intersect f.revs \subseteq RevsOf(Nodes(T, c.id))
    BY DEF CopiedUpTo
  <1>1. c.id \in Doc /\ Exists(S, c.id) /\ c.seq = S.docs[c.id].seq
    BY FeedEntries
  <1> QED
    BY <1>1 DEF Good, Covered, Passed

\* A checkpoint is there only for databases that keep what it tells.
LEMMA ReadKeeps ==
  ASSUME NEW dbs, NEW p, NEW x, NEW ids, Known(dbs, ids, x), NEW n, NEW L, StoredOk(dbs, p, n, L),
         NEW f, <<ids, f>> \in DOMAIN L
  PROVE  Keeps(p, x)
  <1> DEFINE k == <<ids, f>>
  <1>1. k[1] = ids
    OBVIOUS
  <1> HIDE DEF k
  <1>2. PICK y \in Replicator : KeptAt(dbs, p, y, n, k[1], k[2], L[k])
    BY DEF StoredOk, k
  <1>3. Source[x] = Source[y] /\ Target[x] = Target[y] /\ Keeps(p, y)
    BY <1>1, <1>2, SamePeers DEF KeptAt
  <1> QED
    BY <1>3 DEF Keeps

LEMMA ResumeGood ==
  ASSUME ReplInv, NEW x \in Replicator, NEW f
  PROVE  Good(db[Source[x]], db[Target[x]], policy.denied, f, ResumePoint(x, f))
  <1> DEFINE S == db[Source[x]]
             T == db[Target[x]]
             k == <<IdsIn(db, x), f>>
             scp == ReadFrom(Source[x], k)
             tcp == ReadFrom(Target[x], k)
  <1>1. /\ DbFine(S) /\ DbFine(T)
        /\ StoredOk(db, policy, Source[x], local[Source[x]])
        /\ StoredOk(db, policy, Target[x], local[Target[x]])
    BY SoundAt DEF ReplInv
  <1>2. Known(db, IdsIn(db, x), x)
    BY <1>1, KnownNow
  <1>3. ReplicationId(Ids(x), f) = k
    BY DEF ReplicationId, Fingerprint, Ids, Id, IdsIn
  <1>4. /\ scp = IF k \in DOMAIN local[Source[x]] THEN local[Source[x]][k] ELSE NoCheckpoint
        /\ tcp = IF k \in DOMAIN local[Target[x]] THEN local[Target[x]][k] ELSE NoCheckpoint
    BY DEF ReadFrom
  <1>5. \/ ResumePoint(x, f) = 0
        \/ ResumePoint(x, f) = tcp.last /\ Source[x] \in policy.readOnly /\ tcp # NoCheckpoint
        \/ ResumePoint(x, f) = CompareCheckpoints(scp, tcp)
    BY <1>3 DEF ResumePoint
  <1> HIDE DEF scp, tcp
  <1>6. IsCheckpoint(scp) /\ GoodCheckpoint(S, T, policy.denied, f, scp)
    BY <1>1, <1>2, <1>4, ReadGood
  <1>7. /\ IsCheckpoint(tcp)
        /\ Source[x] \notin policy.restorable => GoodCheckpoint(S, T, policy.denied, f, tcp)
    BY <1>1, <1>2, <1>4, ReadGood
  <1>8. tcp # NoCheckpoint => Keeps(policy, x)
    <2>1. tcp # NoCheckpoint => k \in DOMAIN local[Target[x]]
      BY <1>4
    <2> QED
      BY <1>1, <1>2, <2>1, ReadKeeps
  <1>9. CASE ResumePoint(x, f) = 0
    BY <1>1, <1>9, GoodZero
  <1>10. CASE ResumePoint(x, f) = tcp.last /\ Source[x] \in policy.readOnly /\ tcp # NoCheckpoint
    BY <1>7, <1>8, <1>10 DEF Keeps, GoodCheckpoint
  <1>11. CASE ResumePoint(x, f) = CompareCheckpoints(scp, tcp)
    BY <1>1, <1>6, <1>7, <1>11, CompareGood
  <1> QED
    BY <1>5, <1>9, <1>10, <1>11

\* The two checkpoints never let a run skip a change (checkpoint.rs,
\* compare_checkpoints): of all a run with any filter would pass over, the target
\* has every leaf, whatever the batch size, the length of the histories, and the
\* number of databases and replicators; for runs whose target nothing is purged
\* or restored from a backup, and whose source stores its checkpoints if it is.
THEOREM NoChangeSkipped ==
  ASSUME AllKeep
  PROVE  Spec => []CheckpointSound
  <1>1. ASSUME ReplInv
        PROVE  CheckpointSound
    <2> SUFFICES ASSUME NEW x \in Replicator, NEW f \in policy.filters
                 PROVE  CopiedUpTo(x, f, ResumePoint(x, f))
      BY DEF CheckpointSound
    <2>1. DbFine(db[Source[x]])
      BY <1>1, SoundAt DEF ReplInv
    <2> QED
      BY <1>1, <2>1, ResumeGood, GoodCopied
  <1> QED
    BY <1>1, ReplInvHolds, PTL

LEMMA CursorIsSound ==
  ASSUME ReplInv
  PROVE  CursorSound
  <1> SUFFICES ASSUME NEW x \in Replicator, Active(x), run[x].ids = Ids(x)
               PROVE  CopiedUpTo(x, run[x].filter, run[x].since)
    BY DEF CursorSound
  <1>1. DbFine(db[Source[x]]) /\ RunOk(db, policy, x, run[x])
    BY SoundAt DEF ReplInv
  <1>2. run[x].pc # "idle" /\ run[x].ids = IdsIn(db, x)
    BY DEF Active, Ids, Id, IdsIn
  <1>3. Good(db[Source[x]], db[Target[x]], policy.denied, run[x].filter, run[x].since)
    BY <1>1, <1>2, Busy DEF Core
  <1> QED
    BY <1>1, <1>3, GoodCopied

\* A run never gets ahead of what its target has (protocol.rs, the loop of
\* run_replication).
THEOREM CursorBehindTarget ==
  ASSUME AllKeep
  PROVE  Spec => []CursorSound
  BY CursorIsSound, ReplInvHolds, PTL

LEMMA CompleteRunCopies ==
  ASSUME ReplInv
  PROVE  CompleteRunCopiesAll
  <1> SUFFICES ASSUME NEW x \in Replicator, At(x, "done"), ~run[x].failed, run[x].ids = Ids(x)
               PROVE  CopiedUpTo(x, run[x].filter, run[x].goal)
    BY DEF CompleteRunCopiesAll
  <1> DEFINE S == db[Source[x]]
             T == db[Target[x]]
             r == run[x]
  <1>1. DbFine(S) /\ RunOk(db, policy, x, r)
    BY SoundAt DEF ReplInv
  <1>2. r.pc = "done" /\ r.ids = IdsIn(db, x)
    BY DEF At, Ids, Id, IdsIn
  <1>3. Core(S, T, policy, x, r) /\ Phase(S, T, policy, r)
    BY <1>1, <1>2, Busy
  <1>4. Good(S, T, policy.denied, r.filter, r.since) /\ EndsAt(S, r, r.since)
    BY <1>2, <1>3 DEF Core, Phase
  <1>5. Good(S, T, policy.denied, r.filter, r.goal)
    BY <1>3, <1>4 DEF Core, Good, Covered, EndsAt, Passed
  <1> QED
    BY <1>1, <1>5, GoodCopied

\* A run that ends without a failure has copied what the source had when it
\* started.
THEOREM CompleteRunsCopy ==
  ASSUME AllKeep
  PROVE  Spec => []CompleteRunCopiesAll
  BY CompleteRunCopies, ReplInvHolds, PTL

----------------------------------------------------------------------------
(* A run keeps its databases and its filter *)

SameRun(e, r) == DOMAIN e = Fields /\ e.ids = r.ids /\ e.filter = r.filter

LEMMA FromSame ==
  ASSUME NEW r, DOMAIN r = Fields, NEW seq, NEW b
  PROVE  SameRun(From(r, seq), r) /\ SameRun([From(r, seq) EXCEPT !.readOnly = b], r)
  <1> DEFINE a == From(r, seq)
  <1>1. SameRun(a, r)
    BY DEF From, SameRun, Fields
  <1> HIDE DEF a
  <1>2. SameRun([a EXCEPT !.readOnly = b], r)
    BY <1>1 DEF SameRun, Fields
  <1> QED
    BY <1>1, <1>2 DEF a

LEMMA FinishSame ==
  ASSUME NEW r, DOMAIN r = Fields
  PROVE  SameRun(Ended(r), r) /\ SameRun(Finish(r), r)
  <1>1. SameRun(Ended(r), r)
    BY EndedIs DEF SameRun
  <1>2. SameRun([r EXCEPT !.pc = "history", !.final = TRUE], r)
    BY DEF SameRun, Fields
  <1> QED
    BY <1>1, <1>2 DEF Finish

LEMMA SkipSame ==
  ASSUME NEW r, DOMAIN r = Fields
  PROVE  SameRun(Skip(r), r)
  <1> DEFINE n == [r EXCEPT !.since = r.last, !.batch = {}]
  <1>1. SameRun(n, r)
    BY DEF SameRun, Fields
  <1>2. Skip(r) = IF r.full THEN [n EXCEPT !.pc = "changes"] ELSE Finish(n)
    BY DEF Skip
  <1> HIDE DEF n
  <1>3. SameRun([n EXCEPT !.pc = "changes"], r)
    BY <1>1 DEF SameRun, Fields
  <1>4. SameRun(Finish(n), r)
    BY <1>1, FinishSame DEF SameRun
  <1> QED
    BY <1>2, <1>3, <1>4

LEMMA WrittenSame ==
  ASSUME NEW r, DOMAIN r = Fields
  PROVE  SameRun(Written(r), r)
  <1>1. SameRun([r EXCEPT !.pc = "history", !.since = r.last], r)
    BY DEF SameRun, Fields
  <1> QED
    BY <1>1, FinishSame, SkipSame DEF Written

LEMMA FetchedSame ==
  ASSUME NEW r, DOMAIN r = Fields
  PROVE  SameRun(Fetched(r), r)
  BY DEF Fetched, SameRun, Fields

LEMMA SavedSame ==
  ASSUME NEW r, DOMAIN r = Fields
  PROVE  SameRun(Saved(r), r)
  <1> DEFINE n == [r EXCEPT !.saved = r.since, !.prior = <<>>]
  <1>1. SameRun(n, r)
    BY DEF SameRun, Fields
  <1>2. Saved(r) = IF r.full /\ ~r.final THEN [n EXCEPT !.pc = "changes"] ELSE Ended(n)
    BY DEF Saved
  <1> HIDE DEF n
  <1>3. SameRun([n EXCEPT !.pc = "changes"], r)
    BY <1>1 DEF SameRun, Fields
  <1>4. SameRun(Ended(n), r)
    BY <1>1, FinishSame DEF SameRun
  <1> QED
    BY <1>2, <1>3, <1>4

LEMMA ListedSame ==
  ASSUME NEW S, NEW r, DOMAIN r = Fields, NEW results
  PROVE  SameRun(AfterChanges(S, r, results), r)
  <1> DEFINE a == [r EXCEPT !.since = Scanned(S, @)]
             n == Listed(S, r, results)
  <1>1. SameRun(a, r)
    BY DEF SameRun, Fields
  <1>2. SameRun(n, r)
    <2> SUFFICES ASSUME NEW B, NEW end, NEW full, NEW e,
                        e = [r EXCEPT !.pc = "diff", !.batch = B, !.last = end, !.full = full]
                 PROVE  SameRun(e, r)
      BY DEF Listed
    <2> DEFINE m == [r EXCEPT !.pc = "diff", !.batch = B]
    <2>1. SameRun(m, r)
      BY DEF SameRun, Fields
    <2>2. e = [m EXCEPT !.last = end, !.full = full]
      OBVIOUS
    <2> HIDE DEF m
    <2> QED
      BY <2>1, <2>2 DEF SameRun, Fields
  <1>3. AfterChanges(S, r, results) = IF results = {} THEN Finish(a)
                                      ELSE IF n.batch = {} THEN Skip(n) ELSE n
    BY DEF AfterChanges
  <1> HIDE DEF a, n
  <1>4. SameRun(Finish(a), r)
    BY <1>1, FinishSame DEF SameRun
  <1>5. SameRun(Skip(n), r)
    BY <1>2, SkipSame DEF SameRun
  <1> QED
    BY <1>2, <1>3, <1>4, <1>5

LEMMA StepSame ==
  ASSUME NEW x \in Replicator, DOMAIN run[x] = Fields, Step(x)
  PROVE  \E e : run' = [run EXCEPT ![x] = e] /\ SameRun(e, run[x])
  <1> DEFINE r == run[x]
             Goal == \E e : run' = [run EXCEPT ![x] = e] /\ SameRun(e, r)
  <1>1. CASE ReadTarget(x)
    <2> DEFINE cp == ReadFrom(Target[x], Key(x))
    <2>1. SameRun([r EXCEPT !.pc = "read_source", !.tcp = cp], r)
      BY DEF SameRun, Fields
    <2> QED
      BY <1>1, <2>1, FromSame DEF ReadTarget, Reads
  <1>2. CASE ReadSource(x)
    <2>1. SameRun([r EXCEPT !.pc = "probe"], r)
      BY DEF SameRun, Fields
    <2> QED
      BY <1>2, <2>1, FromSame DEF ReadSource, Reads
  <1>3. CASE Probe(x)
    BY <1>3, FromSame DEF Probe, Reads
  <1>4. CASE ProbeLost(x)
    <2>1. run' = [run EXCEPT ![x] = From(@, 0)]
      BY <1>4 DEF ProbeLost
    <2>2. [run EXCEPT ![x] = From(@, 0)] = [run EXCEPT ![x] = From(r, 0)]
      OBVIOUS
    <2> QED
      BY <2>1, <2>2, FromSame
  <1>5. CASE FetchChanges(x)
    BY <1>5, ListedSame DEF FetchChanges, Reads
  <1>6. CASE Diff(x)
    <2> DEFINE M == UNION {{[id |-> b.id, rev |-> v] :
                              v \in MissingRevs(Nodes(db[Target[x]], b.id), b.revs)} : b \in r.batch}
    <2>1. SameRun([r EXCEPT !.pc = "get", !.wanted = M, !.batch = {}], r)
      <3> HIDE DEF M
      <3> DEFINE m == [r EXCEPT !.pc = "get", !.wanted = M]
      <3>1. SameRun(m, r)
        BY DEF SameRun, Fields
      <3>2. [r EXCEPT !.pc = "get", !.wanted = M, !.batch = {}] = [m EXCEPT !.batch = {}]
        OBVIOUS
      <3> HIDE DEF m
      <3> QED
        BY <3>1, <3>2 DEF SameRun, Fields
    <2>2. run' = [run EXCEPT ![x] = IF M = {} THEN Skip(r)
                                    ELSE [r EXCEPT !.pc = "get", !.wanted = M, !.batch = {}]]
      BY <1>6 DEF Diff, Reads
    <2> HIDE DEF M
    <2> QED
      BY <2>1, <2>2, SkipSame
  <1>7. CASE Get(x)
    <2> SUFFICES ASSUME NEW W, NEW G, NEW D,
                        run' = [run EXCEPT ![x] = Fetched([r EXCEPT !.wanted = W, !.gone = G, !.docs = D])]
                 PROVE  Goal
      BY <1>7 DEF Get, Reads
    <2> DEFINE m == [r EXCEPT !.wanted = W, !.gone = G]
               n == [r EXCEPT !.wanted = W, !.gone = G, !.docs = D]
    <2>1. SameRun(m, r)
      BY DEF SameRun, Fields
    <2>2. n = [m EXCEPT !.docs = D]
      OBVIOUS
    <2> HIDE DEF m
    <2>3. SameRun(n, r)
      BY <2>1, <2>2 DEF SameRun, Fields
    <2> HIDE DEF n
    <2>4. SameRun(Fetched(n), r)
      BY <2>3, FetchedSame DEF SameRun
    <2> QED
      BY <2>4 DEF n
  <1>8. CASE Check(x)
    <2>1. PICK g \in r.gone :
            Reads(x, Fetched([r EXCEPT
              !.gone = @ \ {g}, !.failed = @ \/ g.rev \in ListedRevs(db[Source[x]], g.id)]))
      BY <1>8 DEF Check
    <2> DEFINE n == [r EXCEPT
                       !.gone = @ \ {g}, !.failed = @ \/ g.rev \in ListedRevs(db[Source[x]], g.id)]
    <2>2. SameRun(n, r)
      BY DEF SameRun, Fields
    <2>3. run' = [run EXCEPT ![x] = Fetched(n)]
      BY <2>1 DEF Reads
    <2> HIDE DEF n
    <2>4. SameRun(Fetched(n), r)
      BY <2>2, FetchedSame DEF SameRun
    <2> QED
      BY <2>3, <2>4
  <1>9. ASSUME NEW lost, lost \in SUBSET r.docs, WriteDocs(x, lost)
        PROVE  Goal
    <2> DEFINE n == [r EXCEPT !.docs = {}, !.failed = @ \/ BatchFailed(r.docs, lost)]
    <2>1. SameRun(n, r)
      BY DEF SameRun, Fields
    <2>2. run' = [run EXCEPT ![x] = Written(n)]
      BY <1>9 DEF WriteDocs
    <2> HIDE DEF n
    <2>3. SameRun(Written(n), r)
      BY <2>1, WrittenSame DEF SameRun
    <2> QED
      BY <2>2, <2>3
  <1>10. CASE NothingWritten(x)
    BY <1>10, WrittenSame DEF NothingWritten, Reads
  <1>11. CASE ReadHistory(x)
    <2> SUFFICES ASSUME NEW h, run' = [run EXCEPT ![x] = [r EXCEPT !.pc = "cp_target", !.prior = h]]
                 PROVE  Goal
      BY <1>11 DEF ReadHistory, Reads
    <2>1. SameRun([r EXCEPT !.pc = "cp_target", !.prior = h], r)
      BY DEF SameRun, Fields
    <2> QED
      BY <2>1
  <1>12. CASE HistoryUnread(x)
    <2>1. SameRun([r EXCEPT !.pc = "cp_target"], r)
      BY DEF SameRun, Fields
    <2>2. run' = [run EXCEPT ![x] = [r EXCEPT !.pc = "cp_target"]]
      BY <1>12 DEF HistoryUnread
    <2> QED
      BY <2>1, <2>2
  <1>13. CASE CheckpointTarget(x)
    <2>1. SameRun([r EXCEPT !.pc = "cp_source"], r)
      BY DEF SameRun, Fields
    <2>2. run' = [run EXCEPT ![x] = IF r.readOnly THEN Saved(r) ELSE [r EXCEPT !.pc = "cp_source"]]
      BY <1>13 DEF CheckpointTarget
    <2> QED
      BY <2>1, <2>2, SavedSame
  <1>14. CASE CheckpointSource(x)
    <2> DEFINE n == [r EXCEPT !.readOnly = TRUE]
    <2>1. SameRun(n, r)
      BY DEF SameRun, Fields
    <2>2. run' = [run EXCEPT ![x] = Saved(n)] \/ run' = [run EXCEPT ![x] = Saved(r)]
      BY <1>14 DEF CheckpointSource
    <2> HIDE DEF n
    <2>3. SameRun(Saved(n), r)
      BY <2>1, SavedSame DEF SameRun
    <2> QED
      BY <2>2, <2>3, SavedSame
  <1> QED
    BY <1>1, <1>2, <1>3, <1>4, <1>5, <1>6, <1>7, <1>8, <1>9, <1>10, <1>11, <1>12, <1>13, <1>14 DEF Step

----------------------------------------------------------------------------
(* Histories known from their first revision on                            *)

\* The database knows the whole history of every revision.
Whole(b) == \A d \in Doc : \A n \in Nodes(b, d) : Gen[n[1]] = 1

LEMMA ShapedDocs ==
  ASSUME NEW b, DbFine(b), NEW d \in Doc
  PROVE  Shaped(Nodes(b, d)) /\ b.docs[d].tree.nodes = Nodes(b, d)
  BY DEF DbFine, DbOk, TreesOk, TreeOk, Nodes

\* A revision is in one tree only then, ...
LEMMA FirstOnce ==
  ASSUME NEW r \in Rev, NEW p \in Anc[r], NEW q \in Anc[r], Gen[p] = 1, Gen[q] = 1
  PROVE  p = q
  BY RevAssumption

\* ... so that one with children is never a leaf again.
LEMMA StaysBuried ==
  ASSUME NEW b, DbFine(b), Whole(b), NEW c, DbFine(c), Whole(c), Gained(b, c),
         NEW d \in Doc, NEW r, r \in RevsOf(Nodes(b, d)), r \in LeafRevs(Nodes(c, d))
  PROVE  r \in LeafRevs(Nodes(b, d))
  <1> DEFINE N == Nodes(b, d)
             M == Nodes(c, d)
  <1>1. Shaped(N) /\ Shaped(M) /\ RevsOf(N) \subseteq RevsOf(M)
    BY ShapedDocs DEF Gained
  <1>2. (\A n \in N : Gen[n[1]] = 1) /\ (\A n \in M : Gen[n[1]] = 1)
    BY DEF Whole
  <1> HIDE DEF N, M
  <1>3. PICK n \in N : n[2] = r
    BY DEF RevsOf, N
  <1>4. PICK l \in LeafNodes(M) : l[2] = r
    BY DEF LeafRevs, RevsOf, M
  <1>5. l \in M /\ \A m \in M : m[1] = l[1] /\ r \in Anc[m[2]] => m = l
    BY <1>4 DEF LeafNodes
  <1>6. n \in LeafNodes(N)
    <2> SUFFICES ASSUME NEW m \in N, m[1] = n[1], n[2] \in Anc[m[2]]
                 PROVE  m = n
      BY <1>3 DEF LeafNodes
    <2>1. PICK k \in M : k[2] = m[2]
      BY <1>1 DEF RevsOf
    <2>2. /\ k[1] \in Anc[k[2]] /\ k[2] \in Rev /\ l[1] \in Anc[r] /\ r \in Rev
          /\ m[1] \in Anc[m[2]]
      BY <1>1, <1>4, <1>5, <2>1 DEF Shaped
    <2>3. l[1] \in Anc[m[2]]
      BY <1>3, <2>1, <2>2, AncTrans
    <2>4. k[1] = l[1]
      BY <1>2, <1>5, <2>1, <2>2, <2>3, FirstOnce
    <2>5. k = l
      BY <1>3, <1>5, <2>1, <2>4
    <2>6. m[2] = n[2]
      BY <1>3, <1>4, <2>1, <2>5
    <2> QED
      BY <1>1, <2>6 DEF Shaped
  <1> QED
    BY <1>3, <1>6 DEF LeafRevs, RevsOf, N

\* A write keeps histories whole if its path starts at a first revision, or at
\* one that is known.
LEMMA WholeWrite ==
  ASSUME NEW b, DbFine(b), Whole(b), NEW d \in Doc, NEW r \in Rev, NEW q \in Anc[r],
         Gen[q] = 1 \/ q \in RevsOf(Nodes(b, d)),
         NEW c, c = ApplyWrite(b, d, q, r, {}, 0)
  PROVE  Whole(c)
  <1> DEFINE t == b.docs[d].tree
             u == MergeAndStem(t, q, r, 0)
             N == Nodes(b, d)
             A == Absorbed(N, q, r)
             M == MergeNodes(N, q, r, A)
  <1>1. Shaped(N) /\ t.nodes = N /\ b \in DbType /\ TreeOk(t) /\ {} \in SUBSET Digest /\ 0 \in Nat
    BY ShapedDocs DEF DbFine, DbOk, TreesOk
  <1>2. u.nodes = M
    BY <1>1 DEF MergeAndStem, Merge
  <1>3. Nodes(c, d) = M /\ \A e \in Doc \ {d} : Nodes(c, e) = Nodes(b, e)
    <2>1. Recorded(b, c, d, u, (b.docs[d].bodies \ Stemmed(t, q, r, 0)) \union {r}, {})
      BY <1>1, ApplyWriteFields
    <2> HIDE DEF u
    <2> QED
      BY <1>2, <2>1 DEF Recorded, Nodes
  <1>4. q \in Rev /\ Gen[q] \in Nat \ {0}
    BY AncBasics, RevAssumption
  <1>5. \A p \in Roots(N) : Gen[p] = 1
    <2> SUFFICES ASSUME NEW p \in Roots(N)
                 PROVE  Gen[p] = 1
      OBVIOUS
    <2>1. <<p, p>> \in N
      BY DEF Roots
    <2>2. Gen[<<p, p>>[1]] = 1
      BY <2>1 DEF Whole
    <2> QED
      BY <2>2
  <1>6. \A p \in Targets(N, q, A) : Gen[p] = 1
    <2>1. CASE Hosts(N, q, A) # {}
      BY <1>5, <2>1 DEF Targets, Hosts
    <2>2. CASE Hosts(N, q, A) = {}
      <3>1. ASSUME q \in RevsOf(N)
            PROVE  FALSE
        <4>1. PICK n \in N : n[2] = q
          BY <3>1 DEF RevsOf
        <4>2. n[1] \in Roots(N) /\ n = <<n[1], q>>
          BY <1>1, <4>1, RootPresent DEF Shaped
        <4>3. n[1] \in A
          BY <2>2, <4>1, <4>2 DEF Hosts
        <4>4. Gen[q] < Gen[n[1]]
          BY <1>1, <4>3, AbsorbedBelow
        <4> QED
          BY <1>4, <1>5, <4>2, <4>4
      <3>2. Gen[q] = 1
        BY <3>1
      <3> QED
        BY <2>2, <3>2 DEF Targets
    <2> QED
      BY <2>1, <2>2
  <1>7. \A n \in M : Gen[n[1]] = 1
    <2> SUFFICES ASSUME NEW n \in M
                 PROVE  Gen[n[1]] = 1
      OBVIOUS
    <2>1. n \in N \/ n[1] \in Targets(N, q, A)
      BY DEF MergeNodes
    <2> QED
      BY <1>6, <2>1 DEF Whole
  <1> QED
    BY <1>3, <1>7 DEF Whole

\* Edits do, and documents of whole histories that are replicated.
LEMMA WholeEdit ==
  ASSUME NEW b, DbFine(b), Whole(b), NEW d \in Doc, NEW r \in Rev,
         EditAccepted(b, d, r, Gen[r] > 1), NEW c, c = NewEdit(b, d, r, {}, 0)
  PROVE  Whole(c)
  <1>1. EditStart(r) \in Anc[r] /\ Gen[r] \in Nat \ {0}
    BY EditPath, RevAssumption
  <1>2. Gen[EditStart(r)] = 1 \/ EditStart(r) \in RevsOf(Nodes(b, d))
    <2>1. CASE Gen[r] = 1
      BY <2>1 DEF EditStart
    <2>2. CASE Gen[r] # 1
      <3>1. EditStart(r) = Parent(r)
        BY <2>2 DEF EditStart
      <3>2. Exists(b, d) /\ ExtendsLeaf(Nodes(b, d), Parent(r), r)
        BY <2>2 DEF EditAccepted
      <3>3. \E m \in Nodes(b, d) : m[2] = Parent(r)
        BY <3>2 DEF ExtendsLeaf, Exists, Nodes
      <3> QED
        BY <3>1, <3>3 DEF RevsOf
    <2> QED
      BY <2>1, <2>2
  <1> QED
    BY <1>1, <1>2, WholeWrite DEF NewEdit

LEMMA WholeReplicated ==
  ASSUME NEW b, DbFine(b), Whole(b), NEW d \in Doc, NEW r \in Rev, NEW q \in Anc[r], Gen[q] = 1,
         NEW c, c = ReplicatedEdit(b, d, q, r, {}, 0)
  PROVE  Whole(c)
  <1>1. c = b \/ c = ApplyWrite(b, d, q, r, {}, 0)
    BY DEF ReplicatedEdit
  <1> QED
    BY <1>1, WholeWrite

\* So does what takes revisions away, or nothing.
LEMMA WholeFewer ==
  ASSUME NEW b, Whole(b), NEW c, \A d \in Doc : Nodes(c, d) \subseteq Nodes(b, d)
  PROVE  Whole(c)
  BY DEF Whole

LEMMA WholePurge ==
  ASSUME NEW b, DbFine(b), Whole(b), NEW d \in Doc, NEW R, NEW c, c = PurgeEnd(b, PurgeDoc(b, d, R))
  PROVE  Whole(c)
  <1> DEFINE a == PurgeDoc(b, d, R)
             u == RemoveLeaves(b.docs[d].tree, R)
  <1>1. b \in DbType /\ TreeOk(b.docs[d].tree) /\ Shaped(b.docs[d].tree.nodes)
    BY ShapedDocs DEF DbFine, DbOk, TreesOk
  <1>2. \/ a = b
        \/ LeafRevs(Nodes(b, d)) # {} /\ u.nodes = {} /\ Dropped(b, a, d)
        \/ /\ u.nodes # {}
           /\ Recorded(b, a, d, u, b.docs[d].bodies \intersect RevsOf(u.nodes), {})
    BY <1>1, PurgeDocFields
  <1>3. u.nodes \subseteq Nodes(b, d)
    BY <1>1, RemoveShrinks DEF Nodes
  <1> HIDE DEF a, u
  <1>4. \A e \in Doc : Nodes(a, e) \subseteq Nodes(b, e)
    <2> SUFFICES ASSUME NEW e \in Doc
                 PROVE  Nodes(a, e) \subseteq Nodes(b, e)
      OBVIOUS
    <2>1. CASE e = d
      BY <1>2, <1>3, <2>1 DEF Dropped, Recorded, Nodes, NoDoc, EmptyTree
    <2>2. CASE e # d
      BY <1>2, <2>2 DEF Dropped, Recorded, Nodes
    <2> QED
      BY <2>1, <2>2
  <1>5. \A e \in Doc : Nodes(c, e) = Nodes(a, e)
    <2>1. DbOk(a)
      BY PurgeDocOk DEF a, DbFine
    <2>2. a \in DbType
      BY <2>1 DEF DbOk
    <2>3. c = CollectBlobs([a EXCEPT !.updateSeq = IF @ = b.updateSeq THEN @ + 1 ELSE @,
                                     !.purgeSeq = @ + 1])
      BY DEF PurgeEnd, a
    <2>4. c.docs = a.docs
      BY <2>2, <2>3 DEF CollectBlobs, DbType
    <2> QED
      BY <2>4 DEF Nodes
  <1> QED
    BY <1>4, <1>5, WholeFewer

LEMMA WholeCompact ==
  ASSUME NEW b, DbFine(b), Whole(b)
  PROVE  Whole(Compact(b))
  <1>1. ASSUME NEW d \in Doc
        PROVE  Nodes(Compact(b), d) = Nodes(b, d)
    <2>1. b \in DbType /\ b.docs[d] \in DocState
      BY DEF DbFine, DbOk, DbType
    <2> DEFINE new(e) == [b.docs[e] EXCEPT !.bodies = @ \intersect LeafRevs(Nodes(b, e)),
                                           !.tree = MarkNonLeavesMissing(@)]
    <2>2. Compacted(b.docs[d], new(d), LeafRevs(Nodes(b, d)))
      BY <2>1, CompactDoc
    <2>3. Compact(b) = CollectBlobs([b EXCEPT !.docs = [e \in Doc |-> new(e)]])
      BY DEF Compact
    <2> HIDE DEF new
    <2>4. Compact(b).docs[d] = new(d)
      BY <2>1, <2>3 DEF CollectBlobs, DbType
    <2> QED
      BY <2>2, <2>4 DEF Compacted, Nodes
  <1> QED
    BY <1>1, WholeFewer

\* What a batch of replicated documents leaves.
LEMMA WholeBatch ==
  ASSUME NEW b, DbFine(b), Whole(b), NEW docs, Len(docs) \in Nat,
         \A i \in 1 .. Len(docs) : IsWrite(docs[i]) /\ Gen[docs[i].start] = 1
  PROVE  Whole(StoreAll(b, docs))
  <1> DEFINE n == Len(docs)
             after == CHOOSE f : StoredBy(b, docs, n, f)
  <1>1. StoredBy(b, docs, n, after)
    BY StoreDefined
  <1>2. StoreAll(b, docs) = after[n]
    BY DEF StoreAll, StoredBy
  <1>3. n \in Nat /\ \A i \in 1 .. n : IsWrite(docs[i]) /\ Gen[docs[i].start] = 1
    OBVIOUS
  <1> HIDE DEF after, n
  <1> DEFINE S == {m \in Nat : m \in 0 .. n => DbFine(after[m]) /\ Whole(after[m])}
  <1>4. 0 \in S
    <2>1. 0 \in 0 .. n => after[0] = b
      BY <1>1 DEF StoredBy
    <2> QED
      BY <2>1
  <1>5. ASSUME NEW m \in Nat, m \in S
        PROVE  m + 1 \in S
    <2> SUFFICES ASSUME m + 1 \in 0 .. n
                 PROVE  DbFine(after[m + 1]) /\ Whole(after[m + 1])
      OBVIOUS
    <2>1. DbFine(after[m]) /\ Whole(after[m]) /\ m + 1 \in 1 .. n
      BY <1>3, <1>5
    <2> DEFINE w == docs[m + 1]
               a == after[m]
               c == after[m + 1]
    <2>2. c = ReplicatedEdit(a, w.id, w.start, w.rev, {}, 0)
      <3>1. m + 1 \in 0 .. n /\ m + 1 # 0 /\ (m + 1) - 1 = m
        OBVIOUS
      <3>2. c = ReplicatedEdit(after[(m + 1) - 1], w.id, w.start, w.rev, {}, 0)
        BY <1>1, <3>1 DEF StoredBy
      <3> QED
        BY <3>1, <3>2
    <2>3. w.id \in Doc /\ w.rev \in Rev /\ w.start \in Anc[w.rev] /\ Gen[w.start] = 1
      BY <1>3, <2>1 DEF IsWrite
    <2> HIDE DEF w, a, c
    <2>4. DbFine(a) /\ Whole(a)
      BY <2>1 DEF a
    <2>5. DbFine(c) /\ Whole(c)
      BY <2>2, <2>3, <2>4, ReplicatedWrite, WholeReplicated DEF Moved
    <2> QED
      BY <2>5 DEF c
  <1> HIDE DEF S
  <1>6. n \in S
    BY <1>3, <1>4, <1>5, Induction
  <1> QED
    BY <1>2, <1>3, <1>6 DEF S

----------------------------------------------------------------------------
(* Runs without faults                                                     *)

\* What a run that no fault has hit holds of its source S: revisions S knows,
\* those that vanished from it have children, and histories are whole.
CleanRun(S, r) ==
  /\ ~r.failed
  /\ \A b \in r.batch : b.id \in Doc /\ b.revs \subseteq RevsOf(Nodes(S, b.id))
  /\ \A w \in r.wanted : w.id \in Doc /\ w.rev \in RevsOf(Nodes(S, w.id))
  /\ \A w \in r.gone :
       w.id \in Doc /\ w.rev \in RevsOf(Nodes(S, w.id)) \ LeafRevs(Nodes(S, w.id))
  /\ \A w \in r.docs : Gen[w.start] = 1

CleanInv ==
  /\ faults \in Nat
  /\ \A x \in Replicator : x \in policy.runs \/ run[x] = Idle
  /\ faults = 0 =>
       /\ \A n \in Node : Whole(db[n])
       /\ \A x \in policy.runs : CleanRun(db[Source[x]], run[x])

\* No application takes anything from what x reads.
SourceKept(p, x) == Source[x] \notin p.purged

\* A source that moves on keeps what was seen of it.
LEMMA CleanKept ==
  ASSUME NEW S, DbFine(S), Whole(S), NEW U, DbFine(U), Whole(U), Gained(S, U),
         NEW r, CleanRun(S, r)
  PROVE  CleanRun(U, r)
  <1>1. \A w \in r.gone : w.rev \notin LeafRevs(Nodes(U, w.id))
    BY StaysBuried DEF CleanRun
  <1> QED
    BY <1>1 DEF CleanRun, Gained

\* A run that holds no more than another one.
Light(e, r) ==
  /\ DOMAIN e = Fields
  /\ e.failed = r.failed
  /\ e.batch \in {r.batch, {}} /\ e.wanted \in {r.wanted, {}}
  /\ e.gone \in {r.gone, {}} /\ e.docs \in {r.docs, {}}

LEMMA LightClean ==
  ASSUME NEW S, NEW r, CleanRun(S, r), NEW e, Light(e, r)
  PROVE  CleanRun(S, e)
  BY DEF Light, CleanRun

LEMMA LightTrans ==
  ASSUME NEW r, NEW e, Light(e, r), NEW g, Light(g, e)
  PROVE  Light(g, r)
  BY DEF Light

LEMMA FromLight ==
  ASSUME NEW r, DOMAIN r = Fields, NEW seq, NEW b
  PROVE  Light(From(r, seq), r) /\ Light([From(r, seq) EXCEPT !.readOnly = b], r)
  <1> DEFINE a == From(r, seq)
  <1>1. Light(a, r)
    BY DEF From, Light, Fields
  <1> HIDE DEF a
  <1>2. Light([a EXCEPT !.readOnly = b], r)
    BY <1>1 DEF Light, Fields
  <1> QED
    BY <1>1, <1>2 DEF a

LEMMA FinishLight ==
  ASSUME NEW r, DOMAIN r = Fields
  PROVE  Light(Ended(r), r) /\ Light(Finish(r), r)
  <1>1. Light(Ended(r), r)
    <2> SUFFICES ASSUME NEW e, e = Ended(r)
                 PROVE  Light(e, r)
      OBVIOUS
    <2> QED
      BY EndedIs DEF Light
  <1>2. Light([r EXCEPT !.pc = "history", !.final = TRUE], r)
    BY DEF Light, Fields
  <1> QED
    BY <1>1, <1>2 DEF Finish

LEMMA SkipLight ==
  ASSUME NEW r, DOMAIN r = Fields
  PROVE  Light(Skip(r), r)
  <1> DEFINE n == [r EXCEPT !.since = r.last, !.batch = {}]
  <1>1. Light(n, r)
    BY DEF Light, Fields
  <1>2. Skip(r) = IF r.full THEN [n EXCEPT !.pc = "changes"] ELSE Finish(n)
    BY DEF Skip
  <1> HIDE DEF n
  <1>3. Light([n EXCEPT !.pc = "changes"], n) /\ Light(Finish(n), n)
    BY <1>1, FinishLight DEF Light, Fields
  <1> QED
    BY <1>1, <1>2, <1>3, LightTrans

LEMMA WrittenLight ==
  ASSUME NEW r, DOMAIN r = Fields
  PROVE  Light(Written(r), r)
  <1>1. Light([r EXCEPT !.pc = "history", !.since = r.last], r)
    BY DEF Light, Fields
  <1> QED
    BY <1>1, FinishLight, SkipLight DEF Written

LEMMA FetchedLight ==
  ASSUME NEW r, DOMAIN r = Fields
  PROVE  Light(Fetched(r), r)
  BY DEF Fetched, Light, Fields

LEMMA SavedLight ==
  ASSUME NEW r, DOMAIN r = Fields
  PROVE  Light(Saved(r), r)
  <1> DEFINE n == [r EXCEPT !.saved = r.since, !.prior = <<>>]
  <1>1. Light(n, r)
    BY DEF Light, Fields
  <1>2. Saved(r) = IF r.full /\ ~r.final THEN [n EXCEPT !.pc = "changes"] ELSE Ended(n)
    BY DEF Saved
  <1> HIDE DEF n
  <1>3. Light([n EXCEPT !.pc = "changes"], n) /\ Light(Ended(n), n)
    BY <1>1, FinishLight DEF Light, Fields
  <1> QED
    BY <1>1, <1>2, <1>3, LightTrans

\* A page of the source's changes lists leaves.
LEMMA ListedClean ==
  ASSUME NEW S, NEW r, DOMAIN r = Fields, CleanRun(S, r), NEW R, \A c \in R : c.id \in Doc
  PROVE  CleanRun(S, AfterChanges(S, r, R))
  <1> DEFINE a == [r EXCEPT !.since = Scanned(S, @)]
             n == Listed(S, r, R)
  <1>1. Light(a, r) /\ DOMAIN a = Fields
    BY DEF Light, Fields
  <1>2. DOMAIN n = Fields /\ CleanRun(S, n)
    <2> DEFINE end == LastSeq(R)
               full == (Cardinality(R) = BatchSize)
               B == BatchOf(S, r.filter, R)
               m == [r EXCEPT !.pc = "diff", !.batch = B]
    <2>1. n = [m EXCEPT !.last = end, !.full = full]
      BY DEF Listed, BatchEnd, BatchOf
    <2>2. \A b \in B : b.id \in Doc /\ b.revs \subseteq RevsOf(Nodes(S, b.id))
      BY DEF BatchOf, ListedRevs, LeafRevs, LeafNodes, RevsOf
    <2> HIDE DEF n, end, full, B
    <2>3. DOMAIN m = Fields /\ CleanRun(S, m)
      BY <2>2 DEF CleanRun, Fields
    <2> HIDE DEF m
    <2> QED
      BY <2>1, <2>3 DEF CleanRun, Fields
  <1>3. AfterChanges(S, r, R) = IF R = {} THEN Finish(a) ELSE IF n.batch = {} THEN Skip(n) ELSE n
    BY DEF AfterChanges
  <1> HIDE DEF a, n
  <1>4. CleanRun(S, Finish(a))
    BY <1>1, FinishLight, LightTrans, LightClean
  <1>5. CleanRun(S, Skip(n))
    BY <1>2, SkipLight, LightClean
  <1> QED
    BY <1>2, <1>3, <1>4, <1>5

\* Of a source whose leaves have bodies, what vanished has children.
LEMMA GotClean ==
  ASSUME NEW S, DbFine(S), Whole(S), NEW r, DOMAIN r = Fields, CleanRun(S, r),
         NEW F, F = {w \in r.wanted : Readable(S, w.id, w.rev)},
         NEW e, e = [r EXCEPT !.wanted = {}, !.gone = r.wanted \ F,
                              !.docs = {[id |-> w.id, rev |-> w.rev,
                                         start |-> HistoryStart(Nodes(S, w.id), w.rev)] : w \in F}]
  PROVE  DOMAIN e = Fields /\ CleanRun(S, e)
  <1> DEFINE D == {[id |-> w.id, rev |-> w.rev,
                    start |-> HistoryStart(Nodes(S, w.id), w.rev)] : w \in F}
             G == r.wanted \ F
  <1>1. \A w \in r.wanted : w.id \in Doc /\ w.rev \in RevsOf(Nodes(S, w.id))
    BY DEF CleanRun
  <1>2. ASSUME NEW w \in G
        PROVE  w.rev \notin LeafRevs(Nodes(S, w.id))
    <2>1. w.id \in Doc /\ w.rev \notin S.docs[w.id].bodies
      BY <1>1 DEF Readable
    <2>2. LeafRevs(Nodes(S, w.id)) \subseteq S.docs[w.id].bodies
      BY <2>1 DEF DbFine, DbOk, BodiesOk, HasBodies, Nodes
    <2> QED
      BY <2>1, <2>2
  <1>3. ASSUME NEW w \in F
        PROVE  Gen[HistoryStart(Nodes(S, w.id), w.rev)] = 1
    <2> DEFINE N == Nodes(S, w.id)
               P == {n[1] : n \in {m \in N : m[2] = w.rev}}
    <2>1. w.id \in Doc /\ w.rev \in RevsOf(N)
      BY <1>1
    <2>2. PICK n \in N : n[2] = w.rev
      BY <2>1 DEF RevsOf
    <2>3. /\ Shaped(N) /\ \A m \in N : Gen[m[1]] = 1
      BY <2>1, ShapedDocs DEF Whole
    <2>4. P = {n[1]}
      <3>1. ASSUME NEW m \in N, m[2] = w.rev
            PROVE  m[1] = n[1]
        BY <2>2, <2>3, <3>1, FirstOnce DEF Shaped
      <3> QED
        BY <2>2, <3>1
    <2>5. HistoryStart(N, w.rev) = FirstOf(P)
      BY DEF HistoryStart, FirstRoot
    <2>6. FirstOf({n[1]}) = n[1]
      BY DEF FirstOf
    <2> QED
      BY <2>2, <2>3, <2>4, <2>5, <2>6
  <1>4. \A w \in D : Gen[w.start] = 1
    BY <1>3
  <1>5. e = [r EXCEPT !.wanted = {}, !.gone = G, !.docs = D]
    OBVIOUS
  <1>6. \A w \in G : w.id \in Doc /\ w.rev \in RevsOf(Nodes(S, w.id)) \ LeafRevs(Nodes(S, w.id))
    BY <1>1, <1>2
  <1> HIDE DEF D, G
  <1> QED
    BY <1>4, <1>5, <1>6, ZenonT(60) DEF CleanRun, Fields

\* A call of a run, no call having failed.
LEMMA StepClean ==
  ASSUME ReplInv, NEW x \in Replicator, Step(x), faults \in Nat, faults' = 0,
         Whole(db[Source[x]]), CleanRun(db[Source[x]], run[x])
  PROVE  CleanRun(db[Source[x]], run'[x])
  <1> DEFINE r == run[x]
             S == db[Source[x]]
             Goal == \E e : run' = [run EXCEPT ![x] = e] /\ CleanRun(S, e)
  <1>1. DbFine(S) /\ RunOk(db, policy, x, r) /\ DOMAIN run = Replicator
    BY SoundAt DEF ReplInv, Sound
  <1> SUFFICES Goal
    BY <1>1
  <1>2. r.pc # "idle"
    BY DEF Step, ReadTarget, ReadSource, Probe, ProbeLost, FetchChanges, Diff, Get, Check, WriteDocs,
           NothingWritten, ReadHistory, HistoryUnread, CheckpointTarget, CheckpointSource, At
  <1>3. DOMAIN r = Fields
    BY <1>1, <1>2, Busy
  <1>4. ASSUME NEW e, run' = [run EXCEPT ![x] = e], Light(e, r)
        PROVE  Goal
    BY <1>4, LightClean
  <1>5. ASSUME NEW pc
        PROVE  Light([r EXCEPT !.pc = pc], r)
    BY <1>3 DEF Light, Fields
  <1>6. CASE ReadTarget(x)
    <2> DEFINE cp == ReadFrom(Target[x], Key(x))
    <2>1. Light([r EXCEPT !.pc = "read_source", !.tcp = cp], r)
      <3> HIDE DEF cp
      <3> QED
        BY <1>3 DEF Light, Fields
    <2>2. Light(From(r, 0), r)
      BY <1>3, FromLight
    <2>3. run' = [run EXCEPT ![x] = IF cp = NoCheckpoint THEN From(r, 0)
                                    ELSE [r EXCEPT !.pc = "read_source", !.tcp = cp]]
      BY <1>6 DEF ReadTarget, Reads
    <2> HIDE DEF cp, Goal
    <2> QED
      BY <1>4, <2>1, <2>2, <2>3
  <1>7. CASE ReadSource(x)
    <2> SUFFICES ASSUME NEW s, \/ run' = [run EXCEPT ![x] = [r EXCEPT !.pc = "probe"]]
                               \/ run' = [run EXCEPT ![x] = From(r, s)]
                 PROVE  Goal
      BY <1>7 DEF ReadSource, Reads
    <2> HIDE DEF Goal
    <2> QED
      BY <1>3, <1>4, <1>5, FromLight
  <1>8. CASE Probe(x)
    <2>1. \/ run' = [run EXCEPT ![x] = [From(r, r.tcp.last) EXCEPT !.readOnly = TRUE]]
          \/ run' = [run EXCEPT ![x] = From(r, 0)]
      BY <1>8 DEF Probe, Reads
    <2> HIDE DEF Goal
    <2> QED
      BY <1>3, <1>4, <2>1, FromLight
  <1>9. CASE ProbeLost(x) \/ HistoryUnread(x)
    BY <1>9 DEF ProbeLost, HistoryUnread
  <1>10. CASE FetchChanges(x)
    <2> DEFINE R == ChangesAfter(Offered(S, r.filter), r.since, BatchSize)
    <2>1. \A c \in R : c.id \in Doc
      <3>1. R \subseteq S.changes
        BY <1>1, OfferedIs DEF ChangesAfter
      <3> QED
        BY <1>1, <3>1, FeedEntries
    <2>2. run' = [run EXCEPT ![x] = AfterChanges(S, r, R)]
      BY <1>10 DEF FetchChanges, Reads
    <2> HIDE DEF R
    <2> QED
      BY <1>3, <2>1, <2>2, ListedClean
  <1>11. CASE Diff(x)
    <2> DEFINE M == UNION {{[id |-> b.id, rev |-> v] :
                              v \in MissingRevs(Nodes(db[Target[x]], b.id), b.revs)} : b \in r.batch}
               e == [r EXCEPT !.pc = "get", !.wanted = M, !.batch = {}]
    <2>1. run' = [run EXCEPT ![x] = IF M = {} THEN Skip(r) ELSE e]
      BY <1>11 DEF Diff, Reads
    <2>2. \A w \in M : w.id \in Doc /\ w.rev \in RevsOf(Nodes(S, w.id))
      BY DEF MissingRevs, CleanRun
    <2>3. CleanRun(S, e)
      <3> HIDE DEF M
      <3> DEFINE m == [r EXCEPT !.pc = "get", !.wanted = M]
      <3>1. DOMAIN m = Fields /\ CleanRun(S, m)
        BY <1>3, <2>2 DEF CleanRun, Fields
      <3>2. e = [m EXCEPT !.batch = {}]
        OBVIOUS
      <3> HIDE DEF m, e
      <3> QED
        BY <3>1, <3>2 DEF CleanRun, Fields
    <2> HIDE DEF M, e
    <2>4. CleanRun(S, Skip(r))
      BY <1>3, SkipLight, LightClean
    <2> QED
      BY <2>1, <2>3, <2>4
  <1>12. CASE Get(x)
    <2> DEFINE F == {w \in r.wanted : Readable(S, w.id, w.rev)}
               n == [r EXCEPT !.wanted = {}, !.gone = r.wanted \ F,
                              !.docs = {[id |-> w.id, rev |-> w.rev,
                                         start |-> HistoryStart(Nodes(S, w.id), w.rev)] : w \in F}]
    <2>1. run' = [run EXCEPT ![x] = Fetched(n)]
      BY <1>12 DEF Get, Reads
    <2>2. DOMAIN n = Fields /\ CleanRun(S, n)
      <3> HIDE DEF F
      <3> QED
        BY <1>1, <1>3, GotClean DEF F
    <2> HIDE DEF n
    <2> QED
      BY <2>1, <2>2, FetchedLight, LightClean
  <1>13. CASE Check(x)
    <2>1. PICK g \in r.gone :
            Reads(x, Fetched([r EXCEPT
              !.gone = @ \ {g}, !.failed = @ \/ g.rev \in ListedRevs(db[Source[x]], g.id)]))
      BY <1>13 DEF Check
    <2> DEFINE n == [r EXCEPT
                       !.gone = @ \ {g}, !.failed = @ \/ g.rev \in ListedRevs(db[Source[x]], g.id)]
    <2>2. g.rev \notin ListedRevs(S, g.id)
      BY DEF CleanRun, ListedRevs
    <2>3. DOMAIN n = Fields /\ CleanRun(S, n)
      BY <1>3, <2>2 DEF CleanRun, Fields
    <2>4. run' = [run EXCEPT ![x] = Fetched(n)]
      BY <2>1 DEF Reads
    <2> HIDE DEF n
    <2> QED
      BY <2>3, <2>4, FetchedLight, LightClean
  <1>14. ASSUME NEW lost, lost \in SUBSET r.docs, WriteDocs(x, lost)
         PROVE  Goal
    <2> DEFINE n == [r EXCEPT !.docs = {}, !.failed = @ \/ BatchFailed(r.docs, lost)]
    <2>1. lost = {}
      BY <1>14 DEF WriteDocs
    <2>2. DOMAIN n = Fields /\ CleanRun(S, n)
      BY <1>3, <2>1 DEF CleanRun, Fields, BatchFailed
    <2>3. run' = [run EXCEPT ![x] = Written(n)]
      BY <1>14 DEF WriteDocs
    <2> HIDE DEF n
    <2> QED
      BY <2>2, <2>3, WrittenLight, LightClean
  <1>15. CASE NothingWritten(x)
    <2>1. run' = [run EXCEPT ![x] = Written(r)]
      BY <1>15 DEF NothingWritten, Reads
    <2> HIDE DEF Goal
    <2> QED
      BY <1>3, <1>4, <2>1, WrittenLight
  <1>16. CASE ReadHistory(x)
    <2> SUFFICES ASSUME NEW h, run' = [run EXCEPT ![x] = [r EXCEPT !.pc = "cp_target", !.prior = h]]
                 PROVE  Goal
      BY <1>16 DEF ReadHistory, Reads
    <2>1. Light([r EXCEPT !.pc = "cp_target", !.prior = h], r)
      BY <1>3 DEF Light, Fields
    <2> HIDE DEF Goal
    <2> QED
      BY <1>4, <2>1
  <1>17. CASE CheckpointTarget(x)
    <2>1. run' = [run EXCEPT ![x] = IF r.readOnly THEN Saved(r) ELSE [r EXCEPT !.pc = "cp_source"]]
      BY <1>17 DEF CheckpointTarget
    <2>2. Light(Saved(r), r)
      BY <1>3, SavedLight
    <2> HIDE DEF Goal
    <2> QED
      BY <1>4, <1>5, <2>1, <2>2
  <1>18. CASE CheckpointSource(x)
    <2> DEFINE n == [r EXCEPT !.readOnly = TRUE]
    <2>1. Light(n, r)
      BY <1>3 DEF Light, Fields
    <2>2. run' = [run EXCEPT ![x] = Saved(n)] \/ run' = [run EXCEPT ![x] = Saved(r)]
      BY <1>18 DEF CheckpointSource
    <2> HIDE DEF n, Goal
    <2>3. Light(Saved(n), r) /\ Light(Saved(r), r)
      BY <1>3, <2>1, SavedLight, LightTrans DEF Light
    <2> QED
      BY <1>4, <2>2, <2>3
  <1> QED
    BY <1>6, <1>7, <1>8, <1>9, <1>10, <1>11, <1>12, <1>13, <1>14, <1>15, <1>16, <1>17, <1>18 DEF Step

LEMMA CleanStarts ==
  ASSUME Init
  PROVE  CleanInv
  <1>1. /\ faults = 0 /\ run = [x \in Replicator |-> Idle] /\ db = [n \in Node |-> EmptyDb(0)]
        /\ policy \in Situations
    BY DEF Init
  <1>2. Whole(EmptyDb(0))
    BY DEF Whole, EmptyDb, NoDoc, EmptyTree, Nodes
  <1>3. \A S : CleanRun(S, Idle)
    BY IdleIs DEF CleanRun
  <1>4. \A x \in policy.runs : x \in Replicator
    BY <1>1, ReplicationAssumption
  <1> QED
    BY <1>1, <1>2, <1>3, <1>4 DEF CleanInv

\* A database moves on while nothing fails.
LEMMA CleanWorld ==
  ASSUME ReplInv, CleanInv, \A x \in policy.runs : SourceKept(policy, x),
         NEW n \in Node, NEW c, Moved(db[n], c), n \in policy.purged \/ Gained(db[n], c),
         Whole(db[n]) => Whole(c),
         db' = [db EXCEPT ![n] = c], UNCHANGED <<run, policy, faults>>
  PROVE  CleanInv'
  <1>1. DOMAIN db = Node /\ (\A m \in Node : DbFine(db[m])) /\ \A x \in policy.runs : x \in Replicator
    BY ReplicationAssumption DEF ReplInv, Sound
  <1>2. ASSUME faults = 0
        PROVE  /\ \A m \in Node : Whole(db'[m])
               /\ \A x \in policy.runs : CleanRun(db'[Source[x]], run[x])
    <2>1. Whole(c) /\ \A m \in Node : Whole(db[m])
      BY <1>2 DEF CleanInv
    <2>2. ASSUME NEW x \in policy.runs
          PROVE  CleanRun(db'[Source[x]], run[x])
      <3>1. Source[x] \in Node /\ CleanRun(db[Source[x]], run[x])
        BY <1>1, <1>2, Endpoints DEF CleanInv
      <3>2. CASE Source[x] = n
        <4>1. Gained(db[n], c) /\ DbFine(c) /\ db'[n] = c
          BY <1>1, <3>2 DEF SourceKept, Moved
        <4> QED
          BY <1>1, <2>1, <3>1, <3>2, <4>1, CleanKept
      <3>3. CASE Source[x] # n
        BY <1>1, <3>1, <3>3
      <3> QED
        BY <3>2, <3>3
    <2> QED
      BY <1>1, <2>1, <2>2
  <1> QED
    BY <1>2 DEF CleanInv

\* A replicator moves.
LEMMA CleanTurn ==
  ASSUME ReplInv, CleanInv, NEW x \in Replicator, x \in policy.runs, NEW e, run' = [run EXCEPT ![x] = e],
         faults' \in Nat, faults' = 0 => faults = 0 /\ CleanRun(db'[Source[x]], e),
         \A n \in Node : db'[n] = db[n], policy' = policy
  PROVE  CleanInv'
  <1>1. DOMAIN run = Replicator /\ \A y \in policy.runs : y \in Replicator
    BY ReplicationAssumption DEF ReplInv, Sound
  <1>2. \A y \in Replicator : Source[y] \in Node
    BY Endpoints
  <1> QED
    BY <1>1, <1>2 DEF CleanInv

\* A run writes: what it writes is whole, and the sources among the databases
\* written to move on.
LEMMA CleanWrite ==
  ASSUME ReplInv, CleanInv, NEW x \in Replicator, x \in policy.runs,
         NEW lost, lost \in SUBSET run[x].docs, WriteDocs(x, lost)
  PROVE  CleanInv'
  <1> DEFINE r == run[x]
             D == {d \in r.docs \ lost : d.rev \in r.filter.revs /\ d.id \notin policy.denied}
             T == db[Target[x]]
  <1>1. /\ DbFine(T) /\ RunOk(db, policy, x, r) /\ r.pc = "write"
        /\ Source[x] \in Node /\ Target[x] \in Node /\ Source[x] # Target[x]
        /\ DOMAIN db = Node /\ (\A m \in Node : DbFine(db[m])) /\ DOMAIN run = Replicator
        /\ \A y \in policy.runs : y \in Replicator
    BY SoundAt, ReplicationAssumption DEF ReplInv, Sound, WriteDocs, At
  <1>2. /\ policy' = policy /\ faults \in Nat /\ faults' = IF lost = {} THEN faults ELSE faults + 1
        /\ \E e : run' = [run EXCEPT ![x] = e]
    BY DEF WriteDocs, CleanInv
  <1>3. \A y \in Replicator : y # x => run'[y] = run[y]
    BY <1>1, <1>2
  <1>4. faults' \in Nat /\ \A y \in Replicator : y \in policy'.runs \/ run'[y] = Idle
    BY <1>2, <1>3 DEF CleanInv
  <1>5. ASSUME faults' = 0
        PROVE  /\ \A n \in Node : Whole(db'[n])
               /\ \A y \in policy'.runs : CleanRun(db'[Source[y]], run'[y])
    <2>1. faults = 0 /\ lost = {}
      BY <1>2, <1>5
    <2>2. (\A n \in Node : Whole(db[n])) /\ \A y \in policy.runs : CleanRun(db[Source[y]], run[y])
      BY <2>1 DEF CleanInv
    <2>3. PICK order \in SetToSeqs(D) : db' = [db EXCEPT ![Target[x]] = StoreAll(@, order)]
      BY DEF WriteDocs
    <2>4. IsFiniteSet(D) /\ \A w \in D : IsWrite(w) /\ Gen[w.start] = 1
      <3>1. IsFiniteSet(r.docs) /\ \A w \in r.docs : IsWrite(w) /\ Gen[w.start] = 1
        BY <1>1, <2>2, Busy DEF Carried, IsWrite, CleanRun
      <3> HIDE DEF r
      <3> QED
        BY <3>1, FS_Subset
    <2> DEFINE U == StoreAll(T, order)
    <2>5. Moved(T, U) /\ Gained(T, U) /\ Whole(U)
      <3>1. Whole(T)
        BY <1>1, <2>2
      <3> HIDE DEF D, T, r
      <3>2. Len(order) \in Nat /\ \A i \in 1 .. Len(order) : order[i] \in D
        BY <2>4, OrderIs
      <3>3. Stores(T, U, order, Len(order)) /\ Whole(U)
        BY <1>1, <2>4, <3>1, <3>2, StoreAllIs, WholeBatch
      <3> QED
        BY <3>3 DEF Stores
    <2>6. db' = [db EXCEPT ![Target[x]] = U]
      BY <2>3
    <2> HIDE DEF U
    <2>7. (\A n \in Node : Whole(db'[n])) /\ db'[Source[x]] = db[Source[x]] /\ db'[Target[x]] = U
      BY <1>1, <2>2, <2>5, <2>6
    <2>8. CleanRun(db'[Source[x]], run'[x])
      BY <1>1, <1>2, <1>5, <2>2, <2>7, StepClean DEF Step
    <2>9. ASSUME NEW y \in policy.runs, y # x
          PROVE  CleanRun(db'[Source[y]], run'[y])
      <3>1. y \in Replicator /\ run'[y] = run[y] /\ CleanRun(db[Source[y]], run[y])
        BY <1>1, <1>3, <2>2, <2>9
      <3>2. Source[y] \in Node
        BY <3>1, Endpoints
      <3>3. CASE Source[y] = Target[x]
        <4>1. CleanRun(T, run[y]) /\ Whole(T) /\ DbFine(U)
          BY <1>1, <2>2, <2>5, <3>1, <3>3 DEF Moved
        <4> HIDE DEF T, r
        <4>2. CleanRun(U, run[y])
          BY <1>1, <2>5, <4>1, CleanKept
        <4> QED
          BY <2>7, <3>1, <3>3, <4>2
      <3>4. CASE Source[y] # Target[x]
        BY <1>1, <2>6, <3>1, <3>2, <3>4
      <3> QED
        BY <3>3, <3>4
    <2> QED
      BY <1>2, <2>7, <2>8, <2>9
  <1> QED
    BY <1>4, <1>5 DEF CleanInv

\* Any other call of a run.
LEMMA CleanCall ==
  ASSUME ReplInv, CleanInv, NEW x \in Replicator, Step(x)
  PROVE  CleanInv'
  <1>1. RunOk(db, policy, x, run[x]) /\ DOMAIN run = Replicator
    BY SoundAt DEF ReplInv, Sound
  <1>2. run[x].pc # "idle"
    BY DEF Step, ReadTarget, ReadSource, Probe, ProbeLost, FetchChanges, Diff, Get, Check, WriteDocs,
           NothingWritten, ReadHistory, HistoryUnread, CheckpointTarget, CheckpointSource, At
  <1>3. x \in policy.runs
    BY <1>2, IdleIs DEF CleanInv
  <1>4. CASE \E lost \in SUBSET run[x].docs : WriteDocs(x, lost)
    BY <1>3, <1>4, CleanWrite
  <1>5. CASE ~\E lost \in SUBSET run[x].docs : WriteDocs(x, lost)
    <2>1. /\ db' = db /\ policy' = policy /\ faults' \in {faults, faults + 1}
          /\ \E e : run' = [run EXCEPT ![x] = e]
      <3>1. CASE ReadTarget(x) \/ ReadSource(x) \/ FetchChanges(x) \/ Diff(x) \/ Get(x) \/ Check(x)
                 \/ NothingWritten(x) \/ ReadHistory(x)
        BY <3>1 DEF ReadTarget, ReadSource, FetchChanges, Diff, Get, Check, NothingWritten, ReadHistory, Reads
      <3>2. CASE Probe(x) \/ ProbeLost(x)
        BY <3>2 DEF Probe, ProbeLost, Reads
      <3>3. CASE HistoryUnread(x) \/ CheckpointTarget(x) \/ CheckpointSource(x)
        <4>1. CASE HistoryUnread(x)
          BY <4>1 DEF HistoryUnread
        <4>2. CASE CheckpointTarget(x)
          BY <4>2 DEF CheckpointTarget
        <4>3. CASE CheckpointSource(x)
          BY <4>3 DEF CheckpointSource
        <4> QED
          BY <3>3, <4>1, <4>2, <4>3
      <3> QED
        BY <1>5, <3>1, <3>2, <3>3 DEF Step
    <2>2. faults \in Nat /\ faults' \in Nat /\ (faults' = 0 => faults = 0)
      BY <2>1 DEF CleanInv
    <2>3. PICK e : run' = [run EXCEPT ![x] = e]
      BY <2>1
    <2>4. run'[x] = e /\ Source[x] \in Node
      BY <1>1, <2>3, Endpoints
    <2>5. ASSUME faults' = 0
          PROVE  CleanRun(db'[Source[x]], e)
      <3>1. Whole(db[Source[x]]) /\ CleanRun(db[Source[x]], run[x])
        BY <1>3, <2>2, <2>4, <2>5 DEF CleanInv
      <3> QED
        BY <2>1, <2>2, <2>4, <2>5, <3>1, StepClean
    <2> QED
      BY <1>3, <2>1, <2>2, <2>3, <2>5, CleanTurn
  <1> QED
    BY <1>4, <1>5

\* A run starts with nothing to hold.
LEMMA CleanStart ==
  ASSUME ReplInv, CleanInv, NEW x \in Replicator, NEW f, Start(x, f)
  PROVE  CleanInv'
  <1> DEFINE r == [Idle EXCEPT !.ids = Ids(x), !.filter = f, !.session = sessions + 1,
                               !.goal = db[Source[x]].updateSeq]
  <1>1. /\ x \in policy.runs /\ run' = [run EXCEPT ![x] = Begin(r)]
        /\ UNCHANGED <<db, policy, faults>>
    BY DEF Start
  <1>2. DOMAIN r = Fields /\ \A S : CleanRun(S, r)
    <2> DEFINE m == [Idle EXCEPT !.ids = Ids(x), !.filter = f]
    <2>1. r = [m EXCEPT !.session = sessions + 1, !.goal = db[Source[x]].updateSeq]
      OBVIOUS
    <2>2. /\ DOMAIN m = Fields /\ m.failed = FALSE
          /\ m.batch = {} /\ m.wanted = {} /\ m.gone = {} /\ m.docs = {}
      BY IdleIs DEF Fields
    <2> HIDE DEF m
    <2>3. /\ DOMAIN r = Fields /\ r.failed = FALSE
          /\ r.batch = {} /\ r.wanted = {} /\ r.gone = {} /\ r.docs = {}
      BY <2>1, <2>2 DEF Fields
    <2> HIDE DEF r
    <2> QED
      BY <2>3 DEF CleanRun
  <1> HIDE DEF r
  <1>3. Light(Begin(r), r)
    <2>1. Light([r EXCEPT !.pc = "read_target"], r)
      BY <1>2 DEF Light, Fields
    <2> QED
      BY <1>2, <2>1, FromLight DEF Begin
  <1>4. \A S : CleanRun(S, Begin(r))
    BY <1>2, <1>3, LightClean
  <1>5. faults' \in Nat /\ (faults' = 0 => faults = 0 /\ CleanRun(db'[Source[x]], Begin(r)))
    BY <1>1, <1>4 DEF CleanInv
  <1>6. \A n \in Node : db'[n] = db[n]
    BY <1>1
  <1> QED
    BY <1>1, <1>5, <1>6, CleanTurn

\* Once a fault has struck nothing more is claimed.
LEMMA CleanFault ==
  ASSUME CleanInv, faults' = faults + 1, policy' = policy,
         \A x \in Replicator : run'[x] = run[x] \/ run'[x] = Idle
  PROVE  CleanInv'
  BY DEF CleanInv

LEMMA CleanApplication ==
  ASSUME ReplInv, CleanInv, \A x \in policy.runs : SourceKept(policy, x), Applications
  PROVE  CleanInv'
  <1>1. \A n \in Node : DbFine(db[n])
    BY DEF ReplInv, Sound
  <1>2. ASSUME NEW n \in Node, NEW d \in Doc, NEW r \in Rev, Edit(n, d, r)
        PROVE  CleanInv'
    <2> DEFINE c == NewEdit(db[n], d, r, {}, 0)
    <2>1. Moved(db[n], c) /\ Gained(db[n], c)
      BY <1>1, EditMoves
    <2>2. EditAccepted(db[n], d, r, Gen[r] > 1) /\ db' = [db EXCEPT ![n] = c] /\ UNCHANGED <<run, policy, faults>>
      BY <1>2 DEF Edit, Becomes
    <2>3. Whole(db[n]) => Whole(c)
      BY <1>1, <2>2, WholeEdit
    <2> HIDE DEF c
    <2> QED
      BY <2>1, <2>2, <2>3, CleanWorld
  <1>3. ASSUME NEW n \in Node, CompactNode(n)
        PROVE  CleanInv'
    <2> DEFINE c == Compact(db[n])
    <2>1. Moved(db[n], c) /\ Gained(db[n], c) /\ (Whole(db[n]) => Whole(c))
      BY <1>1, CompactMoves, WholeCompact
    <2>2. db' = [db EXCEPT ![n] = c] /\ UNCHANGED <<run, policy, faults>>
      BY <1>3 DEF CompactNode, Becomes
    <2> HIDE DEF c
    <2> QED
      BY <2>1, <2>2, CleanWorld
  <1>4. ASSUME NEW n \in Node, NEW d \in Doc, NEW l \in Rev, PurgeNode(n, d, l)
        PROVE  CleanInv'
    <2> DEFINE c == PurgeEnd(db[n], PurgeDoc(db[n], d, {l}))
    <2>1. Moved(db[n], c) /\ (Whole(db[n]) => Whole(c))
      BY <1>1, PurgeMoves, WholePurge
    <2>2. db' = [db EXCEPT ![n] = c] /\ UNCHANGED <<run, policy, faults>> /\ n \in policy.purged
      BY <1>4 DEF PurgeNode, Becomes
    <2> HIDE DEF c
    <2> QED
      BY <2>1, <2>2, CleanWorld
  <1>5. ASSUME NEW n \in Node, DestroyNode(n) \/ Restore(n)
        PROVE  CleanInv'
    <2>1. faults' = faults + 1 /\ policy' = policy /\ \A x \in Replicator : run'[x] = run[x] \/ run'[x] = Idle
      BY <1>5 DEF DestroyNode, Restore
    <2> QED
      BY <2>1, CleanFault
  <1>6. ASSUME NEW n \in Node, TakeBackup(n)
        PROVE  CleanInv'
    BY <1>6 DEF TakeBackup, CleanInv
  <1> QED
    BY <1>2, <1>3, <1>4, <1>5, <1>6 DEF Applications

LEMMA CleanNext ==
  ASSUME \A p \in Situations : \A x \in p.runs : SourceKept(p, x), ReplInv, CleanInv, [Next]_vars
  PROVE  CleanInv'
  <1>1. \A x \in policy.runs : SourceKept(policy, x)
    BY DEF ReplInv, Sound
  <1>2. ASSUME NEW x \in Replicator, Stop(x)
        PROVE  CleanInv'
    <2>1. faults' = faults + 1 /\ policy' = policy /\ \A y \in Replicator : run'[y] = run[y] \/ run'[y] = Idle
      BY <1>2 DEF Stop, ReplInv, Sound
    <2> QED
      BY <2>1, CleanFault
  <1>3. CASE UNCHANGED vars
    BY <1>3 DEF vars, CleanInv
  <1> QED
    BY <1>1, <1>2, <1>3, CleanStart, CleanCall, CleanApplication DEF Next

----------------------------------------------------------------------------
(* Progress that is saved                                                  *)

\* Between two checkpoints a run keeps s, what the last one told, and it only
\* ends there.
Going(e, s) ==
  /\ e.pc \in {"changes", "history", "done"} \union BatchPcs
  /\ e.pc \in {"changes"} \union BatchPcs => e.saved = s
  /\ e.pc = "done" => e.since = s

LEMMA FinishGoing ==
  ASSUME NEW r, DOMAIN r = Fields, Checkpointed(r.filter)
  PROVE  Going(Finish(r), r.saved)
  <1>1. CASE r.since # r.saved
    <2> DEFINE e == [r EXCEPT !.pc = "history", !.final = TRUE]
    <2>1. e.pc = "history"
      BY DEF Fields
    <2>2. Finish(r) = e
      BY <1>1 DEF Finish
    <2> QED
      BY <2>1, <2>2 DEF Going, BatchPcs
  <1>2. CASE r.since = r.saved
    <2> DEFINE e == Ended(r)
    <2>1. Finish(r) = e
      BY <1>2 DEF Finish
    <2> HIDE DEF e
    <2>2. e.pc = "done" /\ e.since = r.since
      BY EndedIs DEF e
    <2> QED
      BY <1>2, <2>1, <2>2 DEF Going, BatchPcs
  <1> QED
    BY <1>1, <1>2

LEMMA SkipGoing ==
  ASSUME NEW r, DOMAIN r = Fields, Checkpointed(r.filter)
  PROVE  Going(Skip(r), r.saved)
  <1> DEFINE n == [r EXCEPT !.since = r.last, !.batch = {}]
  <1>1. DOMAIN n = Fields /\ n.filter = r.filter /\ n.saved = r.saved
    BY DEF Fields
  <1>2. Skip(r) = IF r.full THEN [n EXCEPT !.pc = "changes"] ELSE Finish(n)
    BY DEF Skip
  <1> HIDE DEF n
  <1>3. Going([n EXCEPT !.pc = "changes"], r.saved)
    BY <1>1 DEF Going, Fields, BatchPcs
  <1>4. Going(Finish(n), r.saved)
    BY <1>1, FinishGoing
  <1> QED
    BY <1>2, <1>3, <1>4

LEMMA WrittenGoing ==
  ASSUME NEW r, DOMAIN r = Fields, Checkpointed(r.filter)
  PROVE  Going(Written(r), r.saved)
  <1>1. Going([r EXCEPT !.pc = "history", !.since = r.last], r.saved)
    BY DEF Going, Fields, BatchPcs
  <1> QED
    BY <1>1, FinishGoing DEF Written

LEMMA FetchedGoing ==
  ASSUME NEW r, DOMAIN r = Fields
  PROVE  Going(Fetched(r), r.saved)
  BY DEF Fetched, Going, Fields, BatchPcs

LEMMA ListedGoing ==
  ASSUME NEW S, NEW r, DOMAIN r = Fields, Checkpointed(r.filter), NEW R
  PROVE  Going(AfterChanges(S, r, R), r.saved)
  <1> DEFINE a == [r EXCEPT !.since = Scanned(S, @)]
             n == Listed(S, r, R)
  <1>1. DOMAIN a = Fields /\ a.filter = r.filter /\ a.saved = r.saved
    BY DEF Fields
  <1>2. DOMAIN n = Fields /\ n.filter = r.filter /\ n.saved = r.saved /\ n.pc = "diff"
    <2> DEFINE end == LastSeq(R)
               full == (Cardinality(R) = BatchSize)
               B == BatchOf(S, r.filter, R)
               m == [r EXCEPT !.pc = "diff", !.batch = B]
    <2>1. n = [m EXCEPT !.last = end, !.full = full]
      BY DEF Listed, BatchEnd, BatchOf
    <2> HIDE DEF n, end, full, B
    <2>2. DOMAIN m = Fields /\ m.filter = r.filter /\ m.saved = r.saved /\ m.pc = "diff"
      BY DEF Fields
    <2> HIDE DEF m
    <2> QED
      BY <2>1, <2>2 DEF Fields
  <1>3. AfterChanges(S, r, R) = IF R = {} THEN Finish(a) ELSE IF n.batch = {} THEN Skip(n) ELSE n
    BY DEF AfterChanges
  <1> HIDE DEF a, n
  <1>4. Going(Finish(a), r.saved) /\ Going(Skip(n), r.saved)
    BY <1>1, <1>2, FinishGoing, SkipGoing
  <1>5. Going(n, r.saved)
    BY <1>2 DEF Going, BatchPcs
  <1> QED
    BY <1>3, <1>4, <1>5

LEMMA BatchGoing ==
  ASSUME NEW x \in Replicator, DOMAIN run = Replicator, DOMAIN run[x] = Fields,
         Checkpointed(run[x].filter), Step(x), run[x].pc \in {"changes"} \union BatchPcs
  PROVE  Going(run'[x], run[x].saved)
  <1> DEFINE r == run[x]
             Goal == \E e : run' = [run EXCEPT ![x] = e] /\ Going(e, r.saved)
  <1> SUFFICES Goal
    OBVIOUS
  <1>1. CASE FetchChanges(x)
    BY <1>1, ListedGoing DEF FetchChanges, Reads
  <1>2. CASE Diff(x)
    <2> DEFINE M == UNION {{[id |-> b.id, rev |-> v] :
                              v \in MissingRevs(Nodes(db[Target[x]], b.id), b.revs)} : b \in r.batch}
               e == [r EXCEPT !.pc = "get", !.wanted = M, !.batch = {}]
    <2>1. run' = [run EXCEPT ![x] = IF M = {} THEN Skip(r) ELSE e]
      BY <1>2 DEF Diff, Reads
    <2>2. Going(e, r.saved)
      <3> HIDE DEF M
      <3> QED
        BY DEF Going, Fields, BatchPcs
    <2> HIDE DEF M, e
    <2> QED
      BY <2>1, <2>2, SkipGoing
  <1>3. CASE Get(x)
    <2> SUFFICES ASSUME NEW W, NEW G, NEW D,
                        run' = [run EXCEPT ![x] = Fetched([r EXCEPT !.wanted = W, !.gone = G, !.docs = D])]
                 PROVE  Goal
      BY <1>3 DEF Get, Reads
    <2> DEFINE n == [r EXCEPT !.wanted = W, !.gone = G, !.docs = D]
    <2>1. DOMAIN n = Fields /\ n.saved = r.saved
      BY DEF Fields
    <2> HIDE DEF n
    <2>2. Going(Fetched(n), r.saved)
      BY <2>1, FetchedGoing
    <2> QED
      BY <2>2 DEF n
  <1>4. CASE Check(x)
    <2>1. PICK g \in r.gone :
            Reads(x, Fetched([r EXCEPT
              !.gone = @ \ {g}, !.failed = @ \/ g.rev \in ListedRevs(db[Source[x]], g.id)]))
      BY <1>4 DEF Check
    <2> DEFINE n == [r EXCEPT
                       !.gone = @ \ {g}, !.failed = @ \/ g.rev \in ListedRevs(db[Source[x]], g.id)]
    <2>2. DOMAIN n = Fields /\ n.saved = r.saved
      BY DEF Fields
    <2>3. run' = [run EXCEPT ![x] = Fetched(n)]
      BY <2>1 DEF Reads
    <2> HIDE DEF n
    <2>4. Going(Fetched(n), r.saved)
      BY <2>2, FetchedGoing
    <2> QED
      BY <2>3, <2>4
  <1>5. ASSUME NEW lost, lost \in SUBSET r.docs, WriteDocs(x, lost)
        PROVE  Goal
    <2> DEFINE n == [r EXCEPT !.docs = {}, !.failed = @ \/ BatchFailed(r.docs, lost)]
    <2>1. DOMAIN n = Fields /\ n.saved = r.saved /\ n.filter = r.filter
      BY DEF Fields
    <2>2. run' = [run EXCEPT ![x] = Written(n)]
      BY <1>5 DEF WriteDocs
    <2> HIDE DEF n
    <2>3. Going(Written(n), r.saved)
      BY <2>1, WrittenGoing
    <2> QED
      BY <2>2, <2>3
  <1>6. CASE NothingWritten(x)
    BY <1>6, WrittenGoing DEF NothingWritten, Reads
  <1>7. CASE ReadTarget(x) \/ ReadSource(x) \/ Probe(x) \/ ProbeLost(x) \/ ReadHistory(x)
             \/ HistoryUnread(x) \/ CheckpointTarget(x) \/ CheckpointSource(x)
    BY <1>7 DEF ReadTarget, ReadSource, Probe, ProbeLost, ReadHistory, HistoryUnread, CheckpointTarget,
                CheckpointSource, At, BatchPcs
  <1> QED
    BY <1>1, <1>2, <1>3, <1>4, <1>5, <1>6, <1>7 DEF Step

\* The checkpoint that some hold under a key.
Look(L, k) == IF k \in DOMAIN L THEN L[k] ELSE NoCheckpoint

KeyOf(r) == <<r.ids, r.filter>>

\* Where a run resumes, of its checkpoints and whether the source refuses them.
Resumes(scp, tcp, refuses) ==
  IF tcp = NoCheckpoint \/ (scp = NoCheckpoint /\ ~refuses) THEN 0
  ELSE IF scp = NoCheckpoint THEN tcp.last ELSE CompareCheckpoints(scp, tcp)

\* What the checkpoints say of a run that is the only one to write them.
Progress(r, scp, tcp, refuses) ==
  /\ r.pc \in {"read_source", "probe"} => r.tcp = tcp /\ tcp # NoCheckpoint
  /\ r.pc = "probe" => scp = NoCheckpoint
  /\ r.pc \in {"changes"} \union BatchPcs => r.saved <= Resumes(scp, tcp, refuses)
  /\ r.pc = "cp_source" => tcp # NoCheckpoint /\ tcp.last = r.since /\ tcp.session = r.session
  /\ r.pc = "done" => r.since <= Resumes(scp, tcp, refuses)

SavedRun(dbs, locs, p, x, r) ==
  r.ids = IdsIn(dbs, x) /\ r.filter.kind # "custom" /\ ~p.sameIds =>
    Progress(r, Look(locs[Source[x]], KeyOf(r)), Look(locs[Target[x]], KeyOf(r)),
             Source[x] \in p.readOnly)

\* A source that refuses checkpoints has none of a run that reads it.
NoneOwn(n, L) == \A k \in DOMAIN L : k[1][1][1] # n

SavedInv ==
  /\ \A n \in policy.readOnly : NoneOwn(n, local[n]) /\ NoneOwn(n, backup[n].local)
  /\ \A x \in Replicator : SavedRun(db, local, policy, x, run[x])

\* No two replicators have the same databases.
Lone == \A p \in Situations : \A x, y \in p.runs : Source[x] = Source[y] /\ Target[x] = Target[y] => x = y

LEMMA NoneIsCheckpoint == IsCheckpoint(NoCheckpoint)
  BY DEF IsCheckpoint, NoCheckpoint

LEMMA LookIs ==
  ASSUME NEW dbs, NEW p, NEW n, NEW L, StoredOk(dbs, p, n, L), NEW k
  PROVE  IsCheckpoint(Look(L, k))
  BY NoneIsCheckpoint DEF Look, StoredOk

LEMMA ResumesIs ==
  ASSUME NEW scp, IsCheckpoint(scp), NEW tcp, IsCheckpoint(tcp), NEW refuses
  PROVE  Resumes(scp, tcp, refuses) \in Nat
  <1>1. CompareCheckpoints(scp, tcp) \in Nat
    BY CompareIs
  <1> QED
    BY <1>1 DEF Resumes, IsCheckpoint

\* A checkpoint that is built is one.
LEMMA BuiltIsSome ==
  ASSUME NEW prior \in Seq(Entry), NEW session \in Nat, NEW last \in Nat,
         NEW cp, cp = BuildCheckpoint(session, last, prior)
  PROVE  IsCheckpoint(cp) /\ cp.last = last /\ cp.session = session /\ cp # NoCheckpoint
  <1> DEFINE entry == [last |-> last, session |-> session]
             others == OthersOf(session, prior)
             all == <<entry>> \o others
             n == IF Len(all) < MaxHistory THEN Len(all) ELSE MaxHistory
  <1>1. entry \in Entry
    BY DEF Entry
  <1>2. IsCheckpoint(cp) /\ cp.last = last /\ cp.session = session
    BY <1>1, BuildIs
  <1>3. others \in Seq(Entry)
    BY OthersIs
  <1>4. all \in Seq(Entry) /\ Len(all) >= 1
    <2> HIDE DEF entry, others
    <2> QED
      BY <1>1, <1>3
  <1>5. cp.history = SubSeq(all, 1, n)
    BY DEF BuildCheckpoint
  <1> HIDE DEF all
  <1>6. n \in Nat /\ 1 <= n /\ n <= Len(all)
    BY <1>4, ReplicationAssumption
  <1> HIDE DEF n
  <1>7. Len(SubSeq(all, 1, n)) = n
    BY <1>4, <1>6
  <1>8. cp.history # <<>>
    BY <1>5, <1>6, <1>7
  <1> QED
    BY <1>2, <1>8 DEF NoCheckpoint

\* The two of one run agree.
LEMMA OwnAgree ==
  ASSUME NEW scp, NEW tcp, NEW s \in Nat, scp.last = s, tcp.last = s, scp.session = tcp.session
  PROVE  CompareCheckpoints(scp, tcp) = s
  BY DEF CompareCheckpoints, PickCommon

LEMMA PutLook ==
  ASSUME NEW L, NEW k, NEW cp, NEW j
  PROVE  Look(Put(L, k, cp), j) = IF j = k THEN cp ELSE Look(L, j)
  BY DEF Put, Look

\* A run that is idle, or stays where it is.
LEMMA IdleSaved ==
  ASSUME NEW dbs, NEW locs, NEW p, NEW x
  PROVE  SavedRun(dbs, locs, p, x, Idle)
  BY IdleIs DEF SavedRun, Progress, BatchPcs

LEMMA SavedKept ==
  ASSUME NEW dbs, NEW locs, NEW p, NEW next, NEW more, Evolve(dbs, next, p),
         NEW x \in Replicator, NEW r, RunOk(dbs, p, x, r), SavedRun(dbs, locs, p, x, r),
         r.pc # "idle" /\ r.ids = IdsIn(next, x) =>
           /\ Look(more[Source[x]], KeyOf(r)) = Look(locs[Source[x]], KeyOf(r))
           /\ Look(more[Target[x]], KeyOf(r)) = Look(locs[Target[x]], KeyOf(r))
  PROVE  SavedRun(next, more, p, x, r)
  <1>1. CASE r.pc = "idle"
    BY <1>1 DEF SavedRun, Progress, BatchPcs
  <1>2. CASE r.pc # "idle"
    <2>1. r.ids = IdsIn(next, x) => r.ids = IdsIn(dbs, x)
      BY <1>2, Busy, IdsKept
    <2> QED
      BY <1>2, <2>1 DEF SavedRun
  <1> QED
    BY <1>1, <1>2

LEMMA FromGoing ==
  ASSUME NEW r, DOMAIN r = Fields, NEW s, NEW b
  PROVE  Going(From(r, s), s) /\ Going([From(r, s) EXCEPT !.readOnly = b], s)
  <1> DEFINE a == From(r, s)
  <1>1. DOMAIN a = Fields /\ a.pc = "changes" /\ a.saved = s
    BY DEF From, Fields
  <1> HIDE DEF a
  <1>2. DOMAIN [a EXCEPT !.readOnly = b] = Fields /\ [a EXCEPT !.readOnly = b].pc = "changes"
        /\ [a EXCEPT !.readOnly = b].saved = s
    BY <1>1 DEF Fields
  <1> QED
    BY <1>1, <1>2 DEF Going, BatchPcs, a

LEMMA SavedGoing ==
  ASSUME NEW r, DOMAIN r = Fields
  PROVE  Going(Saved(r), r.since)
  <1> DEFINE n == [r EXCEPT !.saved = r.since, !.prior = <<>>]
             m == [n EXCEPT !.pc = "changes"]
             e == Ended(n)
  <1>1. DOMAIN n = Fields /\ n.since = r.since /\ n.saved = r.since
    BY DEF Fields
  <1>2. Saved(r) = IF r.full /\ ~r.final THEN m ELSE e
    BY DEF Saved
  <1> HIDE DEF n
  <1>3. m.pc = "changes" /\ m.saved = r.since
    BY <1>1 DEF Fields
  <1>4. e.pc = "done" /\ e.since = r.since
    <2> HIDE DEF e
    <2>1. e.pc = "done" /\ e.since = n.since
      BY EndedIs DEF e
    <2> QED
      BY <1>1, <2>1
  <1> HIDE DEF m, e
  <1> QED
    BY <1>2, <1>3, <1>4 DEF Going, BatchPcs

LEMMA GoingProgress ==
  ASSUME NEW e, NEW s, Going(e, s), NEW scp, NEW tcp, NEW refuses, s <= Resumes(scp, tcp, refuses)
  PROVE  Progress(e, scp, tcp, refuses)
  BY DEF Going, Progress, BatchPcs

\* A run's own call.
LEMMA OwnStep ==
  ASSUME ReplInv, NEW x \in Replicator, Step(x), SavedRun(db, local, policy, x, run[x]),
         Source[x] \in policy.readOnly => NoneOwn(Source[x], local[Source[x]])
  PROVE  SavedRun(db', local', policy, x, run'[x])
  <1> DEFINE r == run[x]
             k == KeyOf(r)
             scp == Look(local[Source[x]], k)
             tcp == Look(local[Target[x]], k)
             refuses == Source[x] \in policy.readOnly
             Told(e) == Progress(e, Look(local'[Source[x]], k), Look(local'[Target[x]], k), refuses)
             Goal == \E e : run' = [run EXCEPT ![x] = e] /\ Told(e)
  <1>1. /\ RunOk(db, policy, x, r) /\ DOMAIN run = Replicator /\ DOMAIN local = Node
        /\ StoredOk(db, policy, Source[x], local[Source[x]])
        /\ StoredOk(db, policy, Target[x], local[Target[x]])
        /\ Source[x] \in Node /\ Target[x] \in Node /\ Source[x] # Target[x]
    BY SoundAt DEF ReplInv, Sound
  <1>2. r.pc # "idle"
    BY DEF Step, ReadTarget, ReadSource, Probe, ProbeLost, FetchChanges, Diff, Get, Check, WriteDocs,
           NothingWritten, ReadHistory, HistoryUnread, CheckpointTarget, CheckpointSource, At
  <1>3. /\ DOMAIN r = Fields /\ Carried(r) /\ Keeps(policy, x) /\ Known(db, r.ids, x)
        /\ r.readOnly => refuses
    BY <1>1, <1>2, Busy
  <1>4. run'[x].ids = r.ids /\ run'[x].filter = r.filter /\ Evolve(db, db', policy)
    <2>1. PICK e : run' = [run EXCEPT ![x] = e] /\ SameRun(e, r)
      BY <1>3, StepSame
    <2> QED
      BY <1>1, <2>1, ReplStep DEF SameRun
  <1>5. KeyOf(run'[x]) = k
    BY <1>4 DEF KeyOf
  <1>6. r.ids = IdsIn(db', x) => r.ids = IdsIn(db, x)
    BY <1>3, <1>4, IdsKept
  <1> SUFFICES ASSUME r.ids = IdsIn(db, x), r.filter.kind # "custom", ~policy.sameIds
               PROVE  Told(run'[x])
    <2> HIDE DEF r, k
    <2> QED
      BY <1>4, <1>5, <1>6 DEF SavedRun
  <1> SUFFICES Goal
    <2> HIDE DEF Told
    <2> QED
      BY <1>1
  <1>7. Progress(r, scp, tcp, refuses) /\ Checkpointed(r.filter)
    BY DEF SavedRun, Checkpointed
  <1>8. IsCheckpoint(scp) /\ IsCheckpoint(tcp) /\ Resumes(scp, tcp, refuses) \in Nat
    BY <1>1, LookIs, ResumesIs
  <1>9. refuses => scp = NoCheckpoint
    <2>1. k[1][1][1] = Source[x]
      BY DEF KeyOf, IdsIn
    <2> HIDE DEF k
    <2> QED
      BY <2>1 DEF NoneOwn, Look
  <1>10. ReadFrom(Source[x], Key(x)) = scp /\ ReadFrom(Target[x], Key(x)) = tcp
    BY DEF ReadFrom, Key, ReplicationId, Fingerprint, Look, KeyOf
  <1>11. ASSUME local' = local, NEW e, run' = [run EXCEPT ![x] = e], Progress(e, scp, tcp, refuses)
         PROVE  Goal
    BY <1>11
  <1>12. ASSUME local' = local, NEW e, run' = [run EXCEPT ![x] = e], NEW s, Going(e, s),
                s <= Resumes(scp, tcp, refuses)
         PROVE  Goal
    BY <1>11, <1>12, GoingProgress
  <1>13. CASE ReadTarget(x)
    <2> HIDE DEF Goal, scp, tcp
    <2>1. local' = local
          /\ run' = [run EXCEPT ![x] = IF tcp = NoCheckpoint THEN From(r, 0)
                                       ELSE [r EXCEPT !.pc = "read_source", !.tcp = tcp]]
      BY <1>10, <1>13 DEF ReadTarget, Reads
    <2>2. CASE tcp = NoCheckpoint
      <3>1. Going(From(r, 0), 0)
        BY <1>3, FromGoing
      <3>2. 0 <= Resumes(scp, tcp, refuses)
        BY <1>8
      <3> QED
        BY <1>12, <2>1, <2>2, <3>1, <3>2
    <2>3. CASE tcp # NoCheckpoint
      <3> DEFINE e == [r EXCEPT !.pc = "read_source", !.tcp = tcp]
      <3>1. e.pc = "read_source" /\ e.tcp = tcp
        BY <1>3 DEF Fields
      <3>2. run' = [run EXCEPT ![x] = e]
        BY <2>1, <2>3
      <3> HIDE DEF e
      <3>3. Progress(e, scp, tcp, refuses)
        BY <2>3, <3>1 DEF Progress, BatchPcs
      <3> QED
        BY <1>11, <2>1, <3>2, <3>3
    <2> QED
      BY <2>2, <2>3
  <1>14. CASE ReadSource(x)
    <2>1. r.pc = "read_source" /\ r.tcp = tcp /\ tcp # NoCheckpoint
      BY <1>7, <1>14 DEF ReadSource, At, Progress
    <2> HIDE DEF Goal, scp, tcp
    <2>2. local' = local
          /\ run' = [run EXCEPT ![x] = IF scp = NoCheckpoint THEN [r EXCEPT !.pc = "probe"]
                                       ELSE From(r, CompareCheckpoints(scp, tcp))]
      BY <1>10, <1>14, <2>1 DEF ReadSource, Reads
    <2>3. CASE scp = NoCheckpoint
      <3> DEFINE e == [r EXCEPT !.pc = "probe"]
      <3>1. e.pc = "probe" /\ e.tcp = r.tcp
        BY <1>3 DEF Fields
      <3>2. run' = [run EXCEPT ![x] = e]
        BY <2>2, <2>3
      <3> HIDE DEF e
      <3>3. Progress(e, scp, tcp, refuses)
        BY <2>1, <2>3, <3>1 DEF Progress, BatchPcs
      <3> QED
        BY <1>11, <2>2, <3>2, <3>3
    <2>4. CASE scp # NoCheckpoint
      <3> DEFINE s == CompareCheckpoints(scp, tcp)
      <3>1. s = Resumes(scp, tcp, refuses)
        BY <2>1, <2>4 DEF Resumes
      <3> HIDE DEF s
      <3>2. Going(From(r, s), s)
        BY <1>3, FromGoing
      <3>3. s <= Resumes(scp, tcp, refuses)
        BY <1>8, <3>1
      <3> QED
        BY <1>12, <2>2, <2>4, <3>2, <3>3 DEF s
    <2> QED
      BY <2>3, <2>4
  <1>15. CASE Probe(x)
    <2>1. r.pc = "probe" /\ r.tcp = tcp /\ tcp # NoCheckpoint /\ scp = NoCheckpoint
      BY <1>7, <1>15 DEF Probe, At, Progress
    <2>2. CASE refuses
      <3> DEFINE s == r.tcp.last
                 e == [From(r, s) EXCEPT !.readOnly = TRUE]
      <3>1. local' = local /\ run' = [run EXCEPT ![x] = e]
        BY <1>15, <2>2 DEF Probe, Reads
      <3>2. s = Resumes(scp, tcp, refuses)
        <4> HIDE DEF scp, tcp
        <4> QED
          BY <2>1, <2>2 DEF Resumes
      <3> HIDE DEF s
      <3>3. Going(e, s) /\ s <= Resumes(scp, tcp, refuses)
        <4>1. Going(e, s)
          BY <1>3, FromGoing
        <4> QED
          BY <1>8, <3>2, <4>1
      <3> HIDE DEF e, Goal
      <3> QED
        BY <1>12, <3>1, <3>3
    <2>3. CASE ~refuses
      <3> DEFINE cp == BuildCheckpoint(r.session, 0, <<>>)
      <3>1. /\ local' = [local EXCEPT ![Source[x]] = Put(local[Source[x]], k, cp)]
            /\ run' = [run EXCEPT ![x] = From(r, 0)]
        BY <1>15, <2>3 DEF Probe, PutLocal, Put, Key, ReplicationId, Fingerprint, KeyOf
      <3>2. IsCheckpoint(cp)
        <4>1. <<>> \in Seq(Entry) /\ 0 \in Nat /\ r.session \in Nat
          BY <1>3 DEF Carried
        <4> QED
          BY <4>1, BuiltIsSome
      <3> HIDE DEF cp, k
      <3>3. Look(local'[Source[x]], k) = cp /\ local'[Target[x]] = local[Target[x]]
        BY <1>1, <3>1, PutLook
      <3>4. Resumes(cp, tcp, refuses) \in Nat /\ Going(From(r, 0), 0)
        BY <1>3, <1>8, <3>2, ResumesIs, FromGoing
      <3>5. 0 <= Resumes(cp, tcp, refuses)
        BY <3>4
      <3>6. Progress(From(r, 0), cp, tcp, refuses)
        BY <3>4, <3>5, GoingProgress
      <3> QED
        BY <3>1, <3>3, <3>6
    <2> QED
      BY <2>2, <2>3
  <1>16. CASE ProbeLost(x)
    <2>1. local' = local /\ run' = [run EXCEPT ![x] = From(r, 0)]
      BY <1>16 DEF ProbeLost
    <2> HIDE DEF Goal, scp, tcp
    <2>2. Going(From(r, 0), 0)
      BY <1>3, FromGoing
    <2>3. 0 <= Resumes(scp, tcp, refuses)
      BY <1>8
    <2> QED
      BY <1>12, <2>1, <2>2, <2>3
  <1>17. CASE r.pc \in {"changes"} \union BatchPcs
    <2>1. Going(run'[x], r.saved) /\ r.saved <= Resumes(scp, tcp, refuses)
      BY <1>1, <1>3, <1>7, <1>17, BatchGoing DEF Progress
    <2>2. local' = local /\ \E e : run' = [run EXCEPT ![x] = e]
      <3>1. CASE FetchChanges(x) \/ Diff(x) \/ Get(x) \/ Check(x) \/ NothingWritten(x)
        BY <3>1 DEF FetchChanges, Diff, Get, Check, NothingWritten, Reads
      <3>2. CASE \E lost \in SUBSET run[x].docs : WriteDocs(x, lost)
        BY <3>2 DEF WriteDocs
      <3>3. CASE ReadTarget(x) \/ ReadSource(x) \/ Probe(x) \/ ProbeLost(x) \/ ReadHistory(x)
                 \/ HistoryUnread(x) \/ CheckpointTarget(x) \/ CheckpointSource(x)
        BY <1>17, <3>3 DEF ReadTarget, ReadSource, Probe, ProbeLost, ReadHistory, HistoryUnread, CheckpointTarget,
                           CheckpointSource, At, BatchPcs
      <3> QED
        BY <3>1, <3>2, <3>3 DEF Step
    <2> HIDE DEF Goal, scp, tcp
    <2>3. PICK e : run' = [run EXCEPT ![x] = e]
      BY <2>2
    <2>4. run'[x] = e
      BY <1>1, <2>3
    <2> QED
      BY <1>12, <2>1, <2>2, <2>3, <2>4
  <1>18. CASE ReadHistory(x) \/ HistoryUnread(x)
    <2>1. local' = local /\ \E h : run' = [run EXCEPT ![x] = [r EXCEPT !.pc = "cp_target", !.prior = h]]
                                   \/ run' = [run EXCEPT ![x] = [r EXCEPT !.pc = "cp_target"]]
      BY <1>18 DEF ReadHistory, HistoryUnread, Reads
    <2>2. PICK h : run' = [run EXCEPT ![x] = [r EXCEPT !.pc = "cp_target", !.prior = h]]
                   \/ run' = [run EXCEPT ![x] = [r EXCEPT !.pc = "cp_target"]]
      BY <2>1
    <2> DEFINE e == [r EXCEPT !.pc = "cp_target", !.prior = h]
               g == [r EXCEPT !.pc = "cp_target"]
    <2>3. e.pc = "cp_target" /\ g.pc = "cp_target"
      BY <1>3 DEF Fields
    <2>4. run' = [run EXCEPT ![x] = e] \/ run' = [run EXCEPT ![x] = g]
      BY <2>2
    <2> HIDE DEF e, g, Goal, scp, tcp
    <2>5. Progress(e, scp, tcp, refuses) /\ Progress(g, scp, tcp, refuses)
      BY <2>3 DEF Progress, BatchPcs
    <2> QED
      BY <1>11, <2>1, <2>4, <2>5
  <1> DEFINE cp == BuildCheckpoint(r.session, r.since, r.prior)
  <1>19. /\ IsCheckpoint(cp) /\ cp.last = r.since /\ cp.session = r.session /\ cp # NoCheckpoint
         /\ r.since \in Nat
    <2>1. r.session \in Nat /\ r.since \in Nat /\ r.prior \in Seq(Entry)
      BY <1>3 DEF Carried
    <2> HIDE DEF r
    <2> QED
      BY <2>1, BuiltIsSome
  <1>20. CASE CheckpointTarget(x)
    <2>1. /\ local' = [local EXCEPT ![Target[x]] = Put(local[Target[x]], k, cp)]
          /\ run' = [run EXCEPT ![x] = IF r.readOnly THEN Saved(r) ELSE [r EXCEPT !.pc = "cp_source"]]
      BY <1>1, <1>20 DEF CheckpointTarget, PutLocal, Put, Key, ReplicationId, Fingerprint, KeyOf, NewCheckpoint
    <2> HIDE DEF cp, k
    <2>2. Look(local'[Target[x]], k) = cp /\ local'[Source[x]] = local[Source[x]]
      BY <1>1, <2>1, PutLook
    <2>3. CASE r.readOnly
      <3>1. scp = NoCheckpoint /\ refuses
        BY <1>3, <1>9, <2>3
      <3>2. Resumes(scp, cp, refuses) = r.since
        BY <1>19, <3>1 DEF Resumes
      <3>3. Going(Saved(r), r.since) /\ r.since <= Resumes(scp, cp, refuses)
        BY <1>3, <1>19, <3>2, SavedGoing
      <3>4. Progress(Saved(r), scp, cp, refuses)
        BY <3>3, GoingProgress
      <3> QED
        BY <2>1, <2>2, <2>3, <3>4
    <2>4. CASE ~r.readOnly
      <3> DEFINE e == [r EXCEPT !.pc = "cp_source"]
      <3>1. e.pc = "cp_source" /\ e.since = r.since /\ e.session = r.session
        BY <1>3 DEF Fields
      <3>2. run' = [run EXCEPT ![x] = e]
        BY <2>1, <2>4
      <3> HIDE DEF e
      <3>3. Progress(e, scp, cp, refuses)
        BY <1>19, <3>1 DEF Progress, BatchPcs
      <3> QED
        BY <2>2, <3>2, <3>3
    <2> QED
      BY <2>3, <2>4
  <1>21. CASE CheckpointSource(x)
    <2>1. tcp # NoCheckpoint /\ tcp.last = r.since /\ tcp.session = r.session
      BY <1>7, <1>21 DEF CheckpointSource, At, Progress
    <2>2. CASE refuses
      <3> DEFINE n == [r EXCEPT !.readOnly = TRUE]
      <3>1. local' = local /\ run' = [run EXCEPT ![x] = Saved(n)]
        BY <1>21, <2>2 DEF CheckpointSource
      <3>2. DOMAIN n = Fields /\ n.since = r.since
        BY <1>3 DEF Fields
      <3> HIDE DEF n, Goal, scp, tcp
      <3>3. Resumes(scp, tcp, refuses) = r.since
        BY <1>9, <2>1, <2>2 DEF Resumes
      <3>4. Going(Saved(n), r.since) /\ r.since <= Resumes(scp, tcp, refuses)
        BY <1>19, <3>2, <3>3, SavedGoing
      <3> QED
        BY <1>12, <3>1, <3>4
    <2>3. CASE ~refuses
      <3>1. /\ local' = [local EXCEPT ![Source[x]] = Put(local[Source[x]], k, cp)]
            /\ run' = [run EXCEPT ![x] = Saved(r)]
        BY <1>21, <2>3 DEF CheckpointSource, PutLocal, Put, Key, ReplicationId, Fingerprint, KeyOf, NewCheckpoint
      <3> HIDE DEF cp, k
      <3>2. Look(local'[Source[x]], k) = cp /\ local'[Target[x]] = local[Target[x]]
        BY <1>1, <3>1, PutLook
      <3>3. Resumes(cp, tcp, refuses) = r.since
        BY <1>19, <2>1, OwnAgree DEF Resumes
      <3>4. Going(Saved(r), r.since) /\ r.since <= Resumes(cp, tcp, refuses)
        BY <1>3, <1>19, <3>3, SavedGoing
      <3>5. Progress(Saved(r), cp, tcp, refuses)
        BY <3>4, GoingProgress
      <3> QED
        BY <3>1, <3>2, <3>5
    <2> QED
      BY <2>2, <2>3
  <1>22. FetchChanges(x) \/ Diff(x) \/ Get(x) \/ Check(x) \/ NothingWritten(x)
           \/ (\E lost \in SUBSET run[x].docs : WriteDocs(x, lost)) => r.pc \in {"changes"} \union BatchPcs
    BY DEF FetchChanges, Diff, Get, Check, NothingWritten, WriteDocs, At, BatchPcs
  <1> QED
    BY <1>13, <1>14, <1>15, <1>16, <1>17, <1>18, <1>20, <1>21, <1>22 DEF Step

\* What it stores goes under its own key, and not to a source that refuses.
LEMMA StepStores ==
  ASSUME NEW x \in Replicator, Step(x), DOMAIN local = Node, NEW n \in Node
  PROVE  /\ UNCHANGED <<policy, backup>>
         /\ \/ local'[n] = local[n]
            \/ /\ n = Target[x] \/ n \notin policy.readOnly
               /\ \E cp : local'[n] = Put(local[n], KeyOf(run[x]), cp)
  <1>1. CASE Probe(x)
    <2>1. UNCHANGED <<policy, backup>> /\ (Source[x] \in policy.readOnly => local' = local)
      BY <1>1 DEF Probe, Reads
    <2>2. Source[x] \notin policy.readOnly =>
            \E cp : local' = [local EXCEPT ![Source[x]] = Put(@, KeyOf(run[x]), cp)]
      BY <1>1 DEF Probe, PutLocal, Put, Key, ReplicationId, Fingerprint, KeyOf
    <2> QED
      BY <2>1, <2>2
  <1>2. CASE CheckpointTarget(x)
    BY <1>2 DEF CheckpointTarget, PutLocal, Put, Key, ReplicationId, Fingerprint, KeyOf
  <1>3. CASE CheckpointSource(x)
    <2>1. UNCHANGED <<policy, backup>> /\ (Source[x] \in policy.readOnly => local' = local)
      BY <1>3 DEF CheckpointSource
    <2>2. Source[x] \notin policy.readOnly =>
            \E cp : local' = [local EXCEPT ![Source[x]] = Put(@, KeyOf(run[x]), cp)]
      BY <1>3 DEF CheckpointSource, PutLocal, Put, Key, ReplicationId, Fingerprint, KeyOf
    <2> QED
      BY <2>1, <2>2
  <1>4. CASE ReadTarget(x) \/ ReadSource(x) \/ ProbeLost(x)
    BY <1>4 DEF ReadTarget, ReadSource, ProbeLost, Reads
  <1>5. CASE FetchChanges(x) \/ Diff(x) \/ Get(x) \/ Check(x) \/ NothingWritten(x)
    BY <1>5 DEF FetchChanges, Diff, Get, Check, NothingWritten, Reads
  <1>6. CASE \E lost \in SUBSET run[x].docs : WriteDocs(x, lost)
    BY <1>6 DEF WriteDocs
  <1>7. CASE ReadHistory(x) \/ HistoryUnread(x)
    BY <1>7 DEF ReadHistory, HistoryUnread, Reads
  <1> QED
    BY <1>1, <1>2, <1>3, <1>4, <1>5, <1>6, <1>7 DEF Step

\* Only the runs of a situation are ever busy.
BusyRuns == \A x \in Replicator : x \in policy.runs \/ run[x] = Idle

LEMMA StepSaved ==
  ASSUME Lone, ReplInv, BusyRuns, SavedInv, NEW x \in Replicator, Step(x)
  PROVE  SavedInv'
  <1> DEFINE k == KeyOf(run[x])
  <1>1. /\ RunOk(db, policy, x, run[x]) /\ DOMAIN run = Replicator /\ DOMAIN local = Node
        /\ policy \in Situations
        /\ Source[x] \in Node /\ Target[x] \in Node /\ Source[x] # Target[x]
    BY SoundAt DEF ReplInv, Sound
  <1>2. run[x].pc # "idle"
    BY DEF Step, ReadTarget, ReadSource, Probe, ProbeLost, FetchChanges, Diff, Get, Check, WriteDocs,
           NothingWritten, ReadHistory, HistoryUnread, CheckpointTarget, CheckpointSource, At
  <1>3. x \in policy.runs /\ Known(db, run[x].ids, x) /\ DOMAIN run[x] = Fields
    BY <1>1, <1>2, IdleIs, Busy DEF BusyRuns
  <1>4. /\ UNCHANGED <<policy, backup>>
        /\ \A n \in Node : \/ local'[n] = local[n]
                           \/ /\ n = Target[x] \/ n \notin policy.readOnly
                              /\ \E cp : local'[n] = Put(local[n], k, cp)
    BY <1>1, StepStores
  <1>5. Evolve(db, db', policy) /\ \A y \in Replicator : y # x => run'[y] = run[y]
    <2>1. PICK e : run' = [run EXCEPT ![x] = e]
      BY <1>3, StepSame
    <2> QED
      BY <1>1, <2>1, ReplStep
  <1>6. ASSUME NEW n \in policy'.readOnly
        PROVE  NoneOwn(n, local'[n]) /\ NoneOwn(n, backup'[n].local)
    <2>1. n \in Node /\ NoneOwn(n, local[n]) /\ NoneOwn(n, backup[n].local)
      BY <1>1, <1>4, ReplicationAssumption DEF SavedInv
    <2>2. k[1][1][1] = Source[x]
      BY <1>3 DEF Known, KeyOf
    <2> HIDE DEF k
    <2>3. CASE local'[n] = local[n]
      BY <1>4, <2>1, <2>3
    <2>4. CASE local'[n] # local[n]
      <3>1. PICK cp : local'[n] = Put(local[n], k, cp)
        BY <1>4, <2>1, <2>4
      <3>2. n # Source[x]
        BY <1>1, <1>4, <2>1, <2>4
      <3>3. DOMAIN local'[n] = DOMAIN local[n] \union {k}
        BY <3>1 DEF Put
      <3> QED
        BY <1>4, <2>1, <2>2, <3>2, <3>3 DEF NoneOwn
    <2> QED
      BY <2>3, <2>4
  <1>7. ASSUME NEW y \in Replicator
        PROVE  SavedRun(db', local', policy', y, run'[y])
    <2>1. CASE y = x
      <3>1. Source[x] \in policy.readOnly => NoneOwn(Source[x], local[Source[x]])
        BY DEF SavedInv
      <3>2. SavedRun(db', local', policy, x, run'[x])
        BY <3>1, OwnStep DEF SavedInv
      <3> QED
        BY <1>4, <2>1, <3>2
    <2>2. CASE y # x
      <3> DEFINE r == run[y]
      <3>1. RunOk(db, policy, y, r) /\ Source[y] \in Node /\ Target[y] \in Node
        BY SoundAt DEF ReplInv
      <3>2. ASSUME r.pc # "idle"
            PROVE  KeyOf(r) # k
        <4>1. y \in policy.runs /\ Known(db, r.ids, y)
          BY <3>1, <3>2, IdleIs, Busy DEF BusyRuns
        <4>2. r.ids # run[x].ids
          <5> SUFFICES ASSUME r.ids = run[x].ids
                       PROVE  FALSE
            OBVIOUS
          <5>1. Source[x] = Source[y] /\ Target[x] = Target[y]
            BY <1>3, <4>1, SamePeers
          <5> QED
            BY <1>1, <1>3, <2>2, <4>1, <5>1 DEF Lone
        <4> QED
          BY <4>2 DEF KeyOf
      <3> HIDE DEF k
      <3>3. ASSUME r.pc # "idle", NEW n \in Node
            PROVE  Look(local'[n], KeyOf(r)) = Look(local[n], KeyOf(r))
        BY <1>4, <3>2, <3>3, PutLook
      <3>4. SavedRun(db, local, policy, y, r)
        BY DEF SavedInv
      <3> HIDE DEF r
      <3>5. SavedRun(db', local', policy, y, r)
        BY <1>5, <3>1, <3>3, <3>4, SavedKept
      <3> QED
        BY <1>4, <1>5, <2>2, <3>5 DEF r
    <2> QED
      BY <2>1, <2>2
  <1> QED
    BY <1>6, <1>7 DEF SavedInv

\* The databases move on under the runs.
LEMMA WorldSaved ==
  ASSUME ReplInv, SavedInv, Evolve(db, db', policy), UNCHANGED <<run, policy>>,
         \A n \in policy.readOnly : NoneOwn(n, local'[n]) /\ NoneOwn(n, backup'[n].local),
         \A n \in Node : local'[n] = local[n] \/ db'[n].uuid # db[n].uuid
  PROVE  SavedInv'
  <1>1. ASSUME NEW y \in Replicator
        PROVE  SavedRun(db', local', policy', y, run'[y])
    <2> DEFINE r == run[y]
    <2>1. RunOk(db, policy, y, r) /\ Source[y] \in Node /\ Target[y] \in Node
      BY SoundAt DEF ReplInv
    <2>2. SavedRun(db, local, policy, y, r)
      BY DEF SavedInv
    <2>3. ASSUME r.pc # "idle", r.ids = IdsIn(db', y)
          PROVE  local'[Source[y]] = local[Source[y]] /\ local'[Target[y]] = local[Target[y]]
      <3>1. r.ids = IdsIn(db, y)
        BY <2>1, <2>3, Busy, IdsKept
      <3>2. db'[Source[y]].uuid = db[Source[y]].uuid /\ db'[Target[y]].uuid = db[Target[y]].uuid
        BY <2>3, <3>1 DEF IdsIn
      <3> QED
        BY <2>1, <3>2
    <2> HIDE DEF r
    <2>4. SavedRun(db', local', policy, y, r)
      BY <2>1, <2>2, <2>3, SavedKept
    <2> QED
      BY <2>4 DEF r
  <1> QED
    BY <1>1 DEF SavedInv

\* A run that starts has not read its checkpoints, and a stopped one has none.
LEMMA OneSaved ==
  ASSUME ReplInv, SavedInv, NEW x \in Replicator, NEW e, run' = [run EXCEPT ![x] = e],
         SavedRun(db, local, policy, x, e), UNCHANGED <<db, local, policy, backup>>
  PROVE  SavedInv'
  <1>1. \A y \in Replicator : run'[y] = IF y = x THEN e ELSE run[y]
    BY DEF ReplInv, Sound
  <1>2. \A y \in Replicator : SavedRun(db, local, policy, y, run'[y])
    BY <1>1 DEF SavedInv
  <1> QED
    BY <1>2 DEF SavedInv

LEMMA StartSaved ==
  ASSUME ReplInv, SavedInv, NEW x \in Replicator, NEW f, Start(x, f)
  PROVE  SavedInv'
  <1> DEFINE r == [Idle EXCEPT !.ids = Ids(x), !.filter = f, !.session = sessions + 1,
                               !.goal = db[Source[x]].updateSeq]
             g == [r EXCEPT !.pc = "read_target"]
  <1>1. run' = [run EXCEPT ![x] = Begin(r)] /\ UNCHANGED <<db, local, policy, backup>>
    BY DEF Start
  <1>2. DOMAIN r = Fields
    BY IdleIs
  <1> HIDE DEF r
  <1>3. g.pc = "read_target" /\ SameRun(g, r) /\ SameRun(From(r, 0), r)
    BY <1>2, FromSame DEF Fields, SameRun
  <1>4. Begin(r) = IF Checkpointed(r.filter) THEN g ELSE From(r, 0)
    BY DEF Begin
  <1> HIDE DEF g
  <1>5. SavedRun(db, local, policy, x, g)
    BY <1>3 DEF SavedRun, Progress, BatchPcs
  <1>6. ~Checkpointed(r.filter) => SavedRun(db, local, policy, x, From(r, 0))
    BY <1>3 DEF SavedRun, Checkpointed, SameRun
  <1>7. SavedRun(db, local, policy, x, Begin(r))
    BY <1>4, <1>5, <1>6
  <1> QED
    BY <1>1, <1>7, OneSaved

LEMMA ApplicationSaved ==
  ASSUME ReplInv, SavedInv, Applications
  PROVE  SavedInv'
  <1>1. /\ \A n \in policy.readOnly : n \in Node /\ NoneOwn(n, local[n]) /\ NoneOwn(n, backup[n].local)
        /\ DOMAIN local = Node /\ DOMAIN backup = Node /\ DOMAIN db = Node
    BY ReplicationAssumption DEF ReplInv, Sound, SavedInv
  <1>2. ASSUME NEW n \in Node, NEW d \in Doc, NEW r \in Rev,
               Edit(n, d, r) \/ PurgeNode(n, d, r) \/ CompactNode(n)
        PROVE  SavedInv'
    <2>1. Evolve(db, db', policy) /\ UNCHANGED <<local, run, backup, policy>>
      BY <1>2, EditStep DEF Edit, PurgeNode, CompactNode, Becomes
    <2> QED
      BY <1>1, <2>1, WorldSaved
  <1>3. ASSUME NEW n \in Node, CompactNode(n)
        PROVE  SavedInv'
    <2>1. PICK e \in policy.edits : e[1] = n
      BY <1>3 DEF CompactNode
    <2>2. e[2] \in Doc /\ e[3] \in Rev
      BY <2>1, ReplicationAssumption DEF ReplInv, Sound
    <2> QED
      BY <1>2, <1>3, <2>2
  <1>4. ASSUME NEW n \in Node, DestroyNode(n)
        PROVE  SavedInv'
    <2> DEFINE none == [i \in {} |-> NoCheckpoint]
    <2>1. /\ Evolve(db, db', policy) /\ UNCHANGED <<run, backup, policy>>
          /\ local' = [local EXCEPT ![n] = none] /\ db' = [db EXCEPT ![n] = EmptyDb(@.uuid + 1)]
      BY <1>4, DestroyStep DEF DestroyNode, Destroy
    <2>2. \A m : NoneOwn(m, none)
      BY DEF NoneOwn
    <2> HIDE DEF none
    <2>3. \A m \in policy.readOnly : NoneOwn(m, local'[m])
      BY <1>1, <2>1, <2>2
    <2>4. \A m \in Node : m # n => local'[m] = local[m]
      BY <1>1, <2>1
    <2>5. db'[n].uuid # db[n].uuid
      <3>1. db[n].uuid \in Nat
        BY SeqFields DEF ReplInv, Sound
      <3>2. db'[n].uuid = db[n].uuid + 1
        BY <1>1, <2>1 DEF EmptyDb
      <3> QED
        BY <3>1, <3>2
    <2> QED
      BY <1>1, <2>1, <2>3, <2>4, <2>5, WorldSaved
  <1>5. ASSUME NEW n \in Node, TakeBackup(n)
        PROVE  SavedInv'
    <2>1. /\ UNCHANGED <<db, local, run, policy>>
          /\ backup' = [backup EXCEPT ![n] = [db |-> db[n], local |-> local[n]]]
      BY <1>5 DEF TakeBackup
    <2>2. \A m \in policy.readOnly : NoneOwn(m, local'[m]) /\ NoneOwn(m, backup'[m].local)
      BY <1>1, <2>1
    <2> QED
      BY <2>1, <2>2, SameWorld, WorldSaved
  <1>6. ASSUME NEW n \in Node, Restore(n)
        PROVE  SavedInv'
    <2>1. /\ UNCHANGED <<policy, backup>> /\ local' = [local EXCEPT ![n] = backup[n].local]
          /\ run' = [x \in Replicator |-> Idle]
      BY <1>6 DEF Restore
    <2>2. \A m \in policy.readOnly : NoneOwn(m, local'[m])
      BY <1>1, <2>1
    <2>3. \A x \in Replicator : SavedRun(db', local', policy', x, run'[x])
      BY <2>1, IdleSaved
    <2> QED
      BY <1>1, <2>1, <2>2, <2>3 DEF SavedInv
  <1> QED
    BY <1>2, <1>3, <1>4, <1>5, <1>6 DEF Applications

LEMMA SavedNext ==
  ASSUME Lone, ReplInv, BusyRuns, SavedInv, [Next]_vars
  PROVE  SavedInv'
  <1>1. ASSUME NEW x \in Replicator, Stop(x)
        PROVE  SavedInv'
    BY <1>1, IdleSaved, OneSaved DEF Stop
  <1>2. CASE UNCHANGED vars
    BY <1>2 DEF vars, SavedInv
  <1> QED
    BY <1>1, <1>2, StartSaved, StepSaved, ApplicationSaved DEF Next

LEMMA SavedStarts ==
  ASSUME Init
  PROVE  SavedInv
  <1>1. /\ run = [x \in Replicator |-> Idle] /\ policy \in Situations
        /\ \A n \in Node : DOMAIN local[n] = {} /\ backup[n].local = local[n]
    BY DEF Init
  <1>2. \A n \in policy.readOnly : n \in Node
    BY <1>1, ReplicationAssumption
  <1> QED
    BY <1>1, <1>2, IdleSaved DEF SavedInv, NoneOwn

----------------------------------------------------------------------------
\* What the two invariants say.
LEMMA SavedMeans ==
  ASSUME ReplInv, CleanInv, SavedInv
  PROVE  ProgressSaved
  <1> SUFFICES ASSUME NEW x \in Replicator
               PROVE  /\ At(x, "done") /\ run[x].ids = Ids(x) /\ Checkpointed(run[x].filter) =>
                           ResumePoint(x, run[x].filter) >= run[x].since
                      /\ run[x].failed => faults > 0
    BY DEF ProgressSaved
  <1> DEFINE r == run[x]
             scp == Look(local[Source[x]], KeyOf(r))
             tcp == Look(local[Target[x]], KeyOf(r))
             refuses == Source[x] \in policy.readOnly
  <1>1. ASSUME r.pc = "done", r.ids = Ids(x), Checkpointed(r.filter)
        PROVE  ResumePoint(x, r.filter) >= r.since
    <2>1. r.ids = IdsIn(db, x)
      BY <1>1 DEF Ids, Id, IdsIn
    <2>2. r.since <= Resumes(scp, tcp, refuses)
      BY <1>1, <2>1 DEF SavedInv, SavedRun, Checkpointed, Progress
    <2>3. /\ ReadFrom(Source[x], ReplicationId(Ids(x), r.filter)) = scp
          /\ ReadFrom(Target[x], ReplicationId(Ids(x), r.filter)) = tcp
      BY <1>1 DEF ReadFrom, ReplicationId, Fingerprint, Look, KeyOf
    <2> HIDE DEF scp, tcp
    <2>4. ResumePoint(x, r.filter) = Resumes(scp, tcp, refuses)
      BY <1>1, <2>3 DEF ResumePoint, Resumes
    <2>5. IsCheckpoint(scp) /\ IsCheckpoint(tcp) /\ r.since \in Nat
      <3>1. /\ StoredOk(db, policy, Source[x], local[Source[x]])
            /\ StoredOk(db, policy, Target[x], local[Target[x]]) /\ RunOk(db, policy, x, r)
        BY SoundAt DEF ReplInv
      <3> QED
        BY <1>1, <3>1, LookIs, Busy DEF Carried, scp, tcp
    <2>6. Resumes(scp, tcp, refuses) \in Nat
      BY <2>5, ResumesIs
    <2> QED
      BY <2>2, <2>4, <2>5, <2>6
  <1>2. ASSUME r.failed
        PROVE  faults > 0
    <2>1. x \in policy.runs
      BY <1>2, IdleIs DEF CleanInv
    <2> QED
      BY <1>2, <2>1 DEF CleanInv, CleanRun
  <1> QED
    BY <1>1, <1>2 DEF At

\* What a run completes, alone between its databases, the next one need not scan
\* again; and of a source that nothing is taken from, no run fails unless a call
\* does (protocol.rs, run_replication; checkpoint.rs).
THEOREM CompletedIsSaved ==
  ASSUME AllKeep, Lone, \A p \in Situations : \A x \in p.runs : SourceKept(p, x)
  PROVE  Spec => []ProgressSaved
  <1>1. Init => ReplInv /\ CleanInv /\ SavedInv
    BY InitialRuns, CleanStarts, SavedStarts
  <1>2. ReplInv /\ CleanInv /\ SavedInv /\ [Next]_vars => (ReplInv /\ CleanInv /\ SavedInv)'
    <2>1. CleanInv => BusyRuns
      BY DEF CleanInv, BusyRuns
    <2> QED
      BY <2>1, NextKeeps, CleanNext, SavedNext
  <1>3. ReplInv /\ CleanInv /\ SavedInv => ProgressSaved
    BY SavedMeans
  <1> QED
    BY <1>1, <1>2, <1>3, PTL DEF Spec

----------------------------------------------------------------------------
(* Live replications *)

\* Nothing is taken from a target, and no database is restored.
LiveKeeps ==
  \A p \in Situations : p.restorable = {} /\ \A x \in Replicator : Target[x] \notin p.purged

LiveFields == {"pc", "since", "session", "ids", "sid", "reset"}

\* The cursor of the next pass, for the databases it was taken from.
LiveOk(dbs, p, x, l, r) ==
  /\ DOMAIN l = LiveFields
  /\ l.session \in Nat /\ (l.since = NoSeq \/ l.since \in Nat)
  /\ IF l.ids = <<>> THEN l.since = NoSeq ELSE Known(dbs, l.ids, x)
  /\ l.since # NoSeq /\ l.ids = IdsIn(dbs, x) =>
       Good(dbs[Source[x]], dbs[Target[x]], p.denied, NoFilter, l.since)
  /\ l.pc = "target_id" => \E u \in 0 .. dbs[Source[x]].uuid : l.sid = <<Source[x], u>>
  /\ l.pc = "pass" => r.ids = l.ids /\ r.filter = NoFilter

LiveInv ==
  /\ ReplInv
  /\ DOMAIN live = Replicator
  /\ \A x \in Replicator : LiveOk(db, policy, x, live[x], run[x])

LEMMA LiveKeep ==
  ASSUME LiveKeeps, ReplInv, NEW x \in Replicator
  PROVE  Keeps(policy, x) /\ policy.restorable = {}
  BY DEF LiveKeeps, ReplInv, Sound, Keeps

\* The cursor stays good while the databases move on.
LEMMA CursorKept ==
  ASSUME NEW dbs, NEW next, NEW p, Evolve(dbs, next, p), NEW x \in Replicator, Keeps(p, x),
         NEW l, NEW r, LiveOk(dbs, p, x, l, r)
  PROVE  LiveOk(next, p, x, l, r)
  <1>1. l.ids # <<>> => Known(next, l.ids, x)
    BY IdsKept DEF LiveOk
  <1>2. ASSUME l.since # NoSeq, l.ids = IdsIn(next, x)
        PROVE  Good(next[Source[x]], next[Target[x]], p.denied, NoFilter, l.since)
    <2>1. Known(dbs, l.ids, x)
      BY <1>2 DEF LiveOk
    <2>2. /\ l.ids = IdsIn(dbs, x)
          /\ DbFine(dbs[Source[x]]) /\ Moved(dbs[Source[x]], next[Source[x]])
          /\ Gained(dbs[Target[x]], next[Target[x]])
      BY <1>2, <2>1, IdsKept
    <2>3. Good(dbs[Source[x]], dbs[Target[x]], p.denied, NoFilter, l.since)
      BY <1>2, <2>2 DEF LiveOk
    <2> QED
      BY <2>2, <2>3, GoodKept
  <1>3. ASSUME l.pc = "target_id"
        PROVE  \E u \in 0 .. next[Source[x]].uuid : l.sid = <<Source[x], u>>
    <2>1. PICK u \in 0 .. dbs[Source[x]].uuid : l.sid = <<Source[x], u>>
      BY <1>3 DEF LiveOk
    <2>2. EvolveAt(dbs, next, p, Source[x])
      BY Endpoints DEF Evolve
    <2>3. dbs[Source[x]].uuid \in Nat /\ next[Source[x]].uuid \in Nat
      BY <2>2, SeqFields DEF EvolveAt
    <2>4. u \in 0 .. next[Source[x]].uuid
      BY <2>2, <2>3 DEF EvolveAt, Moved
    <2> QED
      BY <2>1, <2>4
  <1> QED
    BY <1>1, <1>2, <1>3 DEF LiveOk

\* The loop of x moves on, with its run or without.
LEMMA LoopMoves ==
  ASSUME LiveInv, ReplInv', UNCHANGED <<db, policy>>, NEW x \in Replicator, NEW l,
         live' = [live EXCEPT ![x] = l], NEW r, run' = [run EXCEPT ![x] = r] \/ (run' = run /\ r = run[x]),
         LiveOk(db, policy, x, l, r)
  PROVE  LiveInv'
  <1>1. DOMAIN live = Replicator /\ DOMAIN run = Replicator
    BY DEF LiveInv, ReplInv, Sound
  <1>2. DOMAIN live' = Replicator /\ run'[x] = r /\ live'[x] = l
    BY <1>1
  <1>3. ASSUME NEW y \in Replicator
        PROVE  LiveOk(db', policy', y, live'[y], run'[y])
    <2>1. CASE y = x
      BY <1>2, <2>1
    <2>2. CASE y # x
      <3>1. live'[y] = live[y] /\ run'[y] = run[y]
        BY <1>1, <2>2
      <3> QED
        BY <3>1 DEF LiveInv
    <2> QED
      BY <2>1, <2>2
  <1> QED
    BY <1>2, <1>3 DEF LiveInv

\* It changes no more than what it waits for, its session, and what it has heard.
Rests(l, m) ==
  /\ DOMAIN m = LiveFields /\ m.ids = l.ids /\ m.since = l.since /\ m.session \in {0, l.session}
  /\ m.pc \notin {"target_id", "pass"}

LEMMA RestOk ==
  ASSUME NEW dbs, NEW p, NEW x, NEW l, NEW r, LiveOk(dbs, p, x, l, r), NEW m, Rests(l, m), NEW s
  PROVE  LiveOk(dbs, p, x, m, s)
  BY DEF Rests, LiveOk

LEMMA RestStep ==
  ASSUME LiveInv, NEW x \in Replicator, NEW m, Rests(live[x], m), live' = [live EXCEPT ![x] = m],
         UNCHANGED <<db, local, sessions, backup, policy>>,
         run' = run \/ (ReplInv' /\ \E r : run' = [run EXCEPT ![x] = r])
  PROVE  LiveInv'
  <1>1. LiveOk(db, policy, x, m, run[x]) /\ \A r : LiveOk(db, policy, x, m, r)
    BY RestOk DEF LiveInv
  <1>2. run' = run => ReplInv'
    BY DEF LiveInv, ReplInv
  <1> QED
    BY <1>1, <1>2, LoopMoves

\* Waiting, hearing notices, and comparing identities.
LEMMA ListenStep ==
  ASSUME LiveInv, NEW x \in Replicator,
         \/ BackedOff(x) \/ Drain(x) \/ (\E changed \in BOOLEAN : CompareIds(x, changed))
         \/ WakeBySource(x) \/ HearTarget(x) \/ Poll(x) \/ IdsUnread(x)
  PROVE  LiveInv'
  <1> DEFINE l == live[x]
  <1>1. DOMAIN l = LiveFields /\ DOMAIN live = Replicator
    BY DEF LiveInv, LiveOk
  <1> DEFINE Ends(pc) == [l EXCEPT !.pc = pc]
             Hears(pc, reset) == [l EXCEPT !.pc = pc, !.reset = reset]
             Lost(pc) == [l EXCEPT !.pc = pc, !.session = 0, !.sid = <<>>]
             Pcs == {"source_id", "back_off", "drain", "check", "wait"}
  <1>2. ASSUME NEW pc \in Pcs, NEW reset
        PROVE  Rests(l, Ends(pc)) /\ Rests(l, Hears(pc, reset)) /\ Rests(l, Lost(pc))
    <2>1. Rests(l, Ends(pc)) /\ Rests(l, Hears(pc, reset))
      BY <1>1 DEF Rests, LiveFields
    <2> DEFINE a == [l EXCEPT !.pc = pc, !.session = 0]
    <2>2. Rests(l, a)
      BY <1>1 DEF Rests, LiveFields
    <2>3. Lost(pc) = [a EXCEPT !.sid = <<>>]
      OBVIOUS
    <2> HIDE DEF a
    <2>4. Rests(l, [a EXCEPT !.sid = <<>>])
      BY <2>2 DEF Rests, LiveFields
    <2> QED
      BY <2>1, <2>3, <2>4
  <1>3. UNCHANGED <<db, local, run, sessions, backup, policy>>
    BY DEF BackedOff, Drain, CompareIds, WakeBySource, HearTarget, Poll, IdsUnread, vars
  <1>4. CASE BackedOff(x)
    <2>1. live' = [live EXCEPT ![x] = Ends("source_id")]
      BY <1>4 DEF BackedOff, Goes
    <2> QED
      BY <2>1, <1>2, <1>3, RestStep
  <1>5. CASE Drain(x)
    <2> DEFINE reset == l.reset \/ HasReset(x, Source[x]) \/ HasReset(x, Target[x])
               pc == AfterDrain(x, reset)
    <2>1. pc \in Pcs
      BY DEF AfterDrain
    <2>2. live' = [live EXCEPT ![x] = Hears(pc, reset)]
      BY <1>5 DEF Drain, Goes
    <2> HIDE DEF pc, reset
    <2>3. Rests(l, Hears(pc, reset))
      BY <1>2, <2>1
    <2> HIDE DEF Hears
    <2> QED
      BY <2>2, <2>3, <1>3, RestStep
  <1>6. ASSUME NEW changed \in BOOLEAN, CompareIds(x, changed)
        PROVE  LiveInv'
    <2> DEFINE pc == IF changed THEN "source_id" ELSE "wait"
    <2>1. pc \in Pcs
      OBVIOUS
    <2>2. live' = [live EXCEPT ![x] = Ends(pc)]
      BY <1>6 DEF CompareIds, Goes
    <2> HIDE DEF pc
    <2>3. Rests(l, Ends(pc))
      BY <1>2, <2>1
    <2> HIDE DEF Ends
    <2> QED
      BY <2>2, <2>3, <1>3, RestStep
  <1>7. CASE WakeBySource(x)
    <2> DEFINE reset == l.reset \/ HasReset(x, Source[x])
    <2>1. live' = [live EXCEPT ![x] = Hears("source_id", reset)]
      BY <1>7 DEF WakeBySource, Goes
    <2> HIDE DEF reset
    <2>2. Rests(l, Hears("source_id", reset))
      BY <1>2
    <2> HIDE DEF Hears
    <2> QED
      BY <2>1, <2>2, <1>3, RestStep
  <1>8. CASE HearTarget(x)
    <2>1. \/ live' = [live EXCEPT ![x] = Ends("check")]
          \/ live' = [live EXCEPT ![x] = Hears("source_id", TRUE)]
          \/ live' = live
      BY <1>8 DEF HearTarget, Goes
    <2>2. Rests(l, Ends("check")) /\ Rests(l, Hears("source_id", TRUE))
      BY <1>2
    <2>3. live' = live => LiveInv'
      BY <1>3 DEF LiveInv, ReplInv
    <2> HIDE DEF Ends, Hears
    <2> QED
      BY <2>1, <2>2, <2>3, <1>3, RestStep
  <1>9. CASE Poll(x)
    <2>1. \/ live' = [live EXCEPT ![x] = Ends("check")]
          \/ live' = [live EXCEPT ![x] = Ends("source_id")]
      BY <1>9 DEF Poll, Goes
    <2>2. Rests(l, Ends("check")) /\ Rests(l, Ends("source_id"))
      BY <1>2
    <2> HIDE DEF Ends
    <2> QED
      BY <2>1, <2>2, <1>3, RestStep
  <1>10. CASE IdsUnread(x)
    <2>1. \/ live' = [live EXCEPT ![x] = Lost("back_off")]
          \/ live' = [live EXCEPT ![x] = Ends("wait")]
      BY <1>10 DEF IdsUnread, Goes
    <2>2. Rests(l, Lost("back_off")) /\ Rests(l, Ends("wait"))
      BY <1>2
    <2> HIDE DEF Ends, Lost
    <2> QED
      BY <2>1, <2>2, <1>3, RestStep
  <1> QED
    BY <1>4, <1>5, <1>6, <1>7, <1>8, <1>9, <1>10

\* The id of the source is read.
LEMMA AskStep ==
  ASSUME LiveInv, NEW x \in Replicator, AskSource(x)
  PROVE  LiveInv'
  <1> DEFINE l == live[x]
             m == [l EXCEPT !.pc = "target_id", !.sid = Id(Source[x])]
  <1>1. LiveOk(db, policy, x, l, run[x]) /\ DOMAIN l = LiveFields
    BY DEF LiveInv, LiveOk
  <1>2. db[Source[x]].uuid \in 0 .. db[Source[x]].uuid
    <2>1. db[Source[x]].uuid \in Nat
      BY SoundAt, SeqFields DEF LiveInv, ReplInv
    <2> QED
      BY <2>1
  <1>3. /\ DOMAIN m = LiveFields /\ m.pc = "target_id" /\ m.sid = <<Source[x], db[Source[x]].uuid>>
        /\ m.ids = l.ids /\ m.since = l.since /\ m.session = l.session
    BY <1>1 DEF LiveFields, Id
  <1>4. live' = [live EXCEPT ![x] = m] /\ UNCHANGED vars
    BY DEF AskSource, Goes
  <1> HIDE DEF m
  <1>5. LiveOk(db, policy, x, m, run[x])
    BY <1>1, <1>2, <1>3 DEF LiveOk
  <1>6. ReplInv'
    BY <1>4 DEF LiveInv, ReplInv, vars
  <1> QED
    BY <1>4, <1>5, <1>6, LoopMoves DEF vars

\* A pass starts from the checkpoints, or from the cursor of the databases that
\* are there.
LEMMA BeginStep ==
  ASSUME LiveInv, NEW x \in Replicator, Keeps(policy, x), BeginPass(x)
  PROVE  LiveInv'
  <1> DEFINE l == live[x]
             S == db[Source[x]]
             T == db[Target[x]]
             ids == <<l.sid, Id(Target[x])>>
             over == PeerReset(l, ids)
             since == IF over THEN NoSeq ELSE l.since
             fresh == over \/ l.session = 0
             sess == IF fresh THEN sessions + 1 ELSE l.session
             readOnly == ~fresh /\ run[x].readOnly
             r == [Idle EXCEPT !.ids = ids, !.session = sess, !.readOnly = readOnly]
             m == [pc |-> "pass", since |-> since, session |-> sess, ids |-> ids,
                   sid |-> <<>>, reset |-> FALSE]
             e == IF since = NoSeq THEN Begin(r) ELSE From(r, since)
  <1>1. /\ LiveOk(db, policy, x, l, run[x]) /\ l.pc = "target_id"
        /\ DbFine(S) /\ DbFine(T) /\ RunOk(db, policy, x, run[x])
        /\ sessions \in Nat
    BY SoundAt DEF LiveInv, ReplInv, Sound, BeginPass, LiveAt
  <1>2. Known(db, ids, x) /\ ids # <<>>
    <2>1. PICK u \in 0 .. S.uuid : l.sid = <<Source[x], u>>
      BY <1>1 DEF LiveOk
    <2>2. T.uuid \in 0 .. T.uuid
      <3>1. T.uuid \in Nat
        BY <1>1, SeqFields
      <3> QED
        BY <3>1
    <2>3. ids = <<<<Source[x], u>>, <<Target[x], T.uuid>>>>
      BY <2>1 DEF Id
    <2> QED
      BY <2>1, <2>2, <2>3 DEF Known
  <1>3. sess \in Nat /\ (readOnly => Source[x] \in policy.readOnly)
    <2>1. run[x].readOnly => Source[x] \in policy.readOnly
      BY <1>1 DEF RunOk, Base
    <2>2. l.session \in Nat
      BY <1>1 DEF LiveOk
    <2> QED
      BY <1>1, <2>1, <2>2
  <1>4. /\ since = NoSeq \/ since \in Nat
        /\ since # NoSeq /\ ids = IdsIn(db, x) => Good(S, T, policy.denied, NoFilter, since)
    <2>1. ~over => l.ids = <<>> \/ l.ids = ids
      BY DEF PeerReset
    <2> HIDE DEF over, ids
    <2>2. CASE over
      BY <2>2
    <2>3. CASE ~over
      <3>1. since = l.since
        BY <2>3
      <3> QED
        BY <1>1, <2>1, <2>3, <3>1 DEF LiveOk
    <2> QED
      BY <2>2, <2>3
  <1>5. /\ run' = [run EXCEPT ![x] = e] /\ live' = [live EXCEPT ![x] = m]
        /\ sessions' = (IF fresh THEN sess ELSE sessions)
        /\ UNCHANGED <<db, local, backup, policy>>
    BY DEF BeginPass, Goes
  <1>6. sessions' \in Nat
    BY <1>1, <1>3, <1>5
  <1>7. /\ DOMAIN m = LiveFields /\ m.pc = "pass" /\ m.since = since /\ m.session = sess /\ m.ids = ids
    BY DEF LiveFields
  <1>8. /\ DOMAIN r = Fields
        /\ r.ids = ids /\ r.filter = NoFilter /\ r.session = sess /\ r.readOnly = readOnly
        /\ r.goal = 0 /\ r.since = 0 /\ r.last = 0
        /\ r.batch = {} /\ r.wanted = {} /\ r.gone = {} /\ r.docs = {} /\ r.prior = <<>>
        /\ r.tcp = NoCheckpoint /\ r.failed = FALSE /\ r.final = FALSE
    <2> HIDE DEF ids, sess, readOnly
    <2> QED
      BY IdleIs DEF Fields
  <1> HIDE DEF m, r, ids, sess, readOnly, since, fresh, over
  <1>9. Base(db, policy, x, r)
    <2>1. r.goal \in Nat /\ r.goal <= S.updateSeq
      BY <1>1, <1>8, SeqFields
    <2> QED
      BY <1>1, <1>2, <1>3, <1>8, <2>1, FreshBase
  <1>10. RunOk(db, policy, x, e) /\ SameRun(e, r)
    <2>1. CASE since = NoSeq
      <3>1. SameRun([r EXCEPT !.pc = "read_target"], r)
        BY <1>8 DEF SameRun, Fields
      <3>2. SameRun(From(r, 0), r)
        BY <1>8, FromSame
      <3>3. e = [r EXCEPT !.pc = "read_target"] \/ e = From(r, 0)
        BY <2>1 DEF Begin
      <3> HIDE DEF e
      <3> QED
        BY <1>1, <1>8, <1>9, <3>1, <3>2, <3>3, BeginOk
    <2>2. CASE since # NoSeq
      <3>1. e = From(r, since) /\ since \in Nat
        BY <1>4, <2>2
      <3>2. r.ids = IdsIn(db, x) => Good(S, T, policy.denied, r.filter, since)
        BY <1>4, <1>8, <2>2
      <3>3. FALSE => Source[x] \in policy.readOnly
        OBVIOUS
      <3>4. RunOk(db, policy, x, From(r, since))
        BY <1>1, <1>8, <1>9, <3>1, <3>2, <3>3, FromOk
      <3> QED
        BY <1>8, <3>1, <3>4, FromSame
    <2> QED
      BY <2>1, <2>2
  <1> HIDE DEF e
  <1>11. LiveOk(db, policy, x, m, e)
    BY <1>2, <1>3, <1>4, <1>7, <1>8, <1>10 DEF LiveOk, SameRun
  <1>12. ReplInv'
    <2>1. Sound(db, local, run', sessions', backup, policy)
      BY <1>5, <1>6, <1>10, RunMoves DEF LiveInv, ReplInv
    <2> QED
      BY <1>5, <2>1 DEF ReplInv
  <1> QED
    BY <1>5, <1>11, <1>12, LoopMoves

\* The databases move on, and the runs keep what they are about.
LEMMA WorldTurns ==
  ASSUME LiveInv, LiveKeeps, ReplInv', Evolve(db, db', policy), UNCHANGED <<policy, live>>,
         \/ run' = run
         \/ \E x \in Replicator : \E e : run' = [run EXCEPT ![x] = e] /\ SameRun(e, run[x])
  PROVE  LiveInv'
  <1>1. DOMAIN run = Replicator /\ DOMAIN live = Replicator
    BY DEF LiveInv, ReplInv, Sound
  <1>2. \A y \in Replicator : run'[y].ids = run[y].ids /\ run'[y].filter = run[y].filter
    BY <1>1 DEF SameRun
  <1>3. ASSUME NEW y \in Replicator
        PROVE  LiveOk(db', policy', y, live'[y], run'[y])
    <2>1. Keeps(policy, y) /\ LiveOk(db, policy, y, live[y], run[y])
      BY LiveKeep DEF LiveInv
    <2>2. LiveOk(db', policy, y, live[y], run[y])
      BY <2>1, CursorKept
    <2> QED
      BY <1>2, <2>2 DEF LiveOk
  <1> QED
    BY <1>1, <1>3 DEF LiveInv

LEMMA CallStep ==
  ASSUME LiveInv, LiveKeeps, NEW x \in Replicator, PassStep(x)
  PROVE  LiveInv'
  <1>1. Step(x) /\ live' = live
    BY DEF PassStep
  <1>2. DOMAIN run[x] = Fields
    BY SoundAt DEF LiveInv, ReplInv, RunOk, Base
  <1>3. ReplInv' /\ Evolve(db, db', policy)
    BY <1>1, ReplStep DEF LiveInv
  <1>4. policy' = policy
    BY <1>1 DEF Step, ReadTarget, ReadSource, Probe, ProbeLost, FetchChanges, Diff, Get, Check,
                WriteDocs, NothingWritten, ReadHistory, HistoryUnread, CheckpointTarget,
                CheckpointSource, Reads
  <1>5. \E e : run' = [run EXCEPT ![x] = e] /\ SameRun(e, run[x])
    BY <1>1, <1>2, StepSame
  <1> QED
    BY <1>1, <1>3, <1>4, <1>5, WorldTurns

\* A pass whose checkpoint is lost ends as failed, where it was.
LEMMA LostStep ==
  ASSUME LiveInv, LiveKeeps, NEW x \in Replicator, CheckpointLost(x)
  PROVE  LiveInv'
  <1> DEFINE r == run[x]
             n == [r EXCEPT !.failed = TRUE]
             e == Ended(n)
  <1>1. /\ DbFine(db[Source[x]]) /\ RunOk(db, policy, x, r) /\ r.pc # "idle"
        /\ sessions \in Nat
    BY SoundAt DEF LiveInv, ReplInv, Sound, CheckpointLost
  <1>2. Base(db, policy, x, r) /\ DOMAIN r = Fields /\ Carried(r)
    BY <1>1, Busy
  <1>3. run' = [run EXCEPT ![x] = e] /\ UNCHANGED <<db, local, sessions, backup, policy, live>>
    BY DEF CheckpointLost
  <1> HIDE DEF r
  <1>4. /\ DOMAIN n = Fields
        /\ n.ids = r.ids /\ n.filter = r.filter /\ n.since = r.since
        /\ n.goal = r.goal /\ n.failed = TRUE /\ n.readOnly = r.readOnly
        /\ n.batch = r.batch /\ n.wanted = r.wanted /\ n.gone = r.gone /\ n.docs = r.docs
        /\ n.session = r.session /\ n.last = r.last /\ n.prior = r.prior /\ n.tcp = r.tcp
    BY <1>2 DEF Fields
  <1> HIDE DEF n
  <1>5. Carried(n)
    BY <1>2, <1>4 DEF Carried
  <1>6. Base(db, policy, x, n)
    BY <1>2, <1>4, <1>5, BaseMoves
  <1>7. RunOk(db, policy, x, e)
    BY <1>1, <1>4, <1>6, EndedOk
  <1>8. SameRun(e, r)
    BY <1>4, FinishSame DEF SameRun
  <1> HIDE DEF e
  <1>9. ReplInv'
    <2>1. ReplInv
      BY DEF LiveInv
    <2> QED
      BY <1>3, <1>7, <2>1, ReadStep
  <1>10. Evolve(db, db', policy)
    BY <1>3, SameWorld DEF LiveInv
  <1> QED
    BY <1>3, <1>8, <1>9, <1>10, WorldTurns DEF r

LEMMA FailStep ==
  ASSUME LiveInv, NEW x \in Replicator, CallFails(x)
  PROVE  LiveInv'
  <1> DEFINE l == live[x]
             m == [l EXCEPT !.pc = "back_off", !.session = 0]
  <1>1. DOMAIN l = LiveFields
    BY DEF LiveInv, LiveOk
  <1>2. Rests(l, m)
    BY <1>1 DEF Rests, LiveFields
  <1>3. live' = [live EXCEPT ![x] = m] /\ Stop(x)
    BY DEF CallFails, Goes
  <1>4. ReplInv'
    BY <1>3, StopStep DEF LiveInv
  <1>5. run' = [run EXCEPT ![x] = Idle] /\ UNCHANGED <<db, local, sessions, backup, policy>>
    BY <1>3 DEF Stop
  <1> HIDE DEF m
  <1> QED
    BY <1>2, <1>3, <1>4, <1>5, RestStep

\* A pass that ends, complete or not, leaves a cursor as good as its own.
LEMMA EndStep ==
  ASSUME LiveInv, NEW x \in Replicator, PassEnds(x)
  PROVE  LiveInv'
  <1> DEFINE l == live[x]
             r == run[x]
             pc == IF r.failed THEN "back_off" ELSE "drain"
             m == [l EXCEPT !.pc = pc, !.since = r.since]
             e == [Idle EXCEPT !.readOnly = r.readOnly]
  <1>1. /\ LiveOk(db, policy, x, l, r) /\ l.pc = "pass" /\ r.pc = "done"
        /\ RunOk(db, policy, x, r) /\ DOMAIN l = LiveFields
    BY SoundAt DEF LiveInv, LiveOk, ReplInv, PassEnds, LiveAt, At
  <1>2. /\ Known(db, r.ids, x) /\ r.since \in Nat /\ (r.readOnly => Source[x] \in policy.readOnly)
        /\ r.ids = IdsIn(db, x) =>
             Good(db[Source[x]], db[Target[x]], policy.denied, r.filter, r.since)
    BY <1>1, Busy DEF Carried, Core
  <1>3. /\ live' = [live EXCEPT ![x] = m] /\ run' = [run EXCEPT ![x] = e]
        /\ UNCHANGED <<db, local, sessions, backup, policy>>
    BY DEF PassEnds, Goes
  <1>4. RunOk(db, policy, x, e)
    BY <1>2, IdleOk
  <1>5. pc \notin {"target_id", "pass"}
    OBVIOUS
  <1> HIDE DEF pc
  <1>6. /\ DOMAIN m = LiveFields /\ m.pc = pc /\ m.ids = l.ids /\ m.since = r.since
        /\ m.session = l.session
    BY <1>1 DEF LiveFields
  <1> HIDE DEF m, e
  <1>7. l.ids = r.ids /\ r.filter = NoFilter /\ r.ids # <<>>
    BY <1>1, <1>2 DEF LiveOk, Known
  <1>8. LiveOk(db, policy, x, m, e)
    BY <1>1, <1>2, <1>5, <1>6, <1>7 DEF LiveOk
  <1>9. ReplInv'
    BY <1>3, <1>4, ReadStep DEF LiveInv
  <1> QED
    BY <1>3, <1>8, <1>9, LoopMoves

LEMMA LiveKept ==
  ASSUME LiveKeeps, LiveInv, [LiveNext]_liveVars
  PROVE  LiveInv'
  <1>1. CASE UNCHANGED liveVars
    BY <1>1 DEF liveVars, vars, LiveInv, ReplInv
  <1>2. CASE Applications /\ live' = live
    <2>1. ReplInv /\ policy.restorable = {}
      <3>1. policy \in Situations
        BY DEF LiveInv, ReplInv, Sound
      <3> QED
        BY <3>1 DEF LiveKeeps, LiveInv
    <2>2. ReplInv' /\ Evolve(db, db', policy) /\ run' = run
      BY <1>2, <2>1, ApplicationStep
    <2>3. policy' = policy
      BY <1>2 DEF Applications, Edit, PurgeNode, CompactNode, DestroyNode, TakeBackup, Restore, Becomes
    <2> QED
      BY <1>2, <2>2, <2>3, WorldTurns
  <1>3. ASSUME NEW x \in Replicator, BeginPass(x)
        PROVE  LiveInv'
    <2>1. Keeps(policy, x)
      BY LiveKeep DEF LiveInv
    <2> QED
      BY <1>3, <2>1, BeginStep
  <1> QED
    BY <1>1, <1>2, <1>3, AskStep, CallStep, EndStep, ListenStep, LostStep, FailStep
       DEF LiveNext, LiveStep

LEMMA LiveStarts ==
  ASSUME LiveInit
  PROVE  LiveInv
  <1>1. ReplInv
    BY InitialRuns DEF LiveInit
  <1> DEFINE l == [pc |-> "source_id", since |-> NoSeq, session |-> 0, ids |-> <<>>,
                   sid |-> <<>>, reset |-> FALSE]
  <1>2. \A x, r : LiveOk(db, policy, x, l, r)
    BY DEF LiveOk, LiveFields
  <1>3. live = [x \in Replicator |-> l]
    BY DEF LiveInit
  <1> HIDE DEF l
  <1> QED
    BY <1>1, <1>2, <1>3 DEF LiveInv

\* The cursor that the next pass takes over is sound (protocol.rs,
\* replicate_live): for the databases it was taken from, the target has every
\* leaf up to it, whichever passes failed and whatever was destroyed while they
\* ran; for live replications whose target nothing is purged from.
THEOREM LiveCursorIsSound ==
  ASSUME LiveKeeps
  PROVE  LiveSpec => []LiveCursorSound
  <1>1. LiveInit => LiveInv
    BY LiveStarts
  <1>2. LiveInv /\ [LiveNext]_liveVars => LiveInv'
    BY LiveKept
  <1>3. ASSUME LiveInv
        PROVE  LiveCursorSound
    <2> SUFFICES ASSUME NEW x \in Replicator, live[x].ids = Ids(x), live[x].since # NoSeq
                 PROVE  CopiedUpTo(x, NoFilter, live[x].since)
      BY DEF LiveCursorSound
    <2>1. DbFine(db[Source[x]]) /\ LiveOk(db, policy, x, live[x], run[x])
      BY <1>3, SoundAt DEF LiveInv, ReplInv
    <2>2. Ids(x) = IdsIn(db, x)
      BY DEF Ids, Id, IdsIn
    <2>3. Good(db[Source[x]], db[Target[x]], policy.denied, NoFilter, live[x].since)
      BY <2>1, <2>2 DEF LiveOk
    <2> QED
      BY <2>1, <2>3, GoodCopied
  <1> QED
    BY <1>1, <1>2, <1>3, PTL DEF LiveSpec

----------------------------------------------------------------------------
(* Notices *)

Notice == {"change", "reset"}

IsQueue(q) == q \in [notices : Seq(Notice), lagged : BOOLEAN]

\* A reset is queued, or may have been lost.
Alarm(q) == q.lagged \/ \E i \in DOMAIN q.notices : q.notices[i] = "reset"

LEMMA QueueIs ==
  ASSUME NEW q, IsQueue(q)
  PROVE  /\ q = NoNotices <=> ~q.lagged /\ q.notices = <<>>
         /\ Alarm(q) => q # NoNotices
         /\ IsQueue(NoNotices) /\ NoNotices.notices = <<>> /\ ~NoNotices.lagged
  <1>1. NoNotices.notices = <<>> /\ NoNotices.lagged = FALSE
    BY DEF NoNotices
  <1>2. IsQueue(NoNotices)
    <2>1. <<>> \in Seq(Notice)
      OBVIOUS
    <2> QED
      BY <2>1 DEF IsQueue, NoNotices
  <1>3. ASSUME ~q.lagged, q.notices = <<>>
        PROVE  q = NoNotices
    BY <1>3 DEF NoNotices, IsQueue
  <1>4. Alarm(q) => q.lagged \/ q.notices # <<>>
    BY DEF Alarm
  <1> QED
    BY <1>1, <1>2, <1>3, <1>4

\* What is pushed is received, or its loss is told.
LEMMA PushKeeps ==
  ASSUME NEW q, IsQueue(q), NEW new \in Seq(Notice)
  PROVE  /\ IsQueue(Push(q, new))
         /\ q # NoNotices \/ new # <<>> => Push(q, new) # NoNotices
         /\ Alarm(q) \/ (\E i \in DOMAIN new : new[i] = "reset") => Alarm(Push(q, new))
  <1> DEFINE all == q.notices \o new
             lost == Len(all) - Capacity
             p == Push(q, new)
  <1>1. all \in Seq(Notice) /\ Len(all) = Len(q.notices) + Len(new) /\ q.notices \in Seq(Notice)
    BY DEF IsQueue
  <1>2. Capacity \in Nat /\ Capacity # 0
    BY LiveAssumption
  <1>3. CASE lost > 0
    <2>1. SubSeq(all, lost + 1, Len(all)) \in Seq(Notice)
      <3>1. lost + 1 \in 1 .. Len(all) /\ Len(all) \in Nat
        BY <1>1, <1>2, <1>3
      <3> HIDE DEF all, lost
      <3> QED
        BY <1>1, <3>1
    <2>2. p = [notices |-> SubSeq(all, lost + 1, Len(all)), lagged |-> TRUE]
      BY <1>3 DEF Push
    <2> HIDE DEF all, lost, p
    <2>3. IsQueue(p) /\ p.lagged
      BY <2>1, <2>2 DEF IsQueue
    <2>4. Alarm(p) /\ p # NoNotices
      BY <2>3, QueueIs DEF Alarm
    <2> QED
      BY <2>3, <2>4 DEF p
  <1>4. CASE ~(lost > 0)
    <2>1. p = [q EXCEPT !.notices = all]
      BY <1>4 DEF Push
    <2> HIDE DEF p
    <2>2. IsQueue(p) /\ p.notices = all /\ p.lagged = q.lagged
      <3> HIDE DEF all
      <3> QED
        BY <1>1, <2>1 DEF IsQueue
    <2>3. IsQueue(p)
      BY <2>2
    <2>4. ASSUME q # NoNotices \/ new # <<>>
          PROVE  p # NoNotices
      <3>1. q.lagged \/ q.notices # <<>> \/ new # <<>>
        BY <2>4, QueueIs
      <3>2. q.notices # <<>> \/ new # <<>> => all # <<>>
        BY <1>1
      <3> HIDE DEF all
      <3> QED
        BY <2>2, <2>3, <3>1, <3>2, QueueIs
    <2>5. ASSUME NEW i \in DOMAIN q.notices, q.notices[i] = "reset"
          PROVE  Alarm(p)
      <3>1. i \in DOMAIN all /\ all[i] = "reset"
        BY <1>1, <2>5
      <3> HIDE DEF all
      <3> QED
        BY <2>2, <3>1 DEF Alarm
    <2>6. ASSUME NEW i \in DOMAIN new, new[i] = "reset"
          PROVE  Alarm(p)
      <3> DEFINE j == Len(q.notices) + i
      <3>1. j \in DOMAIN all /\ all[j] = "reset"
        BY <1>1, <2>6
      <3> HIDE DEF all, j
      <3> QED
        BY <2>2, <3>1 DEF Alarm
    <2>7. q.lagged => Alarm(p)
      BY <2>2 DEF Alarm
    <2>8. Alarm(q) => Alarm(p)
      BY <2>5, <2>7 DEF Alarm
    <2> QED
      BY <2>3, <2>4, <2>6, <2>8 DEF p
  <1> QED
    BY <1>3, <1>4

\* A step announces each change that it records, and that a database is new.
LEMMA AnnouncedIs ==
  ASSUME ReplInv, Evolve(db, db', policy), NEW n \in Node
  PROVE  /\ Announced(n) \in Seq(Notice)
         /\ db'[n].uuid # db[n].uuid => Announced(n) = <<"reset">>
         /\ db'[n].uuid = db[n].uuid /\ Announced(n) = <<>> =>
              \A c \in db'[n].changes : c \in db[n].changes
  <1> DEFINE new == {c \in db'[n].changes : c.seq > db[n].updateSeq}
             k == Cardinality(new)
  <1>1. EvolveAt(db, db', policy, n) /\ DbFine(db'[n]) /\ DbFine(db[n])
    BY DEF Evolve, EvolveAt
  <1>2. IsFiniteSet(new)
    <2>1. new \in SUBSET db'[n].changes
      OBVIOUS
    <2> HIDE DEF new
    <2> QED
      BY <1>1, <2>1, FeedSequenced DEF DbFine, Sequenced
  <1>3. k \in Nat /\ (k = 0 => new = {})
    <2> HIDE DEF new
    <2> QED
      BY <1>2, FS_CardinalityType, FS_EmptySet
  <1>4. CASE db'[n].uuid # db[n].uuid
    <2>1. Announced(n) = <<"reset">>
      BY <1>4 DEF Announced
    <2>2. <<"reset">> \in Seq(Notice)
      BY DEF Notice
    <2> QED
      BY <1>4, <2>1, <2>2
  <1>5. CASE db'[n].uuid = db[n].uuid
    <2>1. Announced(n) = [i \in 1 .. k |-> "change"]
      BY <1>5 DEF Announced
    <2> HIDE DEF new, k
    <2>2. Announced(n) \in Seq(Notice) /\ Len(Announced(n)) = k
      <3>1. "change" \in Notice
        BY DEF Notice
      <3> QED
        BY <1>3, <2>1, <3>1
    <2>3. ASSUME Announced(n) = <<>>, NEW c \in db'[n].changes
          PROVE  c \in db[n].changes
      <3>1. new = {}
        BY <1>3, <2>2, <2>3
      <3>2. ~(c.seq > db[n].updateSeq)
        BY <3>1, <2>3 DEF new
      <3>3. Moved(db[n], db'[n])
        <4>1. db[n].uuid \in Nat
          BY <1>1, SeqFields
        <4> QED
          BY <1>1, <1>5, <4>1 DEF EvolveAt
      <3> QED
        BY <3>2, <3>3 DEF Moved, Follows
    <2> QED
      BY <1>5, <2>2, <2>3
  <1> QED
    BY <1>4, <1>5

----------------------------------------------------------------------------
(* What a replicator knows while it waits *)

\* No entry of the feed is beyond s.
AllRead(S, s) == \A c \in S.changes : c.seq <= s

\* The pass will still read the feed, or has read all of it, or has failed.
ReadsAll(S, r) ==
  \/ r.failed
  \/ r.pc \in {"read_target", "read_source", "probe", "changes"}
  \/ r.pc \in BatchPcs /\ (r.full \/ AllRead(S, r.last))
  \/ r.pc \in SavePcs /\ ((r.full /\ ~r.final) \/ AllRead(S, r.since))
  \/ r.pc = "done" /\ AllRead(S, r.since)

\* The source is the one the loop took it for, and everything has been read.
SourceKnown(S, n, l, r) ==
  /\ l.pc = "target_id" => l.sid = <<n, S.uuid>>
  /\ l.pc = "pass" => l.ids[1] = <<n, S.uuid>> /\ ReadsAll(S, r)
  /\ l.pc \in {"drain", "check", "wait"} =>
       l.ids[1] = <<n, S.uuid>> /\ l.since # NoSeq /\ AllRead(S, l.since)

\* The target is the one the loop took it for, unless it is to be compared.
TargetKnown(T, n, l) == l.pc \in {"pass", "drain", "wait"} => l.ids[2] = <<n, T.uuid>>

\* What is not known is announced.
SourceHeard(S, n, l, r, q) == q # NoNotices \/ SourceKnown(S, n, l, r)
TargetHeard(T, n, l, q) == Alarm(q) \/ TargetKnown(T, n, l)

Heard(dbs, x, l, r, q) ==
  /\ SourceHeard(dbs[Source[x]], Source[x], l, r, q[Source[x]])
  /\ TargetHeard(dbs[Target[x]], Target[x], l, q[Target[x]])

\* Both adapters of x announce their changes.
BothAnnounce(x) == {Source[x], Target[x]} \subseteq announces

Queues(q) == DOMAIN q = Node /\ \A n \in Node : IsQueue(q[n])

HeardInv ==
  /\ LiveInv
  /\ DOMAIN queue = Replicator /\ \A x \in Replicator : Queues(queue[x])
  /\ \A x \in Replicator : BothAnnounce(x) => Heard(db, x, live[x], run[x], queue[x])

\* A step that receives nothing: what is no longer known is announced.
LEMMA WorldHeard ==
  ASSUME ReplInv, Evolve(db, db', policy), NEW x \in Replicator, BothAnnounce(x),
         NEW l, NEW r, NEW q, Queues(q), Heard(db, x, l, r, q),
         NEW next, next = [n \in Node |-> IF n \in announces \cap {Source[x], Target[x]}
                                            THEN Push(q[n], Announced(n)) ELSE q[n]]
  PROVE  Heard(db', x, l, r, next)
  <1> DEFINE S == db[Source[x]]
             S2 == db'[Source[x]]
             T == db[Target[x]]
             T2 == db'[Target[x]]
             qs == q[Source[x]]
             qt == q[Target[x]]
  <1>1. /\ Source[x] \in Node /\ Target[x] \in Node
        /\ next[Source[x]] = Push(qs, Announced(Source[x]))
        /\ next[Target[x]] = Push(qt, Announced(Target[x]))
        /\ IsQueue(qs) /\ IsQueue(qt)
    BY Endpoints DEF BothAnnounce, Queues
  <1>2. Announced(Source[x]) \in Seq(Notice) /\ Announced(Target[x]) \in Seq(Notice)
    BY <1>1, AnnouncedIs
  <1>3. SourceHeard(S2, Source[x], l, r, next[Source[x]])
    <2> SUFFICES ASSUME next[Source[x]] = NoNotices
                 PROVE  SourceKnown(S2, Source[x], l, r)
      BY DEF SourceHeard
    <2>1. qs = NoNotices /\ Announced(Source[x]) = <<>>
      BY <1>1, <1>2, PushKeeps
    <2>2. SourceKnown(S, Source[x], l, r)
      BY <2>1 DEF Heard, SourceHeard
    <2>3. S2.uuid = S.uuid
      <3>1. <<"reset">> # <<>>
        OBVIOUS
      <3> QED
        BY <1>1, <2>1, <3>1, AnnouncedIs
    <2>4. \A c \in S2.changes : c \in S.changes
      BY <1>1, <2>1, <2>3, AnnouncedIs
    <2>5. \A s : AllRead(S, s) => AllRead(S2, s)
      BY <2>4 DEF AllRead
    <2>6. ReadsAll(S, r) => ReadsAll(S2, r)
      BY <2>5 DEF ReadsAll
    <2> QED
      BY <2>2, <2>3, <2>5, <2>6 DEF SourceKnown
  <1>4. TargetHeard(T2, Target[x], l, next[Target[x]])
    <2>1. CASE T2.uuid # T.uuid
      <3>1. Announced(Target[x]) = <<"reset">>
        BY <1>1, <2>1, AnnouncedIs
      <3>2. 1 \in DOMAIN Announced(Target[x]) /\ Announced(Target[x])[1] = "reset"
        BY <3>1
      <3> QED
        BY <1>1, <1>2, <3>2, PushKeeps DEF TargetHeard
    <2>2. CASE T2.uuid = T.uuid
      <3>1. Alarm(qt) => Alarm(next[Target[x]])
        BY <1>1, <1>2, PushKeeps
      <3> QED
        BY <2>2, <3>1 DEF Heard, TargetHeard, TargetKnown
    <2> QED
      BY <2>1, <2>2
  <1> QED
    BY <1>3, <1>4 DEF Heard

----------------------------------------------------------------------------
(* A pass reads all there is *)

LEMMA FromReads ==
  ASSUME NEW S, NEW r, DOMAIN r = Fields, NEW seq, NEW b
  PROVE  ReadsAll(S, From(r, seq)) /\ ReadsAll(S, [From(r, seq) EXCEPT !.readOnly = b])
  <1> DEFINE e == From(r, seq)
  <1>1. DOMAIN e = Fields /\ e.pc = "changes"
    BY DEF From, Fields
  <1> HIDE DEF e
  <1>2. [e EXCEPT !.readOnly = b].pc = "changes"
    BY <1>1 DEF Fields
  <1> QED
    BY <1>1, <1>2 DEF ReadsAll, e

LEMMA FinishReads ==
  ASSUME NEW S, NEW r, DOMAIN r = Fields, r.failed \/ AllRead(S, r.since)
  PROVE  ReadsAll(S, Ended(r)) /\ ReadsAll(S, Finish(r))
  <1>1. ReadsAll(S, Ended(r))
    <2> SUFFICES ASSUME NEW e, e = Ended(r)
                 PROVE  ReadsAll(S, e)
      OBVIOUS
    <2>1. e.pc = "done" /\ e.since = r.since /\ e.failed = r.failed
      BY EndedIs
    <2> QED
      BY <2>1 DEF ReadsAll
  <1>2. ASSUME NEW e, e = [r EXCEPT !.pc = "history", !.final = TRUE]
        PROVE  ReadsAll(S, e)
    <2>1. e.pc = "history" /\ e.since = r.since /\ e.failed = r.failed
      BY <1>2 DEF Fields
    <2> QED
      BY <2>1 DEF ReadsAll, SavePcs
  <1> QED
    BY <1>1, <1>2 DEF Finish

LEMMA SkipReads ==
  ASSUME NEW S, NEW r, DOMAIN r = Fields, r.failed \/ r.full \/ AllRead(S, r.last)
  PROVE  ReadsAll(S, Skip(r))
  <1> DEFINE n == [r EXCEPT !.since = r.last, !.batch = {}]
  <1>1. DOMAIN n = Fields /\ n.since = r.last /\ n.failed = r.failed
    BY DEF Fields
  <1>2. Skip(r) = IF r.full THEN [n EXCEPT !.pc = "changes"] ELSE Finish(n)
    BY DEF Skip
  <1> HIDE DEF n
  <1>3. ReadsAll(S, [n EXCEPT !.pc = "changes"])
    BY <1>1 DEF ReadsAll, Fields
  <1>4. ~r.full => ReadsAll(S, Finish(n))
    BY <1>1, FinishReads
  <1> QED
    BY <1>2, <1>3, <1>4

LEMMA WrittenReads ==
  ASSUME NEW S, NEW r, DOMAIN r = Fields, ~r.final, r.failed \/ r.full \/ AllRead(S, r.last)
  PROVE  ReadsAll(S, Written(r))
  <1>1. r.failed => ReadsAll(S, Finish(r))
    BY FinishReads
  <1>2. ASSUME NEW e, e = [r EXCEPT !.pc = "history", !.since = r.last]
        PROVE  ReadsAll(S, e)
    <2>1. e.pc = "history" /\ e.since = r.last /\ e.failed = r.failed /\ e.full = r.full /\ ~e.final
      BY <1>2 DEF Fields
    <2> QED
      BY <2>1 DEF ReadsAll, SavePcs
  <1> QED
    BY <1>1, <1>2, SkipReads DEF Written

LEMMA FetchedReads ==
  ASSUME NEW S, NEW r, DOMAIN r = Fields, r.failed \/ r.full \/ AllRead(S, r.last)
  PROVE  ReadsAll(S, Fetched(r))
  <1> DEFINE e == Fetched(r)
  <1>1. /\ e.pc \in {"check", "write", "written"}
        /\ e.failed = r.failed /\ e.full = r.full /\ e.last = r.last
    BY DEF Fetched, Fields
  <1> HIDE DEF e
  <1>2. ReadsAll(S, e)
    BY <1>1 DEF ReadsAll, BatchPcs
  <1> QED
    BY <1>2 DEF e

LEMMA SavedReads ==
  ASSUME NEW S, NEW r, DOMAIN r = Fields, r.failed \/ (r.full /\ ~r.final) \/ AllRead(S, r.since)
  PROVE  ReadsAll(S, Saved(r))
  <1> DEFINE n == [r EXCEPT !.saved = r.since, !.prior = <<>>]
  <1>1. DOMAIN n = Fields /\ n.since = r.since /\ n.failed = r.failed
    BY DEF Fields
  <1>2. Saved(r) = IF r.full /\ ~r.final THEN [n EXCEPT !.pc = "changes"] ELSE Ended(n)
    BY DEF Saved
  <1> HIDE DEF n
  <1>3. ReadsAll(S, [n EXCEPT !.pc = "changes"])
    BY <1>1 DEF ReadsAll, Fields
  <1>4. ~(r.full /\ ~r.final) => ReadsAll(S, Ended(n))
    BY <1>1, FinishReads
  <1> QED
    BY <1>2, <1>3, <1>4

\* A page that is not full, and an empty one, is the end of the feed.
LEMMA PageEnds ==
  ASSUME NEW S, DbFine(S), NEW s, \A d \in Doc : Exists(S, d) => S.docs[d].seq <= s
  PROVE  AllRead(S, s)
  <1>1. \A c \in S.changes : c.id \in Doc /\ Exists(S, c.id) /\ c.seq = S.docs[c.id].seq
    BY FeedEntries
  <1> QED
    BY <1>1 DEF AllRead

LEMMA ListedReads ==
  ASSUME NEW S, DbFine(S), NEW r, DOMAIN r = Fields, r.filter = NoFilter, r.since \in Nat
  PROVE  ReadsAll(S, AfterChanges(S, r, ChangesAfter(Offered(S, r.filter), r.since, BatchSize)))
  <1> DEFINE R == ChangesAfter(Offered(S, r.filter), r.since, BatchSize)
             a == [r EXCEPT !.since = Scanned(S, @)]
             n == Listed(S, r, R)
  <1>1. \A d \in Doc : d \in r.filter.ids
    BY DEF NoFilter
  <1>2. CASE R = {}
    <2>1. Lists(S, r.filter, r.since, {}, Scanned(S, r.since))
      BY <1>2, ScannedLists
    <2>2. Cardinality({}) # BatchSize
      <3>1. Cardinality({}) = 0
        BY FS_EmptySet
      <3> QED
        BY <3>1, ReplicationAssumption
    <2>3. AllRead(S, Scanned(S, r.since))
      BY <1>1, <2>1, <2>2, PageEnds DEF Lists
    <2>4. DOMAIN a = Fields /\ a.since = Scanned(S, r.since)
      BY DEF Fields
    <2>5. AfterChanges(S, r, R) = Finish(a)
      BY <1>2 DEF AfterChanges
    <2> HIDE DEF a, R
    <2>6. ReadsAll(S, Finish(a))
      BY <2>3, <2>4, FinishReads
    <2> QED
      BY <2>5, <2>6 DEF R
  <1>3. CASE R # {}
    <2>1. Lists(S, r.filter, r.since, R, LastSeq(R))
      BY <1>3, PageLists
    <2>2. Cardinality(R) # BatchSize => AllRead(S, LastSeq(R))
      <3> HIDE DEF R
      <3> QED
        BY <1>1, <2>1, PageEnds DEF Lists
    <2>3. AfterChanges(S, r, R) = IF n.batch = {} THEN Skip(n) ELSE n
      BY <1>3 DEF AfterChanges
    <2> HIDE DEF R
    <2>4. DOMAIN n = Fields /\ n.pc = "diff" /\ n.last = LastSeq(R) /\ n.full = (Cardinality(R) = BatchSize)
      <3> DEFINE end == LastSeq(R)
                 full == (Cardinality(R) = BatchSize)
                 B == BatchOf(S, r.filter, R)
                 m == [r EXCEPT !.pc = "diff", !.batch = B]
      <3>1. n = [m EXCEPT !.last = end, !.full = full]
        BY DEF Listed, BatchEnd, BatchOf
      <3> HIDE DEF n, end, full, B
      <3>2. DOMAIN m = Fields /\ m.pc = "diff"
        BY DEF Fields
      <3> HIDE DEF m
      <3>3. DOMAIN n = Fields /\ n.pc = "diff" /\ n.last = end /\ n.full = full
        BY <3>1, <3>2 DEF Fields
      <3> QED
        BY <3>3 DEF end, full
    <2> HIDE DEF n
    <2>5. n.full \/ AllRead(S, n.last)
      BY <2>2, <2>4
    <2>6. ReadsAll(S, n)
      BY <2>4, <2>5 DEF ReadsAll, BatchPcs
    <2>7. ReadsAll(S, Skip(n))
      BY <2>4, <2>5, SkipReads
    <2> QED
      BY <2>3, <2>6, <2>7 DEF R
  <1> QED
    BY <1>2, <1>3

\* A call of the pass.
LEMMA StepReads ==
  ASSUME ReplInv, NEW x \in Replicator, Step(x), run[x].filter = NoFilter,
         ReadsAll(db[Source[x]], run[x])
  PROVE  ReadsAll(db[Source[x]], run'[x])
  <1> DEFINE r == run[x]
             S == db[Source[x]]
             Reach == r.failed \/ r.full \/ AllRead(S, r.last)
             Goal == \E e : run' = [run EXCEPT ![x] = e] /\ ReadsAll(S, e)
  <1>1. DbFine(S) /\ RunOk(db, policy, x, r) /\ DOMAIN run = Replicator
    BY SoundAt DEF ReplInv, Sound
  <1> SUFFICES Goal
    BY <1>1
  <1>2. r.pc # "idle"
    BY DEF Step, ReadTarget, ReadSource, Probe, ProbeLost, FetchChanges, Diff, Get, Check, WriteDocs,
           NothingWritten, ReadHistory, HistoryUnread, CheckpointTarget, CheckpointSource, At
  <1>3. DOMAIN r = Fields /\ Flags(r) /\ r.since \in Nat
    BY <1>1, <1>2, Busy DEF Carried
  <1>4. r.pc \in BatchPcs => Reach /\ ~r.final
    BY <1>3 DEF ReadsAll, BatchPcs, SavePcs, Flags
  <1>5. r.pc \in SavePcs => r.failed \/ (r.full /\ ~r.final) \/ AllRead(S, r.since)
    BY DEF ReadsAll, BatchPcs, SavePcs
  <1>6. CASE ReadTarget(x)
    <2> DEFINE cp == ReadFrom(Target[x], Key(x))
    <2>1. ReadsAll(S, [r EXCEPT !.pc = "read_source", !.tcp = cp])
      <3> HIDE DEF cp
      <3> QED
        BY <1>3 DEF ReadsAll, Fields
    <2> QED
      BY <1>3, <1>6, <2>1, FromReads DEF ReadTarget, Reads
  <1>7. CASE ReadSource(x)
    <2>1. ReadsAll(S, [r EXCEPT !.pc = "probe"])
      BY <1>3 DEF ReadsAll, Fields
    <2> QED
      BY <1>3, <1>7, <2>1, FromReads DEF ReadSource, Reads
  <1>8. CASE Probe(x)
    BY <1>3, <1>8, FromReads DEF Probe, Reads
  <1>9. CASE ProbeLost(x)
    <2>1. run' = [run EXCEPT ![x] = From(@, 0)]
      BY <1>9 DEF ProbeLost
    <2>2. [run EXCEPT ![x] = From(@, 0)] = [run EXCEPT ![x] = From(r, 0)]
      OBVIOUS
    <2> QED
      BY <1>3, <2>1, <2>2, FromReads
  <1>10. CASE FetchChanges(x)
    BY <1>1, <1>3, <1>10, ListedReads DEF FetchChanges, Reads
  <1>11. CASE Diff(x)
    <2> DEFINE M == UNION {{[id |-> b.id, rev |-> v] :
                              v \in MissingRevs(Nodes(db[Target[x]], b.id), b.revs)} : b \in r.batch}
               e == [r EXCEPT !.pc = "get", !.wanted = M, !.batch = {}]
    <2>1. r.pc = "diff"
      BY <1>11 DEF Diff, At
    <2>2. Reach
      BY <1>4, <2>1 DEF BatchPcs
    <2>3. run' = [run EXCEPT ![x] = IF M = {} THEN Skip(r) ELSE e]
      BY <1>11 DEF Diff, Reads
    <2>4. ReadsAll(S, e)
      <3> HIDE DEF M
      <3> DEFINE m == [r EXCEPT !.pc = "get", !.wanted = M]
      <3>1. DOMAIN m = Fields /\ m.pc = "get" /\ m.failed = r.failed /\ m.full = r.full /\ m.last = r.last
        BY <1>3 DEF Fields
      <3>2. e = [m EXCEPT !.batch = {}]
        OBVIOUS
      <3> HIDE DEF m
      <3>3. e.pc = "get" /\ e.failed = r.failed /\ e.full = r.full /\ e.last = r.last
        BY <3>1, <3>2 DEF Fields
      <3> HIDE DEF e
      <3> QED
        BY <2>2, <3>3 DEF ReadsAll, BatchPcs
    <2> HIDE DEF M, e
    <2>5. ReadsAll(S, Skip(r))
      BY <1>3, <2>2, SkipReads
    <2> QED
      BY <2>3, <2>4, <2>5
  <1>12. CASE Get(x)
    <2> SUFFICES ASSUME NEW W, NEW G, NEW D,
                        run' = [run EXCEPT ![x] = Fetched([r EXCEPT !.wanted = W, !.gone = G, !.docs = D])]
                 PROVE  Goal
      BY <1>12 DEF Get, Reads
    <2> DEFINE m == [r EXCEPT !.wanted = W, !.gone = G]
               n == [r EXCEPT !.wanted = W, !.gone = G, !.docs = D]
    <2>1. DOMAIN m = Fields /\ m.failed = r.failed /\ m.full = r.full /\ m.last = r.last
      BY <1>3 DEF Fields
    <2>2. n = [m EXCEPT !.docs = D]
      OBVIOUS
    <2> HIDE DEF m
    <2>3. DOMAIN n = Fields /\ n.failed = r.failed /\ n.full = r.full /\ n.last = r.last
      BY <2>1, <2>2 DEF Fields
    <2>4. Reach
      BY <1>4, <1>12 DEF BatchPcs, Get, At
    <2> HIDE DEF n
    <2>5. ReadsAll(S, Fetched(n))
      BY <2>3, <2>4, FetchedReads
    <2> QED
      BY <2>5 DEF n
  <1>13. CASE Check(x)
    <2>1. PICK g \in r.gone :
            Reads(x, Fetched([r EXCEPT
              !.gone = @ \ {g}, !.failed = @ \/ g.rev \in ListedRevs(db[Source[x]], g.id)]))
      BY <1>13 DEF Check
    <2> DEFINE n == [r EXCEPT
                       !.gone = @ \ {g}, !.failed = @ \/ g.rev \in ListedRevs(db[Source[x]], g.id)]
    <2>2. DOMAIN n = Fields /\ (r.failed => n.failed) /\ n.full = r.full /\ n.last = r.last
      BY <1>3 DEF Fields
    <2>3. run' = [run EXCEPT ![x] = Fetched(n)]
      BY <2>1 DEF Reads
    <2>4. Reach
      BY <1>4, <1>13 DEF BatchPcs, Check, At
    <2> HIDE DEF n
    <2>5. ReadsAll(S, Fetched(n))
      BY <2>2, <2>4, FetchedReads
    <2> QED
      BY <2>3, <2>5
  <1>14. ASSUME NEW lost, lost \in SUBSET r.docs, WriteDocs(x, lost)
         PROVE  Goal
    <2> DEFINE n == [r EXCEPT !.docs = {}, !.failed = @ \/ BatchFailed(r.docs, lost)]
    <2>1. DOMAIN n = Fields /\ (r.failed => n.failed) /\ n.full = r.full /\ n.last = r.last /\ n.final = r.final
      BY <1>3 DEF Fields
    <2>2. run' = [run EXCEPT ![x] = Written(n)]
      BY <1>14 DEF WriteDocs
    <2>3. Reach /\ ~r.final
      BY <1>4, <1>14 DEF BatchPcs, WriteDocs, At
    <2> HIDE DEF n
    <2>4. ReadsAll(S, Written(n))
      BY <2>1, <2>3, WrittenReads
    <2> QED
      BY <2>2, <2>4
  <1>15. CASE NothingWritten(x)
    <2>1. Reach /\ ~r.final
      BY <1>4, <1>15 DEF BatchPcs, NothingWritten, At
    <2> QED
      BY <1>3, <1>15, <2>1, WrittenReads DEF NothingWritten, Reads
  <1>16. ASSUME r.pc \in SavePcs, NEW e, DOMAIN e = Fields, e.pc \in SavePcs,
                e.failed = r.failed, e.full = r.full, e.final = r.final, e.since = r.since
         PROVE  ReadsAll(S, e)
    BY <1>5, <1>16 DEF ReadsAll
  <1>17. CASE ReadHistory(x)
    <2> SUFFICES ASSUME NEW h, run' = [run EXCEPT ![x] = [r EXCEPT !.pc = "cp_target", !.prior = h]]
                 PROVE  Goal
      BY <1>17 DEF ReadHistory, Reads
    <2> DEFINE e == [r EXCEPT !.pc = "cp_target", !.prior = h]
    <2>1. /\ DOMAIN e = Fields /\ e.pc = "cp_target" /\ e.failed = r.failed /\ e.full = r.full
          /\ e.final = r.final /\ e.since = r.since
      BY <1>3 DEF Fields
    <2> HIDE DEF e
    <2>2. ReadsAll(S, e)
      BY <1>16, <1>17, <2>1 DEF SavePcs, ReadHistory, At
    <2> QED
      BY <2>2 DEF e
  <1>18. ASSUME r.pc \in SavePcs, NEW pc \in SavePcs
         PROVE  ReadsAll(S, [r EXCEPT !.pc = pc])
    <2> DEFINE e == [r EXCEPT !.pc = pc]
    <2>1. /\ DOMAIN e = Fields /\ e.pc = pc /\ e.failed = r.failed /\ e.full = r.full
          /\ e.final = r.final /\ e.since = r.since
      BY <1>3 DEF Fields
    <2> HIDE DEF e
    <2>2. ReadsAll(S, e)
      BY <1>16, <1>18, <2>1
    <2> QED
      BY <2>2 DEF e
  <1>19. CASE HistoryUnread(x)
    <2>1. run' = [run EXCEPT ![x] = [r EXCEPT !.pc = "cp_target"]] /\ r.pc \in SavePcs
      BY <1>19 DEF HistoryUnread, At, SavePcs
    <2>2. "cp_target" \in SavePcs
      BY DEF SavePcs
    <2> QED
      BY <2>1, <2>2, <1>18
  <1>20. CASE CheckpointTarget(x)
    <2>1. run' = [run EXCEPT ![x] = IF r.readOnly THEN Saved(r) ELSE [r EXCEPT !.pc = "cp_source"]]
      BY <1>20 DEF CheckpointTarget
    <2>2. "cp_source" \in SavePcs /\ r.pc \in SavePcs
      BY <1>20 DEF SavePcs, CheckpointTarget, At
    <2>3. ReadsAll(S, Saved(r))
      BY <1>3, <1>5, <2>2, SavedReads
    <2> QED
      BY <2>1, <2>2, <2>3, <1>18
  <1>21. CASE CheckpointSource(x)
    <2> DEFINE n == [r EXCEPT !.readOnly = TRUE]
    <2>1. /\ DOMAIN n = Fields /\ n.failed = r.failed /\ n.full = r.full /\ n.final = r.final
          /\ n.since = r.since
      BY <1>3 DEF Fields
    <2>2. run' = [run EXCEPT ![x] = Saved(n)] \/ run' = [run EXCEPT ![x] = Saved(r)]
      BY <1>21 DEF CheckpointSource
    <2>3. r.pc \in SavePcs
      BY <1>21 DEF SavePcs, CheckpointSource, At
    <2> HIDE DEF n
    <2>4. ReadsAll(S, Saved(n)) /\ ReadsAll(S, Saved(r))
      BY <1>3, <1>5, <2>1, <2>3, SavedReads
    <2> QED
      BY <2>2, <2>4
  <1> QED
    BY <1>6, <1>7, <1>8, <1>9, <1>10, <1>11, <1>12, <1>13, <1>14, <1>15, <1>17, <1>19, <1>20, <1>21 DEF Step

----------------------------------------------------------------------------
(* The steps of the loop *)

\* Databases move on, and the passes read on.
LEMMA TurnsHeard ==
  ASSUME HeardInv, LiveInv', Evolve(db, db', policy), Announce, UNCHANGED <<live, announces>>,
         \A x \in Replicator : \/ run'[x] = run[x]
                               \/ live[x].pc = "pass" /\ ReadsAll(db[Source[x]], run[x]) =>
                                    ReadsAll(db[Source[x]], run'[x])
  PROVE  HeardInv'
  <1>1. DOMAIN queue' = Replicator
    BY DEF Announce
  <1>2. ASSUME NEW x \in Replicator
        PROVE  Queues(queue'[x])
    <2>1. \A n \in Node : IsQueue(queue[x][n]) /\ Announced(n) \in Seq(Notice)
      BY AnnouncedIs DEF HeardInv, LiveInv, Queues
    <2>2. \A n \in Node : IsQueue(Push(queue[x][n], Announced(n)))
      BY <2>1, PushKeeps
    <2>3. queue'[x] = [n \in Node |-> IF n \in announces \cap {Source[x], Target[x]}
                                        THEN Push(queue[x][n], Announced(n)) ELSE queue[x][n]]
      BY DEF Announce
    <2> QED
      BY <2>1, <2>2, <2>3 DEF Queues
  <1>3. ASSUME NEW x \in Replicator, BothAnnounce(x)
        PROVE  Heard(db', x, live[x], run'[x], queue'[x])
    <2>1. Heard(db, x, live[x], run[x], queue[x]) /\ Queues(queue[x]) /\ ReplInv
      BY <1>3 DEF HeardInv, LiveInv
    <2>2. Heard(db, x, live[x], run'[x], queue[x])
      BY <2>1 DEF Heard, SourceHeard, SourceKnown
    <2>3. queue'[x] = [n \in Node |-> IF n \in announces \cap {Source[x], Target[x]}
                                        THEN Push(queue[x][n], Announced(n)) ELSE queue[x][n]]
      BY DEF Announce
    <2> QED
      BY <1>3, <2>1, <2>2, <2>3, WorldHeard
  <1>4. \A x \in Replicator : BothAnnounce(x)' = BothAnnounce(x)
    BY DEF BothAnnounce
  <1> QED
    BY <1>1, <1>2, <1>3, <1>4 DEF HeardInv

\* The loop of x moves on; nothing is announced.
LEMMA LoopHeard ==
  ASSUME HeardInv, LiveInv', UNCHANGED <<db, announces>>, NEW x \in Replicator,
         \A y \in Replicator \ {x} : live'[y] = live[y] /\ run'[y] = run[y] /\ queue'[y] = queue[y],
         DOMAIN queue' = Replicator, Queues(queue'[x]),
         BothAnnounce(x) => Heard(db, x, live'[x], run'[x], queue'[x])
  PROVE  HeardInv'
  <1>1. ASSUME NEW y \in Replicator
        PROVE  /\ Queues(queue'[y])
               /\ BothAnnounce(y) => Heard(db, y, live'[y], run'[y], queue'[y])
    <2>1. CASE y = x
      BY <2>1
    <2>2. CASE y # x
      <3>1. live'[y] = live[y] /\ run'[y] = run[y] /\ queue'[y] = queue[y]
        BY <2>2
      <3> QED
        BY <3>1 DEF HeardInv
    <2> QED
      BY <2>1, <2>2
  <1>2. \A y \in Replicator : BothAnnounce(y)' = BothAnnounce(y)
    BY DEF BothAnnounce
  <1> QED
    BY <1>1, <1>2 DEF HeardInv

\* Nothing is known of the databases before their identities are read.
LEMMA AwakeHeard ==
  ASSUME NEW dbs, NEW x, NEW l, l.pc \in {"source_id", "back_off"}, NEW r, NEW q
  PROVE  Heard(dbs, x, l, r, q)
  BY DEF Heard, SourceHeard, TargetHeard, SourceKnown, TargetKnown

\* The functions that the steps of x change.
LEMMA LoopDomains ==
  ASSUME HeardInv, NEW x \in Replicator
  PROVE  /\ DOMAIN live = Replicator /\ DOMAIN run = Replicator /\ DOMAIN queue = Replicator
         /\ DOMAIN live[x] = LiveFields /\ Queues(queue[x])
         /\ Source[x] \in Node /\ Target[x] \in Node /\ Source[x] # Target[x]
         /\ LiveOk(db, policy, x, live[x], run[x]) /\ RunOk(db, policy, x, run[x])
         /\ BothAnnounce(x) => Heard(db, x, live[x], run[x], queue[x])
  BY SoundAt DEF HeardInv, LiveInv, ReplInv, Sound, LiveOk

\* x goes on where nothing is known, or knows what it knew.
LEMMA GoesHeard ==
  ASSUME HeardInv, LiveInv', UNCHANGED <<db, announces, run, queue>>, NEW x \in Replicator, NEW m,
         live' = [live EXCEPT ![x] = m],
         BothAnnounce(x) => Heard(db, x, m, run[x], queue[x])
  PROVE  HeardInv'
  <1>1. DOMAIN live = Replicator /\ DOMAIN queue = Replicator /\ Queues(queue[x])
    BY LoopDomains
  <1>2. live'[x] = m /\ \A y \in Replicator \ {x} : live'[y] = live[y]
    BY <1>1
  <1> QED
    BY <1>1, <1>2, LoopHeard

LEMMA AskHeard ==
  ASSUME HeardInv, LiveInv', UNCHANGED announces, NEW x \in Replicator, AskSource(x) \/ BackedOff(x)
  PROVE  HeardInv'
  <1> DEFINE l == live[x]
  <1>1. DOMAIN l = LiveFields
    BY LoopDomains
  <1>2. UNCHANGED <<db, run, queue>>
    BY DEF AskSource, BackedOff, vars
  <1>3. CASE AskSource(x)
    <2> DEFINE m == [l EXCEPT !.pc = "target_id", !.sid = Id(Source[x])]
    <2>1. m.pc = "target_id" /\ m.sid = <<Source[x], db[Source[x]].uuid>>
      BY <1>1 DEF LiveFields, Id
    <2>2. live' = [live EXCEPT ![x] = m]
      BY <1>3 DEF AskSource, Goes
    <2> HIDE DEF m
    <2>3. Heard(db, x, m, run[x], queue[x])
      BY <2>1 DEF Heard, SourceHeard, TargetHeard, SourceKnown, TargetKnown
    <2> QED
      BY <1>2, <2>2, <2>3, GoesHeard
  <1>4. CASE BackedOff(x)
    <2> DEFINE m == [l EXCEPT !.pc = "source_id"]
    <2>1. m.pc = "source_id"
      BY <1>1 DEF LiveFields
    <2>2. live' = [live EXCEPT ![x] = m]
      BY <1>4 DEF BackedOff, Goes
    <2> HIDE DEF m
    <2>3. Heard(db, x, m, run[x], queue[x])
      BY <2>1, AwakeHeard
    <2> QED
      BY <1>2, <2>2, <2>3, GoesHeard
  <1> QED
    BY <1>3, <1>4

\* A pass reads the feed, of the databases whose identities were just read.
LEMMA BeginHeard ==
  ASSUME HeardInv, LiveInv', UNCHANGED announces, NEW x \in Replicator, BeginPass(x)
  PROVE  HeardInv'
  <1> DEFINE l == live[x]
             S == db[Source[x]]
             ids == <<l.sid, Id(Target[x])>>
             over == PeerReset(l, ids)
             since == IF over THEN NoSeq ELSE l.since
             fresh == over \/ l.session = 0
             sess == IF fresh THEN sessions + 1 ELSE l.session
             readOnly == ~fresh /\ run[x].readOnly
             r == [Idle EXCEPT !.ids = ids, !.session = sess, !.readOnly = readOnly]
             m == [pc |-> "pass", since |-> since, session |-> sess, ids |-> ids,
                   sid |-> <<>>, reset |-> FALSE]
             e == IF since = NoSeq THEN Begin(r) ELSE From(r, since)
  <1>1. run' = [run EXCEPT ![x] = e] /\ live' = [live EXCEPT ![x] = m] /\ UNCHANGED <<db, queue>>
    BY DEF BeginPass, Goes
  <1>2. DOMAIN r = Fields
    <2> HIDE DEF ids, sess, readOnly
    <2> QED
      BY IdleIs DEF Fields
  <1>3. m.pc = "pass" /\ m.ids = ids /\ ids[1] = l.sid /\ ids[2] = <<Target[x], db[Target[x]].uuid>>
    BY DEF Id
  <1>4. l.pc = "target_id"
    BY DEF BeginPass, LiveAt
  <1> HIDE DEF m, r, ids, since
  <1>5. ReadsAll(S, e)
    <2>1. ReadsAll(S, [r EXCEPT !.pc = "read_target"])
      BY <1>2 DEF ReadsAll, Fields
    <2> HIDE DEF S
    <2>2. ReadsAll(S, From(r, 0)) /\ ReadsAll(S, From(r, since))
      BY <1>2, FromReads
    <2> QED
      BY <2>1, <2>2 DEF Begin
  <1> HIDE DEF e
  <1>6. /\ DOMAIN live = Replicator /\ DOMAIN run = Replicator /\ DOMAIN queue = Replicator
        /\ Queues(queue[x])
        /\ BothAnnounce(x) => Heard(db, x, l, run[x], queue[x])
    BY LoopDomains
  <1>7. BothAnnounce(x) => Heard(db, x, m, e, queue[x])
    BY <1>3, <1>4, <1>5, <1>6 DEF Heard, SourceHeard, TargetHeard, SourceKnown, TargetKnown
  <1>8. /\ live'[x] = m /\ run'[x] = e
        /\ \A y \in Replicator \ {x} : live'[y] = live[y] /\ run'[y] = run[y] /\ queue'[y] = queue[y]
    BY <1>1, <1>6
  <1> QED
    BY <1>1, <1>6, <1>7, <1>8, LoopHeard

\* A call of a pass; its checkpoint is lost; another of its calls fails.
LEMMA CallHeard ==
  ASSUME HeardInv, LiveInv', UNCHANGED announces, NEW x \in Replicator, PassStep(x)
  PROVE  HeardInv'
  <1>1. Step(x) /\ Announce /\ live' = live /\ live[x].pc = "pass"
    BY DEF PassStep, LiveAt
  <1>2. ReplInv /\ Evolve(db, db', policy)
    BY <1>1, ReplStep DEF HeardInv, LiveInv
  <1>3. /\ DOMAIN run = Replicator /\ DOMAIN run[x] = Fields /\ run[x].filter = NoFilter
    <2>1. DOMAIN run[x] = Fields
      BY LoopDomains DEF RunOk, Base
    <2> QED
      BY <1>1, <2>1, LoopDomains DEF LiveOk
  <1>4. \A y \in Replicator \ {x} : run'[y] = run[y]
    BY <1>1, <1>3, StepSame
  <1>5. ReadsAll(db[Source[x]], run[x]) => ReadsAll(db[Source[x]], run'[x])
    BY <1>1, <1>2, <1>3, StepReads
  <1> QED
    BY <1>1, <1>2, <1>4, <1>5, TurnsHeard

LEMMA LostHeard ==
  ASSUME HeardInv, LiveInv', UNCHANGED announces, NEW x \in Replicator, CheckpointLost(x)
  PROVE  HeardInv'
  <1> DEFINE n == [run[x] EXCEPT !.failed = TRUE]
             e == Ended(n)
  <1>1. run' = [run EXCEPT ![x] = e] /\ UNCHANGED <<db, live, queue>>
    BY DEF CheckpointLost
  <1>2. /\ DOMAIN run = Replicator /\ DOMAIN queue = Replicator /\ Queues(queue[x])
        /\ BothAnnounce(x) => Heard(db, x, live[x], run[x], queue[x])
    BY LoopDomains
  <1>3. DOMAIN run[x] = Fields
    BY LoopDomains DEF RunOk, Base
  <1>4. n.failed /\ DOMAIN n = Fields
    BY <1>3 DEF Fields
  <1> HIDE DEF n
  <1>5. ReadsAll(db[Source[x]], e)
    BY <1>4, FinishReads
  <1> HIDE DEF e
  <1>6. BothAnnounce(x) => Heard(db, x, live[x], e, queue[x])
    BY <1>2, <1>5 DEF Heard, SourceHeard, SourceKnown
  <1>7. run'[x] = e /\ \A y \in Replicator \ {x} : run'[y] = run[y]
    BY <1>1, <1>2
  <1> QED
    BY <1>1, <1>2, <1>6, <1>7, LoopHeard

LEMMA FailHeard ==
  ASSUME HeardInv, LiveInv', UNCHANGED announces, NEW x \in Replicator, CallFails(x)
  PROVE  HeardInv'
  <1> DEFINE m == [live[x] EXCEPT !.pc = "back_off", !.session = 0]
  <1>1. live' = [live EXCEPT ![x] = m] /\ run' = [run EXCEPT ![x] = Idle] /\ UNCHANGED <<db, queue>>
    BY DEF CallFails, Goes, Stop
  <1>2. /\ DOMAIN live = Replicator /\ DOMAIN run = Replicator /\ DOMAIN queue = Replicator
        /\ DOMAIN live[x] = LiveFields /\ Queues(queue[x])
    BY LoopDomains
  <1>3. m.pc = "back_off"
    BY <1>2 DEF LiveFields
  <1> HIDE DEF m
  <1>4. Heard(db, x, m, run'[x], queue[x])
    BY <1>3, AwakeHeard
  <1>5. /\ live'[x] = m
        /\ \A y \in Replicator \ {x} : live'[y] = live[y] /\ run'[y] = run[y]
    BY <1>1, <1>2
  <1> QED
    BY <1>1, <1>2, <1>4, <1>5, LoopHeard

\* A pass that ends complete has read all there is.
LEMMA EndHeard ==
  ASSUME HeardInv, LiveInv', UNCHANGED announces, NEW x \in Replicator, PassEnds(x)
  PROVE  HeardInv'
  <1> DEFINE l == live[x]
             r == run[x]
             pc == IF r.failed THEN "back_off" ELSE "drain"
             m == [l EXCEPT !.pc = pc, !.since = r.since]
             e == [Idle EXCEPT !.readOnly = r.readOnly]
  <1>1. /\ live' = [live EXCEPT ![x] = m] /\ run' = [run EXCEPT ![x] = e]
        /\ UNCHANGED <<db, queue>> /\ l.pc = "pass" /\ r.pc = "done"
    BY DEF PassEnds, Goes, LiveAt, At
  <1>2. /\ DOMAIN live = Replicator /\ DOMAIN run = Replicator /\ DOMAIN queue = Replicator
        /\ DOMAIN l = LiveFields /\ Queues(queue[x]) /\ RunOk(db, policy, x, r)
        /\ BothAnnounce(x) => Heard(db, x, l, r, queue[x])
    BY LoopDomains
  <1>3. r.since \in Nat
    BY <1>1, <1>2, Busy DEF Carried
  <1>4. m.pc = pc /\ m.since = r.since /\ m.ids = l.ids
    BY <1>2 DEF LiveFields
  <1>5. r.since # NoSeq
    BY <1>3 DEF NoSeq
  <1> HIDE DEF m, e
  <1>6. CASE r.failed
    <2>1. Heard(db, x, m, e, queue[x])
      BY <1>4, <1>6, AwakeHeard
    <2>2. /\ live'[x] = m /\ run'[x] = e
          /\ \A y \in Replicator \ {x} : live'[y] = live[y] /\ run'[y] = run[y]
      BY <1>1, <1>2
    <2> QED
      BY <1>1, <1>2, <2>1, <2>2, LoopHeard
  <1>7. CASE ~r.failed
    <2>1. ReadsAll(db[Source[x]], r) => AllRead(db[Source[x]], r.since)
      BY <1>1, <1>7 DEF ReadsAll, BatchPcs, SavePcs
    <2>2. m.pc = "drain"
      BY <1>4, <1>7
    <2>3. BothAnnounce(x) => Heard(db, x, m, e, queue[x])
      BY <1>1, <1>2, <1>4, <1>5, <2>1, <2>2
         DEF Heard, SourceHeard, TargetHeard, SourceKnown, TargetKnown
    <2>4. /\ live'[x] = m /\ run'[x] = e
          /\ \A y \in Replicator \ {x} : live'[y] = live[y] /\ run'[y] = run[y]
      BY <1>1, <1>2
    <2> QED
      BY <1>1, <1>2, <2>3, <2>4, LoopHeard
  <1> QED
    BY <1>6, <1>7

----------------------------------------------------------------------------
(* Hearing notices *)

\* All notices that are queued are taken in, those of the changes that the
\* pass itself made included.
LEMMA DrainHeard ==
  ASSUME HeardInv, LiveInv', UNCHANGED announces, NEW x \in Replicator, Drain(x)
  PROVE  HeardInv'
  <1> DEFINE l == live[x]
             reset == l.reset \/ HasReset(x, Source[x]) \/ HasReset(x, Target[x])
             pc == AfterDrain(x, reset)
             m == [l EXCEPT !.pc = pc, !.reset = reset]
             none == [n \in Node |-> NoNotices]
  <1>1. /\ live' = [live EXCEPT ![x] = m] /\ queue' = [queue EXCEPT ![x] = none]
        /\ UNCHANGED <<db, run>> /\ l.pc = "drain"
    BY DEF Drain, Goes, LiveAt, vars
  <1>2. /\ DOMAIN live = Replicator /\ DOMAIN queue = Replicator
        /\ DOMAIN l = LiveFields /\ Queues(queue[x])
        /\ Source[x] \in Node /\ Target[x] \in Node
        /\ BothAnnounce(x) => Heard(db, x, l, run[x], queue[x])
    BY LoopDomains
  <1>3. IsQueue(queue[x][Target[x]])
    BY <1>2 DEF Queues
  <1>4. IsQueue(NoNotices)
    BY <1>3, QueueIs
  <1>5. Queues(none)
    BY <1>4 DEF Queues
  <1>6. m.pc = pc /\ m.ids = l.ids /\ m.since = l.since
    <2> HIDE DEF pc, reset
    <2> QED
      BY <1>2 DEF LiveFields
  <1> HIDE DEF m
  <1>7. ASSUME pc # "source_id"
        PROVE  /\ queue[x][Source[x]] = NoNotices
               /\ \/ pc = "check"
                  \/ pc = "wait" /\ ~Alarm(queue[x][Target[x]])
    BY <1>7 DEF AfterDrain, Pending, HasReset, Alarm
  <1>8. pc \in {"source_id", "check", "wait"}
    BY DEF AfterDrain
  <1> HIDE DEF pc, reset
  <1>9. BothAnnounce(x) => Heard(db, x, m, run[x], none)
    <2>1. CASE pc = "source_id"
      BY <1>6, <2>1, AwakeHeard
    <2>2. CASE pc # "source_id"
      <3>1. BothAnnounce(x) => SourceHeard(db[Source[x]], Source[x], m, run[x], none[Source[x]])
        BY <1>1, <1>2, <1>6, <1>7, <1>8, <2>2 DEF Heard, SourceHeard, SourceKnown
      <3>2. BothAnnounce(x) => TargetHeard(db[Target[x]], Target[x], m, none[Target[x]])
        BY <1>1, <1>2, <1>6, <1>7, <1>8, <2>2 DEF Heard, TargetHeard, TargetKnown
      <3> QED
        BY <3>1, <3>2 DEF Heard
    <2> QED
      BY <2>1, <2>2
  <1> HIDE DEF none
  <1>10. /\ live'[x] = m /\ queue'[x] = none /\ DOMAIN queue' = Replicator
         /\ \A y \in Replicator \ {x} : live'[y] = live[y] /\ queue'[y] = queue[y]
    BY <1>1, <1>2
  <1> QED
    BY <1>1, <1>5, <1>9, <1>10, LoopHeard

\* The identities are compared; or they cannot be read, or are not looked at
\* because an adapter announces nothing.
LEMMA CompareHeard ==
  ASSUME HeardInv, LiveInv', UNCHANGED announces, NEW x \in Replicator,
         (\E changed \in BOOLEAN : CompareIds(x, changed)) \/ IdsUnread(x) \/ Poll(x)
  PROVE  HeardInv'
  <1> DEFINE l == live[x]
             Ends(pc) == [l EXCEPT !.pc = pc]
             lost == [l EXCEPT !.pc = "back_off", !.session = 0, !.sid = <<>>]
  <1>1. UNCHANGED <<db, run, queue>>
    BY DEF CompareIds, IdsUnread, Poll, vars
  <1>2. /\ DOMAIN l = LiveFields /\ Source[x] \in Node /\ Target[x] \in Node
        /\ BothAnnounce(x) => Heard(db, x, l, run[x], queue[x])
    BY LoopDomains
  <1>3. \A pc : Ends(pc).pc = pc /\ Ends(pc).ids = l.ids /\ Ends(pc).since = l.since
    BY <1>2 DEF LiveFields
  <1>4. lost.pc = "back_off"
    <2> DEFINE a == [l EXCEPT !.pc = "back_off", !.session = 0]
    <2>1. DOMAIN a = LiveFields /\ a.pc = "back_off"
      BY <1>2 DEF LiveFields
    <2>2. lost = [a EXCEPT !.sid = <<>>]
      OBVIOUS
    <2> HIDE DEF a
    <2> QED
      BY <2>1, <2>2 DEF LiveFields
  <1> HIDE DEF lost, Ends
  <1>5. ASSUME NEW m, live' = [live EXCEPT ![x] = m],
               \/ m = lost \/ m = Ends("source_id")
               \/ m \in {Ends("check"), Ends("wait")} /\ ~BothAnnounce(x)
        PROVE  HeardInv'
    <2>1. BothAnnounce(x) => Heard(db, x, m, run[x], queue[x])
      BY <1>3, <1>4, <1>5, AwakeHeard
    <2> QED
      BY <1>1, <1>5, <2>1, GoesHeard
  <1>6. ASSUME NEW changed \in BOOLEAN, CompareIds(x, changed)
        PROVE  HeardInv'
    <2>1. /\ live' = [live EXCEPT ![x] = Ends(IF changed THEN "source_id" ELSE "wait")]
          /\ l.pc = "check" /\ (changed <=> l.ids # Ids(x))
      BY <1>6 DEF CompareIds, Goes, LiveAt, Ends
    <2>2. CASE changed
      BY <1>5, <2>1, <2>2
    <2>3. CASE ~changed
      <3> DEFINE m == Ends("wait")
      <3>1. m.pc = "wait" /\ m.ids = l.ids /\ m.since = l.since
        BY <1>3
      <3>2. l.ids[2] = <<Target[x], db[Target[x]].uuid>>
        BY <2>1, <2>3 DEF Ids, Id
      <3>3. live' = [live EXCEPT ![x] = m]
        BY <2>1, <2>3
      <3> HIDE DEF m
      <3>4. BothAnnounce(x) => Heard(db, x, m, run[x], queue[x])
        BY <1>2, <2>1, <3>1, <3>2 DEF Heard, SourceHeard, TargetHeard, SourceKnown, TargetKnown
      <3> QED
        BY <1>1, <3>3, <3>4, GoesHeard
    <2> QED
      BY <2>2, <2>3
  <1>7. CASE IdsUnread(x)
    <2>1. \/ live' = [live EXCEPT ![x] = lost]
          \/ live' = [live EXCEPT ![x] = Ends("wait")] /\ ~BothAnnounce(x)
      BY <1>7 DEF IdsUnread, Goes, lost, Ends, BothAnnounce
    <2> QED
      BY <1>5, <2>1
  <1>8. CASE Poll(x)
    <2>1. /\ \/ live' = [live EXCEPT ![x] = Ends("check")]
             \/ live' = [live EXCEPT ![x] = Ends("source_id")]
          /\ ~BothAnnounce(x)
      BY <1>8 DEF Poll, Goes, Ends, BothAnnounce
    <2> QED
      BY <1>5, <2>1
  <1> QED
    BY <1>6, <1>7, <1>8

LEMMA WakeHeard ==
  ASSUME HeardInv, LiveInv', UNCHANGED announces, NEW x \in Replicator, WakeBySource(x)
  PROVE  HeardInv'
  <1> DEFINE l == live[x]
             reset == l.reset \/ HasReset(x, Source[x])
             m == [l EXCEPT !.pc = "source_id", !.reset = reset]
             q == [queue[x] EXCEPT ![Source[x]] = NoNotices]
  <1>1. /\ live' = [live EXCEPT ![x] = m] /\ queue' = [queue EXCEPT ![x] = q]
        /\ UNCHANGED <<db, run>>
    BY DEF WakeBySource, Goes, vars
  <1>2. /\ DOMAIN live = Replicator /\ DOMAIN queue = Replicator
        /\ DOMAIN l = LiveFields /\ Queues(queue[x]) /\ Source[x] \in Node
    BY LoopDomains
  <1>3. m.pc = "source_id"
    <2> HIDE DEF reset
    <2> QED
      BY <1>2 DEF LiveFields
  <1>4. IsQueue(queue[x][Source[x]])
    BY <1>2 DEF Queues
  <1>5. IsQueue(NoNotices)
    BY <1>4, QueueIs
  <1>6. Queues(q)
    BY <1>2, <1>5 DEF Queues
  <1> HIDE DEF m, q
  <1>7. Heard(db, x, m, run[x], q)
    BY <1>3, AwakeHeard
  <1>8. /\ live'[x] = m /\ queue'[x] = q /\ DOMAIN queue' = Replicator
        /\ \A y \in Replicator \ {x} : live'[y] = live[y] /\ queue'[y] = queue[y]
    BY <1>1, <1>2
  <1> QED
    BY <1>1, <1>6, <1>7, <1>8, LoopHeard

\* A notice that is no reset is dropped; a reset behind it stays queued.
LEMMA TailKeeps ==
  ASSUME NEW q, IsQueue(q), q.notices # <<>>, Head(q.notices) # "reset",
         NEW p, p = [q EXCEPT !.notices = Tail(@)]
  PROVE  IsQueue(p) /\ (Alarm(q) => Alarm(p))
  <1>1. q.notices \in Seq(Notice) /\ Tail(q.notices) \in Seq(Notice)
    BY DEF IsQueue
  <1>2. IsQueue(p) /\ p.notices = Tail(q.notices) /\ p.lagged = q.lagged
    BY <1>1 DEF IsQueue
  <1>3. ASSUME NEW i \in DOMAIN q.notices, q.notices[i] = "reset"
        PROVE  Alarm(p)
    <2> DEFINE s == q.notices
               j == i - 1
    <2>1. i # 1 /\ i \in 1 .. Len(s)
      BY <1>1, <1>3
    <2>2. j \in 1 .. Len(Tail(s)) /\ Tail(s)[j] = s[i]
      BY <1>1, <2>1
    <2>3. j \in DOMAIN p.notices /\ p.notices[j] = "reset"
      BY <1>1, <1>2, <1>3, <2>2
    <2> HIDE DEF j
    <2> QED
      BY <2>3 DEF Alarm
  <1>4. q.lagged => Alarm(p)
    BY <1>2 DEF Alarm
  <1> QED
    BY <1>2, <1>3, <1>4 DEF Alarm

LEMMA HearHeard ==
  ASSUME HeardInv, LiveInv', UNCHANGED announces, NEW x \in Replicator, HearTarget(x)
  PROVE  HeardInv'
  <1> DEFINE l == live[x]
             qt == queue[x][Target[x]]
             Ends(pc) == [l EXCEPT !.pc = pc]
             told == [l EXCEPT !.pc = "source_id", !.reset = TRUE]
             After(p) == [queue[x] EXCEPT ![Target[x]] = p]
  <1>1. UNCHANGED <<db, run>> /\ l.pc = "wait"
    BY DEF HearTarget, LiveAt, vars
  <1>2. /\ DOMAIN live = Replicator /\ DOMAIN queue = Replicator
        /\ DOMAIN l = LiveFields /\ Queues(queue[x]) /\ DOMAIN queue[x] = Node
        /\ Source[x] \in Node /\ Target[x] \in Node /\ Source[x] # Target[x]
        /\ BothAnnounce(x) => Heard(db, x, l, run[x], queue[x])
    BY LoopDomains DEF Queues
  <1>3. IsQueue(qt)
    BY <1>2 DEF Queues
  <1>4. ASSUME NEW p, IsQueue(p), queue' = [queue EXCEPT ![x] = After(p)],
               NEW m, live' = [live EXCEPT ![x] = m] \/ (live' = live /\ m = l),
               BothAnnounce(x) => Heard(db, x, m, run[x], After(p))
        PROVE  HeardInv'
    <2> DEFINE q == After(p)
    <2>1. Queues(q)
      BY <1>2, <1>4 DEF Queues
    <2> HIDE DEF q
    <2>2. /\ live'[x] = m /\ queue'[x] = q /\ DOMAIN queue' = Replicator
          /\ \A y \in Replicator \ {x} : live'[y] = live[y] /\ queue'[y] = queue[y]
      BY <1>2, <1>4 DEF q
    <2> QED
      BY <1>1, <1>4, <2>1, <2>2, LoopHeard DEF q
  <1>5. \A p : After(p)[Target[x]] = p /\ After(p)[Source[x]] = queue[x][Source[x]]
    BY <1>2
  <1>6. CASE qt.lagged
    <2> DEFINE p == [qt EXCEPT !.lagged = FALSE]
               m == Ends("check")
    <2>1. queue' = [queue EXCEPT ![x] = After(p)] /\ live' = [live EXCEPT ![x] = m]
      BY <1>6 DEF HearTarget, Goes
    <2>2. IsQueue(p)
      BY <1>3 DEF IsQueue
    <2>3. m.pc = "check" /\ m.ids = l.ids /\ m.since = l.since
      BY <1>2 DEF LiveFields
    <2> HIDE DEF p, m, After
    <2>4. BothAnnounce(x) => Heard(db, x, m, run[x], After(p))
      BY <1>1, <1>2, <1>5, <2>3 DEF Heard, SourceHeard, TargetHeard, SourceKnown, TargetKnown
    <2> QED
      BY <1>4, <2>1, <2>2, <2>4
  <1>7. CASE ~qt.lagged
    <2> DEFINE p == [qt EXCEPT !.notices = Tail(@)]
    <2>1. /\ queue' = [queue EXCEPT ![x] = After(p)]
          /\ IF Head(qt.notices) = "reset" THEN live' = [live EXCEPT ![x] = told] ELSE live' = live
      BY <1>7 DEF HearTarget, Goes
    <2>2. qt.notices # <<>>
      BY <1>3, <1>7, QueueIs DEF HearTarget, Pending
    <2>3. IsQueue(p)
      <3> HIDE DEF qt
      <3>1. Tail(qt.notices) \in Seq(Notice)
        BY <1>3, <2>2 DEF IsQueue
      <3> QED
        BY <1>3, <3>1 DEF IsQueue
    <2>4. told.pc = "source_id"
      BY <1>2 DEF LiveFields
    <2>5. Head(qt.notices) # "reset" => (Alarm(qt) => Alarm(p))
      <3> HIDE DEF qt
      <3> QED
        BY <1>3, <2>2, TailKeeps
    <2> HIDE DEF p, After, told
    <2>6. CASE Head(qt.notices) = "reset"
      <3>1. Heard(db, x, told, run[x], After(p))
        BY <2>4, AwakeHeard
      <3> QED
        BY <1>4, <2>1, <2>3, <2>6, <3>1
    <2>7. CASE Head(qt.notices) # "reset"
      <3>1. BothAnnounce(x) => Heard(db, x, l, run[x], After(p))
        BY <1>2, <1>5, <2>5, <2>7 DEF Heard, SourceHeard, TargetHeard
      <3> QED
        BY <1>4, <2>1, <2>3, <2>7, <3>1
    <2> QED
      BY <2>6, <2>7
  <1> QED
    BY <1>6, <1>7

----------------------------------------------------------------------------

LEMMA HeardKept ==
  ASSUME LiveKeeps, HeardInv, [LiveNext]_liveVars
  PROVE  HeardInv'
  <1>1. LiveInv'
    BY LiveKept DEF HeardInv
  <1>2. CASE UNCHANGED liveVars
    <2>1. UNCHANGED <<db, run, live, queue, announces>>
      BY <1>2 DEF liveVars, vars
    <2> QED
      BY <1>1, <2>1 DEF HeardInv, BothAnnounce
  <1>3. ASSUME Applications, Announce, UNCHANGED <<live, announces>>
        PROVE  HeardInv'
    <2>1. ReplInv /\ policy.restorable = {}
      <3>1. policy \in Situations
        BY DEF HeardInv, LiveInv, ReplInv, Sound
      <3> QED
        BY <3>1 DEF LiveKeeps, HeardInv, LiveInv
    <2>2. Evolve(db, db', policy) /\ run' = run
      BY <1>3, <2>1, ApplicationStep
    <2> QED
      BY <1>1, <1>3, <2>2, TurnsHeard
  <1>4. ASSUME NEW x \in Replicator, LiveStep(x) \/ CheckpointLost(x) \/ CallFails(x) \/ IdsUnread(x),
               UNCHANGED announces
        PROVE  HeardInv'
    BY <1>1, <1>4, AskHeard, BeginHeard, CallHeard, LostHeard, FailHeard, EndHeard, DrainHeard,
       CompareHeard, WakeHeard, HearHeard DEF LiveStep
  <1> QED
    BY <1>2, <1>3, <1>4 DEF LiveNext

LEMMA HeardStarts ==
  ASSUME LiveInit
  PROVE  HeardInv
  <1>1. LiveInv
    BY LiveStarts
  <1>2. IsQueue(NoNotices)
    <2>1. <<>> \in Seq(Notice)
      OBVIOUS
    <2> QED
      BY <2>1 DEF IsQueue, NoNotices
  <1>3. queue = [x \in Replicator |-> [n \in Node |-> NoNotices]]
    BY DEF LiveInit
  <1>4. DOMAIN queue = Replicator /\ \A x \in Replicator : Queues(queue[x])
    BY <1>2, <1>3 DEF Queues
  <1>5. \A x \in Replicator : live[x].pc = "source_id"
    BY DEF LiveInit
  <1> QED
    BY <1>1, <1>4, <1>5, AwakeHeard DEF HeardInv

\* A replicator that waits, with nothing queued that it has to act on, knows
\* both databases, and has read the feed to its end.
LEMMA WaitingIsDone ==
  ASSUME HeardInv
  PROVE  IdleMeansCopied
  <1> SUFFICES ASSUME NEW x \in Replicator,
                      LiveAt(x, "wait"), {Source[x], Target[x]} \subseteq announces,
                      ~Pending(x, Source[x]),
                      ~HasReset(x, Target[x]), ~queue[x][Target[x]].lagged
               PROVE  live[x].ids = Ids(x) /\ CopiedUpTo(x, NoFilter, db[Source[x]].updateSeq)
    BY DEF IdleMeansCopied
  <1> DEFINE l == live[x]
             S == db[Source[x]]
             T == db[Target[x]]
  <1>1. /\ l.pc = "wait" /\ queue[x][Source[x]] = NoNotices /\ ~Alarm(queue[x][Target[x]])
        /\ BothAnnounce(x)
    BY DEF LiveAt, Pending, HasReset, Alarm, BothAnnounce
  <1>2. Heard(db, x, l, run[x], queue[x]) /\ LiveOk(db, policy, x, l, run[x])
    BY <1>1, LoopDomains
  <1>3. l.ids[1] = <<Source[x], S.uuid>> /\ l.since # NoSeq /\ AllRead(S, l.since)
    BY <1>1, <1>2 DEF Heard, SourceHeard, SourceKnown
  <1>4. l.ids[2] = <<Target[x], T.uuid>>
    BY <1>1, <1>2 DEF Heard, TargetHeard, TargetKnown
  <1>5. Known(db, l.ids, x)
    BY <1>2, <1>3 DEF LiveOk
  <1>6. l.ids = <<l.ids[1], l.ids[2]>>
    BY <1>5 DEF Known
  <1>7. l.ids = IdsIn(db, x) /\ IdsIn(db, x) = Ids(x)
    BY <1>3, <1>4, <1>6 DEF IdsIn, Ids, Id
  <1>8. Good(S, T, policy.denied, NoFilter, l.since) /\ DbFine(S)
    BY <1>2, <1>3, <1>7, SoundAt DEF LiveOk, HeardInv, LiveInv, ReplInv
  <1>9. CopiedUpTo(x, NoFilter, l.since)
    BY <1>8, GoodCopied
  <1>10. CopiedUpTo(x, NoFilter, S.updateSeq)
    BY <1>3, <1>9 DEF CopiedUpTo, AllRead
  <1> QED
    BY <1>7, <1>10

\* No wake-up is lost (protocol.rs, replicate_live; rouchdb-core,
\* ChangeNotice): a replicator that waits with nothing left to receive, between
\* adapters that announce their changes, has copied all there is to the
\* database that is there now, whatever notices the channels dropped; for live
\* replications whose target nothing is purged from.
THEOREM WaitingMeansCopied ==
  ASSUME LiveKeeps
  PROVE  LiveSpec => []IdleMeansCopied
  <1>1. LiveInit => HeardInv
    BY HeardStarts
  <1>2. HeardInv /\ [LiveNext]_liveVars => HeardInv'
    BY HeardKept
  <1>3. HeardInv => IdleMeansCopied
    BY WaitingIsDone
  <1> QED
    BY <1>1, <1>2, <1>3, PTL DEF LiveSpec
=============================================================================
