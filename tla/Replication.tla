---------------------------- MODULE Replication ----------------------------
(***************************************************************************)
(* One-shot replications between databases (rouchdb-replication:           *)
(* protocol.rs run_replication, checkpoint.rs).                            *)
(*                                                                         *)
(* A replicator is a task that awaits one call on its source or target     *)
(* after another; every call is one step here, and between two of them     *)
(* applications write, compact, purge and destroy either database, and     *)
(* other replicators run.  A replicator may stop anywhere: it was dropped, *)
(* its process died, or a call failed, and all it leaves behind is what it *)
(* wrote.  The databases keep every revision (a limit of 0), and documents *)
(* carry no attachments: a document comes with its own, inline.            *)
(***************************************************************************)
EXTENDS Database, SequencesExt

CONSTANTS
  Node,        \* the databases
  Replicator,  \* the replicating tasks
  Source,      \* Source[x]: the node x reads
  Target,      \* Target[x]: the node x writes
  BatchSize,   \* ReplicationOptions::batch_size
  MaxHistory,  \* MAX_HISTORY
  Situations,  \* what can happen, one of
               \*   runs        the replicators that run
               \*   readOnly    the nodes that refuse all writes of _local documents
               \*   denied      the documents that targets reject for good (validation)
               \*   filters     the filters of the runs
               \*   sameIds     whether all databases report the same Adapter::id
               \*   edits       what applications write: <<node, document, revision>>
               \*   purged, destroyed, restorable
               \*               the nodes that are purged, destroyed, restored from a backup
               \*   faults      bound: how often a replicator stops or a call fails
  MaxSeq,      \* bound: the last sequence number of an edited node
  MaxSession   \* bound: the number of runs

ASSUME ReplicationAssumption ==
  /\ Source \in [Replicator -> Node] /\ Target \in [Replicator -> Node]
  /\ \A x \in Replicator : Source[x] # Target[x]
  /\ BatchSize \in Nat \ {0} /\ MaxHistory \in Nat \ {0}
  /\ \A r \in Rev : Att[r] = {}
  /\ Situations \subseteq
       [runs : SUBSET Replicator, readOnly : SUBSET Node, denied : SUBSET Doc,
        filters : SUBSET [kind : {"none", "doc_ids", "selector", "custom"},
                          ids : SUBSET Doc, revs : SUBSET Rev],
        sameIds : BOOLEAN, edits : SUBSET (Node \X Doc \X Rev), purged : SUBSET Node, destroyed : SUBSET Node,
        restorable : SUBSET Node, faults : Nat]
  /\ {MaxSeq, MaxSession} \subseteq Nat

VARIABLES
  db,       \* the databases
  local,    \* local[n]: the checkpoints stored at n, by replication id
  run,      \* the replicators
  sessions, \* session ids handed out: 1 .. sessions
  backup,   \* backup[n]: what a restore of n brings back
  policy,   \* the situation, which no step changes
  faults    \* how often a replicator stopped or a call failed

vars == <<db, local, run, sessions, backup, policy, faults>>

----------------------------------------------------------------------------
(* Filters *)

\* ReplicationFilter: DocIds lists documents (ids), Custom is a predicate on
\* changes, here on their documents (ids), Selector one on revisions (revs).
NoFilter == [kind |-> "none", ids |-> Doc, revs |-> Rev]

\* Slip: filters of one kind are taken for the same.
KindFingerprint(f) == f.kind

\* filter_fingerprint: which documents or which selector, in one spelling.
Fingerprint(f) == f

\* A predicate has no fingerprint, and peers with one id cannot be told apart:
\* then there is no checkpointer (session_for).
Checkpointed(f) == f.kind # "custom" /\ ~policy.sameIds

\* The source lists the changes of the documents DocIds names.
Offered(source, f) ==
  IF f.kind = "doc_ids" THEN [source EXCEPT !.changes = {c \in @ : c.id \in f.ids}] ELSE source

----------------------------------------------------------------------------
(* Checkpoints *)

\* Adapter::id, which a destroy renews.
Id(n) == <<n, db[n].uuid>>

Ids(x) == <<Id(Source[x]), Id(Target[x])>>

\* The id of a replication: the peers and the filter.
ReplicationId(ids, f) == <<ids, Fingerprint(f)>>

NoCheckpoint == [last |-> 0, session |-> 0, history |-> <<>>]

ReadFrom(n, id) == IF id \in DOMAIN local[n] THEN local[n][id] ELSE NoCheckpoint

\* The entries of a history that are not this session's.
OthersOf(session, prior) ==
  LET kept[i \in 0 .. Len(prior)] ==
        IF i = 0 THEN <<>>
        ELSE IF prior[i].session = session THEN kept[i - 1] ELSE Append(kept[i - 1], prior[i])
  IN  kept[Len(prior)]

\* build_checkpoint_doc: this session's entry goes first, in place of an
\* older one of its own.
BuildCheckpoint(session, last, prior) ==
  LET all == <<[last |-> last, session |-> session]>> \o OthersOf(session, prior)
  IN  [last |-> last, session |-> session,
       history |-> SubSeq(all, 1, IF Len(all) < MaxHistory THEN Len(all) ELSE MaxHistory)]

PutLocal(n, id, cp) ==
  [local EXCEPT ![n] = [i \in DOMAIN @ \union {id} |-> IF i = id THEN cp ELSE @[i]]]

PickCommon(a, b) == IF a <= b THEN a ELSE b

\* compare_checkpoints: the sequence of the first entry of the source's
\* history whose session the target's history holds too.
CompareCheckpoints(scp, tcp) ==
  LET common == {p \in (DOMAIN scp.history) \X (DOMAIN tcp.history) :
                   scp.history[p[1]].session = tcp.history[p[2]].session}
      first  == CHOOSE p \in common :
                  \A o \in common : p[1] < o[1] \/ (p[1] = o[1] /\ p[2] <= o[2])
  IN  IF scp.session = tcp.session
        THEN PickCommon(scp.last, tcp.last)
        ELSE IF common = {}
          THEN 0
          ELSE PickCommon(scp.history[first[1]].last, tcp.history[first[2]].last)

----------------------------------------------------------------------------
(* A replicator *)

\* pc names the call it awaits next.  since and saved are current_seq and
\* checkpointed_seq; goal, which no step reads, is where the source was when
\* the run started.
Idle ==
  [pc |-> "idle", ids |-> <<>>, filter |-> NoFilter, session |-> 0, readOnly |-> FALSE, tcp |-> NoCheckpoint,
   since |-> 0, saved |-> 0, goal |-> 0, batch |-> {}, last |-> 0, full |-> FALSE,
   wanted |-> {}, docs |-> {}, gone |-> {}, failed |-> FALSE, prior |-> <<>>, final |-> FALSE]

Init ==
  /\ db = [n \in Node |-> EmptyDb(0)]
  /\ local = [n \in Node |-> [i \in {} |-> NoCheckpoint]]
  /\ run = [x \in Replicator |-> Idle]
  /\ sessions = 0
  /\ backup = [n \in Node |-> [db |-> db[n], local |-> local[n]]]
  /\ policy \in Situations
  /\ faults = 0

Active(x) == run[x].pc \notin {"idle", "done"}

At(x, pc) == run[x].pc = pc

\* A call that changes neither database.
Reads(x, next) ==
  /\ run' = [run EXCEPT ![x] = next]
  /\ UNCHANGED <<db, local, sessions, backup, policy, faults>>

\* The highest sequence of some changes.
LastSeq(C) == CHOOSE s \in {c.seq : c \in C} : \A c \in C : c.seq <= s

From(r, seq) == [r EXCEPT !.pc = "changes", !.since = seq, !.saved = seq, !.tcp = NoCheckpoint]

\* Without a checkpointer the whole feed is scanned.
Begin(r) == IF Checkpointed(r.filter) THEN [r EXCEPT !.pc = "read_target"] ELSE From(r, 0)

\* new_session: the ids are read once, the session is new.
Start(x, f) ==
  /\ ~Active(x) /\ x \in policy.runs
  /\ sessions < MaxSession
  /\ sessions' = sessions + 1
  /\ run' = [run EXCEPT ![x] = Begin([Idle EXCEPT !.ids = Ids(x), !.filter = f,
                                                  !.session = sessions + 1,
                                                  !.goal = db[Source[x]].updateSeq])]
  /\ UNCHANGED <<db, local, backup, policy, faults>>

\* The id its checkpoints are stored under.
Key(x) == ReplicationId(run[x].ids, run[x].filter)

\* read_checkpoint reads the target's first: without one there is nothing to
\* resume from.
ReadTarget(x) ==
  /\ At(x, "read_target")
  /\ LET cp == ReadFrom(Target[x], Key(x))
     IN  Reads(x, IF cp = NoCheckpoint
                    THEN From(run[x], 0)
                    ELSE [run[x] EXCEPT !.pc = "read_source", !.tcp = cp])

ReadSource(x) ==
  /\ At(x, "read_source")
  /\ LET cp == ReadFrom(Source[x], Key(x))
     IN  Reads(x, IF cp = NoCheckpoint
                    THEN [run[x] EXCEPT !.pc = "probe"]
                    ELSE From(run[x], CompareCheckpoints(cp, run[x].tcp)))

\* The source has no checkpoint: a trial write tells whether it can store
\* one.  If it cannot, the target's alone counts; a write that fails in another
\* way is ignored.
Probe(x) ==
  /\ At(x, "probe")
  /\ IF Source[x] \in policy.readOnly
       THEN Reads(x, [From(run[x], run[x].tcp.last) EXCEPT !.readOnly = TRUE])
       ELSE /\ local' = PutLocal(Source[x], Key(x),
                                 BuildCheckpoint(run[x].session, 0, <<>>))
            /\ run' = [run EXCEPT ![x] = From(run[x], 0)]
            /\ UNCHANGED <<db, sessions, backup, policy, faults>>

ProbeLost(x) ==
  /\ At(x, "probe") /\ faults < policy.faults
  /\ run' = [run EXCEPT ![x] = From(@, 0)]
  /\ faults' = faults + 1
  /\ UNCHANGED <<db, local, sessions, backup, policy>>

\* What a run that ended leaves: where it got to, and whether it failed.
Ended(r) ==
  [Idle EXCEPT !.pc = "done", !.ids = r.ids, !.filter = r.filter, !.since = r.since, !.goal = r.goal,
               !.failed = r.failed, !.readOnly = r.readOnly]

\* Slip: progress without a write is not saved.
FinishUnsaved(r) == Ended(r)

\* The end of the loop: progress that no checkpoint tells yet is saved once.
Finish(r) ==
  IF r.since # r.saved /\ Checkpointed(r.filter)
    THEN [r EXCEPT !.pc = "history", !.final = TRUE]
    ELSE Ended(r)

\* Slip: the scan does not move on.
SkipNothing(r) == IF r.full THEN [r EXCEPT !.pc = "changes", !.batch = {}] ELSE Finish(r)

\* Slip: a batch that needs no write is taken for the last one.
SkipAll(r) == Finish([r EXCEPT !.since = r.last, !.batch = {}])

\* The batch is dealt with and needed no write.
Skip(r) ==
  LET next == [r EXCEPT !.since = r.last, !.batch = {}]
  IN  IF r.full THEN [next EXCEPT !.pc = "changes"] ELSE Finish(next)

\* changes: the last_seq of a batch is the sequence of its last entry.
BatchEnd(source, results) == LastSeq(results)

\* An empty batch: the scan passes what the source did not list.
Scanned(source, since) == LastSeq({[seq |-> since]} \union {c \in source.changes : c.seq > since})

\* The batch to compare, without the changes that a predicate turns down.
Listed(source, r, results) ==
  [r EXCEPT !.pc = "diff",
            !.batch = {[id |-> c.id, revs |-> ListedRevs(source, c.id)] :
                         c \in {b \in results : b.id \in r.filter.ids}},
            !.last = BatchEnd(source, results),
            !.full = Cardinality(results) = BatchSize]

AfterChanges(source, r, results) ==
  IF results = {}
    THEN Finish([r EXCEPT !.since = Scanned(source, @)])
    ELSE LET next == Listed(source, r, results)
         IN  IF next.batch = {} THEN Skip(next) ELSE next

FetchChanges(x) ==
  /\ At(x, "changes")
  /\ LET source == db[Source[x]]
     IN  Reads(x, AfterChanges(source, run[x],
                    ChangesAfter(Offered(source, run[x].filter), run[x].since, BatchSize)))

Diff(x) ==
  /\ At(x, "diff")
  /\ LET missing == UNION {{[id |-> b.id, rev |-> r] :
                              r \in MissingRevs(Nodes(db[Target[x]], b.id), b.revs)} :
                           b \in run[x].batch}
     IN  Reads(x, IF missing = {}
                    THEN Skip(run[x])
                    ELSE [run[x] EXCEPT !.pc = "get", !.wanted = missing, !.batch = {}])

\* What follows the fetch: first the revisions that were not found are looked
\* at, then what was found is written.
Fetched(r) ==
  [r EXCEPT !.pc = IF r.gone # {} THEN "check"
                   ELSE IF r.docs # {} THEN "write"
                   ELSE "written"]

\* bulk_get: a document comes with its history as far as the source knows it.
Get(x) ==
  /\ At(x, "get")
  /\ LET source == db[Source[x]]
         found  == {w \in run[x].wanted : Readable(source, w.id, w.rev)}
     IN  Reads(x, Fetched([run[x] EXCEPT
           !.wanted = {},
           !.gone = run[x].wanted \ found,
           !.docs = {[id |-> w.id, rev |-> w.rev,
                      start |-> HistoryStart(Nodes(source, w.id), w.rev)] : w \in found}]))

\* is_leaf: a revision that vanished and is no leaf any more is not needed.
Check(x) ==
  /\ At(x, "check")
  /\ \E w \in run[x].gone :
       Reads(x, Fetched([run[x] EXCEPT
         !.gone = @ \ {w},
         !.failed = @ \/ w.rev \in ListedRevs(db[Source[x]], w.id)]))

\* What follows the write: a batch with a failure is not passed, else its end
\* is saved.
Written(r) ==
  IF r.failed
    THEN Finish(r)
    ELSE IF Checkpointed(r.filter)
      THEN [r EXCEPT !.pc = "history", !.since = r.last]
      ELSE Skip(r)

\* is_denied: documents the target rejects for good do not fail their batch.
BatchFailed(docs, lost) == lost # {}

\* bulk_docs with new_edits=false stores one document after the other.
StoreAll(target, docs) ==
  LET after[i \in 0 .. Len(docs)] ==
        IF i = 0 THEN target
        ELSE ReplicatedEdit(after[i - 1], docs[i].id, docs[i].start, docs[i].rev, {}, 0)
  IN  after[Len(docs)]

\* The documents that the selector matches are written, in any order.  Those in
\* lost fail, in the fetch or in the write.
WriteDocs(x, lost) ==
  /\ At(x, "write")
  /\ lost # {} => faults < policy.faults
  /\ \E order \in SetToSeqs({d \in run[x].docs \ lost : d.rev \in run[x].filter.revs
                                                       /\ d.id \notin policy.denied}) :
       db' = [db EXCEPT ![Target[x]] = StoreAll(@, order)]
  /\ LET r == run[x]
     IN  run' = [run EXCEPT ![x] = Written([r EXCEPT !.docs = {}, !.failed = @ \/ BatchFailed(r.docs, lost)])]
  /\ faults' = IF lost = {} THEN faults ELSE faults + 1
  /\ UNCHANGED <<local, sessions, backup, policy>>

\* Nothing to write.
NothingWritten(x) == At(x, "written") /\ Reads(x, Written(run[x]))

\* write_checkpoint: the history comes from the source; one that cannot be
\* read counts as empty.
ReadHistory(x) ==
  /\ At(x, "history")
  /\ LET side == IF run[x].readOnly THEN Target[x] ELSE Source[x]
     IN  Reads(x, [run[x] EXCEPT !.pc = "cp_target",
                                 !.prior = ReadFrom(side, Key(x)).history])

HistoryUnread(x) ==
  /\ At(x, "history") /\ faults < policy.faults
  /\ run' = [run EXCEPT ![x].pc = "cp_target"]
  /\ faults' = faults + 1
  /\ UNCHANGED <<db, local, sessions, backup, policy>>

NewCheckpoint(x) == BuildCheckpoint(run[x].session, run[x].since, run[x].prior)

\* The checkpoint is stored: on with the next batch, if there may be one.
Saved(r) ==
  LET next == [r EXCEPT !.saved = r.since, !.prior = <<>>]
  IN  IF r.full /\ ~r.final THEN [next EXCEPT !.pc = "changes"] ELSE Ended(next)

CheckpointTarget(x) ==
  /\ At(x, "cp_target")
  /\ local' = PutLocal(Target[x], Key(x), NewCheckpoint(x))
  /\ run' = [run EXCEPT ![x] = IF @.readOnly THEN Saved(@) ELSE [@ EXCEPT !.pc = "cp_source"]]
  /\ UNCHANGED <<db, sessions, backup, policy, faults>>

\* A source that refuses is remembered and skipped from then on.
CheckpointSource(x) ==
  /\ At(x, "cp_source")
  /\ IF Source[x] \in policy.readOnly
       THEN /\ run' = [run EXCEPT ![x] = Saved([@ EXCEPT !.readOnly = TRUE])]
            /\ UNCHANGED local
       ELSE /\ run' = [run EXCEPT ![x] = Saved(@)]
            /\ local' = PutLocal(Source[x], Key(x), NewCheckpoint(x))
  /\ UNCHANGED <<db, sessions, backup, policy, faults>>

\* The replicator stops: it is cancelled, dies, or a call it awaits fails.
Stop(x) ==
  /\ Active(x) /\ faults < policy.faults
  /\ run' = [run EXCEPT ![x] = Idle]
  /\ faults' = faults + 1
  /\ UNCHANGED <<db, local, sessions, backup, policy>>

Step(x) ==
  \/ ReadTarget(x) \/ ReadSource(x) \/ Probe(x) \/ ProbeLost(x)
  \/ FetchChanges(x) \/ Diff(x) \/ Get(x) \/ Check(x)
  \/ \E lost \in SUBSET run[x].docs : WriteDocs(x, lost)
  \/ NothingWritten(x)
  \/ ReadHistory(x) \/ HistoryUnread(x) \/ CheckpointTarget(x) \/ CheckpointSource(x)

----------------------------------------------------------------------------
(* The applications *)

Becomes(n, d) == db' = [db EXCEPT ![n] = d] /\ UNCHANGED <<run, sessions, backup, policy, faults>>

Edit(n, d, r) ==
  /\ <<n, d, r>> \in policy.edits /\ db[n].updateSeq < MaxSeq
  /\ EditAccepted(db[n], d, r, Gen[r] > 1)
  /\ Becomes(n, NewEdit(db[n], d, r, {}, 0)) /\ UNCHANGED local

CompactNode(n) == (\E e \in policy.edits : e[1] = n) /\ Becomes(n, Compact(db[n])) /\ UNCHANGED local

PurgeNode(n, d, l) ==
  /\ n \in policy.purged /\ db[n].updateSeq < MaxSeq
  /\ l \in LeafRevs(Nodes(db[n], d))
  /\ Becomes(n, PurgeEnd(db[n], PurgeDoc(db[n], d, {l}))) /\ UNCHANGED local

\* Bounds: a database is destroyed or restored, not both, and backed up once.
NeverBackedUp(n) == backup[n].db = EmptyDb(0)
NeverDestroyed(n) == db[n].uuid = 0

\* Destroying a database loses its checkpoints too.
DestroyNode(n) ==
  /\ n \in policy.destroyed /\ faults < policy.faults /\ faults' = faults + 1
  /\ NeverBackedUp(n)
  /\ db' = [db EXCEPT ![n] = Destroy(@, @.uuid + 1)]
  /\ local' = [local EXCEPT ![n] = [i \in {} |-> NoCheckpoint]]
  /\ UNCHANGED <<run, sessions, backup, policy>>

\* A copy of the database file, checkpoints included, is put back while no
\* replicator runs.
TakeBackup(n) ==
  /\ n \in policy.restorable /\ faults < policy.faults
  /\ NeverBackedUp(n) /\ NeverDestroyed(n)
  /\ backup' = [backup EXCEPT ![n] = [db |-> db[n], local |-> local[n]]]
  /\ UNCHANGED <<db, local, run, sessions, policy, faults>>

Restore(n) ==
  /\ n \in policy.restorable /\ NeverDestroyed(n) /\ \A x \in Replicator : ~Active(x)
  /\ faults < policy.faults /\ faults' = faults + 1
  /\ db' = [db EXCEPT ![n] = backup[n].db]
  /\ local' = [local EXCEPT ![n] = backup[n].local]
  /\ run' = [x \in Replicator |-> Idle]
  /\ UNCHANGED <<sessions, backup, policy>>

Applications ==
  \/ \E n \in Node, d \in Doc, r \in Rev : Edit(n, d, r) \/ PurgeNode(n, d, r)
  \/ \E n \in Node : CompactNode(n) \/ DestroyNode(n) \/ TakeBackup(n) \/ Restore(n)

Next ==
  \/ \E x \in Replicator : (\E f \in policy.filters : Start(x, f)) \/ Step(x) \/ Stop(x)
  \/ Applications

Spec == Init /\ [][Next]_vars /\ \A x \in Replicator : WF_vars(Step(x))

----------------------------------------------------------------------------
TypeOK ==
  /\ \A n \in Node : /\ db[n].changes \subseteq [seq : Nat, id : Doc, deleted : BOOLEAN]
                     /\ \A i \in DOMAIN local[n] :
                          /\ Len(local[n][i].history) \in 1 .. MaxHistory
                          /\ local[n][i].last \in Nat
                          /\ local[n][i].history[1] =
                               [last |-> local[n][i].last, session |-> local[n][i].session]
  /\ \A x \in Replicator : /\ run[x].session \in 0 .. sessions
                            /\ {run[x].since, run[x].saved, run[x].last, run[x].goal} \subseteq Nat
  /\ sessions \in 0 .. MaxSession /\ faults \in 0 .. policy.faults

\* Whether x's target knows every leaf of every document that x's source has
\* changed up to seq, but for the documents it rejects and what f leaves out.
CopiedUpTo(x, f, seq) ==
  \A c \in db[Source[x]].changes :
    c.seq <= seq /\ c.id \in f.ids \ policy.denied =>
      LeafRevs(Nodes(db[Source[x]], c.id)) \intersect f.revs
        \subseteq RevsOf(Nodes(db[Target[x]], c.id))

\* Where a run with the filter f that started now would resume.
ResumePoint(x, f) ==
  LET scp == ReadFrom(Source[x], ReplicationId(Ids(x), f))
      tcp == ReadFrom(Target[x], ReplicationId(Ids(x), f))
  IN  IF ~Checkpointed(f) \/ tcp = NoCheckpoint \/ (scp = NoCheckpoint /\ Source[x] \notin policy.readOnly)
        THEN 0
        ELSE IF scp = NoCheckpoint THEN tcp.last ELSE CompareCheckpoints(scp, tcp)

\* The two checkpoints never let a run skip a change: up to where it would
\* resume the target has everything its filter passes, whatever runs, with
\* this filter or with others, were cut short, ran at the same time, or went
\* on through a destroy of either side.
CheckpointSound ==
  \A x \in Replicator, f \in policy.filters : CopiedUpTo(x, f, ResumePoint(x, f))

\* A run never gets ahead of what its target has, though the source is edited,
\* compacted and purged between the listing, the fetch and the write.
CursorSound ==
  \A x \in Replicator : Active(x) /\ run[x].ids = Ids(x) => CopiedUpTo(x, run[x].filter, run[x].since)

\* A run that ends without a failure has copied what the source had when it
\* started.
CompleteRunCopiesAll ==
  \A x \in Replicator :
    At(x, "done") /\ ~run[x].failed /\ run[x].ids = Ids(x) => CopiedUpTo(x, run[x].filter, run[x].goal)

\* What a lone replicator completes it need not scan again; and only a failed
\* call or write fails a run: a document that is denied, and a source that
\* stores no checkpoints, never stall a replication.
ProgressSaved ==
  \A x \in Replicator :
    /\ At(x, "done") /\ run[x].ids = Ids(x) /\ Checkpointed(run[x].filter) =>
         ResumePoint(x, run[x].filter) >= run[x].since
    /\ run[x].failed => faults > 0

\* A run ends: it cannot go round over the same changes for ever.
RunsEnd == \A x \in Replicator : Active(x) ~> ~Active(x)
=============================================================================
