# RouchDB in TLA+

RouchDB is a document database in Rust that speaks CouchDB's replication
protocol: documents with revision trees, adapters that store them (in memory,
in a redb file, on a remote CouchDB), replication between any two of them, and
indexes, queries, change streams and an HTTP server on top. This directory
holds its specification: TLA+ modules translated from the source under
`src/crates`, TLC configurations that check them, and proofs checked by TLAPS.
`PROJECT.json` maps every definition to the lines it models, and lists the
hazards of the code with the properties that are about them.

## 1. Inventory

| Component | State | Operations | What is hard | What makes it correct |
|---|---|---|---|---|
| Revision trees (`rouchdb-core/src/rev_tree.rs`, `merge.rs`) | per document: a list of roots, each a tree of revisions marked available or missing | merge a path, stem to the revision limit, purge leaves; winner, leaves, latest, revision diff | paths come from peers in any order, whole or cut off; stemming leaves several roots that later paths bridge | no hole in a branch, no branch lost, no revision twice, the outcome independent of the order |
| Documents, write planning (`document.rs`, `write.rs`) | none (pure) | JSON to document and back; plan a local edit, a replicated write, an attachment edit | what counts as an edit of a leaf, stubs, deleted documents, members that reads add | a local edit never creates a conflict; a replicated write is idempotent; what was read can be written back |
| Memory adapter (`rouchdb-adapter-memory`) | documents (tree, bodies, attachments, sequence), changes log, attachment store, local documents, counters, identity; one lock | edits, replicated writes, attachments, compaction, purge, destroy, reads, change notices | several structures kept in step; requests that fail half way; handles with different limits | log and documents agree, every leaf is readable, every referenced attachment present |
| redb adapter (`rouchdb-adapter-redb/src/lib.rs`) | the same in tables of a file, one write transaction at a time; counts kept up to date incrementally | the same, and notices announced after the commit | keys that are concatenations and ranges over them; a crash before or after the commit; a notice must not run ahead of the data | every operation gives what the memory adapter's gives; a notice's change can be read |
| redb upgrade (`upgrade.rs`) | the file, a partial copy, the backup, a plan | detect, copy and verify, analyse, apply in one transaction, reopen | killed at any step and begun again; two processes; revisions under two spellings | nothing is lost or merged wrongly, the backup stays |
| Checkpoints (`rouchdb-replication/src/checkpoint.rs`) | one `_local` document on each side: last sequence, session, history of sessions | read both and compare, write both | a stop between the two writes, two runs at once, a destroyed or restored side, a read-only side, another filter | a run never resumes after a change the target lacks |
| One-shot replication (`protocol.rs`, `run_replication`) | cursor, current batch, session | changes, diff, fetch, write, checkpoint, per batch | both databases move between any two calls; a document of a batch fails; permanent refusals | the cursor never passes a change that was not copied; a run ends |
| Live replication (`replicate_live`) | cursor across passes, identities of the peers, queued notices, retry counter | passes, waiting for notices or polling, back-off, cancel | a change or a destroy between the end of a pass and the wait; lagging notices | every change is copied in the end, also after a destroy |
| Change streams (`rouchdb-changes`) | position, buffer, state, deadlines, a fetch in flight | next event, fetch, retry, time-out, heartbeats | calls dropped half way, failed fetches, notices racing deadlines | no change skipped, none repeated, a change is delivered in the end, a cancelled task ends |
| Facade and plugins (`rouchdb/src/lib.rs`) | adapter, plugins, Mango indexes with the sequence each is current to | documents, attachments, bulk writes, find, create and delete indexes, partitions, destroy, purge | indexes updated without a lock across an await; purges leave no change entry; plugins shown one thing and another written | an index answers what a scan would; nothing is stored that a plugin did not accept |
| View engine (`rouchdb-views`) | per view: entries, the sequence they are current to, live ids, rows in order | update from the feed, query with any stale option | purged documents and recreated databases are not in the feed | the same |
| Query languages, collation (`rouchdb-query`, `collation.rs`) | none (pure) | Mango selectors, sorting, paging, candidate ranges; map/reduce; order and encoding of keys | negations, missing fields, ranges turned around, keys compared byte by byte | they agree with the definitions of CouchDB's documentation |
| HTTP adapter (`rouchdb-adapter-http`) | URL, the cell that says the database is set up | every adapter operation as one or several requests | two first requests at once; broken connections; answers taken apart | what a call answers is what it has done |
| HTTP server (`rouchdb-server`) | the database, the `deleted` flag, the channel of writes | routes, of one or several calls of the database; feeds that wait | other requests between the calls; dropped handlers; a database deleted and created again | answers are true; a feed skips nothing and catches up |
| CLI (`rouchdb-cli`), benchmarks, compatibility tests | | commands, one adapter call each | | |

Interaction: the facade calls an `Adapter`; adapters share `rouchdb-core` for
trees and write planning; a replicator is a task that awaits calls on two
adapters in turn, so applications and other replicators act between any two of
its calls; adapters announce changes over broadcast channels that live
replications, change streams and the server's feeds listen to; view and Mango
indexes read the changes feed when they are queried; the HTTP adapter's
requests end in the server's handlers, which call the facade.

## 2. Plan

In order of how much depends on them; all of these are written.

1. `RevTree`, `RevForest`, `RevLinks`: revision trees and the abstract
   specification they implement.
2. `Database`, `MemoryAdapter`: the operations of an adapter.
3. `Replication`: checkpoints and runs, over two `Database`s; filters, and
   databases that answer the same id.
4. `LiveReplication`: passes, notices, resets and back-off, extending
   `Replication`'s state; every change reaches the target in the end.
5. `Feed`, `ViewIndex`, `MangoIndex`, `Indexes`: view and Mango indexes as
   readers of the feed, against purge and destroy.
6. `ChangesStream`: the stream's states, retries and deadlines, a fetch that
   outlives the call that began it, over a memory, a redb and a remote database.
7. `Reads`, `RedbTables`, `RedbAdapter`, `UpgradePlan`, `RedbFile`:
   the redb adapter compared with the memory adapter, and the upgrade.
8. `HttpServer`, `ServerFeed`, `HttpAdapter`: the adapter and the
   server at the two ends of a connection.
9. `Json`, `Selector`, `MangoQuery`, `ViewQuery`, `Partition`, `Documents`,
   `Facade`, `Queries`: values, queries and writes through plugins.

10. The proofs, in modules of their own: `DatabaseProofs`
   about the operators, the other `...Proofs` about the specifications.

What could still be proved are `UpgradeKeeps` and `UsedLikeMemory`, which compare
two ways to compute the same tables over every write; they stay with TLC, as do
the modules with recursive operators (`Json`, `Selector`, `MangoQuery`, `ViewQuery`,
`Queries`).

## 3. The modules

| Module | Models |
|---|---|
| `RevTree` | the tree and every pure algorithm on it |
| `RevForest` | one tree under every sequence of merged paths and purges |
| `RevLinks` | abstract: a set of revisions and of known parent links |
| `RevForestProofs` | theorems on `RevForest` |
| `Database` | a database as a record, its operations as operators from one database to the next |
| `MemoryAdapter` | one `Database` as a state machine |
| `DatabaseProofs`, `MemoryAdapterProofs` | lemmas on the operators of `RevTree` and `Database`, theorems on `MemoryAdapter` |
| `Reads` | what the reads of the memory adapter answer |
| `Replication` | databases, checkpoints, replicators, applications, faults |
| `LiveReplication` | the loop of a live replication around `Replication`'s runs |
| `ReplicationProofs` | theorems on `Replication` and `LiveReplication` |
| `ChangesStream` | a changes stream, its consumer, the writers and the notices between them |
| `ChangesStreamProofs` | theorems on `ChangesStream` |
| `RedbTables` | the tables of a redb file, the transactions on them, and what reads of a snapshot answer |
| `RedbAdapter` | a redb file as a state machine, compared with the memory adapter |
| `UpgradePlan` | what the upgrade makes of the tables of an older file |
| `RedbFile` | processes that upgrade files and then use them, with crashes |
| `RedbFileProofs` | a theorem on `RedbFile` |
| `Feed` | a `Database` under applications, as the readers of its changes feed see it |
| `ViewIndex`, `MangoIndex`, `Indexes` | the two kinds of index over `Feed`, and either of them over one database |
| `IndexesProofs` | theorems on `Indexes` |
| `Json` | values, their order, and the encoding of sort keys |
| `Selector`, `MangoQuery` | compiling and matching selectors; what a find answers |
| `ViewQuery` | what a view query answers |
| `Partition` | the listings of a partition |
| `Documents` | documents as the API takes and answers them, and the planning of a write with bodies |
| `Facade` | writes through a handle with plugins, and of replication into it |
| `Queries` | `Indexes`, `Facade` and the queries as one specification |
| `HttpServer` | the server's requests, call by call, and what a read through adapter and server answers |
| `ServerFeed` | a feed of the server that waits for changes, and its client |
| `HttpAdapter` | tasks that use a served database through HTTP adapters |
| `HttpAdapterProofs` | theorems on `HttpAdapter`, its server and its feed |
| `RevUniverse` | finite universes of revisions for TLC |
| `MCRevForest`, `MCMemoryAdapter`, `MCReplication`, `MCLiveReplication`, `MCIndexes`, `MCQueries`, `MCChangesStream`, `MCRedbFile`, `MCHttp` | instances |

Operators commented "Slip" are plausible mistakes in the code; nothing uses
them but the mutants of `PROJECT.json`, each of which replaces a definition by
one of them and must break a property.

### Revisions and trees

A revision id hashes its parent, so an id fixes its ancestry. A revision is
therefore an abstract value with a generation `Gen`, a set of ancestors `Anc`,
a rank among the hashes and a deleted flag (`RevAssumption` says what that
requires). What differs between replicas is what they *know*: a tree is a set
of pairs `<<root, revision>>`, with the subset whose status is Available. The
code's order of roots and siblings is recovered from `Gen` and `HashRank`
where something depends on it (`FirstRoot`).

`Merge` is `do_merge`: the path takes in (`Absorbed`, `Grown`) the roots that
start inside it, transitively, and goes into every root that holds its own
(`Targets`). `Stem` cuts each root-to-leaf chain and puts the chains together
again (`Rebuild`), as `stem_revs` does by merging them with `dont_expand`;
`RemoveLeaves` does the same with the chains of the remaining leaves.

### Databases

`Database` is the state of the memory adapter: documents, bodies, log,
attachment digests, counters and identity. Every operation of the adapter is
one critical section under its write lock, so each is one step in
`MemoryAdapter`: `Edit` (`bulk_docs`, `put_attachment`, `remove_attachment`
with `new_edits=true`), `Replicate` (`new_edits=false`), `CompactAll`,
`Purge`, `PurgeRejected` (a malformed revision in a later document of the
request: what was done before stays done, without the final bookkeeping),
`DestroyDb`. A batch of `bulk_docs` is a sequence of these steps: the adapter
holds the lock over all of them, which only removes interleavings. Bodies are
reduced to whether they are stored, attachments to digests. `Reads` has what
the adapter's reads answer: `Get` with every revision option, `AllDocs`,
`Changes`, `RevsDiff`, `BulkGet` and attachments.

### The redb adapter and its upgrade

`RedbTables` keeps the tables as the code does: `revs` are keys `doc_id\0rev`
and are found by ranges over them, so an id that contains a NUL is among the
ids that are checked; counts in the metadata record are changed by deltas. An
operation is one transaction, an operator on the tables. `AsDatabase(T)` is the
`Database` that tables stand for: `UsedLikeMemory` says that in every reachable
state every write, as any item of a batch, becomes what the memory adapter would
have done (`WritesAgree`), every read answers the same (`ReadsAgree`), and counts,
feed, bodies and bytes agree with one another (`TablesConsistent`).

`RedbFile` has one action for each step of an upgrade between two effects on
the file system: create the partial copy, verify and sync it, move a backup out
of the way, rename, prepare and commit. A process can be killed between any two
(`Kill`), the machine can go down with all of them (`PowerLoss`), and copying,
preparing and committing can fail, as can the sync of the directory, which is only
a warning (`SyncDir`). A user who is told that a backup or a partial copy is in the
way moves the one and deletes the other, whatever it is (`DeletePartial`), as the
error says; two histories note what comes of it: `warned`, the files whose directory
could not be synced, and `lost`, those of which the user has so deleted the
only copy. When a process has an upgraded or new file open it may begin to use it
(`Use`), and from then on the behaviour is `RedbAdapter`'s. `UpgradePlan` is what
`analyze` and `apply` compute: spellings of a revision merged into one (`Rank` says
which is preferred, a live leaf before a deleted one, `Tombstones` what becomes
of the deleted flags), bodies and attachments moved, local documents taken
out, counts made.

### Replication

A replicator's `pc` names the call it awaits next; each call is one step, and
what runs between two awaits belongs to the step of the call before.
`ReadTarget`, `ReadSource`, `Probe` are `read_checkpoint` with its trial write;
`FetchChanges`, `Diff`, `Get`, `Check`, `WriteDocs` a batch of
`run_replication`; `ReadHistory`, `CheckpointTarget`, `CheckpointSource` are
`write_checkpoint`. The ids of both databases are read once, at the start.
`Stop` stands for whatever ends a run: an error of a call, the task being
dropped, the process dying; what it leaves behind is in the databases.
`policy` is what is refused for good: checkpoints by a read-only source,
documents by a validating target. A run can have a filter, of ids, a selector
or a predicate: it is part of the checkpoint's id except for a predicate, for
which the run keeps no checkpoint.

Applications edit, compact and purge (`Edit`, `CompactNode`, `PurgeNode`),
destroy (`DestroyNode`) and restore a backup (`TakeBackup`, `Restore`).

### Live replication

`LiveReplication` puts `replicate_live`'s loop (with `retry`) around the same
calls. `live[x].pc` says where the loop is: `AskSource` and `BeginPass` read the
two identities one after the other and begin a pass, which either continues at
the last cursor or, after a reset, at the checkpoints; `PassStep` is a call of
the pass; `PassEnds`, `CallFails`, `CheckpointLost` and `IdsUnread` are its ends,
`BackedOff` the end of the delay that follows a failure; `Drain` takes in what
was announced during the pass; `WakeBySource`, `HearTarget`, `Poll` and
`CompareIds` are the branches of the `select!`. A notice is "change" or "reset".
A channel keeps the last `Capacity` notices and remembers that it lost some, as
a lagging broadcast receiver does. Which adapters announce at all is chosen
at the start (`announces`): the others are polled. Adapters that announce are
in-process, and their `id()` cannot fail in a comparison; where a comparison can
fail it counts as "unchanged", as in the code. The channels never close, as the
task holds both adapters. An http database keeps its identity when it is
destroyed and created again; the code's documentation asks applications to start
over themselves (`rouchdb/src/lib.rs:1228-1231`), so no node of the model does
that.

### Changes streams

A consumer calls `next_event` (`NextEvent`), may drop a call that sleeps
(`Drop`) and call again; `call` is where the call is, `stream` what outlives it,
the fetch in flight included. What the code does between two awaits is one
step (`ReachLimit` ... `FallAsleep`). The three `kind`s differ in what a fetch
waits for and in when a notice is sent: the memory adapter has a fair lock, in
which a write announces and a fetch, which may be queued while nobody polls it,
reads; the redb adapter reads on another thread and announces after the commit,
to whoever was subscribed before; a remote database does not announce. The
timers (`PollDue`, `BeatDue`, `IdleDue`) go off at any time, but a heartbeat is
not due before the consumer has called again.

### Indexes and queries

`Feed` reduces an adapter to what a reader of its changes feed can tell: what
`changes` and `info` answer, and what a scan would find (`Scan`).
`ViewIndex` is `update_index`, a step for each call of the adapter: `BeginUpdate`
(first `info`), `CatchUp` (`changes`), `Settle` (second `info`), `FromScratch`
and `Baseline`; `QueryAnswers` a query that uses what is there, or the rows put
in order for an earlier one. The map function emits a row per document, so that
the ids with rows are `IndexState::live`. `MangoIndex` has any number of finds
and creations in progress, a step each time one holds the lock of the indexes or
calls the adapter, and destroy in its two steps. Both keep, as history, what a
scan would have found of each document since the call began; when it ends, the
documents it got wrong (`wrong`, `missed`) are all that is kept of it.

The pure parts take a fixed stock of documents. `Selector` compiles a selector
(negations pushed inward, combinators flattened) and matches the compiled form;
its `Verdict` is a second, direct definition of what the selector says, and
`FindAnswered` compares the two through every index that could serve the find,
with sorting and paging. `ViewQuery` computes the rows of a view by the code's
ranges and groups, `ViewAnswered` says what they must be in terms of the
options alone. `Partition` is the clamping of a range to a partition,
`PartitionScoped` filters all documents instead. `KeysInOrder` compares the byte
encoding of keys with the order of the values. In `Queries` a behaviour keeps an
index, or makes writes, or is one question and its answer.

### Documents and plugins

In `Documents` a revision id is the sequence of the edits that led to it, which
is what it hashes. `Facade` follows one call of a handle through its awaits
(`check`, `vet`, `write`, `after`); others write between these, in one step
each (`Stepwise` says when). The plugins are functions from a document to what
it becomes, to "drop" or to an error. An adapter that is silent about what it
wrote (the HTTP adapter of replicated writes) and one that is not are both
covered.

### HTTP

A request passes the check of the `deleted` flag (`CheckDb`) and then its
handler, a step for each call of the database. Any of these calls may fail: the
answer is a 500 (`HandlerFails`), but for the second call of `doc_not_found` and
of `rev_is_unknown`, whose failure is taken for a "no" (`FailureSwallowed`). `Lose`
is a connection that breaks, with the handler dropped where it is.
`HttpAdapter` is the client: the requests of `ensure_setup` (`EnsureSetup`,
`Looked`, `Created`) before the first operation, shared by the tasks of an
adapter, their retries, the requests of each operation (`RequestOf`, `Located`),
and what it makes of the answers (`OutcomeOf`). A case (`MCHttp`) says which
documents the database starts with, as if they had been replicated into it
(`start`), what the tasks do, and what is asked of a feed, if there is one. `ServerFeed` is a longpoll or continuous feed, with its fetches in
batches when a selector filters, its wait for a notice or `POLL_INTERVAL`, and
the client that opens it again where it got to.

## 4. The runs

Bounds are constants of the modules. Revisions are words of edits
(`RevUniverse`), so that equal edits make equal revisions.

| Run | Question | Bounds, and why they suffice |
|---|---|---|
| `forest_unlimited` | Is the tree right whatever arrives in whatever order? `NoHoles`, `OneRoot`, `LatestIsBestDescendant`, and it implements `RevLinks` | nine revisions: two roots, forks at two depths, a tombstone, branches of three: paths can overlap at the root, in the middle, bridge two roots, and be purged and come back |
| `forest_limit3` | What survives stemming? `MergeKeepsBranches`, `WindowKept` | branches of four and a limit of three: chains are cut, leave several roots, and meet again |
| `memory_docs` | Do documents, log, bodies and attachments stay in step? `FeedMatchesDocs`, `BodiesFollowTree`, `AttachmentsPresent`, `ChangesAreNews`, `EditMakesNoConflict` | two documents, four sequence numbers, handles without a limit and with a limit of two, under branches of three, an attachment that both documents share, purge requests of one or two documents (`MaxPurge`), one destroy |
| `repl_faults` | Restarts and failed calls at every point, with every policy and filter: `CheckpointSound`, `CompleteRunCopiesAll`, `ProgressSaved`, `RunsEnd` | two documents, batches of one, three source sequences, three runs (one more than `MaxHistory` = 2 keeps); two faults where something is refused, one where filters alternate or both databases answer the same id |
| `repl_sync` | Is every cursor sound while runs, applications and resets interleave? `CursorSound` | one run in each direction or two in the same one, edits on both sides that conflict; or destroys of either side, a restored source and purges at the source; two runs, two sequences (symmetry: replicators of a direction) |
| `live` | Does a live replication keep a stale cursor, or sleep through a change or a reset? `LiveCursorSound`, `IdleMeansCopied`, `Converges` | two documents, batches of one, two sequences of the source for each life of it, channels of one notice, so that every second notice overflows them; both adapters announce, or one |
| `changes` | Does a stream skip, repeat or sit on a change? `NoneSkipped`, `LastLook`, `InFeedOrder`, `Delivered`, `TaskStops` | ten combinations of adapter, consumer and options; two documents, two sequences, one failed fetch, channels of one, so that the second notice overflows and the second event waits for room |
| `redb` | Does an interrupted upgrade lose anything, and is a redb file used like memory? `BackupKept`, `UpgradeKeeps`, `UsedLikeMemory` | two files, two processes, two faults; five old files go through every step: spellings that meet in a leaf (and disagree on its deletion), in a root, under a conflict, local documents in either store or both; 5,715 more are opened and planned only (`PlanOnly`): every tree of up to three paths over two roots, a child and a tombstone in either spelling, with every choice of flags for a revision of two spellings, and every body, or all but one; then a new and an upgraded file under every write, an id beginning with another and a NUL, a limit of two |
| `indexes` | Does an index answer what a scan would, do queries answer what they should, and is all that is stored accepted? (nine properties) | two documents that are created, edited, deleted and purged, three sequences, one destroy, two finds and a creation at once (symmetry: documents, finds); 10,000 questions of fixed documents; one ordinary and one local document under every kind of write, through two plugins, two stored bodies |
| `http` | Are answers over a connection true of what was done? `SetupSuffices`, `AnswersTrue`, `FeedSkipsNone`, `FeedCatchesUp` | five tasks, two adapters, five sequences; cases in which the tasks set up, write in bulk and singly, edit attachments, use local documents, read, or follow a feed, each against what disturbs it: deletes, purges, compaction, direct writes, and, but for local documents and for reads that meet writes, one fault: a call that fails in a handler, at any of its calls, or a broken connection |
| `repl_restore_target`, `mango_destroy` | violations, see section 5 | |

`CheckpointSound` is the property of the checkpoints: up to where a run that
started now would resume, the target has every leaf that its filter passes.
`CursorSound` says it of a run's cursor, `CompleteRunCopiesAll` of the end of a
run: it has copied what the source had at its start. `ProgressSaved` and
`RunsEnd` say that replication gets on: finished work is not scanned again, what
a target refuses for good stalls nothing, and every run ends.

`LiveCursorSound` says of the cursor a live replication hands to its next pass
what `CursorSound` says within a run; `IdleMeansCopied` that one that
waits with nothing left to hear has copied everything to the database that is
there now; `Converges` that once applications and faults cease it copies
everything, notices lost or not. `NoneSkipped` is about where a stream could be
resumed: whatever was dropped, retried or filtered, what is wanted up to
there was returned; `LastLook` that the look at the idle deadline misses nothing
that was there before it, if that look began after the deadline.

`ViewFresh` compares each row an update leaves with what a scan found during it:
the rows of a purged document may outlive one update, if something was written
meanwhile, and no others. It is about a view built from the database that is
there now; section 5 says what happens otherwise. `FindComplete` says that a
document that was there unchanged while a find lasted is among its candidates;
that the candidates are then fetched and matched again makes superfluous ones
harmless. In `indexes` destroy waits for calls in progress (`Overlap = FALSE`), and
one creation is in progress at a time: section 5 says why.
`OnlyAcceptedStored` says that no plugin would deny a body that is stored,
save one that was `blind`: shown to it without its body because the
revision could not be read yet. `WrittenBack` takes any revision as a read with
any options shows it and writes it back, `RepliesAccount` looks at the answer to
a batch.

`BackupKept` says that of a file upgraded under `WithBackup` a complete copy of the
old one is there, at the path, at its partial name, or where the user has put it; or
else the user has been told to delete it, which happens only to a file whose
directory could not be synced (section 5), and that nothing incomplete has the name
of a backup. An `in_place` upgrade has no backup because the user asked for none
(`bare`). `UpgradeKeeps` compares the upgraded tables with the old file through the
reader's eyes: among other things the revision that won is a deletion after the upgrade
if and only if it was one, and keeps its body, though its spellings disagree. `AnswersTrue` is looked at when a call ends, with nothing after
it: that results are each about their own document and say "ok" of exactly what
was stored, that a refusal had a reason, that a read of a database at rest
answers what a local adapter would, and that a read of several calls answers no
less than what held throughout.

Where `CHECK_DEADLOCK FALSE` appears the system may stop: all runs have ended
and the applications have used up their bounds.

**Fairness.** `WF(Step(x))` for each replicator, `WF(LiveStep(x))` for a live
one: tokio polls a task whose call has been answered or whose timer is due.
`SF(WakeBySource(x))`: while the target's identity is polled, the wait is left
and entered again without end, so a queued notice of the source is not enabled
all the time, but each new deadline lies `poll_interval` ahead and the notice
is ready before it. In `ChangesStream` writers finish, fetches are answered, the
consumer calls again, the poll timer goes off and the receiver receives until it
cancels; the idle timer, drops and failures are unfair. In `HttpAdapter` only the
feed and its client are fair: a fetch (`Fetches`, weak fairness written out,
because finding whether a fetch is enabled would compute a whole one), serving,
waking (a notice or `POLL_INTERVAL`) and opening again. Nothing is assumed of
applications, tasks or faults.

**What the properties leave out.** A purge at the target is not repaired: the
source does not list the document again, so `CopiedUpTo` would be false for
purged targets; only source purges are in the runs. With the same limit on both
sides a stemmed leaf can come back from a peer; the replicated databases
keep every revision.

## 5. Where code and words disagree

Two runs expect a violation:

* `repl_restore_target`: after a restore of the target, a run carries the
  source's history into the target's checkpoint, sessions the restored target
  never saw included. If it stops before the source's checkpoint is written,
  the next run finds such a session on both sides, resumes after what the
  target lost, and ends well (against `checkpoint.rs:119-120`). A run that is
  not cut off there, and every restore of the source (`repl_sync`), is fine.
* `mango_destroy`: a `create_index` that read the changes before a `destroy` and
  inserts its index after the clearing leaves an index of the old database,
  which never learns of the new one's first documents (against
  `rouchdb/src/lib.rs:911-913`). In the same way two creations at once, with a
  `delete_index` in between, can put an older index in place of the one a find
  has just brought up to date, as a find that read no changes does not compare
  `last_seq` again.

Met while modelling, and not runs; a property or bound that shows it is named
where there is one.

Trees and adapters:

* Under a revision limit a partial path can leave a leaf under two roots, so that
  it is listed twice among the conflicts; the comment on `do_merge`
  (`merge.rs:65-70`) says that no longer happens. As `latest_leaf` follows only
  the first root that holds a revision, `latest=true` can then miss the winner
  under the other; `LatestIsBestDescendant` holds without a limit only.
* A write can stem the very revision it stores: through a handle with a lower
  limit than the one that wrote the tree, or, under one limit of three or more,
  when a known revision comes again with a shorter path. `apply_write` drops the
  bodies of stemmed revisions first and stores the written one afterwards, so
  the body of a revision that is not in the tree stays (against
  `merge.rs:40-41`). `BodiesFollowTree` exempts the revision that a write
  stores, and `WindowKept` says of a revision that was known only that its
  branch stays.
* A purge request rejected half way leaves the memory adapter's `purge_seq` as
  it was and announces nothing for the documents it did purge
  (`rouchdb-adapter-memory/src/lib.rs:894-898`); redb rejects such a request as a
  whole, and leaves bytes without a reference to the next compaction.
  `WritesAgree` exempts both.
* The error about a partial copy says that it "is not a complete backup" and is to be
  deleted (`rouchdb-adapter-redb/src/upgrade.rs:1587-1590`,
  `docs/book/src/upgrading/0.4-to-0.5.md:63`). It may be one, and the only one: when
  the directory cannot be synced, the transaction commits, and the machine goes down, the
  rename can be undone, and the warning that says so is lost with the report it was to
  be part of (`upgrade.rs:853-857`); the next upgrade with the same backup path then has
  the user delete the copy. `LeftoverIsNoBackup` fails with
  `SPECIFICATION FileSpec`, `OldFiles <- Old`.
* When the upgrade merges two spellings and the winner becomes a deletion, the
  change record keeps its old `deleted` flag until the next write (against
  `rouchdb-adapter-redb/src/lib.rs:1969-1970`, "the feed reports whether the
  document (its winner) is deleted"). `UsedLikeMemory` fails with
  `OldFiles <- OldDeleted`.

Replication and streams:

* `replication-protocol.md` says the replicator continues when a checkpoint
  write fails and starts from 0 when a checkpoint cannot be read; the code ends
  the run with the error in both cases, and only an unreadable history counts as
  empty (`HistoryUnread`).
* A live replication looks at its cancellation only while it waits or backs off
  (`protocol.rs:793-815`).
* A redb write decides whether to announce before it commits
  (`commit_announcing`, `rouchdb-adapter-redb/src/lib.rs:974-989`). A stream that
  subscribes after that decision and reads before the commit is told of
  nothing and sleeps until the next write, though `LiveChangesStream::new`
  says that no change is missed (`rouchdb-changes/src/lib.rs:331-333`).
  `Delivered` fails with `Setups <- RaceSetups`, `Races = TRUE`.
* The look at the idle deadline may be a fetch that was in flight before it, left
  by a call that was dropped: a change made before the deadline can then be lost
  (against `rouchdb-changes/src/lib.rs:532-533`). `DeadlineLosesNothing` fails
  with `Setups <- IdleSetups`; `LastLook` exempts that case.
* A dropped `next_event` keeps its fetch, and with the memory adapter the fetch's
  place in the queue for the lock (`rouchdb-changes/src/lib.rs:563-566`): a consumer
  that then writes to the same database waits for a lock that the fetch it does
  not poll has been given. `WritesDone` fails with `Setups <- WriteSetups`,
  `WritingKinds = {"memory"}`.

Indexes and queries:

* A view recognises a recreated database by its `update_seq`, by another change at
  the sequence it stopped at, or by the number of documents
  (`rouchdb-views/src/engine.rs:251`). If the new database has passed that sequence
  without leaving an entry at it and has as many documents, the view keeps the
  old rows (against `CHANGELOG.md:180`).
* The entry of a view is inserted before its first update; when that fails, a
  query with `stale=ok` answers an empty index as if it had been built.
* `Partition::find` with `{"$and": []}` finds the partition's documents, where
  `Database::find` with the same selector finds none (`rouchdb/src/lib.rs:1410`).
* `Partition::all_docs` with `keys` and a `key` outside the partition answers no
  rows.
* The server's Mango indexes are kept by name only, not by design document.

Plugins:

* A replicated document is validated with a copy that the plugins may change,
  and the original is stored; with `new_edits=false`, `Database::bulk_docs` stores
  what the plugins changed under the revision that hashes the original.
* `validate_attachment_edit` shows the plugins a document without a body when
  the revision cannot be read yet (against `plugins.md:112-115`): the `blind`
  revisions of `OnlyAcceptedStored`.
* `PluginAdapter` fills in the results of an adapter that is silent about
  successes by id: of two replicated revisions of one document in a batch, one
  failed, both count as failed.

HTTP:

* `PUT /{db}` while a `DELETE` is still destroying answers 201, with the old data
  there, and what is written until the destruction ends goes with it; the same
  happens to a request that passed the check before. A `DELETE` whose connection
  breaks between marking and destroying leaves the data under a database that
  is said to be gone, and `PUT` brings it back
  (`rouchdb-server/src/routes/database.rs:45-91`).
* A feed does not end when the database is deleted and created again between two
  of its wakes (`changes.rs:437`): it then skips the new database's entries up to
  its old sequence. `FeedSkipsNone` is about the database the feed was opened on.
* `_changes?filter=_design&limit=0` takes the last of an empty list when there
  are design documents (`changes.rs:258`).
* When the answer to a `DELETE` is lost, the adapter's setup cell stays set, and
  every later call is answered "not found": `SetupSuffices` counts it as a
  database deleted behind the adapter's back.
* `changes` with conflicts loses them over the HTTP adapter
  (`rouchdb-adapter-http/src/lib.rs:733`); the server's `_bulk_get` ignores `latest`.
  `ReadAnswered` leaves both out.
* `doc_not_found` takes a failure of its `all_docs` for an empty answer
  (`rouchdb-server/src/routes/document.rs:84-93`): a deleted document is then
  "missing", against the comment above it (`document.rs:77-78`). `DeletedSaid` fails
  in `http`; `ReadAnswered` lets a call that was hit by a failure say "missing".
* `open_revs=all` can answer a leaf that is not the winner, when the document is
  edited and compacted between the listing and the reads.
* `remove_local` reads the document and then deletes it, with a revision the
  server does not look at: a document put in between is deleted.

## 6. What is proved

TLAPS checks the theorems below for every value of the constants that meets the
modules' named assumptions, that is for any documents, revisions, limits,
batches, tasks, faults and lengths of a run. The runs show the same properties on
small instances.

| Theorem | States | Under |
|---|---|---|
| `RevForestProofs!TypeCorrect` | `Spec => []TypeOK` | |
| `BranchesHaveNoHoles` | `Spec => []NoHoles` | |
| `BranchesSurvive` | `Spec => MergeKeepsBranches` | |
| `StemmingKeepsTheWindow` | `Spec => WindowKept` | |
| `BridgedRootsJoin` | `Spec => []OneRoot` | no limit |
| `LatestIsRight` | `Spec => []LatestIsBestDescendant` | no limit |
| `ForestImplementsLinks` | `Spec => ImplementsLinks` | no limit |
| `MemoryAdapterProofs!TypeCorrect` | `Spec => []TypeOK` | |
| `FeedIsRight` | `Spec => []FeedMatchesDocs` | |
| `AttachmentsStay` | `Spec => []AttachmentsPresent` | |
| `BodiesFollow` | `Spec => BodiesFollowTree` | |
| `FeedReadersMissNothing` | `Spec => ChangesAreNews` | |
| `EditsMakeNoConflict` | `Spec => EditMakesNoConflict` | |
| `NoChangeSkipped` | `Spec => []CheckpointSound` | `AllKeep` |
| `CursorBehindTarget` | `Spec => []CursorSound` | `AllKeep` |
| `CompleteRunsCopy` | `Spec => []CompleteRunCopiesAll` | `AllKeep` |
| `CompletedIsSaved` | `Spec => []ProgressSaved` | `AllKeep`, `Lone`, no source is purged |
| `LiveCursorIsSound` | `LiveSpec => []LiveCursorSound` | `LiveKeeps` |
| `WaitingMeansCopied` | `LiveSpec => []IdleMeansCopied` | `LiveKeeps` |
| `FindMissesNothing` | `Spec => []FindComplete` | `Overlap = FALSE`, `OneCreator` |
| `ViewsAreFresh` | `Spec => []ViewFresh` | |
| `NothingSkipped` | `Spec => []NoneSkipped` | |
| `LastLookSuffices` | `Spec => []LastLook` | |
| `OrderKept` | `Spec => InFeedOrder` | |
| `BackupIsKept` | `FileSpec => []BackupKept` | |
| `SetupIsEnough` | `Spec => []SetupSuffices` | |
| `FeedMissesNothing` | `Spec => []FeedSkipsNone` | |
| `ServerKeepsDatabase` | `Spec => []DbOk(db)` | |

**Trees.** The invariant is `ForestInv == TypeOK /\ NoHoles`. `NoHoles` is
inductive only together with it, and the argument is about `Merge`: the grown
path is convex (`GrownConvex`), because an absorbed root starts on the path or
inside another absorbed root (`AbsorbedReached`), and a root that takes in the
path holds its start. Cutting and purging rebuild the tree from whole chains
(`ChainsShaped`), so there the argument does not depend on what was there.
`OneRoot` adds that absorbing leaves no root that shares a revision with the
grown path: of two roots that share a revision one holds the other's start.
The refinement follows: without a limit a pair of trees with `OneRoot` is
determined by its revisions and links, a merge adds those of the path, a purge
keeps those on chains to other leaves. What stemming keeps is read off the
chains: each is cut below its leaf, so no leaf goes, and a revision that is cut
off one chain may stay in another. These facts about the operators are in
`DatabaseProofs` as statements about any tree that is `TreeOk`, and every
other proof uses them.

**Databases.** `DbOk` says that trees are `TreeOk`, that leaves and available
revisions have bodies, that sequences are distinct and not beyond `updateSeq`,
that the log holds exactly the entries of the documents that exist, and that
referenced bytes are stored. `DatabaseProofs` proves that each operator of
`Database` keeps it, and how the database after it relates to the one before
(`Follows`: sequences only grow, a document whose sequence is the same is the
same). What `PurgeDocs` does is proved by induction over the documents of the
request (the well-founded induction of naturals in the form of the least
counterexample).

**Replication.** `Good(S, T, denied, f, s)` says that the target database `T` has
every leaf that `f` passes of the documents of `S` at or below `s`. It survives
every step of others (`Evolve`): a document that changes at the source moves
beyond `s`, and the target keeps its revisions as long as nothing is purged from
it. `ReplInv` says that every checkpoint, with every entry of its history, is
good for the databases whose identities it is filed under, that every cursor
is, up to what is still in the current batch, and the same of each value
that a run carries between two calls. The comparison of the two checkpoints
needs less than that they are equal: whatever it picks was good for one of
them, and both are. `AllKeep` is the hypothesis about a run's situation: nothing
is purged from its target, the target is not restored from a backup, and a source
that may be restored stores its checkpoints (so that the restored one is as old as
the data). All situations of `repl_faults` and `repl_sync` meet it;
`repl_restore_target` breaks it, and finds the property violated.

That a run which ends well has saved where it ended (`ProgressSaved`) takes two more
invariants, and two more hypotheses. `SavedInv` says what the two checkpoints may
say of a run that alone writes under its key: what the run counts as saved is never
beyond where a run that started now would resume, and between its two writes the
target's new checkpoint carries the run's session and its cursor, so that the second
write makes them agree; a source that is read-only has none of its own, and then
the target's alone decides. `Lone` is the hypothesis that no two replicators
work on the same databases: with two, the slower one may write an older
checkpoint over the newer. `CleanInv` says that without a fault a run does not fail
either: what a page listed and the source no longer has is no leaf any more, because
the source knows whole histories (`Whole`), and in those a revision that has a
child is never a leaf again (`StaysBuried`). That holds unless the source is
purged: a purge makes the parent of what it removes a leaf again, and the run
then takes for lost what is only back. `repl_faults` meets all three hypotheses.

The invariant for live replications, `LiveInv`, adds
the cursor between passes, the session and the identities that go with it.
`LiveKeeps`, which `live` meets, is that no database is restored and that nothing is
purged from a target. `HeardInv` adds the notices under way: either something of
the source is queued, or the loop knows which database it is (`SourceKnown`) and its
pass reads the feed to the end (`ReadsAll`); either a reset of the target is queued,
or may have been dropped, or the loop knows the target. A full channel drops
notices but never the fact that it did, and a pass is only over after a page that
was not full, so that what comes after that page is announced.

**Indexes.** Of a Mango index `MangoInv` says, for each document and each state of
an index in use or in the making, where it is *anchored*: as of some sequence it
had what a scan found then, and what came later is beyond that sequence, in what
was read but not yet applied, or has been seen to change while the find lasts.
A find that reads nothing new may use the index only if it is still the one
it read for; the code does not compare `last_seq` in that case
(`rouchdb/src/lib.rs:884-889`), and what saves it is that an index only moves
forward as long as it is created by one task at a time (`OneCreator`) and not
while the database is destroyed (`Overlap = FALSE`). Both hypotheses are needed:
section 5 tells what happens without each.
For views, `ViewInv` follows `update_index`: the rows caught up are right but for
documents purged; the second `info` notices those by the count, because an index
built from nothing has no row too many (its baseline is never negative), and one
with a row too many differs from any baseline.

**Streams.** `StreamInv` says that what was returned, what is in the buffer and
what a fetch in flight will bring leave no gap up to the stream's position, for
each kind of adapter, and that the look at the deadline reads a feed no
older than that deadline. **Upgrade.** `UpgradeInv` adds to `BackupKept` that one
process holds a file and one makes a backup, and what is at the two paths at each
step. `WarningGiven` is what the exception needs: as long as a rename is not durable,
either the process that made it is still before its sync, or its file is `warned`;
so when power loss undoes a rename of an upgraded file, that file is among
`warned`, and no other can be `lost`. The theorem is about `FileSpec`; the run
checks the same with `MCSpec`, which only takes fewer steps with the files that are
planned and not upgraded.

**HTTP.** A task that is past its setup knows that the database was there at some
moment since its cell was first looked at; what `SetupSuffices` needs is that a
database missing all the same was deleted after that moment. `SetupInv` says so for
each cell: whoever finds it set, or fills it with an answer that says the database is
there (`Known`), has seen a deletion if the database is deleted (`Noted`, by the
histories `stale` of the cell and `gone` of the task's call); one task at a time
fills a cell (`Alone`); and an answer "not found" or an error is only there with such a
deletion or a fault to blame (`Blamed`). The first attempt at this proof failed on
the model and not on the code: `stale` was cleared by a task that still held
an earlier cell of its adapter; it is now cleared only by one that holds the
current one. `AdapterAssumption` is what the proofs ask of the cases: the calls of
each task are calls of the kind its adapter, or the database itself, offers;
what is written, by a call, beside the server or before it starts, are documents
with some history (`DocumentOk`); and a feed is asked for with a limit that is not 0
(with 0 the code's design filter fails, `ServerFeed`).

Behind the server, `DataInv` says that the database is `DbOk` and that every call and
request at hand writes documents. A step then leaves the database as it is, moves it to
one that follows it (`Leads`: the same identity, sequences that only grow), or makes a
new one with a new identity. The feed rests on that. `FeedInv` says of a feed that it is
well formed (`FeedTyped`); that on each connection the sequences sent are in order and
none is beyond where the feed is (`FeedOrdered`); and, while the database is the one it
was opened on, that it covers (`FeedCovers`): what it has sent reaches to `since`,
what it had sent before this connection reaches to where this one began, and the events
in hand list everything to be shown between `since` and `lastSeq`. The last is what a
fetch in batches needs, since it stops at a batch whose last event may be one that
the selector drops; the one about the connection is what opening again needs, since a
client goes on from the last sequence it has read. A document that is written again
meanwhile moves beyond `since` and is only owed again later (`DueKept`); one
that is purged, or loses its revision to another, is owed no longer or at a new
sequence. `ListingIs`, `ShownIs`, `FrontIs` and `JoinedIs` say of a listing what these
arguments use: it is in order, has everything after `since` up to `lastSeq`, and
keeps that when it is filtered, cut or joined with the next. For their sake `Reads`
lists with `Ascending` and `Pick`, defined by cardinalities, and `WriteDocs` is a recursive
function: of the library's folds the provers know nothing.

Only model-checked: liveness (`RunsEnd`, `Converges`, `Delivered`, `TaskStops`,
`FeedCatchesUp`), which is out of the prover's reach, as is `ENABLED`;
what is computed by recursive operators (`FindAnswered`, `ViewAnswered`,
`PartitionScoped`, `KeysInOrder`) or by folds over whole documents and batches
(`OnlyAcceptedStored`, `WrittenBack`, `RepliesAccount`), which would need
induction over data; the comparison of two adapters (`UpgradeKeeps`,
`UsedLikeMemory`); and the answers over a connection (`AnswersTrue`).

## 7. What is not modelled

* Replication: a `since` override, events (of which the receiver must take in
  what a bounded channel holds), cancellation, `Database::sync` as one call. A
  predicate filter is judged by ids, a selector by revisions; a live replication
  has no filter.
* Security documents of every adapter, values that are stored and read back.
* Streams: what filters and selectors compute, what an event carries.
* Upgrade: a spelling is at one node of the old tree only, and only two spellings of
  a revision are told apart; spellings have the attachments of their revision. A
  file is used after its upgrade if the deletions of the new tree are those the
  revisions' names say (`FlagsAsNamed`), since `RedbTables` has no other flags; which
  deletions the new tree has is checked for the others too (`UpgradeKeeps`).
* JSON and queries: numbers are counted in tenths, so that none is too large for
  a float; the order of the keys of an object is one order; regular expressions
  are given by what they match; projection of fields, `include_docs` and linked
  documents, custom reduce functions, design documents as a way to define views,
  `explain`; `key` together with `keys` in a listing of a partition.
* Facade: purge and compaction are absent from `Facade`; a client's whole write
  is one step between those of the call that is followed, and others act only
  while that call is between two calls of its own (`Stepwise`); local documents
  and ordinary ones are not stored in the same behaviour (`Room`), at most
  `MaxBodies` bodies; only leaves are named in upper case; replicated attachments
  come with their bytes; `Database::bulk_docs` with `new_edits=false`. Finds and
  indexes of a remote database.
* HTTP: sessions, users and authentication; the routes for security, finds,
  indexes and design documents; the routes the pull replicator of CouchDB uses
  beyond the document routes; the adapter's live changes client. A request to
  remove an attachment that the revision lacks.
* Hashing, base64, encodings of stored records, error texts: data. A transaction
  of redb is atomic and durable, as that library promises.
* The CLI, whose commands translate to one adapter call each; benchmarks; the
  compatibility tests.
