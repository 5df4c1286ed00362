----------------------------- MODULE HttpAdapter -----------------------------
(***************************************************************************)
(* Tasks that use one remote database through HTTP adapters (crates/       *)
(* rouchdb-adapter-http), each adapter shared by its tasks, and others     *)
(* that send requests of their own.  Before its first operation an adapter *)
(* makes sure that the database exists, creating it when it is missing,    *)
(* once for all its tasks; a destroy makes it look again.                  *)
(***************************************************************************)
EXTENDS ServerFeed

CONSTANTS
  Adapter,   \* the adapters
  NoAdapter, \* where a task sends its requests by itself
  On,        \* On[t]: the adapter task t uses
  Retries,   \* DB_REQUEST_RETRIES
  Cases      \* what the tasks, the feed and the others do; see Init

\* A call, or a request, that writes is about documents of the database.
Writable(r) ==
  /\ r.kind = "bulk" =>
       "docs" \in DOMAIN r /\ r.docs \in Seq(Range(r.docs)) /\ \A x \in Range(r.docs) : DocumentOk(x)
  /\ r.kind \in {"put_doc", "delete_doc", "attach", "put_attachment", "delete_attachment"} =>
       "doc" \in DOMAIN r /\ DocumentOk(r.doc)
  /\ r.kind = "purge" => "id" \in DOMAIN r /\ r.id \in Doc

\* Each task has a list of calls.  A call is a request, which is not under way
\* yet, or what an adapter offers; one through an adapter is none of those the
\* adapter itself makes of its calls.
CallOk(t, call) ==
  /\ "kind" \in DOMAIN call /\ "at" \notin DOMAIN call
  /\ On[t] # NoAdapter => call.kind \notin {"info", "put_db", "delete_db", "removing"}
  /\ Writable(call)

ASSUME AdapterAssumption ==
  /\ NoAdapter \notin Adapter /\ On \in [Task -> Adapter \union {NoAdapter}]
  /\ Retries \in Nat
  /\ \A c \in Cases :
       /\ c.deleted \in BOOLEAN
       /\ c.start \in Seq(Range(c.start)) /\ \A x \in Range(c.start) \union c.writes : DocumentOk(x)
       /\ c.feed = Closed \/ c.feed \in FeedOptions
       /\ \A t \in Task :
            /\ c.todo[t] \in Seq(Range(c.todo[t]))
            /\ \A call \in Range(c.todo[t]) : CallOk(t, call)

VARIABLES
  cells,   \* cells[a]: the setup cells adapter a has had; the last is current
  stale,   \* stale[a]: the database was deleted since a task took a's current cell to look (history)
  task,    \* task[t]: what task t is at
  faults,  \* the number of faults still to come
  writes   \* the writes still to come that are made on the database directly

httpVars == <<db, locals, deleted, req, stored, woken, feed, cells, stale, task, faults, writes>>
clientVars == <<cells, stale, task, writes>>

(* A case is [deleted, start (the documents of the database, as if          *)
(* replicated into it), todo (the calls of each task, in order), feed (what *)
(* is asked of it, or Closed), faults, writes].                             *)
(* task[t] is a record: pc, todo, call (the one at hand), gen (which cell   *)
(* it uses), retries left, the history of the call: gone (the database was  *)
(* deleted under it), hit (a fault met it), before and found (the database  *)
(* and its local documents as the call found them); and outcome, of the last call.         *)
Init ==
  \E c \in Cases :
    /\ ServerInit(WriteDocs(EmptyDb(0), c.start, FALSE).db, c.deleted)
    /\ feed = IF c.feed = Closed THEN Closed ELSE Opened(c.feed, 0)
    /\ cells = [a \in Adapter |-> <<"empty">>]
    /\ stale = [a \in Adapter |-> FALSE]
    /\ task = [t \in Task |-> [pc |-> "idle", todo |-> c.todo[t], call |-> NoRequest, gen |-> 1,
                               retries |-> 0, gone |-> FALSE, hit |-> FALSE, before |-> db, found |-> locals,
                               outcome |-> [is |-> "none"]]]
    /\ faults = c.faults /\ writes = c.writes

Cell(t) == cells[On[t]][task[t].gen]
SetCell(t, s) == cells' = [cells EXCEPT ![On[t]][task[t].gen] = s]

\* Once a request is over, the next one of the same call is sent with r.
Go(t, pc, r) ==
  /\ task' = [task EXCEPT ![t].pc = pc]
  /\ Send(t, r)

Finish(t, o) ==
  /\ task' = [task EXCEPT ![t].pc = "idle", ![t].outcome = o]
  /\ req' = [req EXCEPT ![t] = NoRequest]

InfoRequest == [kind |-> "info"]
PutDbRequest == [kind |-> "put_db"]
DeleteDbRequest == [kind |-> "delete_db"]

\* The documents of a bulk call that are sent: bulk_docs itself rejects those
\* nested too deep.
Sent(docs) == Pick(docs, {i \in 1 .. Len(docs) : ~docs[i].deep})

\* The request of a call.
RequestOf(call) ==
  CASE call.kind = "bulk"     -> [call EXCEPT !.docs = Sent(call.docs)]
    [] call.kind = "removing" -> [kind |-> "get_local", id |-> call.id]
    [] OTHER                  -> call

\* A task begins its next call: with the cell its adapter has now, or, to
\* destroy the database, without looking.
Begin(t) ==
  /\ task[t].pc = "idle" /\ task[t].todo # <<>>
  /\ LET call == Head(task[t].todo)
         own  == On[t] = NoAdapter
         next == [task[t] EXCEPT
                    !.todo = Tail(@), !.call = call, !.retries = Retries, !.hit = FALSE, !.before = db,
                    !.found = locals,
                    !.gone = ~own /\ stale[On[t]] /\ Last(cells[On[t]]) # "empty", !.outcome = [is |-> "none"],
                    !.gen = IF own THEN 1 ELSE Len(cells[On[t]])]
     IN  CASE own \/ call.kind = "destroy" ->
                /\ task' = [task EXCEPT ![t] = [next EXCEPT !.pc = "call"]]
                /\ Send(t, IF own THEN call ELSE DeleteDbRequest)
           [] OTHER ->
                /\ task' = [task EXCEPT ![t] = [next EXCEPT !.pc = "setup"]]
                /\ UNCHANGED req
  /\ stored' = [stored EXCEPT ![t] = {}]
  /\ UNCHANGED <<db, locals, deleted, woken, cells, stale>>

\* bulk_docs with nothing to send answers by itself; remove_local first reads
\* the document, with get_local, which makes sure of the database again.
SendCall(t) ==
  LET call == task[t].call
  IN  CASE call.kind = "bulk" /\ Sent(call.docs) = <<>> ->
             Finish(t, [is |-> "ok", results |-> [i \in 1 .. Len(call.docs) |->
                                [id |-> call.docs[i].id, ok |-> FALSE, rev |-> NoRev]]])
        [] call.kind = "remove_local" ->
             /\ task' = [task EXCEPT ![t].pc = "setup", ![t].call.kind = "removing",
                                     ![t].gen = Len(cells[On[t]])]
             /\ req' = [req EXCEPT ![t] = NoRequest]
        [] OTHER -> Go(t, IF call.kind = "removing" THEN "locating" ELSE "call", RequestOf(call))

\* ensure_setup: one task at a time looks; the others wait for what it finds.
EnsureSetup(t) ==
  /\ task[t].pc = "setup"
  /\ \/ Cell(t) = "set" /\ SendCall(t) /\ UNCHANGED cells
     \/ Cell(t) = "empty" /\ SetCell(t, "busy") /\ Go(t, "looking", InfoRequest)
  /\ stale' = [stale EXCEPT ![On[t]] = @ /\ (Cell(t) = "set" \/ task[t].gen # Len(cells[On[t]]))]
  /\ UNCHANGED <<db, locals, deleted, stored, woken>>

\* The answer to task t, received.  A 500 to a request about the database
\* itself is retried.
Answered(t, pc) == task[t].pc = pc /\ req[t].at = "answered"
Retried(t) == req[t].answer.status = 500 /\ task[t].retries > 0

AboutDb(t) == req[t].kind \in {"info", "put_db", "delete_db"} /\ On[t] # NoAdapter

Retry(t) ==
  /\ req[t].at = "answered" /\ Retried(t) /\ AboutDb(t)
  /\ task' = [task EXCEPT ![t].retries = @ - 1]
  /\ Send(t, [kind |-> req[t].kind])
  /\ UNCHANGED <<db, locals, deleted, stored, woken, cells, stale>>

\* GET answered: the database is there, or is created.
Looked(t) ==
  /\ Answered(t, "looking") /\ ~Retried(t) /\ Received(t)
  /\ LET status == req[t].answer.status
     IN  CASE status = 200 -> /\ SetCell(t, "set") /\ SendCall(t)
           [] status = 404 -> /\ task' = [task EXCEPT ![t].pc = "creating", ![t].retries = Retries]
                              /\ Send(t, PutDbRequest) /\ UNCHANGED cells
           [] OTHER        -> /\ SetCell(t, "empty") /\ Finish(t, [is |-> "error"])
  /\ UNCHANGED <<stored, stale>>

\* Slip: a database that someone else has created meanwhile is an error.
CreatedAlone(t) ==
  /\ Answered(t, "creating") /\ ~Retried(t) /\ Received(t)
  /\ IF req[t].answer.status = 201
       THEN SetCell(t, "set") /\ SendCall(t)
       ELSE SetCell(t, "empty") /\ Finish(t, [is |-> "error"])
  /\ UNCHANGED <<stored, stale>>

\* PUT answered: 412 says that someone else has created it.
Created(t) ==
  /\ Answered(t, "creating") /\ ~Retried(t) /\ Received(t)
  /\ IF req[t].answer.status \in {201, 412}
       THEN SetCell(t, "set") /\ SendCall(t)
       ELSE SetCell(t, "empty") /\ Finish(t, [is |-> "error"])
  /\ UNCHANGED <<stored, stale>>

\* One result per document, in order, those of the documents not sent put in;
\* or, of replicated documents, the failures only.
Results(docs, newEdits, results) ==
  LET rejection(x) == [id |-> x.id, ok |-> FALSE, rev |-> NoRev]
      before(i)    == Cardinality({j \in 1 .. i : ~docs[j].deep})
      deep         == SelectSeq(docs, LAMBDA x : x.deep)
  IN  IF newEdits
        THEN [i \in 1 .. Len(docs) |-> IF docs[i].deep THEN rejection(docs[i]) ELSE results[before(i)]]
        ELSE [i \in 1 .. Len(deep) |-> rejection(deep[i])] \o results

\* winning_open_rev: the winner among the leaves found.
WinningOpenRev(found) ==
  IF found = {} THEN [is |-> "not_found"] ELSE
    [is |-> "ok", rev |-> CHOOSE r \in found : \A s \in found : s = r \/ Beats(r, s)]

\* What a call makes of its answer: "missing" is for want of a database.
OutcomeOf(call, a) ==
  CASE a = NoDatabase             -> [is |-> "missing"]
    [] a.status = 404 /\ a # NoDatabase -> Over([is |-> "not_found"], a)
    [] a.status \in {400, 409}    -> Over([is |-> "refused"], Over(a, [reason |-> "none"]))
    [] a.status = 500             -> [is |-> "error"]
    [] Success(a) /\ call.kind = "bulk" ->
         [is |-> "ok", results |-> Results(call.docs, call.newEdits, a.results)]
    [] Success(a) /\ call.kind = "open_revs" -> Over(WinningOpenRev(a.found), a)
    [] OTHER -> Over([is |-> "ok"], a)

\* The local document to remove is there: DELETE, with its revision, which the
\* server does not look at.
Located(t) ==
  /\ Answered(t, "locating") /\ Received(t)
  /\ IF Success(req[t].answer)
       THEN Go(t, "call", [kind |-> "delete_local", id |-> task[t].call.id])
       ELSE Finish(t, OutcomeOf(task[t].call, req[t].answer))
  /\ UNCHANGED <<stored, cells, stale>>

\* Destroyed: the adapter looks again before the next operation.
Done(t) ==
  /\ Answered(t, "call") /\ Received(t)
  /\ LET call == task[t].call
         ans  == req[t].answer
         mine == call.kind = "destroy"
     IN  /\ ~(mine /\ Retried(t))
         /\ IF mine /\ (Success(ans) \/ ans.status = 404)
              THEN /\ cells' = [cells EXCEPT ![On[t]] = Append(@, "empty")]
                   /\ stale' = [stale EXCEPT ![On[t]] = FALSE]
                   /\ Finish(t, [is |-> "ok"])
              ELSE /\ Finish(t, OutcomeOf(call, ans))
                   /\ UNCHANGED <<cells, stale>>
  /\ UNCHANGED stored

----------------------------------------------------------------------------
(* Faults *)

\* The connection of a task's request breaks: the call fails, and the setup
\* with it.
Lose(t) ==
  /\ Broken(t)
  /\ cells' = IF task[t].pc \in {"looking", "creating"}
                THEN [cells EXCEPT ![On[t]][task[t].gen] = "empty"] ELSE cells
  /\ task' = [task EXCEPT ![t].pc = "idle", ![t].hit = TRUE, ![t].outcome = [is |-> "error"]]
  /\ req' = [req EXCEPT ![t] = NoRequest]
  /\ UNCHANGED <<stored, stale>>

\* The database fails once in a handler, at any of its calls.
Fail(t) ==
  /\ HandlerFails(t) \/ FailureSwallowed(t)
  /\ task' = [task EXCEPT ![t].hit = @ \/ ~AboutDb(t) \/ task[t].retries = 0]
  /\ UNCHANGED <<cells, stale>>

Fault ==
  /\ faults > 0
  /\ faults' = faults - 1
  /\ \/ \E t \in Task : (Lose(t) \/ Fail(t)) /\ UNCHANGED <<feed, writes>>
     \/ (FetchFails \/ Disconnect) /\ UNCHANGED clientVars

----------------------------------------------------------------------------
Client(t) == Begin(t) \/ EnsureSetup(t) \/ Retry(t) \/ Looked(t) \/ Created(t) \/ Located(t) \/ Done(t)

\* A DELETE that takes effect is noted by every call in hand, and by the
\* adapters that know the database to exist.
NoteDeleted ==
  /\ task' = [t \in Task |-> [task[t] EXCEPT !.gone = @ \/ task[t].pc # "idle"]]
  /\ stale' = [a \in Adapter |-> stale[a] \/ Last(cells[a]) # "empty"]

ServerStep(t) ==
  /\ Handle(t) /\ db'.updateSeq <= MaxSeq
  /\ IF deleted' /\ ~deleted THEN NoteDeleted ELSE UNCHANGED <<task, stale>>
  /\ UNCHANGED <<cells, feed, faults, writes>>

\* The database is written by the program that serves it, which no feed is
\* told of.
DirectWrite ==
  /\ \E w \in writes :
       /\ Made(db, w) # {}
       /\ db' = WriteDocs(db, <<w>>, TRUE).db
       /\ writes' = writes \ {w}
  /\ db'.updateSeq <= MaxSeq
  /\ UNCHANGED <<locals, deleted, req, stored, woken, feed, cells, stale, task, faults>>

Next ==
  \/ \E t \in Task :
       \/ Client(t) /\ UNCHANGED <<feed, faults, writes>>
       \/ ServerStep(t)
  \/ FeedStep /\ UNCHANGED <<clientVars, faults>>
  \/ DirectWrite
  \/ Fault

Looks(A) == A /\ UNCHANGED <<clientVars, faults>>

\* Weak fairness of FetchStep, which can be taken whenever the feed is at
\* "fetch" (written out: TLC would work out a whole fetch to find that).
Fetches == []<>(feed.pc # "fetch") \/ []<><<feed.pc = "fetch" /\ feed' # feed>>_httpVars

\* The feed task and its client go on; the other tasks and the faults come as
\* they like.
Spec ==
  /\ Init /\ [][Next]_httpVars
  /\ Fetches
  /\ WF_httpVars(Looks(Serve)) /\ WF_httpVars(Looks(Wake)) /\ WF_httpVars(Looks(Reopen))

----------------------------------------------------------------------------
\* ensure_setup suffices: a call through an adapter finds no database only if
\* someone deleted it during the call, or behind the adapter's back after it had
\* found it; and a call fails only when a fault hit it, however many tasks set
\* up the database at once.
SetupSuffices ==
  \A t \in Task : On[t] # NoAdapter =>
    /\ task[t].outcome.is = "missing" => task[t].gone
    /\ task[t].outcome.is = "error" => task[t].hit

\* A bulk answer is about the documents of the call, each result about its own:
\* it says `ok' of exactly the revisions that were stored; replicated documents
\* it does not list are stored, and a refused call has stored nothing.
BulkAnswered(t) ==
  LET call == task[t].call
      o    == task[t].outcome
      listed(d) == \E i \in 1 .. Len(o.results) : o.results[i].id = d
  IN  /\ o.is = "refused" => stored[t] = {}
      /\ o.is = "ok" /\ call.newEdits =>
           /\ Len(o.results) = Len(call.docs)
           /\ \A i \in 1 .. Len(call.docs) : o.results[i].id = call.docs[i].id
           /\ StoredBy(o.results) = stored[t]
      /\ o.is = "ok" /\ ~call.newEdits =>
           \A i \in 1 .. Len(call.docs) :
             LET x == call.docs[i]
             IN  ~listed(x.id) => \E r \in x.revs : <<x.id, r>> \in stored[t]

\* A single write is refused only if a write of the document stands in its way.
WriteAnswered(t) ==
  LET x == task[t].call.doc
      o == task[t].outcome
  IN  /\ o.is = "ok" => stored[t] # {}
      /\ o.is \in {"refused", "not_found"} => stored[t] = {}
      /\ o.is = "refused" => Made(task[t].before, x) = {} \/ db.docs[x.id] # task[t].before.docs[x.id]

\* Neither a purge nor a destroy since the call began.
NothingPurged(t) ==
  task[t].before.uuid = db.uuid /\ task[t].before.purgeSeq = db.purgeSeq

\* The same of an edit of a revision's attachments, which fails only if the
\* revision could not be edited when the call began or the document has changed
\* since; and it is said to be missing only if it was not in the tree then, or
\* has left it.
AttachAnswered(t) ==
  LET x == task[t].call.doc
      r == CHOOSE s \in x.revs : TRUE
      o == task[t].outcome
      base == task[t].before
  IN  /\ o.is = "ok" => stored[t] = {<<x.id, r>>}
      /\ o.is \in {"refused", "not_found"} =>
           /\ stored[t] = {}
           /\ \/ AttachmentEdit(base, x.id, r, IF task[t].call.kind = "put_attachment" THEN Att[r] ELSE {}, StoreLimit) = base
              \/ db.docs[x.id] # base.docs[x.id]
      /\ o.is = "refused" /\ o.reason = "missing_rev" /\ NothingPurged(t) =>
           ~({Parent(r)} \subseteq RevsOf(Nodes(base, x.id)) \intersect RevsOf(Nodes(db, x.id)))

\* A local document as the call found it does not outlive the call that writes
\* or removes it, nor a removal that finds none; and a read answers it if nobody
\* touches it.
LocalAnswered(t) ==
  LET call == task[t].call
      o    == task[t].outcome
      old  == task[t].found[call.id]
      now  == locals[call.id]
  IN  old # NoLocal =>
        CASE call.kind = "get_local" ->
               old = now => o.is # "not_found" /\ (o.is = "ok" => o.value = now)
          [] call.kind = "put_local" -> o.is = "ok" => now # old \/ now = [n |-> o.n, by |-> t]
          [] OTHER -> o.is \in {"ok", "not_found"} => now # old

\* Every leaf that was one during the whole call is among those read, and the
\* document answered is not one that another of them beats.
LeavesAnswered(t) ==
  LET d    == task[t].call.id
      base == task[t].before
      kept == IF NothingPurged(t) THEN LeafRevs(Nodes(base, d)) \intersect LeafRevs(Nodes(db, d)) ELSE {}
      o    == task[t].outcome
  IN  o.is = "ok" => kept \subseteq o.found /\ \A r \in kept : r = o.rev \/ Beats(o.rev, r)

\* A read of a database at rest answers what a local adapter answers, but for
\* the conflicts of a changes feed; a document not found is called deleted only if
\* it is, and always if it is unless the call of the database that tells failed.
ReadAnswered(t) ==
  LET call == task[t].call
      o    == task[t].outcome
  IN  db = task[t].before =>
        CASE call.kind = "read" /\ o.is = "ok" ->
               o.value = IF call.query.kind = "changes" THEN WithoutConflicts(LocalRead(db, call.query))
                                                        ELSE LocalRead(db, call.query)
          [] call.kind = "get_doc" /\ o.is = "ok" -> o.value = Get(db, call.id, call.rev, call.latest)
          [] call.kind = "get_doc" /\ o.is = "not_found" ->
               LET gone == call.rev = NoRev /\ Exists(db, call.id) /\ IsDeleted(Nodes(db, call.id))
               IN  /\ o.reason = "deleted" => gone
                   /\ gone => o.reason = "deleted" \/ task[t].hit
          [] OTHER -> TRUE

\* The bytes answered are there while the document is at rest.
BytesAnswered(t) ==
  LET call == task[t].call
      o    == task[t].outcome
      w    == IF call.rev = NoRev THEN Winner(Nodes(db, call.id)) ELSE call.rev
  IN  db.docs[call.id] = task[t].before.docs[call.id] /\ Exists(db, call.id) /\ o.is \in {"ok", "not_found"} =>
        (o.is = "ok" <=> (call.rev # NoRev \/ w \notin Deleted) /\ GetAttachment(db, call.id, w, call.digest))

\* What a call answers is what it has done, whatever else ran between the calls
\* its handler makes.  (Looked at when the call has ended and nothing has
\* happened since.)
AnswersTrue ==
  [][\A t \in Task :
       task'[t].pc = "idle" /\ task[t].pc \in {"call", "locating"} =>
         CASE task[t].call.kind = "bulk" -> BulkAnswered(t)'
           [] task[t].call.kind \in {"put_doc", "delete_doc", "attach"} -> WriteAnswered(t)'
           [] task[t].call.kind \in {"put_attachment", "delete_attachment"} -> AttachAnswered(t)'
           [] task[t].call.kind \in {"get_local", "put_local", "delete_local", "removing"} -> LocalAnswered(t)'
           [] task[t].call.kind = "open_revs" -> LeavesAnswered(t)'
           [] task[t].call.kind \in {"read", "get_doc"} -> ReadAnswered(t)'
           [] task[t].call.kind = "get_attachment" -> BytesAnswered(t)'
           [] OTHER -> TRUE]_httpVars

\* doc_not_found: "the reason is `deleted' when the winning revision is a deletion",
\* of a database at rest.  The code does not keep to it when its call fails.
DeletedSaid ==
  [][\A t \in Task :
       LET call == task[t].call
           o    == task'[t].outcome
           gone == call.rev = NoRev /\ Exists(db, call.id) /\ IsDeleted(Nodes(db, call.id))
       IN  task[t].pc = "call" /\ task'[t].pc = "idle" /\ db = task[t].before =>
             (call.kind = "get_doc" /\ o.is = "not_found" /\ gone => o.reason = "deleted")]_httpVars
=============================================================================
