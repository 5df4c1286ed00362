----------------------------- MODULE HttpServer -----------------------------
(***************************************************************************)
(* The server of one database over HTTP (crates/rouchdb-server).  A        *)
(* request is checked against the `deleted' flag on its way in, and then   *)
(* its handler calls the database, once or several times: other requests   *)
(* run between these calls, and the database may be deleted and created    *)
(* again between them.  A broken connection drops the handler where it is. *)
(***************************************************************************)
EXTENDS Reads

CONSTANTS
  Local,       \* ids of local documents
  NoLocal,     \* where there is none
  Task,        \* the tasks that send requests, one at a time each
  StoreLimit   \* the revision limit of the database

ASSUME ServerAssumption == StoreLimit \in Nat

VARIABLES
  db,       \* the database
  locals,   \* locals[l]: the local document, [n (its _rev is 0-n), by], or NoLocal
  deleted,  \* AppState.deleted: a DELETE /{db} was the last of its kind
  req,      \* req[t]: the request task t waits for, and how far its handler is
  stored,   \* stored[t]: the revisions the request in hand has stored (history)
  woken     \* a write has woken the changes feed up

serverVars == <<db, locals, deleted, req, stored, woken>>

----------------------------------------------------------------------------
(* What a read through an HTTP adapter answers: the adapter asks for what  *)
(* it needs of CouchDB's interface, the server asks its database for it    *)
(* and shapes the answer, and the adapter takes the answer apart.  A read  *)
(* is a record with `kind' and arguments.                                  *)

\* keys_response: the server turns the keys around itself, asks for all their
\* rows and cuts the page out of them.
KeysResponse(base, o) ==
  LET answer == AllDocs(base, [o EXCEPT !.keys = IF o.descending THEN Reverse(@) ELSE @,
                                        !.descending = FALSE, !.skip = 0, !.limit = NoLimit])
  IN  [answer EXCEPT !.rows = Page(answer.rows, o)]

RunAllDocs(base, o) == IF o.keys # NoKey THEN KeysResponse(base, o) ELSE AllDocs(base, o)

\* The row of one document asked for by its key.
KeysRow(base, d) ==
  AllDocs(base, [keys |-> <<d>>, key |-> NoKey, start |-> NoKey, end |-> NoKey, descending |-> FALSE,
                 inclusive |-> TRUE, skip |-> 0, limit |-> NoLimit]).rows[1]

\* shape_doc: what the request did not ask for goes.
ShapeDoc(doc, revs, attachments) ==
  IF ~doc.found THEN doc ELSE
    [doc EXCEPT !.history = IF revs THEN @ ELSE {}, !.inlined = IF attachments THEN @ ELSE {}]

\* bulk_get: the adapter wants the histories and the bytes.
RemoteBulkGet(base, d, rev) == ShapeDoc(BulkGet(base, d, rev), TRUE, TRUE)

\* changes: the adapter looks for conflicts in the documents of the answer,
\* where this server does not write them.
WithoutConflicts(answer) ==
  [answer EXCEPT !.events = [i \in 1 .. Len(@) |-> [@[i] EXCEPT !.conflicts = {}]]]

\* revs_diff and info: the answers are handed on as they are.
RemoteRevsDiff(base, d, R) == RevsDiff(base, d, R)
RemoteInfo(base) == Info(base)

\* The answer of the server to a read, as the adapter hands it on.
RemoteRead(base, q) ==
  CASE q.kind = "all_docs"  -> RunAllDocs(base, q.opts)
    [] q.kind = "changes"   -> WithoutConflicts(Changes(base, q.opts))
    [] q.kind = "bulk_get"  -> RemoteBulkGet(base, q.id, q.rev)
    [] q.kind = "revs_diff" -> RemoteRevsDiff(base, q.id, q.revs)
    [] q.kind = "info"      -> RemoteInfo(base)

\* What a local adapter answers.
LocalRead(base, q) ==
  CASE q.kind = "all_docs"  -> AllDocs(base, q.opts)
    [] q.kind = "changes"   -> Changes(base, q.opts)
    [] q.kind = "bulk_get"  -> BulkGet(base, q.id, q.rev)
    [] q.kind = "revs_diff" -> RevsDiff(base, q.id, q.revs)
    [] q.kind = "info"      -> Info(base)

----------------------------------------------------------------------------
(* Requests *)

NoRequest == [kind |-> "none", at |-> "none"]

\* The changes listing that open_revs=all makes, of one document.
OneDoc(d) == [since |-> 0, limit |-> NoLimit, descending |-> FALSE, ids |-> {d}, style |-> "all_docs"]

ServerInit(start, isDeleted) ==
  /\ db = start /\ deleted = isDeleted
  /\ locals = [l \in Local |-> NoLocal]
  /\ req = [t \in Task |-> NoRequest]
  /\ stored = [t \in Task |-> {}]
  /\ woken = FALSE

\* The record f, and what g has besides (f @@ g, which no prover knows).
Over(f, g) == [x \in DOMAIN f \union DOMAIN g |-> IF x \in DOMAIN f THEN f[x] ELSE g[x]]

\* Task t sends a request.
Send(t, r) == req' = [req EXCEPT ![t] = Over(r, [at |-> "sent"])]

\* A handler goes on to its next call of the database, keeping `kept'.
Proceed(t, at, kept) == req' = [req EXCEPT ![t] = Over(kept, [@ EXCEPT !.at = at])]

\* A handler answers; the answer waits for the client.
Answer(t, a) == req' = [req EXCEPT ![t] = Over([answer |-> a], [@ EXCEPT !.at = "answered"])]

Status(n) == [status |-> n]

\* A document, or a local one, that is not there.
Missing == [status |-> 404, reason |-> "missing"]

\* db_not_found
NoDatabase == [status |-> 404, reason |-> "no_db_file"]

Handling(t, kind, at) == req[t].kind = kind /\ req[t].at = at

\* A document read without a revision was not found.
LooksWhy(t) == req[t].kind \in {"get_doc", "get_attachment"} /\ req[t].at = "absent"

\* The first step of every route but PUT /{db}.
CheckDb(t) ==
  /\ req[t].at = "sent" /\ req[t].kind # "put_db"
  /\ IF deleted THEN Answer(t, NoDatabase) ELSE Proceed(t, "checked", <<>>)
  /\ UNCHANGED <<db, locals, deleted, stored, woken>>

----------------------------------------------------------------------------
(* Routes of the database itself *)

GetDbInfo(t) ==
  /\ Handling(t, "info", "checked")
  /\ Answer(t, Status(200))
  /\ UNCHANGED <<db, locals, deleted, stored, woken>>

PutDb(t) ==
  /\ Handling(t, "put_db", "sent")
  /\ deleted' = FALSE
  /\ Answer(t, Status(IF deleted THEN 201 ELSE 412))
  /\ UNCHANGED <<db, locals, stored, woken>>

\* delete_db marks the database first, so that later requests find none.
DeleteDbMarks(t) ==
  /\ Handling(t, "delete_db", "checked")
  /\ deleted' = TRUE
  /\ IF deleted THEN Answer(t, NoDatabase) ELSE Proceed(t, "marked", <<>>)
  /\ UNCHANGED <<db, locals, stored, woken>>

DeleteDbDestroys(t) ==
  /\ Handling(t, "delete_db", "marked")
  /\ db' = Destroy(db, db.uuid + 1)
  /\ locals' = [l \in Local |-> NoLocal]
  /\ Answer(t, Status(200))
  /\ UNCHANGED <<deleted, stored, woken>>

\* The call of the database that a handler is at fails, with a 500; a DELETE
\* takes its mark back.
HandlerFails(t) ==
  /\ req[t].at \in {"checked", "marked", "live", "listed", "read"} \/ Handling(t, "attach", "absent")
  /\ deleted' = (deleted /\ req[t].at # "marked")
  /\ Answer(t, Status(500))
  /\ UNCHANGED <<db, locals, stored, woken>>

\* doc_not_found and rev_is_unknown take a failure of their call for a "no": the
\* document is not deleted, the revision is not unknown.
FailureSwallowed(t) ==
  /\ \/ req[t].at = "unmade" /\ Answer(t, Status(req[t].was))
     \/ LooksWhy(t) /\ Answer(t, Missing)
  /\ UNCHANGED <<db, locals, deleted, stored, woken>>

CompactRoute(t) ==
  /\ Handling(t, "compact", "checked")
  /\ db' = Compact(db)
  /\ Answer(t, Status(202))
  /\ UNCHANGED <<locals, deleted, stored, woken>>

PurgeRoute(t) ==
  /\ Handling(t, "purge", "checked")
  /\ db' = PurgeEnd(db, PurgeDoc(db, req[t].id, req[t].revs))
  /\ Answer(t, Status(201))
  /\ UNCHANGED <<locals, deleted, stored, woken>>

----------------------------------------------------------------------------
(* Writing documents.  A document of a request is [id, revs, bytes, valid]:  *)
(* an edit makes the one of `revs' that follows from what is stored; a       *)
(* replicated revision is the only one; `bytes' says its attachments come    *)
(* inline; only a valid one passes `validate'.                               *)

DocumentOk(x) == x.id \in Doc /\ x.revs # {} /\ x.revs \subseteq Rev

\* The revision an edit makes, as a set: empty when it is refused.
Made(base, x) ==
  {r \in x.revs : /\ EditAccepted(base, x.id, r, x.named)
                  /\ EditAttachmentsOk(base, x.id, r, IF x.bytes THEN Att[r] ELSE {})}

Inline(x, r) == IF x.bytes THEN Att[r] ELSE {}

\* bulk_docs of the adapter, one document: the database and its results grow.
WriteDoc(newEdits, acc, x) ==
  LET edit == Made(acc.db, x)
      repl == CHOOSE r \in x.revs : TRUE
      ok   == IF newEdits THEN edit # {}
                          ELSE AlreadyStored(acc.db, x.id, repl) \/ StubsPresent(acc.db, repl, Inline(x, repl))
      rev  == IF newEdits /\ ok THEN CHOOSE r \in edit : TRUE ELSE repl
  IN  [db |-> CASE ~ok -> acc.db
                [] ok /\ newEdits -> NewEdit(acc.db, x.id, rev, Inline(x, rev), StoreLimit)
                [] OTHER -> ReplicatedEdit(acc.db, x.id, EditStart(rev), rev, Inline(x, rev), StoreLimit),
       results |-> Append(acc.results, [id |-> x.id, ok |-> ok, rev |-> IF ok THEN rev ELSE NoRev])]

WriteDocs(base, docs, newEdits) ==
  LET after[i \in 0 .. Len(docs)] ==
        IF i = 0 THEN [db |-> base, results |-> <<>>] ELSE WriteDoc(newEdits, after[i - 1], docs[i])
  IN  after[Len(docs)]

\* The revisions a list of results says are stored.
StoredBy(results) == {<<results[i].id, results[i].rev>> : i \in {j \in 1 .. Len(results) : results[j].ok}}

\* POST /{db}/_bulk_docs: an invalid document refuses the whole request, and
\* replicated documents are answered only when they fail.
BulkDocs(t) ==
  /\ Handling(t, "bulk", "checked")
  /\ LET docs == req[t].docs
         done == WriteDocs(db, docs, req[t].newEdits)
     IN  IF \E i \in 1 .. Len(docs) : ~docs[i].valid
           THEN Answer(t, Status(400)) /\ UNCHANGED <<db, stored>>
           ELSE /\ db' = done.db
                /\ stored' = [stored EXCEPT ![t] = StoredBy(done.results)]
                /\ Answer(t, [status |-> 201,
                              results |-> SelectSeq(done.results, LAMBDA r : req[t].newEdits \/ ~r.ok)])
  /\ UNCHANGED <<locals, deleted, woken>>

\* One document is written, and a refusal is a conflict.
WriteOne(t, x) ==
  LET done == WriteDocs(db, <<x>>, TRUE)
  IN  /\ db' = done.db
      /\ stored' = [stored EXCEPT ![t] = StoredBy(done.results)]
      /\ Answer(t, IF done.results[1].ok THEN [status |-> 201, results |-> done.results] ELSE Status(409))

Deletes(x) == x.revs \subseteq Deleted

\* A deletion (DELETE, or PUT of a deleted body) goes to Database::remove,
\* which first reads the document: 404 for DELETE and 409 for PUT if it is not
\* live.
EnsureLive(t) ==
  /\ req[t].kind \in {"put_doc", "delete_doc"} /\ req[t].at = "checked" /\ Deletes(req[t].doc)
  /\ IF Get(db, req[t].doc.id, NoRev, FALSE).found
       THEN Proceed(t, "live", <<>>)
       ELSE Answer(t, Status(IF req[t].kind = "put_doc" THEN 409 ELSE 404))
  /\ UNCHANGED <<db, locals, deleted, stored, woken>>

\* put_doc and delete_doc write what is sent.
WriteSent(t) ==
  /\ \/ Handling(t, "put_doc", "checked") /\ ~Deletes(req[t].doc)
     \/ req[t].kind \in {"put_doc", "delete_doc"} /\ req[t].at = "live"
  /\ WriteOne(t, req[t].doc)
  /\ UNCHANGED <<locals, deleted, woken>>

\* put_attachment without a revision creates the document, which it first
\* looks for.
AttachLooks(t) ==
  /\ Handling(t, "attach", "checked")
  /\ IF Get(db, req[t].doc.id, NoRev, FALSE).found
       THEN Answer(t, Status(409))
       ELSE Proceed(t, "absent", <<>>)
  /\ UNCHANGED <<db, locals, deleted, stored, woken>>

AttachCreates(t) ==
  /\ Handling(t, "attach", "absent")
  /\ WriteOne(t, req[t].doc)
  /\ UNCHANGED <<locals, deleted, woken>>

\* An edit of the attachments of the revision before the one it makes, with the
\* bytes U: one call of the database, ...
EditsAttachment(t, x, U) ==
  /\ db' = AttachmentEdit(db, x.id, CHOOSE r \in x.revs : TRUE, U, StoreLimit)
  /\ IF db' = db
       THEN /\ Proceed(t, "unmade", [was |-> IF Exists(db, x.id) THEN 409 ELSE 404])
            /\ UNCHANGED stored
       ELSE /\ Answer(t, Status(201))
            /\ stored' = [stored EXCEPT ![t] = {<<x.id, r>> : r \in x.revs}]
  /\ UNCHANGED <<locals, deleted, woken>>

PutAttachment(t) ==
  /\ Handling(t, "put_attachment", "checked")
  /\ EditsAttachment(t, req[t].doc, UNION {Att[r] : r \in req[t].doc.revs})

DeleteAttachment(t) ==
  /\ Handling(t, "delete_attachment", "checked")
  /\ EditsAttachment(t, req[t].doc, {})

\* ... and, if it is refused, rev_is_unknown: a second one, which tells a
\* revision the document does not know from one that is not to be edited.
AttachRefused(t) ==
  /\ req[t].at = "unmade"
  /\ LET x      == req[t].doc
         parent == {Parent(r) : r \in x.revs}
     IN  Answer(t, IF parent \subseteq RevsDiff(db, x.id, parent)
                     THEN [status |-> 409, reason |-> "missing_rev"] ELSE Status(req[t].was))
  /\ UNCHANGED <<db, locals, deleted, stored, woken>>

----------------------------------------------------------------------------
(* Local documents *)

GetLocal(t) ==
  /\ Handling(t, "get_local", "checked")
  /\ LET x == locals[req[t].id]
     IN  Answer(t, IF x = NoLocal THEN Missing
                                  ELSE [status |-> 200, value |-> x])
  /\ UNCHANGED <<db, locals, deleted, stored, woken>>

\* put_local and remove_local of the database's adapter
WithLocal(l, x) == [locals EXCEPT ![l] = x]

\* put_local looks at no stored revision: the new one follows the one sent.
PutLocal(t) ==
  /\ Handling(t, "put_local", "checked")
  /\ locals' = WithLocal(req[t].id, [n |-> req[t].n + 1, by |-> t])
  /\ Answer(t, [status |-> 201, n |-> req[t].n + 1])
  /\ UNCHANGED <<db, deleted, stored, woken>>

DeleteLocal(t) ==
  /\ Handling(t, "delete_local", "checked")
  /\ locals' = WithLocal(req[t].id, NoLocal)
  /\ Answer(t, IF locals[req[t].id] = NoLocal THEN Missing ELSE Status(200))
  /\ UNCHANGED <<db, deleted, stored, woken>>

----------------------------------------------------------------------------
(* Reads *)

\* The reads of one call.
ReadRoute(t) ==
  /\ Handling(t, "read", "checked")
  /\ Answer(t, [status |-> 200, value |-> RemoteRead(db, req[t].query)])
  /\ UNCHANGED <<db, locals, deleted, stored, woken>>

\* GET of a document; one that is not found without a revision is looked for
\* again, to tell whether it is deleted.
GetDoc(t) ==
  /\ Handling(t, "get_doc", "checked")
  /\ LET got == Get(db, req[t].id, req[t].rev, req[t].latest)
     IN  CASE got.found -> Answer(t, [status |-> 200, value |-> got])
           [] ~got.found /\ req[t].rev # NoRev -> Answer(t, Missing)
           [] OTHER -> Proceed(t, "absent", <<>>)
  /\ UNCHANGED <<db, locals, deleted, stored, woken>>

\* doc_not_found, when its call does not fail.
DocNotFound(t) ==
  /\ LooksWhy(t)
  /\ LET row == KeysRow(db, req[t].id)
     IN  Answer(t, IF row.deleted THEN [status |-> 404, reason |-> "deleted"] ELSE Missing)
  /\ UNCHANGED <<db, locals, deleted, stored, woken>>

\* Slip: the winner only.
ListWinner(t) ==
  /\ Handling(t, "open_revs", "checked")
  /\ LET events == Changes(db, [OneDoc(req[t].id) EXCEPT !.style = "main_only"]).events
     IN  IF events = <<>> THEN Answer(t, Status(404)) ELSE Proceed(t, "listed", [leaves |-> events[1].revs])
  /\ UNCHANGED <<db, locals, deleted, stored, woken>>

\* open_revs=all lists the leaves through the changes feed, ...
ListLeaves(t) ==
  /\ Handling(t, "open_revs", "checked")
  /\ LET events == Changes(db, OneDoc(req[t].id)).events
     IN  IF events = <<>> THEN Answer(t, Status(404)) ELSE Proceed(t, "listed", [leaves |-> events[1].revs])
  /\ UNCHANGED <<db, locals, deleted, stored, woken>>

\* ... and then reads them; one that has lost its body is "missing".
ReadLeaves(t) ==
  /\ Handling(t, "open_revs", "listed")
  /\ Answer(t, [status |-> 200,
                found |-> {r \in req[t].leaves : BulkGet(db, req[t].id, r).found}])
  /\ UNCHANGED <<db, locals, deleted, stored, woken>>

\* get_attachment reads the revision asked for, or the winner (which it looks for
\* again if there is none), and then the bytes as attached to it.
ReadMeta(t) ==
  /\ Handling(t, "get_attachment", "checked")
  /\ LET got == Get(db, req[t].id, req[t].rev, FALSE)
     IN  CASE got.found /\ req[t].digest \in got.atts -> Proceed(t, "read", [rev |-> got.rev])
           [] ~got.found /\ req[t].rev = NoRev -> Proceed(t, "absent", <<>>)
           [] OTHER -> Answer(t, Status(404))
  /\ UNCHANGED <<db, locals, deleted, stored, woken>>

ReadBytes(t) ==
  /\ Handling(t, "get_attachment", "read")
  /\ Answer(t, IF GetAttachment(db, req[t].id, req[t].rev, req[t].digest)
                 THEN [status |-> 200, rev |-> req[t].rev] ELSE Status(404))
  /\ UNCHANGED <<db, locals, deleted, stored, woken>>

----------------------------------------------------------------------------
Handle(t) ==
  \/ CheckDb(t) \/ GetDbInfo(t) \/ PutDb(t) \/ DeleteDbMarks(t) \/ DeleteDbDestroys(t)
  \/ CompactRoute(t) \/ PurgeRoute(t)
  \/ BulkDocs(t) \/ EnsureLive(t) \/ WriteSent(t) \/ AttachLooks(t) \/ AttachCreates(t)
  \/ PutAttachment(t) \/ DeleteAttachment(t) \/ AttachRefused(t) \/ GetLocal(t) \/ PutLocal(t) \/ DeleteLocal(t)
  \/ ReadRoute(t) \/ GetDoc(t) \/ DocNotFound(t)
  \/ ListLeaves(t) \/ ReadLeaves(t) \/ ReadMeta(t) \/ ReadBytes(t)

\* notify_writes: a request that may write and succeeded wakes the feeds up.
MayWrite(kind) == kind \notin {"info", "get_doc", "open_revs", "get_attachment", "get_local"}

Success(a) == a.status \in 200 .. 299

\* The answer reaches the client, and the request is over.
Received(t) ==
  /\ req[t].at = "answered"
  /\ woken' = (woken \/ (MayWrite(req[t].kind) /\ Success(req[t].answer)))
  /\ UNCHANGED <<db, locals, deleted>>

\* The connection breaks: the request is not received, or its handler is
\* dropped between two calls, or its answer is lost.
Broken(t) ==
  /\ req[t].kind # "none"
  /\ UNCHANGED <<db, locals, deleted, woken>>
=============================================================================
