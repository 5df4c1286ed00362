------------------------------- MODULE Facade -------------------------------
(***************************************************************************)
(* Writes through a Database handle with plugins, and of replication into  *)
(* it (rouchdb/src/lib.rs: Plugin, PluginAdapter, Database), over an       *)
(* adapter that applies one call at a time.                                *)
(*                                                                         *)
(* One call is followed step by step, and others write between its steps.  *)
(* It is                                                                   *)
(*   idle                                                                  *)
(*   check   remove is about to look whether the document is live          *)
(*   vet     an attachment call is about to show the plugins the document  *)
(*   write   the documents are about to be written                         *)
(*   after   they are written, and the plugins are told                    *)
(*   done    it has answered with results, or an error                     *)
(***************************************************************************)
EXTENDS Documents

CONSTANTS
  DocIds,      \* ids of documents
  PluginCount, \* the plugins are 1 .. PluginCount
  Hook(_, _),  \* before_write of a plugin on a document: [is |-> "keep", doc],
               \* [is |-> "drop"] or [is |-> "error", error]
  Sent,        \* the JSON that callers send, without a revision
  Batched,     \* the JSON in batches of two
  Incoming,    \* documents that replication brings, as they are spelled
  Names,       \* of attachments
  Bytes,
  MaxBodies,   \* bound: revisions with a body, when a call starts
  MaxLocal     \* bound: the number of a local document's revision

ASSUME FacadeAssumption ==
  PluginCount \in Nat /\ Batched \subseteq Sent /\ MaxBodies \in Nat /\ MaxLocal \in Nat

VARIABLES
  held,        \* the documents
  heldLocals,  \* the numbers of the local documents' revisions, or NoRev
  call,        \* the call that is followed
  blind        \* what attachment calls wrote when the plugins had seen no body

facadeVars == <<held, heldLocals, call, blind>>

NoWrite == [at |-> "idle"]

NothingHeld ==
  /\ held = [d \in DocIds |-> NoDocument]
  /\ heldLocals = [l \in LocalIds |-> NoRev]
  /\ call = NoWrite /\ blind = {}

----------------------------------------------------------------------------
(* The adapter *)

Held == [docs |-> held, locals |-> heldLocals]

Becomes(stored) == held' = stored.docs /\ heldLocals' = stored.locals

\* apply_write
ApplyPlan(stored, id, path, plan) ==
  [stored EXCEPT !.docs[id] = [tree   |-> @.tree \union path,
                               bodies |-> (plan.rev :> plan.body) @@ @.bodies]]

StoreLocal(stored, doc, plan) ==
  IF plan.plan
    THEN <<[stored EXCEPT !.locals[doc.id] = IF doc.deleted THEN NoRev ELSE plan.rev],
           Succeeded(doc.id, plan.rev)>>
    ELSE <<stored, Failed(doc.id, plan.error)>>

StoreDocument(stored, id, path, plan) ==
  IF plan.plan THEN <<ApplyPlan(stored, id, path \union {plan.rev}, plan), Succeeded(id, plan.rev)>>
  ELSE <<stored, Failed(id, plan.error)>>

StoreEdit(stored, doc) ==
  IF IsLocal(doc.id) THEN StoreLocal(stored, doc, PlanLocalWrite(doc))
  ELSE StoreDocument(stored, doc.id, {}, PlanNewEdit(stored.docs[doc.id], doc, TRUE))

\* process_doc_new_edits
WriteEdit(stored, doc) ==
  IF Prepares(doc) THEN StoreEdit(stored, Prepared(doc)) ELSE <<stored, Failed(doc.id, "bad_request")>>

\* A revision that has its body is left as it is.
StoreReplica(stored, doc, plan) ==
  IF plan.plan /\ plan.rev \in DOMAIN stored.docs[doc.id].bodies
    THEN <<stored, Succeeded(doc.id, plan.rev)>>
    ELSE StoreDocument(stored, doc.id, Ancestors(doc), plan)

\* process_doc_replication: local documents are not replicated.
WriteReplica(stored, doc) ==
  IF IsLocal(doc.id) THEN <<stored, Succeeded(doc.id, doc.rev)>>
  ELSE StoreReplica(stored, doc, PlanReplicatedEdit(doc))

\* bulk_docs of the adapter: the store afterwards, and the results.
Then(acc, written) == <<written[1], Append(acc[2], written[2])>>

WriteEdits(docs) ==
  FoldLeft(LAMBDA acc, doc : Then(acc, WriteEdit(acc[1], doc)), <<Held, <<>> >>, docs)

WriteReplicas(docs) ==
  FoldLeft(LAMBDA acc, doc : Then(acc, WriteReplica(acc[1], doc)), <<Held, <<>> >>, docs)

----------------------------------------------------------------------------
(* The plugins *)

\* One plugin over a batch: an error ends it, what it drops is gone.
Surviving(kept) == [error |-> "none", docs |-> [i \in DOMAIN kept |-> kept[i].doc]]

HookedBatch(errors, outs) ==
  IF errors # <<>> THEN [error |-> errors[1].error, docs |-> <<>>]
  ELSE Surviving(SelectSeq(outs, LAMBDA out : out.is = "keep"))

AfterHook(outs) == HookedBatch(SelectSeq(outs, LAMBDA out : out.is = "error"), outs)

RunHook(batch, p) ==
  IF batch.error # "none" THEN batch
  ELSE AfterHook([i \in DOMAIN batch.docs |-> Hook(p, batch.docs[i])])

RunHooks(docs) ==
  FoldLeft(RunHook, [error |-> "none", docs |-> docs], [p \in 1 .. PluginCount |-> p])

\* The verdict on a document that the plugins may only accept or reject: to drop
\* it is to forbid it.
VerdictOf(batch) == IF batch.error = "none" /\ batch.docs = <<>> THEN "forbidden" ELSE batch.error
Verdict(doc) == VerdictOf(RunHooks(<<doc>>))

\* denial
Denials == {"forbidden", "bad_request", "unauthorized"}
DeniedAs(error) == IF error = "bad_request" THEN "forbidden" ELSE error

----------------------------------------------------------------------------
(* Starting a call *)

Replies(results) == [at |-> "done", error |-> "none", results |-> results]
Fail(error) == [at |-> "done", error |-> error, results |-> <<>>]

\* Bounds.  A local document and the others share nothing: only one kind is there.
RoomBeside(bodies) ==
  /\ bodies < MaxBodies
  /\ \A l \in LocalIds : heldLocals[l] # NoRev => heldLocals[l] < MaxLocal /\ bodies = 0

Room == RoomBeside(FoldSet(LAMBDA d, n : n + Cardinality(DOMAIN held[d].bodies), 0, DocIds))

Start(next) ==
  /\ call.at \in {"idle", "done"} /\ Room
  /\ call' = next /\ UNCHANGED <<held, heldLocals, blind>>

Writing(op, docs) == [at |-> "write", op |-> op, docs |-> docs]

Document(id, rev, json) ==
  [id |-> id, rev |-> rev, deleted |-> FALSE, data |-> json.data, atts |-> <<>>,
   members |-> json.members]

\* What a caller may give as a revision: one of the document, a leaf in upper
\* case, the number of a local one, something else or nothing.
RevTexts(id) ==
  {NoRev, Malformed}
    \union (IF id \in LocalIds THEN {heldLocals[id]} ELSE {})
    \union (IF id \in DocIds
              THEN held[id].tree \union {[r EXCEPT ![Len(r)].up = TRUE] : r \in LeavesOf(held[id].tree)}
              ELSE {})

\* It may be one that the caller knows from elsewhere.
Elsewhere(id) == {doc.rev : doc \in {other \in Incoming : other.id = id}}

AllIds == DocIds \union LocalIds \union ReservedIds \union {BareLocal}

WithRev(json, text) ==
  IF text = NoRev THEN json ELSE [json EXCEPT !.members = ("_rev" :> text) @@ @]

\* The document is prepared before it goes anywhere.
WriteOne(doc) ==
  Start(IF Prepares(doc) THEN Writing("one", <<Prepared(doc)>>) ELSE Fail("bad_request"))

\* post: a document without an id gets one that nothing has.
Post ==
  \E json \in Sent, d \in DocIds :
    /\ held[d].tree = {}
    /\ WriteOne(Document(IF Given(json, "_id", "") = "" THEN d ELSE "", NoRev, json))

\* put: the revision is in the JSON.
Put ==
  \E id \in AllIds, json \in Sent : \E text \in RevTexts(id) :
    WriteOne(Document(id, NoRev, WithRev(json, text)))

\* update: the revision is given apart, and wins.
Update ==
  \E id \in AllIds, json \in Sent : \E text \in RevTexts(id) \ {NoRev} :
    IF text = Malformed THEN Start(Fail("bad_request"))
    ELSE WriteOne(Document(id, ParseRev(id, text), json))

RemoveDoc ==
  \E id \in DocIds \union LocalIds : \E text \in RevTexts(id) \ {NoRev} :
    LET doc == [Document(id, ParseRev(id, text), [data |-> "none", members |-> <<>>])
                  EXCEPT !.deleted = TRUE]
    IN  Start(IF text = Malformed THEN Fail("bad_request")
              ELSE [Writing("one", <<doc>>) EXCEPT !.at = "check"])

\* What a batch may hold: documents that extend a leaf or start anew.
Edits ==
  UNION {{Document(d, text, json) : text \in {NoRev} \union LeavesOf(held[d].tree), json \in Batched} :
          d \in DocIds}

BulkDocs == \E x, y \in Edits : Start(Writing("bulk", <<x, y>>))

Replicate == \E x, y \in Incoming : Start(Writing("replicate", IF x = y THEN <<x>> ELSE <<x, y>>))

\* put_attachment, and remove_attachment where the bytes are Stub.
EditAttachment ==
  \E d \in DocIds, name \in Names, bytes \in Bytes \union {Stub} :
  \E text \in (RevTexts(d) \union Elsewhere(d)) \ {NoRev} :
    Start(IF text = Malformed THEN Fail("bad_request")
          ELSE [at |-> "vet", op |-> "attachment", id |-> d, rev |-> ParseRev(d, text),
                name |-> name, bytes |-> bytes, shown |-> FALSE])

----------------------------------------------------------------------------
(* The steps of a call *)

\* ensure_live
Check ==
  LET id == call.docs[1].id
  IN  /\ call.at = "check"
      /\ call' = IF IF id \in LocalIds THEN heldLocals[id] # NoRev
                    ELSE held[id].tree # {} /\ ~DeletedDoc(held[id].tree)
                   THEN [call EXCEPT !.at = "write"] ELSE Fail("not_found")
      /\ UNCHANGED <<held, heldLocals, blind>>

\* A caller that names a revision without a body gets an empty document.
BodyAt(id, rev) ==
  IF rev \in DOMAIN held[id].bodies THEN held[id].bodies[rev]
  ELSE [deleted |-> FALSE, data |-> "none", atts |-> <<>>]

Edited(atts, name, bytes) ==
  IF bytes = Stub THEN Without(atts, {name}) ELSE (name :> bytes) @@ atts

\* The live document with these attachments of the body.
LiveAt(id, rev, body, atts) ==
  [id |-> id, rev |-> rev, deleted |-> FALSE, data |-> body.data, atts |-> atts, members |-> <<>>]

Vetted(verdict) ==
  /\ call.at = "vet"
  /\ call' = IF verdict = "none"
               THEN [call EXCEPT !.at = "write", !.shown = call.rev \in DOMAIN held[call.id].bodies]
               ELSE Fail(verdict)
  /\ UNCHANGED <<held, heldLocals, blind>>

\* Slip: the plugins are shown the document without the edit.
ShownUnedited(body) == LiveAt(call.id, call.rev, body, body.atts)

\* What the plugins are shown of an attachment edit.
Shown(body) == LiveAt(call.id, call.rev, body, Edited(body.atts, call.name, call.bytes))

\* validate_attachment_edit: the plugins see the document at the revision with
\* the edit, or a document without a body where the revision cannot be read.
Vet == call.at = "vet" /\ Vetted(Verdict(Shown(BodyAt(call.id, call.rev))))

\* The adapter's put_attachment and remove_attachment: a live edit of a revision
\* with a body.
AttachmentError(stored, plan) ==
  CASE stored.tree = {} -> "not_found"
    [] stored.tree # {} /\ call.rev \notin DOMAIN stored.bodies -> "conflict"
    [] OTHER ->
         IF call.bytes = Stub /\ call.name \notin DOMAIN stored.bodies[call.rev].atts THEN "not_found"
         ELSE IF plan.plan THEN "none" ELSE plan.error

StoreAttachment(plan, error) ==
  IF error # "none" THEN call' = Fail(error) /\ UNCHANGED <<held, heldLocals, blind>>
  ELSE /\ Becomes(ApplyPlan(Held, call.id, {plan.rev}, plan))
       /\ blind' = IF call.shown THEN blind ELSE blind \union {plan.rev}
       /\ call' = [at |-> "after", op |-> "attachment", denied |-> <<>>,
                   results |-> <<Succeeded(call.id, plan.rev)>>]

PlanAttachment(body) ==
  PlanNewEdit(held[call.id],
              LiveAt(call.id, call.rev, body,
                     Edited([n \in DOMAIN body.atts |-> Stub], call.name, call.bytes)), FALSE)

StoreOrFail(plan) == StoreAttachment(plan, AttachmentError(held[call.id], plan))

WriteAttachment ==
  /\ call.at = "write" /\ call.op = "attachment"
  /\ StoreOrFail(PlanAttachment(BodyAt(call.id, call.rev)))

\* The adapter has written.
Wrote(op, docs, written, denied) ==
  /\ Becomes(written[1])
  /\ call' = [at |-> "after", op |-> op, docs |-> docs, results |-> written[2], denied |-> denied]

WriteHooked(batch) ==
  IF batch.error # "none" THEN call' = Fail(batch.error) /\ UNCHANGED <<held, heldLocals>>
  ELSE Wrote(call.op, <<>>, WriteEdits(batch.docs), <<>>)

\* Database::bulk_docs: the plugins see the batch, and may change it.
WriteBatch ==
  /\ call.at = "write" /\ call.op \in {"one", "bulk"}
  /\ WriteHooked(RunHooks(call.docs)) /\ UNCHANGED blind

Judged(docs) == [i \in DOMAIN docs |-> [doc |-> docs[i], verdict |-> Verdict(docs[i])]]
Accepted(judged) == SelectSeq(judged, LAMBDA j : j.verdict = "none")
Refused(judged)  == SelectSeq(judged, LAMBDA j : j.verdict \in Denials)
Broken(judged)   == SelectSeq(judged, LAMBDA j : j.verdict \notin Denials \union {"none"})

DocsOf(judged) == [i \in DOMAIN judged |-> judged[i].doc]
Denied(refused) == [i \in DOMAIN refused |-> Failed(refused[i].doc.id, DeniedAs(refused[i].verdict))]

\* Slip: every document counts as written.
SilentAll(docs, results) == [i \in DOMAIN docs |-> Succeeded(docs[i].id, docs[i].rev)]

\* Of the accepted documents, those the adapter is silent about are written.
Silent(docs, results) ==
  LET failed == {results[i].id : i \in DOMAIN results}
      others == SelectSeq(docs, LAMBDA doc : doc.id \notin failed)
  IN  [i \in DOMAIN others |-> Succeeded(others[i].id, Normalized(others[i].rev))]

Completed(docs, told) == IF Len(told) < Len(docs) THEN told \o Silent(docs, told) ELSE told

\* A terse adapter answers replicated writes with the failures only.
Told(results, terse) == IF terse THEN SelectSeq(results, LAMBDA result : ~result.ok) ELSE results

Reported(docs, written, terse) == <<written[1], Completed(docs, Told(written[2], terse))>>

WriteAccepted(docs, terse, denied) ==
  Wrote("replicate", call.docs, Reported(docs, WriteReplicas(docs), terse), denied)

WriteJudged(judged, terse) ==
  IF Broken(judged) # <<>>
    THEN call' = Fail(Broken(judged)[1].verdict) /\ UNCHANGED <<held, heldLocals>>
    ELSE WriteAccepted(DocsOf(Accepted(judged)), terse, Denied(Refused(judged)))

\* PluginAdapter::bulk_docs: each document is judged on its own, and written as
\* it came; an error that is no denial fails the batch.
WriteReplicated(terse) ==
  /\ call.at = "write" /\ call.op = "replicate"
  /\ WriteJudged(Judged(call.docs), terse) /\ UNCHANGED blind

\* doc_result_error
ResultError(result) ==
  IF result.error \in {"conflict", "not_found", "unauthorized", "forbidden"} THEN result.error
  ELSE "bad_request"

\* first_result: the answer of a call that writes one document.
FirstResult(results) ==
  IF results = <<>> THEN Fail("database_error")
  ELSE IF results[1].ok THEN Replies(results)
  ELSE Fail(ResultError(results[1]))

\* after_write may fail, although the write is committed.
TellPlugins ==
  /\ call.at = "after"
  /\ \/ call' = Fail("after_write")
     \/ call' = IF call.op = "one" THEN FirstResult(call.results)
                ELSE Replies(call.results \o call.denied)
  /\ UNCHANGED <<held, heldLocals, blind>>

----------------------------------------------------------------------------
(* Other callers: replication, and a client that edits a document *)

ReplicateMeanwhile ==
  \E doc \in {sent \in Incoming : Verdict(sent) = "none"} : Becomes(WriteReplica(Held, doc)[1])

StoredIfAllowed(batch) == batch.error = "none" /\ Becomes(WriteEdits(batch.docs)[1])

EditMeanwhile == \E doc \in Edits : StoredIfAllowed(RunHooks(<<doc>>))

\* The call has been, or is about to be, at the database before it writes: the
\* others are there once, with whatever revision they name.
Stepwise ==
  \/ call.at \in {"check", "vet"}
  \/ call.at = "write" /\ call.op = "attachment"
  \/ call.at = "write" /\ call.op = "one" /\ call.docs[1].deleted

Meanwhile ==
  /\ Stepwise /\ Room
  /\ ReplicateMeanwhile \/ EditMeanwhile
  /\ UNCHANGED <<call, blind>>

FacadeNext ==
  \/ Post \/ Put \/ Update \/ RemoveDoc \/ BulkDocs \/ Replicate \/ EditAttachment
  \/ Check \/ Vet \/ WriteAttachment \/ WriteBatch \/ TellPlugins \/ Meanwhile
  \/ \E terse \in BOOLEAN : WriteReplicated(terse)

----------------------------------------------------------------------------
\* What the first plugin would reject.
IsDenial(out) == out.is = "error" /\ out.error \in Denials
Rejects(id, rev, body) == IsDenial(Hook(1, LiveAt(id, rev, body, body.atts)))

\* The body is the one that the id of the revision stands for.
BodyFits(r, body) ==
  body = [deleted |-> Last(r).deleted, data |-> Last(r).data, atts |-> Last(r).atts]

\* Whatever the order of replication, edits and attachment calls, what is stored
\* has passed the plugins: their validator rejects no live body, but of an
\* attachment written to a revision that arrived after the plugins were asked.
\* And each revision has the body that its id stands for, so that plugins make no
\* replica diverge.
OnlyAcceptedStored ==
  \A d \in DocIds : \A r \in DOMAIN held[d].bodies :
    /\ BodyFits(r, held[d].bodies[r])
    /\ held[d].bodies[r].deleted \/ r \in blind \/ ~Rejects(d, r, held[d].bodies[r])

ReadMembers == {"_conflicts", "_revisions", "_revs_info"}

\* What get answers: the attachments as stubs, and the members asked for.
AsRead(id, rev, body, members) ==
  [id |-> id, rev |-> rev, deleted |-> body.deleted, data |-> body.data,
   atts |-> [n \in DOMAIN body.atts |-> Stub], members |-> [m \in members |-> {}]]

Saved(d, doc) == PlanNewEdit(held[d], Prepared(doc), TRUE)

Resaves(d, r, doc, saved) ==
  /\ Prepares(doc) /\ Prepared(doc).id = d
  /\ saved.plan /\ saved.body = held[d].bodies[r] /\ Front(saved.rev) = r

CanWriteBack(d, r, doc) == Resaves(d, r, doc, Saved(d, doc))

\* A document that was read, with the members that a read can add or without, can
\* be written back as JSON: it makes a child of the revision that was read, with
\* the same body and the bytes of its attachments.
WrittenBack ==
  \A d \in DocIds : \A r \in DOMAIN held[d].bodies \intersect LeavesOf(held[d].tree) :
    \A members \in {{}, ReadMembers} :
      CanWriteBack(d, r, Document("", NoRev, ToJson(AsRead(d, r, held[d].bodies[r], members))))

Written(result) ==
  result.ok /\ result.id \in DocIds => result.rev \in DOMAIN held[result.id].bodies

\* When replication is answered, every document of the batch is answered, and
\* what is answered as written is there.
RepliesAccount ==
  [][call.at = "after" /\ call.op = "replicate" /\ call'.error = "none" =>
      /\ {call.docs[i].id : i \in DOMAIN call.docs} = {call'.results[i].id : i \in DOMAIN call'.results}
      /\ \A i \in DOMAIN call'.results : Written(call'.results[i])]_call
=============================================================================
