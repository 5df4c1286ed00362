----------------------------- MODULE Documents -----------------------------
(***************************************************************************)
(* Documents as the API takes and answers them, and what the planning of a *)
(* write makes of them (rouchdb-core: document.rs, write.rs).              *)
(*                                                                         *)
(* A revision id is the hash of all that led to the revision, so here it   *)
(* is the sequence of its edits [deleted, data, atts, up], oldest first;   *)
(* `up' says that its 32 digits are spelled in upper case.  The revision   *)
(* of a local document is a number.                                        *)
(*                                                                         *)
(* JSON is a record [data, members]: the body and the members whose name   *)
(* begins with an underscore.  A Document has the special ones as fields.  *)
(* Attachments are a function from names to bytes, or to Stub.             *)
(***************************************************************************)
EXTENDS Naturals, FiniteSets, SequencesExt, TLC

CONSTANTS
  NoRev,       \* no revision is given
  Malformed,   \* a member of a wrong type, a text that is no revision
  LocalIds,    \* ids that begin with _local/
  BareLocal,   \* _local/ itself
  ReservedIds  \* other ids that begin with an underscore, not design documents

Stub == "stub"

IsLocal(id) == id \in LocalIds \union {BareLocal}

\* The canonical form of a revision.
Normalized(rev) == [i \in DOMAIN rev |-> [rev[i] EXCEPT !.up = FALSE]]

\* A revision text or a revision of a Document, in canonical form.
ParseRev(id, text) ==
  IF text \in {NoRev, Malformed} \/ IsLocal(id) THEN text ELSE Normalized(text)

----------------------------------------------------------------------------
(* Document and JSON *)

Interpreted == {"_id", "_rev", "_deleted", "_attachments"}

\* Slip: one of the members a read may add is not known.
KnownMetadata == {"_conflicts", "_deleted_conflicts", "_revisions", "_local_seq"}

\* METADATA_MEMBERS
MetadataMembers == {"_conflicts", "_deleted_conflicts", "_revs_info", "_revisions", "_local_seq"}

Given(json, m, default) == IF m \in DOMAIN json.members THEN json.members[m] ELSE default

Without(members, names) == [m \in DOMAIN members \ names |-> members[m]]

\* The four members that are interpreted have the type they must have.
WellFormed(json) ==
  /\ json.data # "scalar"
  /\ \A m \in Interpreted : Given(json, m, NoRev) # Malformed
  /\ Given(json, "_id", "id") # ""

FromJson(json) ==
  [id |-> Given(json, "_id", ""), rev |-> Given(json, "_rev", NoRev),
   deleted |-> Given(json, "_deleted", FALSE), atts |-> Given(json, "_attachments", <<>>),
   data |-> json.data, members |-> Without(json.members, Interpreted)]

ToJson(doc) ==
  [data |-> doc.data,
   members |-> ("_id" :> doc.id)
                 @@ (IF doc.rev = NoRev THEN <<>> ELSE "_rev" :> doc.rev)
                 @@ (IF doc.deleted THEN "_deleted" :> TRUE ELSE <<>>)
                 @@ (IF doc.atts = <<>> THEN <<>> ELSE "_attachments" :> doc.atts)
                 @@ doc.members]

\* What is left in the body says where no field does.
Filled(doc, body) ==
  [doc EXCEPT
    !.id = IF @ = "" THEN body.id ELSE @,
    !.rev = IF @ = NoRev THEN body.rev ELSE @,
    !.deleted = @ \/ body.deleted,
    !.atts = IF @ = <<>> THEN body.atts ELSE @,
    !.members = <<>>]

Canonical(doc) == [doc EXCEPT !.rev = ParseRev(doc.id, @)]

\* prepare_for_write
Prepared(doc) == Canonical(Filled(doc, FromJson(doc)))

\* It accepts the document: an object, not too deep, no unknown special member
\* and no reserved id.
Prepares(doc) ==
  /\ WellFormed(doc)
  /\ DOMAIN doc.members \subseteq Interpreted \union MetadataMembers
  /\ doc.id \notin ReservedIds
  /\ doc.id = "" => Given(doc, "_id", "") \notin ReservedIds
  /\ doc.data # "deep"

----------------------------------------------------------------------------
(* A stored document: its tree, the set of its revisions, and the bodies it *)
(* holds, functions of some of them                                         *)

NoDocument == [tree |-> {}, bodies |-> <<>>]

LeavesOf(tree) == {r \in tree : \A s \in tree : ~IsStrictPrefix(r, s)}

IsTombstone(r) == Last(r).deleted

Preferred(live, leaves) == IF live = {} THEN leaves ELSE live
LongestOf(revs) == CHOOSE r \in revs : \A s \in revs : Len(r) >= Len(s)

\* winning_rev: a live leaf before a deleted one, then the longest history; of
\* equals, one.
WinningRev(tree) ==
  LongestOf(Preferred({r \in LeavesOf(tree) : ~IsTombstone(r)}, LeavesOf(tree)))

DeletedDoc(tree) == tree # {} /\ IsTombstone(WinningRev(tree))

Succeeded(id, rev) == [ok |-> TRUE, id |-> id, rev |-> rev]
Failed(id, error) == [ok |-> FALSE, id |-> id, error |-> error]

\* A planned write: what is to be stored, or the failed result.
Refusal(error) == [plan |-> FALSE, error |-> error]
Plan(rev, deleted, data, atts) ==
  [plan |-> TRUE, rev |-> rev, body |-> [deleted |-> deleted, data |-> data, atts |-> atts]]

\* edit_parent
EditParent(tree, doc) ==
  IF doc.rev = NoRev /\ DeletedDoc(tree) /\ ~doc.deleted THEN WinningRev(tree) ELSE doc.rev

\* The attachments of the new revision: none for a tombstone, the parent's where
\* none are sent, otherwise those sent; a stub keeps the parent's of its name.
NewAttachments(doc, parentAtts, inherit) ==
  CASE doc.deleted -> <<>>
    [] ~doc.deleted /\ doc.atts = <<>> /\ inherit -> parentAtts
    [] OTHER -> [n \in DOMAIN doc.atts |-> IF doc.atts[n] = Stub THEN parentAtts[n] ELSE doc.atts[n]]

StubsHeld(doc, parentAtts) ==
  \A n \in DOMAIN doc.atts : doc.atts[n] = Stub => n \in DOMAIN parentAtts

AttachmentsAt(stored, rev) == IF rev \in DOMAIN stored.bodies THEN stored.bodies[rev].atts ELSE <<>>

\* generate_rev_hash: the parent, the deletion, the body and the attachments tell
\* a revision from every other.
NewRevision(parent, deleted, data, atts) ==
  Append(IF parent = NoRev THEN <<>> ELSE parent,
         [deleted |-> deleted, data |-> data, atts |-> atts, up |-> FALSE])

Child(doc, parent, atts) ==
  Plan(NewRevision(parent, doc.deleted, doc.data, atts), doc.deleted, doc.data, atts)

PlanUnder(tree, doc, parent, parentAtts, inherit) ==
  IF (tree = {} /\ doc.rev # NoRev) \/ (tree # {} /\ parent = NoRev) THEN Refusal("conflict")
  ELSE IF ~doc.deleted /\ ~StubsHeld(doc, parentAtts) THEN Refusal("missing_stub")
  ELSE IF parent # NoRev /\ parent \notin LeavesOf(tree) THEN Refusal("conflict")
  ELSE Child(doc, parent, NewAttachments(doc, parentAtts, inherit))

PlanEdit(stored, doc, parent, inherit) ==
  PlanUnder(stored.tree, doc, parent, AttachmentsAt(stored, parent), inherit)

\* plan_new_edit
PlanNewEdit(stored, doc, inherit) == PlanEdit(stored, doc, EditParent(stored.tree, doc), inherit)

\* path_from_revisions: the revision and what its history names, all spelled
\* canonically; without a history it stands alone.
Ancestors(doc) ==
  {Normalized(doc.rev)}
    \union {Normalized(SubSeq(doc.members["_revisions"], 1, i)) :
              i \in IF "_revisions" \in DOMAIN doc.members THEN 1 .. Len(doc.rev) - 1 ELSE {}}

\* parse_revisions: a history ends with the revision.
HistoryFits(doc) ==
  "_revisions" \in DOMAIN doc.members =>
    doc.members["_revisions"] # Malformed /\ Normalized(doc.members["_revisions"]) = Normalized(doc.rev)

\* plan_replicated_edit, of a revision that is not stored with its body yet: it
\* is stored under its id as it comes.
PlanReplicatedEdit(doc) ==
  IF doc.rev = NoRev \/ doc.id = "" \/ doc.data = "deep" \/ ~HistoryFits(doc)
    THEN Refusal("bad_request")  \* or doc_validation
    ELSE Plan(Normalized(doc.rev), doc.deleted, doc.data, doc.atts)

\* plan_local_write: no conflict check; the new revision counts on from the one
\* that is sent, and a deletion leaves nothing.
PlanLocalWrite(doc) ==
  CASE doc.id = BareLocal   -> Refusal("illegal_docid")
    [] doc.rev = Malformed  -> Refusal("bad_request")
    [] OTHER -> [plan |-> TRUE, rev |-> IF doc.deleted THEN 0 ELSE (IF doc.rev = NoRev THEN 0 ELSE doc.rev) + 1]
=============================================================================
