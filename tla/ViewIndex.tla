----------------------------- MODULE ViewIndex -----------------------------
(***************************************************************************)
(* A persistent view (rouchdb-views: engine.rs): brought up to date from   *)
(* the changes feed when it is queried, and rebuilt when it notices that   *)
(* the database no longer matches it.  The engine is borrowed for the      *)
(* whole of an update, so there is one update at a time; each of its calls *)
(* of the adapter is a step.  The map function emits a row for every       *)
(* document, so the documents that have rows are IndexState's live ones.   *)
(***************************************************************************)
EXTENDS Feed

VARIABLE view

\* sorted is the rows that a query has put in order, if they are kept: a set of
\* at most one.  last is last_change; count and seq are what info answered.  The rest is
\* history: what a scan found of each document in the course of the update,
\* whether nothing was written meanwhile, the database it began with, the one
\* that the index was built from, and the documents the last update left wrong.
NoChange == [seq |-> 0, id |-> 0, rev |-> 0]

NoDatabase == -1

Unseen == [d \in Doc |-> {}]

NewView ==
  [pc |-> "idle", exists |-> FALSE, rows |-> NoScan, sorted |-> {}, lastSeq |-> 0, last |-> NoChange, baseline |-> 0,
   count |-> 0, seq |-> 0, seen |-> Unseen, quiet |-> TRUE, began |-> NoDatabase,
   uuid |-> NoDatabase, wrong |-> {}]

ViewInit == view = NewView

Live(v) == {d \in Doc : v.rows[d] # {}}

\* reset
Reset(v) == [v EXCEPT !.rows = NoScan, !.sorted = {}, !.lastSeq = 0, !.last = NoChange]

ViewAt(pc) == view.pc = pc

Updating == ~ViewAt("idle")

\* What a step of an application leaves to be found.
ViewSees ==
  view' = IF Updating
            THEN [view EXCEPT !.seen = [d \in Doc |-> @[d] \union {Scan(d)'}], !.quiet = FALSE]
            ELSE view

DestroyViewed == DestroyDb /\ ViewSees

----------------------------------------------------------------------------
(* apply_changes *)

\* The last change applied is read again.
Since(v) == IF v.lastSeq = v.last.seq /\ v.lastSeq > 0 THEN v.lastSeq - 1 ELSE v.lastSeq

ChangeOf(c) == [seq |-> c.seq, id |-> c.id, rev |-> Winner(Nodes(db, c.id))]

\* Another document, or another revision, has the last change's sequence.
Replaced(v) ==
  \E c \in Events(Since(v)) : c.seq = v.last.seq /\ ChangeOf(c) # v.last

Applied(v) ==
  LET events == Events(Since(v))
      read   == ReadDocs(Since(v))
      newest == CHOOSE c \in events : \A b \in events : b.seq <= c.seq
  IN  [v EXCEPT !.rows = [d \in Doc |-> IF d \in DOMAIN read THEN read[d] ELSE @[d]],
                !.sorted = IF events = {} THEN @ ELSE {},
                !.last = IF events = {} THEN @ ELSE ChangeOf(newest),
                !.lastSeq = ReadUpTo(Since(v))]

----------------------------------------------------------------------------
(* update_index *)

BeginUpdate ==
  /\ ~Updating
  /\ LET scratch == view.lastSeq > db.updateSeq \/ view.lastSeq = 0
         v       == IF scratch THEN Reset(view) ELSE view
     IN  view' = [v EXCEPT !.exists = TRUE, !.pc = IF scratch THEN "rebuild" ELSE "catch_up",
                           !.count = DocCount, !.seq = db.updateSeq,
                           !.seen = [d \in Doc |-> {Scan(d)}], !.quiet = TRUE, !.began = db.uuid]

CatchUp ==
  /\ ViewAt("catch_up")
  /\ view' = IF Replaced(view)
               THEN [Reset(view) EXCEPT !.pc = "rebuild"]
               ELSE [Applied(view) EXCEPT !.pc = "settle"]

\* A row is wrong that no scan during the update would have given.  Only a
\* purged document may keep its row, if something was written meanwhile.
Idle(v) == [v EXCEPT !.pc = "idle", !.count = 0, !.seq = 0, !.seen = Unseen,
                     !.quiet = TRUE, !.began = NoDatabase]

Finished(v) ==
  [Idle(v) EXCEPT !.wrong = {d \in Doc : /\ v.rows[d] \notin v.seen[d]
                                         /\ v.quiet \/ {} \notin v.seen[d]}]

Gap(v) == v.count - Cardinality(Live(v))

\* Slip: the number of documents is not compared.
NeverMismatched(v) == FALSE

\* The counts disagree, and can be compared: nothing was written in between.
Mismatched(v) == db.updateSeq = v.seq /\ Gap(v) # v.baseline

Settle ==
  /\ ViewAt("settle")
  /\ view' = IF Mismatched(view)
               THEN [Reset(view) EXCEPT !.pc = "rebuild"]
               ELSE Finished(view)

FromScratch ==
  /\ ViewAt("rebuild")
  /\ view' = [Applied(view) EXCEPT !.pc = "baseline", !.uuid = NoDatabase]

Baseline ==
  /\ ViewAt("baseline")
  /\ view' = Finished([view EXCEPT
               !.baseline = IF db.updateSeq = view.seq THEN Gap(view) ELSE 0,
               !.uuid = IF db.uuid = view.began THEN db.uuid ELSE NoDatabase])

\* A call of the adapter fails, or the query is dropped.
UpdateStopped == Updating /\ view' = Idle([view EXCEPT !.wrong = {}])

\* query answers from the index, kept in order until it changes: at once if a
\* stale index will do and there is one, and after an update otherwise.  (With
\* UpdateAfter an update follows.)
QueryAnswers ==
  /\ ~Updating /\ view.exists
  /\ view' = [view EXCEPT !.sorted = IF @ = {} THEN {view.rows} ELSE @]

\* register_map, again; remove_indexes_not_in leaves as little.
Register == ~Updating /\ view' = NewView

ViewStep ==
  \/ BeginUpdate \/ CatchUp \/ Settle \/ FromScratch \/ Baseline \/ UpdateStopped
  \/ QueryAnswers \/ Register

----------------------------------------------------------------------------
\* A finished update leaves, for each document, what a scan found of it at some
\* moment of the update, as long as the database is the one that was indexed.
\* Only the rows of a purged document can outlive an update, one during which
\* something was written.  And a query answers what the index holds.
ViewFresh ==
  /\ view.uuid = db.uuid => view.wrong = {}
  /\ view.sorted \subseteq {view.rows}
=============================================================================
