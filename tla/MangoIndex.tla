----------------------------- MODULE MangoIndex -----------------------------
(***************************************************************************)
(* A Mango index of a Database handle (rouchdb: lib.rs): tasks find with   *)
(* it, create it, delete it and destroy the database at the same time.     *)
(* The map of indexes has a lock; the changes feed is read without it.     *)
(* Each call of the adapter, and each time the lock is held, is a step.    *)
(* An entry is the revision whose fields are the key.                      *)
(***************************************************************************)
EXTENDS Feed

CONSTANTS
  Finder,    \* tasks that find
  Creator,   \* tasks that create the index
  Overlap    \* whether destroy may overlap other calls that use the index

ASSUME MangoAssumption == Overlap \in BOOLEAN

VARIABLES
  index,       \* the index, if it exists
  task,        \* the calls in progress
  destroying   \* destroy is between the adapter's destroy and the clearing

mangoVars == <<index, task, destroying>>

NoIndex == [exists |-> FALSE, entries |-> NoScan, lastSeq |-> 0]

\* read and upTo are the answer of changes.  The rest is history: what a scan
\* found of each document since the find began, and the documents it missed.
NoCall ==
  [pc |-> "idle", since |-> 0, read |-> <<>>, upTo |-> 0,
   seen |-> [d \in Doc |-> {}], missed |-> {}]

MangoInit ==
  /\ index = NoIndex
  /\ task = [t \in Finder \union Creator |-> NoCall]
  /\ destroying = FALSE

TaskAt(t, pc) == task[t].pc = pc

Calling(t) == ~TaskAt(t, "idle")

\* What a step of an application leaves to be found.
MangoSees ==
  task' = [t \in DOMAIN task |->
            IF t \in Finder /\ Calling(t)
              THEN [task[t] EXCEPT !.seen = [d \in Doc |-> @[d] \union {Scan(d)'}]]
              ELSE task[t]]

MayCall == Overlap \/ ~destroying

\* BuiltIndex::apply_changes
AppliedTo(entries, read) == [d \in Doc |-> IF d \in DOMAIN read THEN read[d] ELSE entries[d]]

----------------------------------------------------------------------------
(* find, index_candidates *)

Asks(t, c) ==
  task' = [task EXCEPT ![t] = IF index.exists
                                THEN [c EXCEPT !.pc = "changes", !.since = index.lastSeq]
                                ELSE NoCall]

StartFind(t) ==
  /\ ~Calling(t) /\ MayCall /\ index.exists
  /\ Asks(t, [NoCall EXCEPT !.seen = [d \in Doc |-> {Scan(d)}]])
  /\ UNCHANGED <<index, destroying>>

FindAgain(t) ==
  /\ TaskAt(t, "again")
  /\ Asks(t, task[t])
  /\ UNCHANGED <<index, destroying>>

ReadChanges(t) ==
  /\ TaskAt(t, "changes")
  /\ task' = [task EXCEPT ![t] = [@ EXCEPT !.pc = "apply", !.read = ReadDocs(task[t].since),
                                           !.upTo = ReadUpTo(task[t].since)]]
  /\ UNCHANGED <<index, destroying>>

\* Slip: the changes are applied to whatever the index has become.
AlwaysCurrent(t) == TRUE

\* No other query has applied changes meanwhile.
StillCurrent(t) == index.lastSeq = task[t].since

\* The candidates are the documents whose entry is in the range that was asked
\* for.  A document is missed that was there, unchanged, all the time, and has
\* no entry, or another.
Found(t, entries) ==
  task' = [task EXCEPT ![t] =
            [NoCall EXCEPT !.missed =
              {d \in Doc : \E r \in Rev : task[t].seen[d] = {{r}} /\ entries[d] # {r}}]]

\* Without an index the query scans.
FindScans(t) ==
  /\ TaskAt(t, "apply") /\ ~index.exists
  /\ task' = [task EXCEPT ![t] = NoCall]
  /\ UNCHANGED <<index, destroying>>

FindUnchanged(t) ==
  /\ TaskAt(t, "apply") /\ index.exists /\ DOMAIN task[t].read = {}
  /\ Found(t, index.entries)
  /\ UNCHANGED <<index, destroying>>

FindChanged(t) ==
  /\ TaskAt(t, "apply") /\ index.exists /\ DOMAIN task[t].read # {}
  /\ IF StillCurrent(t)
       THEN LET entries == AppliedTo(index.entries, task[t].read)
            IN  /\ index' = [index EXCEPT !.entries = entries, !.lastSeq = task[t].upTo]
                /\ Found(t, entries)
       ELSE /\ task' = [task EXCEPT ![t].pc = "again"]
            /\ UNCHANGED index
  /\ UNCHANGED destroying

----------------------------------------------------------------------------
(* create_index, delete_index, destroy *)

StartCreate(t) ==
  /\ TaskAt(t, "idle") /\ MayCall /\ ~index.exists
  /\ task' = [task EXCEPT ![t].pc = "build"]
  /\ UNCHANGED <<index, destroying>>

BuildIndex(t) ==
  /\ TaskAt(t, "build")
  /\ task' = [task EXCEPT ![t] = [@ EXCEPT !.pc = "insert", !.read = ReadDocs(0), !.upTo = ReadUpTo(0)]]
  /\ UNCHANGED <<index, destroying>>

InsertIndex(t) ==
  /\ TaskAt(t, "insert")
  /\ index' = IF index.exists THEN index
                ELSE [exists |-> TRUE, entries |-> AppliedTo(NoScan, task[t].read),
                      lastSeq |-> task[t].upTo]
  /\ task' = [task EXCEPT ![t] = NoCall]
  /\ UNCHANGED destroying

DeleteIndex ==
  /\ index.exists /\ index' = NoIndex
  /\ UNCHANGED <<task, destroying>>

DestroyData ==
  /\ ~destroying /\ destroying' = TRUE
  /\ Overlap \/ \A t \in DOMAIN task : ~Calling(t)
  /\ DestroyDb /\ MangoSees
  /\ UNCHANGED index

ClearIndexes ==
  /\ destroying /\ destroying' = FALSE
  /\ index' = NoIndex
  /\ UNCHANGED task

MangoStep ==
  \/ \E t \in Finder : \/ StartFind(t) \/ FindAgain(t) \/ ReadChanges(t)
                       \/ FindScans(t) \/ FindUnchanged(t) \/ FindChanged(t)
  \/ \E t \in Creator : StartCreate(t) \/ BuildIndex(t) \/ InsertIndex(t)
  \/ DeleteIndex \/ ClearIndexes

----------------------------------------------------------------------------
\* A find misses nothing: a document that was there, unchanged, for as long as
\* the find lasted is among its candidates under its current fields, whatever
\* other finds, writes and purges did to the index and the database.
FindComplete == \A t \in Finder : task[t].missed = {}
=============================================================================
