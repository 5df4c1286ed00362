------------------------------ MODULE Indexes ------------------------------
(***************************************************************************)
(* The two kinds of index over one database: a behaviour has a view or a   *)
(* Mango index.  Both read the changes feed, which lists no purged         *)
(* document and starts over when the database is destroyed.                *)
(***************************************************************************)
EXTENDS ViewIndex, MangoIndex

VARIABLE kind   \* the kind of index; it never changes

indexVars == <<db, view, mangoVars, kind>>

Unused == db = EmptyDb(0) /\ ViewInit /\ MangoInit

Init == Unused /\ kind \in {"view", "mango"}

WithView ==
  /\ kind = "view"
  /\ \/ Writes /\ ViewSees
     \/ DestroyViewed
     \/ ViewStep /\ UNCHANGED db
  /\ UNCHANGED mangoVars

WithMango ==
  /\ kind = "mango"
  /\ \/ Writes /\ MangoSees /\ UNCHANGED <<index, destroying>>
     \/ DestroyData
     \/ MangoStep /\ UNCHANGED db
  /\ UNCHANGED view

Next == (WithView \/ WithMango) /\ UNCHANGED kind

Spec == Init /\ [][Next]_indexVars

----------------------------------------------------------------------------
IndexTypeOK ==
  /\ view.pc \in {"idle", "catch_up", "settle", "rebuild", "baseline"}
  /\ view.last.seq # 0 => view.lastSeq \in {view.last.seq, view.last.seq - 1}
  /\ view.baseline \in -Cardinality(Doc) .. Cardinality(Doc)
  /\ index.exists \in BOOLEAN /\ index.lastSeq \in 0 .. MaxSeq
  /\ \A t \in DOMAIN task :
       task[t].pc \in {"idle", "changes", "apply", "again", "build", "insert"}
=============================================================================
