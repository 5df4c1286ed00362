--------------------------- MODULE MCReplication ---------------------------
(* Instances of Replication. *)
EXTENDS Replication, RevUniverse

\* A first revision with two conflicting edits.
ForkRev == USet({<<1, 1>>, <<1, 2>>})
ForkGen == UGen(ForkRev)
ForkAnc == UAnc(ForkRev)
ForkDeleted == UDeleted(ForkRev)
ForkRank == URank(ForkRev)

\* A document that is created and edited once.
LineRev == USet({<<1, 1>>})
LineGen == UGen(LineRev)
LineAnc == UAnc(LineRev)
LineDeleted == UDeleted(LineRev)
LineRank == URank(LineRev)

ForkAtt == [r \in ForkRev |-> {}]
LineAtt == [r \in LineRev |-> {}]

\* Every replicator copies from "s" to "t".
SourceS == [x \in Replicator |-> "s"]
TargetT == [x \in Replicator |-> "t"]

CONSTANT Back   \* the replicator from "t" to "s"

\* Replicators in both directions, as sync runs them; those from "s" to "t"
\* are alike.
SyncSource == [x \in Replicator |-> IF x = Back THEN "t" ELSE "s"]
SyncTarget == [x \in Replicator |-> IF x = Back THEN "s" ELSE "t"]
Alike == Permutations(Replicator \ {Back})

----------------------------------------------------------------------------
(* Situations *)

\* The source is edited, and nothing else happens to the databases.
Quiet ==
  [runs |-> Replicator, readOnly |-> {}, denied |-> {}, filters |-> {NoFilter}, sameIds |-> FALSE,
   edits |-> {"s"} \X Doc \X LineRev,
   purged |-> {}, destroyed |-> {}, restorable |-> {}, faults |-> 2]

\* The source stores no checkpoints, or the target rejects a document.
Refusing == {[Quiet EXCEPT !.readOnly = {"s"}], [Quiet EXCEPT !.denied = {"a"}]}

\* Runs with filters, and runs between databases that report the same id.
OnlyIds(D) == [NoFilter EXCEPT !.kind = "doc_ids", !.ids = D]
Selecting(R) == [NoFilter EXCEPT !.kind = "selector", !.revs = R]
Predicate(D) == [NoFilter EXCEPT !.kind = "custom", !.ids = D]

Filtering ==
  {[Quiet EXCEPT !.filters = F, !.faults = 1] :
     F \in {{OnlyIds({"a"}), OnlyIds({"b"})},
            {Selecting({<<1, 1>>}), Predicate({"b"})}}}
  \union {[Quiet EXCEPT !.sameIds = TRUE, !.faults = 1]}

RefusingOrFiltering == Refusing \union Filtering

\* All replicators, and one document that is created and edited on both sides.
Syncing ==
  {[Quiet EXCEPT !.edits = ({"s"} \X {"a"} \X LineRev)
                             \union ({"t"} \X {"a"} \X (ForkRev \ {<<1, 1>>})),
                 !.faults = 0]}

\* One replicator, while either database is destroyed, the source restored
\* from a backup or purged.
Resetting ==
  {[Quiet EXCEPT !.runs = {x}, !.purged = {"s"}, !.destroyed = Node, !.restorable = {"s"}] :
     x \in Replicator \ {Back}}

SyncingOrResetting == Syncing \union Resetting

\* The target is restored from a backup.
RestoringTarget == {[Quiet EXCEPT !.restorable = {"t"}]}
=============================================================================
