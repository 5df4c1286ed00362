------------------------------ MODULE MCIndexes ------------------------------
(* Instances of Indexes. *)
EXTENDS Indexes, RevUniverse, TLC

\* A document is created, then edited or deleted.
EditRev == USet({<<1, 0>>, <<1, 1>>})
EditGen == UGen(EditRev)
EditAnc == UAnc(EditRev)
EditDeleted == UDeleted(EditRev)
EditRank == URank(EditRev)
EditAtt == [r \in EditRev |-> {}]

\* Documents are interchangeable, and so are the tasks that find.
Alike == Permutations(Doc) \union Permutations(Finder)
==============================================================================
