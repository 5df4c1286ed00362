-------------------------- MODULE MCMemoryAdapter --------------------------
(* Instances of MemoryAdapter. *)
EXTENDS MemoryAdapter, RevUniverse

\* A first revision, two edits of it, a tombstone and a later edit.
SmallRev == USet({<<1, 1, 0>>, <<1, 2>>})
\* A longer branch, for the revision limit.
LongRev == USet({<<1, 1, 1, 1>>, <<1, 1, 2>>})

SmallGen == UGen(SmallRev)
SmallAnc == UAnc(SmallRev)
SmallDeleted == UDeleted(SmallRev)
SmallRank == URank(SmallRev)

LongGen == UGen(LongRev)
LongAnc == UAnc(LongRev)
LongDeleted == UDeleted(LongRev)
LongRank == URank(LongRev)

\* Revisions of the second generation carry an attachment, the same in every
\* document that makes the same edit.
SmallAtt == [r \in SmallRev |-> IF Len(r) = 2 THEN {"x"} ELSE {}]
\* An attachment that is kept along a branch.
LongAtt == [r \in LongRev |-> IF Len(r) \in {2, 3} THEN {"x"} ELSE {}]
=============================================================================
