----------------------------- MODULE Partition -----------------------------
(***************************************************************************)
(* The partitions of a Database handle (rouchdb: lib.rs): all_docs of the  *)
(* documents whose ids begin with the name of the partition.  In the order *)
(* of ids they come after the prefix itself and before `after', which      *)
(* may both be ids of documents.                                           *)
(***************************************************************************)
EXTENDS Reads

CONSTANTS
  Prefix,   \* the name of the partition and a colon
  After,    \* the first id, in order, after all those that begin with it
  Inside    \* the ids that begin with the prefix

\* k \in keys given as a bound, or none.
Below(k, bound) == k # NoKey /\ IdRank[k] < IdRank[bound]

\* The bound is in the partition or beyond it, on the side it bounds.
FromPrefix(k) == k # NoKey /\ ~Below(k, Prefix)

----------------------------------------------------------------------------
\* clamp_to_partition, ascending: the end that is put in is not in the range.
ClampUp(o) ==
  [o EXCEPT !.start = IF FromPrefix(@) THEN @ ELSE Prefix,
            !.end = IF Below(@, After) THEN @ ELSE After,
            !.inclusive = @ /\ Below(o.end, After)]

\* Descending, the start that is put in may be a document, one row too many:
\* the page is cut afterwards.
CutLater(o) == ~Below(o.start, After)

\* Slip: the prefix that is put in as the end is in the range only if the caller
\* wants the end.
KeepsInclusive(o) ==
  LET lower == [o EXCEPT !.end = IF FromPrefix(@) THEN @ ELSE Prefix]
  IN  IF CutLater(o)
        THEN [lower EXCEPT !.start = After, !.skip = 0,
                           !.limit = IF @ = NoLimit THEN @ ELSE @ + o.skip + 1]
        ELSE lower

ClampDown(o) ==
  LET lower == [o EXCEPT !.end = IF FromPrefix(@) THEN @ ELSE Prefix,
                         !.inclusive = @ \/ ~FromPrefix(o.end)]
  IN  IF CutLater(o)
        THEN [lower EXCEPT !.start = After, !.skip = 0,
                           !.limit = IF @ = NoLimit THEN @ ELSE @ + o.skip + 1]
        ELSE lower

OfKeys(o) == o.keys # NoKey \/ o.key # NoKey

Scoped(o) ==
  CASE o.key # NoKey /\ o.key \notin Inside -> [o EXCEPT !.key = NoKey, !.keys = <<>>]
    [] OfKeys(o) /\ ~(o.key # NoKey /\ o.key \notin Inside) ->
         [o EXCEPT !.keys = IF @ = NoKey THEN @ ELSE SelectSeq(@, LAMBDA k : k \in Inside)]
    [] OTHER -> IF o.descending THEN ClampDown(o) ELSE ClampUp(o)

\* Partition::all_docs
PartitionRows(db, o) ==
  LET rows == SelectSeq(AllDocs(db, Scoped(o)).rows, LAMBDA row : row.id \in Inside)
  IN  IF ~OfKeys(o) /\ o.descending /\ CutLater(o) THEN Page(rows, o) ELSE rows

----------------------------------------------------------------------------
\* What it must answer: the rows of the database that the caller asks for and
\* that are in the partition, and then the caller's page of them.
RowsInside(db, o) ==
  Page(SelectSeq(AllDocs(db, [o EXCEPT !.skip = 0, !.limit = NoLimit]).rows,
                 LAMBDA row : row.id \in Inside), o)
=============================================================================
