---------------------------- MODULE RevUniverse ----------------------------
(***************************************************************************)
(* Concrete revisions for the model checker.  A revision is the sequence   *)
(* of the edits that made it, so its ancestors are its prefixes and two    *)
(* replicas that make the same edit make the same revision, as the hashing *)
(* of the parent and the body does.  An edit is a number; 0 deletes.       *)
(***************************************************************************)
EXTENDS Integers, Sequences

USet(Words) == UNION {{SubSeq(w, 1, i) : i \in 1 .. Len(w)} : w \in Words}

UGen(R) == [r \in R |-> Len(r)]
UAnc(R) == [r \in R |-> {SubSeq(r, 1, i) : i \in 1 .. Len(r)}]
UDeleted(R) == {r \in R : r[Len(r)] = 0}

\* Ranks the hashes by the last edit, then by the ones before it.
URank(R) ==
  [r \in R |-> LET rank[i \in 0 .. Len(r)] ==
                     IF i = 0 THEN 0 ELSE rank[i - 1] + r[i] * 10 ^ (i - 1)
               IN  rank[Len(r)]]
=============================================================================
