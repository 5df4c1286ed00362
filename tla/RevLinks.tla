------------------------------ MODULE RevLinks ------------------------------
(***************************************************************************)
(* What a revision tree without a revision limit promises, with no roots   *)
(* and no merge algorithm in it: the replica knows a set of revisions, and *)
(* for some of them it knows the link to their parent.  Learning a path    *)
(* adds its revisions and its links, so the order in which paths arrive,   *)
(* and how often, cannot matter.  Forgetting a set of revisions keeps the  *)
(* revisions that some other leaf is known to descend from.                *)
(*                                                                         *)
(* RevForest with RevLimit = 0 implements this module.                     *)
(***************************************************************************)
EXTENDS RevTree

VARIABLES
  known,    \* the revisions in the tree
  linked    \* those whose parent is in the tree and joined to them

\* Whether the replica knows every link from p down to r.
Joined(p, r) == p \in Anc[r] /\ Between(p, r) \ {p} \subseteq linked

Init == known = {} /\ linked = {}

\* The path from q down to r arrives.
Learn(q, r) ==
  /\ known' = known \union Between(q, r)
  /\ linked' = linked \union (Between(q, r) \ {q})

\* A known revision with no known child.
Tips == {r \in known : \A s \in known : r # s => ~Joined(r, s)}

\* The tips in R are purged: what stays is what another tip descends from.
Forget(R) ==
  LET kept == {s \in known : \E r \in Tips \ R : Joined(s, r)}
  IN  known' = kept /\ linked' = linked \intersect kept

Next ==
  \/ \E r \in Rev : \E q \in Anc[r] : Learn(q, r)
  \/ \E R \in SUBSET Tips : Forget(R)

Spec == Init /\ [][Next]_<<known, linked>>
=============================================================================
