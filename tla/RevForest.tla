----------------------------- MODULE RevForest -----------------------------
(***************************************************************************)
(* The revision tree of one document as it evolves: every write, local or  *)
(* replicated, merges a path of revisions and stems the result to the      *)
(* revision limit, and a purge removes leaves.  This module quantifies     *)
(* over every path a peer can send: a path may start at any ancestor,      *)
(* because the peer's own tree may be stemmed.                             *)
(***************************************************************************)
EXTENDS RevTree

CONSTANT RevLimit   \* with_rev_limit: 0 keeps every revision

ASSUME LimitAssumption == RevLimit \in Nat

VARIABLE tree

Init == tree = EmptyTree

\* merge_and_stem of the path from q to r.
MergePath(q, r) == tree' = MergeAndStem(tree, q, r, RevLimit)

\* Purging the leaves in R.
PurgeLeaves(R) ==
  /\ R \intersect LeafRevs(tree.nodes) # {}
  /\ tree' = RemoveLeaves(tree, R)

Next ==
  \/ \E r \in Rev : \E q \in Anc[r] : MergePath(q, r)
  \/ \E R \in SUBSET LeafRevs(tree.nodes) : PurgeLeaves(R)

Spec == Init /\ [][Next]_tree

----------------------------------------------------------------------------
\* The tree is a set of root and revision pairs.
TypeOK ==
  /\ tree.nodes \in SUBSET (Rev \X Rev)
  /\ tree.avail \in SUBSET tree.nodes

\* Under a root the tree holds, with a revision, the whole chain down to it:
\* cutting, grafting and purging never leave a hole in a branch.
NoHoles ==
  \A n \in tree.nodes :
    n[1] \in Anc[n[2]] /\ \A s \in Between(n[1], n[2]) : <<n[1], s>> \in tree.nodes

\* merge.rs:66-69: a path that bridges two roots joins them, so that no
\* revision is left under two roots.
OneRoot == \A m, n \in tree.nodes : m[2] = n[2] => m = n

\* A merge, with all its grafting and stemming, never drops a branch: a leaf
\* stays a leaf or has a descendant in the new tree.
MergeKeepsBranches ==
  [][(\E r \in Rev : \E q \in Anc[r] : MergePath(q, r)) =>
       \A l \in LeafRevs(tree.nodes) : \E s \in LeafRevs(tree'.nodes) : l \in Anc[s]]_tree

\* The revisions without a descendant in the tree, under any root.
Ends(N) == {l \in RevsOf(N) : \A s \in RevsOf(N) : l \in Anc[s] => s = l}

\* Stemming cuts a branch from its old end only: what the tree knew, or the
\* path tells, of the newest RevLimit ancestors of a branch's end stays known,
\* and a revision the tree did not know is a leaf of it.  (A known one may be
\* stemmed away by the very path that ends in it; see the README.)
WindowKept ==
  [][\A r \in Rev : \A q \in Anc[r] : MergePath(q, r) =>
       /\ r \in RevsOf(tree.nodes) \union LeafRevs(tree'.nodes)
       /\ \A n \in tree.nodes \union ({q} \X Between(q, r)) :
            \A l \in Ends(tree'.nodes) :
              /\ n[2] \in Anc[l]
              /\ \/ <<n[1], l>> \in tree.nodes
                 \/ n[1] = q /\ l = r
              /\ RevLimit = 0 \/ Gen[l] - Gen[n[2]] < RevLimit
              => \E p \in Rev : {<<p, n[2]>>, <<p, l>>} \subseteq tree'.nodes]_tree

\* merge.rs:363-368: latest=true answers the winner among all the leaves that
\* the tree knows to descend from the revision.  (Without a limit; see the
\* README.)
LatestIsBestDescendant ==
  \A r \in RevsOf(tree.nodes) :
    LatestLeaf(tree.nodes, r) =
      Best({n[2] : n \in {m \in LeafNodes(tree.nodes) :
                            <<m[1], r>> \in tree.nodes /\ r \in Anc[m[2]]}})

\* The revisions the tree holds, and those it can reach from their parent.
Known == RevsOf(tree.nodes)
Linked == RevsOf({n \in tree.nodes : n[1] # n[2]})

Links == INSTANCE RevLinks WITH known <- Known, linked <- Linked

\* Without a limit the tree is the set of the revisions and links it was
\* told of: a step of the forest is a step of RevLinks.
ImplementsLinks == Links!Spec
=============================================================================
