------------------------------ MODULE RevTree ------------------------------
(***************************************************************************)
(* The revision tree of a document and the pure algorithms on it           *)
(* (rouchdb-core: rev_tree.rs, merge.rs).                                  *)
(*                                                                         *)
(* A revision id "<generation>-<hash>" hashes its parent, so an id fixes   *)
(* its whole ancestry: revisions are abstract values with a generation and *)
(* a set of ancestors.  What a replica KNOWS of that ancestry is what      *)
(* varies, and that is the tree: a `RevTree' is a list of roots, each with *)
(* the revisions known to descend from it.  Here a tree is a record        *)
(*                                                                         *)
(*   nodes  the set of pairs <<p, s>>: revision s hangs under root p       *)
(*   avail  the nodes whose status is Available (the others are Missing)   *)
(*                                                                         *)
(* The code keeps roots and siblings sorted; a set loses the order, which  *)
(* is recovered from Gen and HashRank where an operator depends on it.     *)
(***************************************************************************)
EXTENDS Integers, FiniteSets

CONSTANTS
  Rev,      \* the revision ids a document can have
  Gen,      \* Gen[r]: the generation of r, the number before the dash
  Anc,      \* Anc[r]: r and its ancestors, one revision per generation
  Deleted,  \* the revisions that are tombstones
  HashRank  \* HashRank[r]: the place of r's hash in the order of the hashes

ASSUME RevAssumption ==
  /\ Gen \in [Rev -> Nat \ {0}]
  /\ Anc \in [Rev -> SUBSET Rev]
  /\ Deleted \subseteq Rev
  /\ HashRank \in [Rev -> Nat]
  /\ \A r, s \in Rev : Gen[r] = Gen[s] /\ HashRank[r] = HashRank[s] => r = s
  /\ \A r \in Rev :
       /\ r \in Anc[r]
       /\ \A g \in 1 .. Gen[r] : \E s \in Anc[r] : Gen[s] = g
       /\ \A s, t \in Anc[r] : Gen[s] = Gen[t] => s = t
       /\ \A s \in Anc[r] :
            /\ Gen[s] <= Gen[r]
            /\ Anc[s] = {t \in Anc[r] : Gen[t] <= Gen[s]}

----------------------------------------------------------------------------
(* Shape of a tree *)

EmptyTree == [nodes |-> {}, avail |-> {}]

\* The chain of revisions from q down to its descendant r, both included.
Between(q, r) == {s \in Anc[r] : q \in Anc[s]}

Roots(N) == {p \in Rev : <<p, p>> \in N}

\* rev_exists looks for the revision under every root.
RevsOf(N) == {n[2] : n \in N}

\* collect_leaves: one entry for each node without children.
LeafNodes(N) ==
  {n \in N : \A m \in N : m[1] = n[1] /\ n[2] \in Anc[m[2]] => m = n}

LeafRevs(N) == RevsOf(LeafNodes(N))

\* The order of collect_leaves: live before deleted, then the higher
\* generation, then the greater hash.
Beats(r, s) ==
  \/ r \notin Deleted /\ s \in Deleted
  \/ /\ r \in Deleted <=> s \in Deleted
     /\ \/ Gen[r] > Gen[s]
        \/ Gen[r] = Gen[s] /\ HashRank[r] > HashRank[s]

Best(R) == CHOOSE r \in R : \A s \in R \ {r} : Beats(r, s)

Winner(N) == Best(LeafRevs(N))

IsDeleted(N) == N # {} /\ Winner(N) \in Deleted

----------------------------------------------------------------------------
(* Merging the path from q down to r into a tree *)

\* Whether the set A of roots holds every root the path from q to r absorbs:
\* those that start below q on the path, or inside an absorbed root.
AbsorbClosed(N, q, r, A) ==
  \A p \in Roots(N) :
    (Gen[p] > Gen[q] /\ (p \in Between(q, r) \/ \E a \in A : <<a, p>> \in N))
      => p \in A

Absorbed(N, q, r) ==
  {p \in Roots(N) : \A A \in SUBSET Roots(N) : AbsorbClosed(N, q, r, A) => p \in A}

\* Slip: the path replaces the absorbed roots instead of taking them in.
GrownPathOnly(N, q, r, A) == Between(q, r)

\* With A the absorbed roots: the path with these grafted into it.
Grown(N, q, r, A) == Between(q, r) \union {n[2] : n \in {m \in N : m[1] \in A}}

\* The grown path goes into every remaining root that holds q, or becomes a
\* root of its own.
Hosts(N, q, A) == {p \in Roots(N) \ A : <<p, q>> \in N}

Targets(N, q, A) == IF Hosts(N, q, A) = {} THEN {q} ELSE Hosts(N, q, A)

\* Slip: an absorbed root stays where it was as well.
MergeNodesCopy(N, q, r, A) == N \union (Targets(N, q, A) \X Grown(N, q, r, A))

MergeNodes(N, q, r, A) ==
  {n \in N : n[1] \notin A} \union (Targets(N, q, A) \X Grown(N, q, r, A))

\* The path's leaf r is Available; a node is Available if either side has it.
MergeAvail(t, q, r, A) ==
  LET absorbed == {n \in t.avail : n[1] \in A}
  IN  (t.avail \ absorbed)
        \union (Targets(t.nodes, q, A) \X ({r} \union {n[2] : n \in absorbed}))

Merge(t, q, r) ==
  LET A == Absorbed(t.nodes, q, r)
  IN  [nodes |-> MergeNodes(t.nodes, q, r, A), avail |-> MergeAvail(t, q, r, A)]

\* The first root of P, in the order the code keeps the roots.
FirstOf(P) ==
  CHOOSE p \in P : \A x \in P \ {p} :
    Gen[p] < Gen[x] \/ (Gen[p] = Gen[x] /\ HashRank[p] < HashRank[x])

FirstRoot(N, r) == FirstOf({n[1] : n \in {m \in N : m[2] = r}})

\* Slip: an edit of any revision in the tree is taken for one of a leaf.
ExtendsAny(N, p, r) == N = {} \/ p \in RevsOf(N)

\* Whether merging the edit r of the parent p adds a leaf below a leaf
\* (MergeResult::NewLeaf): the first root that holds p without its child r
\* says so, and the first revision of a document always does.
ExtendsLeaf(N, p, r) ==
  LET holders == {n[1] : n \in {m \in N : m[2] = p /\ <<m[1], r>> \notin N}}
  IN  N = {} \/ (holders # {} /\ <<FirstOf(holders), p>> \in LeafNodes(N))

----------------------------------------------------------------------------
(* Cutting a tree *)

\* The chains C put together: the chain c runs from c.top down to c.leaf,
\* starts a root or joins the one that starts at the same revision, and was
\* taken from under the root c.root.
ChainNodes(C) == UNION {{c.top} \X Between(c.top, c.leaf) : c \in C}

Rebuild(t, C) ==
  [nodes |-> ChainNodes(C),
   avail |-> UNION {{<<c.top, s>> : s \in {x \in Between(c.top, c.leaf) :
                                             <<c.root, x>> \in t.avail}} : c \in C}]

\* Slip: one revision too few is kept.
CutAtShort(p, l, depth) ==
  CHOOSE s \in Between(p, l) :
    \/ s = p /\ Gen[l] - Gen[p] < depth - 1
    \/ s # p /\ Gen[s] = Gen[l] - depth + 2

\* The oldest revision that stays on the chain from p to l when the chain is
\* cut to its `depth' newest revisions.
CutAt(p, l, depth) ==
  CHOOSE s \in Between(p, l) :
    \/ s = p /\ Gen[l] - Gen[p] < depth
    \/ s # p /\ Gen[s] = Gen[l] - depth + 1

Stem(t, depth) ==
  Rebuild(t, {[root |-> n[1], leaf |-> n[2], top |-> CutAt(n[1], n[2], depth)] :
                n \in LeafNodes(t.nodes)})

\* A limit of 0 means no limit: stemming to an unlimited depth puts the same
\* chains back.
MergeAndStem(t, q, r, limit) ==
  IF limit = 0 THEN Merge(t, q, r) ELSE Stem(Merge(t, q, r), limit)

\* The revisions the limit took out of the tree.
Stemmed(t, q, r, limit) ==
  RevsOf(MergeNodes(t.nodes, q, r, Absorbed(t.nodes, q, r)))
    \ RevsOf(MergeAndStem(t, q, r, limit).nodes)

\* Slip: the removed chains go with the ancestors other leaves still need.
RemoveLeavesShared(t, R) ==
  LET kept == {n \in t.nodes : \A l \in R : n[2] \notin Anc[l]}
  IN  [nodes |-> kept, avail |-> t.avail \intersect kept]

\* Slip: only the leaves go, their ancestors stay behind as leaves.
RemoveLeavesOnly(t, R) ==
  LET kept == {n \in t.nodes : n \notin LeafNodes(t.nodes) \/ n[2] \notin R}
  IN  [nodes |-> kept, avail |-> t.avail \intersect kept]

\* Purge: the chains of the removed leaves go, and with them every ancestor
\* that no remaining leaf needs.  Revisions that are not leaves are ignored.
RemoveLeaves(t, R) ==
  IF LeafRevs(t.nodes) \intersect R = {}
    THEN t
    ELSE Rebuild(t, {[root |-> n[1], leaf |-> n[2], top |-> n[1]] :
                       n \in {m \in LeafNodes(t.nodes) : m[2] \notin R}})

----------------------------------------------------------------------------
(* Queries *)

\* find_rev_ancestry: the history sent with r starts at that root.
HistoryStart(N, r) == FirstRoot(N, r)

\* Slip: the winner of the document, whatever was asked for.
LatestWinner(N, r) == Winner(N)

\* latest_leaf: the winner among the leaves below r under the first root
\* that holds it.
LatestLeaf(N, r) ==
  Best({n[2] : n \in {m \in LeafNodes(N) : m[1] = FirstRoot(N, r) /\ r \in Anc[m[2]]}})

\* revs_diff_one: which of R the document lacks.
MissingRevs(N, R) == R \ RevsOf(N)
=============================================================================
