--------------------------- MODULE DatabaseProofs ---------------------------
(***************************************************************************)
(* Lemmas about trees and databases.  The operators of RevTree keep a tree *)
(* well-formed (TreeOk) and forget no more than they should.  Each of the  *)
(* operations of Database takes a database whose tree, bodies, changes log *)
(* and attachment store agree (DbOk) to one, and what a reader of the feed *)
(* has seen stays true (Follows).                                          *)
(***************************************************************************)
EXTENDS Database, TLAPS, WellFoundedInduction, FiniteSetTheorems

----------------------------------------------------------------------------
(* Ancestry *)

\* An ancestor is a revision, no younger, and its ancestors are ancestors.
LEMMA AncBasics ==
  ASSUME NEW r \in Rev, NEW s \in Anc[r]
  PROVE  /\ s \in Rev
         /\ Gen[r] \in Nat /\ Gen[s] \in Nat
         /\ Gen[s] <= Gen[r]
         /\ Anc[s] \subseteq Anc[r]
         /\ r \in Anc[r]
  BY RevAssumption

\* An ancestor of an ancestor is an ancestor.
LEMMA AncTrans ==
  ASSUME NEW r \in Rev, NEW s \in Anc[r], NEW t \in Anc[s]
  PROVE  t \in Anc[r]
  BY AncBasics

\* Two ancestors of one revision are on one chain.
LEMMA AncChain ==
  ASSUME NEW r \in Rev, NEW s \in Anc[r], NEW t \in Anc[r], Gen[s] <= Gen[t]
  PROVE  s \in Anc[t]
  BY RevAssumption

\* Two revisions that descend from each other are one.
LEMMA AncAntisym ==
  ASSUME NEW r \in Rev, NEW s \in Anc[r], r \in Anc[s]
  PROVE  r = s
  BY SMTT(30), RevAssumption

\* A proper ancestor is strictly older.
LEMMA AncOlder ==
  ASSUME NEW r \in Rev, NEW s \in Anc[r], s # r
  PROVE  Gen[s] < Gen[r]
  BY RevAssumption

\* The chain between two revisions consists of revisions.
LEMMA BetweenBasics ==
  ASSUME NEW r \in Rev, NEW q \in Anc[r]
  PROVE  /\ q \in Between(q, r) /\ r \in Between(q, r)
         /\ Between(q, r) \subseteq Rev
         /\ \A s \in Between(q, r) : s \in Anc[r] /\ q \in Anc[s]
  <1>1. q \in Rev /\ q \in Anc[q] /\ r \in Anc[r]
    BY RevAssumption
  <1>2. Between(q, r) \subseteq Anc[r]
    BY DEF Between
  <1>3. Anc[r] \subseteq Rev
    BY AncBasics
  <1> QED
    BY <1>1, <1>2, <1>3 DEF Between

----------------------------------------------------------------------------
(* The roots a path absorbs *)

\* The shape every tree keeps: pairs of revisions, and no hole in a branch.
Shaped(N) ==
  /\ N \in SUBSET (Rev \X Rev)
  /\ \A n \in N : /\ n[1] \in Anc[n[2]]
                  /\ \A s \in Between(n[1], n[2]) : <<n[1], s>> \in N

\* With a revision, its root is in the tree.
LEMMA RootPresent ==
  ASSUME NEW N, Shaped(N), NEW n \in N
  PROVE  n[1] \in Roots(N)
  <1>1. n[1] \in Rev /\ n[2] \in Rev /\ n[1] \in Anc[n[2]]
    BY DEF Shaped
  <1>2. n[1] \in Between(n[1], n[2])
    BY <1>1, BetweenBasics
  <1> QED
    BY <1>1, <1>2 DEF Shaped, Roots

\* The absorbed roots are themselves closed: absorbing goes to its end.
LEMMA AbsorbedClosed ==
  ASSUME NEW N, NEW q, NEW r
  PROVE  AbsorbClosed(N, q, r, Absorbed(N, q, r))
  BY DEF AbsorbClosed, Absorbed

\* Any closed set of roots holds the absorbed ones.
LEMMA AbsorbedLeast ==
  ASSUME NEW N, NEW q, NEW r, NEW A \in SUBSET Roots(N), AbsorbClosed(N, q, r, A)
  PROVE  Absorbed(N, q, r) \subseteq A
  BY DEF Absorbed

\* An absorbed root lies strictly below the root of the path.
LEMMA AbsorbedBelow ==
  ASSUME NEW N, Shaped(N), NEW r \in Rev, NEW q \in Anc[r],
         NEW a \in Absorbed(N, q, r)
  PROVE  /\ a \in Rev /\ a \in Roots(N)
         /\ q \in Anc[a]
         /\ Gen[q] < Gen[a]
  <1> DEFINE A == {p \in Roots(N) : Gen[p] > Gen[q] /\ q \in Anc[p]}
  <1>1. AbsorbClosed(N, q, r, A)
    <2> SUFFICES ASSUME NEW p \in Roots(N), Gen[p] > Gen[q],
                        p \in Between(q, r) \/ \E b \in A : <<b, p>> \in N
                 PROVE  q \in Anc[p]
      BY DEF AbsorbClosed
    <2>1. CASE p \in Between(q, r)
      BY <2>1 DEF Between
    <2>2. CASE \E b \in A : <<b, p>> \in N
      <3>1. PICK b \in A : <<b, p>> \in N
        BY <2>2
      <3>2. p \in Rev /\ b \in Anc[p] /\ q \in Anc[b]
        BY <3>1 DEF Roots, Shaped
      <3> QED
        BY <3>2, AncTrans
    <2> QED
      BY <2>1, <2>2
  <1>2. Absorbed(N, q, r) \subseteq A
    <2> A \in SUBSET Roots(N)
      OBVIOUS
    <2> HIDE DEF A
    <2> QED
      BY <1>1, AbsorbedLeast
  <1>3. Gen[a] \in Nat /\ Gen[q] \in Nat
    BY <1>2, RevAssumption, AncBasics DEF Roots
  <1> QED
    BY <1>2, <1>3 DEF Roots

\* The grown path has no hole above an absorbed root: it holds the whole chain
\* from the root of the path down to it.
LEMMA AbsorbedReached ==
  ASSUME NEW N, Shaped(N), NEW r \in Rev, NEW q \in Anc[r],
         NEW a \in Absorbed(N, q, r)
  PROVE  Between(q, a) \subseteq Grown(N, q, r, Absorbed(N, q, r))
  <1> DEFINE B == Absorbed(N, q, r)
             G == Grown(N, q, r, B)
             A == {p \in B : Between(q, p) \subseteq G}
  <1>1. AbsorbClosed(N, q, r, A)
    <2> SUFFICES ASSUME NEW p \in Roots(N), Gen[p] > Gen[q],
                        p \in Between(q, r) \/ \E b \in A : <<b, p>> \in N
                 PROVE  p \in A
      BY DEF AbsorbClosed
    <2>1. p \in B
      BY AbsorbedClosed DEF AbsorbClosed
    <2>2. CASE p \in Between(q, r)
      <3>1. p \in Rev /\ p \in Anc[r]
        BY <2>2, BetweenBasics DEF Between
      <3>2. Between(q, p) \subseteq Between(q, r)
        BY <3>1, AncTrans DEF Between
      <3> QED
        BY <2>1, <3>2 DEF Grown
    <2>3. CASE \E b \in A : <<b, p>> \in N
      <3>1. PICK b \in A : <<b, p>> \in N
        BY <2>3
      <3>2. p \in Rev /\ b \in Rev /\ b \in Anc[p] /\ q \in Anc[b]
        BY <3>1, AbsorbedBelow DEF Shaped
      <3>3. ASSUME NEW x \in Between(q, p)
            PROVE  x \in G
        <4>1. x \in Rev /\ x \in Anc[p] /\ q \in Anc[x]
          BY <3>2, AncBasics DEF Between
        <4>2. Gen[x] \in Nat /\ Gen[b] \in Nat
          BY <3>2, <4>1, RevAssumption
        <4>3. CASE Gen[b] <= Gen[x]
          <5>1. x \in Between(b, p)
            BY <3>2, <4>1, <4>3, AncChain DEF Between
          <5>2. <<b, x>> \in N
            BY <3>1, <5>1 DEF Shaped
          <5> QED
            BY <5>2 DEF Grown
        <4>4. CASE Gen[x] <= Gen[b]
          <5>1. x \in Between(q, b)
            BY <3>2, <4>1, <4>4, AncChain DEF Between
          <5> QED
            BY <3>1, <5>1
        <4> QED
          BY <4>2, <4>3, <4>4
      <3> QED
        BY <2>1, <3>3
    <2> QED
      BY <2>2, <2>3
  <1>2. B \subseteq A
    <2>1. A \in SUBSET Roots(N)
      BY DEF Absorbed
    <2> HIDE DEF A
    <2> QED
      BY <1>1, <2>1, AbsorbedLeast
  <1> QED
    BY <1>2

----------------------------------------------------------------------------
(* A merge keeps the shape *)

\* A root the path is merged into is the path's own root or holds it.
LEMMA TargetAbove ==
  ASSUME NEW N, Shaped(N), NEW r \in Rev, NEW q \in Anc[r], NEW A,
         NEW p \in Targets(N, q, A)
  PROVE  /\ p \in Rev /\ p \in Anc[q]
         /\ p = q \/ (p \notin A /\ <<p, q>> \in N)
  <1>1. q \in Rev /\ q \in Anc[q]
    BY RevAssumption
  <1> QED
    BY <1>1 DEF Targets, Hosts, Shaped

\* There is such a root.
LEMMA TargetExists ==
  ASSUME NEW N, Shaped(N), NEW r \in Rev, NEW q \in Anc[r], NEW A
  PROVE  \E t \in Targets(N, q, A) : t \in Rev
  <1>1. PICK t \in Targets(N, q, A) : TRUE
    BY DEF Targets
  <1>2. t \in Rev
    BY TargetAbove
  <1> QED
    BY <1>2

\* What the grown path holds: revisions that descend from its root.
LEMMA GrownBelow ==
  ASSUME NEW N, Shaped(N), NEW r \in Rev, NEW q \in Anc[r],
         NEW s \in Grown(N, q, r, Absorbed(N, q, r))
  PROVE  /\ s \in Rev /\ q \in Anc[s]
         /\ \/ s \in Between(q, r)
            \/ \E a \in Absorbed(N, q, r) : <<a, s>> \in N
  <1>1. CASE s \in Between(q, r)
    BY <1>1, BetweenBasics
  <1>2. CASE \E a \in Absorbed(N, q, r) : <<a, s>> \in N
    <2>1. PICK a \in Absorbed(N, q, r) : <<a, s>> \in N
      BY <1>2
    <2>2. s \in Rev /\ a \in Anc[s] /\ q \in Anc[a]
      BY <2>1, AbsorbedBelow DEF Shaped
    <2> QED
      BY <2>1, <2>2, AncTrans
  <1> QED
    BY <1>1, <1>2 DEF Grown, Shaped

\* The grown path has no hole: with a revision it holds the chain down to it.
LEMMA GrownConvex ==
  ASSUME NEW N, Shaped(N), NEW r \in Rev, NEW q \in Anc[r],
         NEW s \in Grown(N, q, r, Absorbed(N, q, r))
  PROVE  Between(q, s) \subseteq Grown(N, q, r, Absorbed(N, q, r))
  <1> DEFINE G == Grown(N, q, r, Absorbed(N, q, r))
  <1>0. s \in Rev /\ q \in Anc[s]
    BY GrownBelow
  <1>1. CASE s \in Between(q, r)
    <2>1. s \in Anc[r]
      BY <1>1 DEF Between
    <2>2. Between(q, s) \subseteq Between(q, r)
      BY <1>0, <2>1, AncTrans DEF Between
    <2> QED
      BY <2>2 DEF Grown
  <1>2. CASE \E a \in Absorbed(N, q, r) : <<a, s>> \in N
    <2>1. PICK a \in Absorbed(N, q, r) : <<a, s>> \in N
      BY <1>2
    <2>2. a \in Rev /\ a \in Anc[s] /\ q \in Anc[a]
      BY <2>1, AbsorbedBelow DEF Shaped
    <2> SUFFICES ASSUME NEW x \in Between(q, s)
                 PROVE  x \in G
      OBVIOUS
    <2>3. x \in Rev /\ x \in Anc[s] /\ q \in Anc[x]
      BY <1>0, AncBasics DEF Between
    <2>4. Gen[x] \in Nat /\ Gen[a] \in Nat
      BY <2>2, <2>3, RevAssumption
    <2>5. CASE Gen[a] <= Gen[x]
      <3>1. x \in Between(a, s)
        BY <1>0, <2>2, <2>3, <2>5, AncChain DEF Between
      <3>2. <<a, x>> \in N
        BY <2>1, <3>1 DEF Shaped
      <3> QED
        BY <3>2 DEF Grown
    <2>6. CASE Gen[x] <= Gen[a]
      <3>1. x \in Between(q, a)
        BY <1>0, <2>2, <2>3, <2>6, AncChain DEF Between
      <3> QED
        BY <3>1, AbsorbedReached
    <2> QED
      BY <2>4, <2>5, <2>6
  <1> QED
    BY <1>1, <1>2, GrownBelow

\* Merging any path into a tree without holes leaves none.
LEMMA MergeShaped ==
  ASSUME NEW N, Shaped(N), NEW r \in Rev, NEW q \in Anc[r]
  PROVE  Shaped(MergeNodes(N, q, r, Absorbed(N, q, r)))
  <1> DEFINE A == Absorbed(N, q, r)
             G == Grown(N, q, r, A)
             M == MergeNodes(N, q, r, A)
  <1>1. \A n \in M : (n \in N /\ n[1] \notin A) \/ n \in Targets(N, q, A) \X G
    BY DEF MergeNodes
  <1>2. ASSUME NEW n \in M
        PROVE  /\ n \in Rev \X Rev
               /\ n[1] \in Anc[n[2]]
               /\ \A x \in Between(n[1], n[2]) : <<n[1], x>> \in M
    <2>1. CASE n \in N /\ n[1] \notin A
      BY <2>1 DEF Shaped, MergeNodes
    <2>2. CASE n \in Targets(N, q, A) \X G
      <3>1. PICK p \in Targets(N, q, A), s \in G : n = <<p, s>>
        BY <2>2
      <3>2. p \in Rev /\ p \in Anc[q] /\ (p = q \/ (p \notin A /\ <<p, q>> \in N))
        BY TargetAbove
      <3>3. s \in Rev /\ q \in Anc[s] /\ q \in Rev
        BY GrownBelow, AncBasics
      <3>4. p \in Anc[s]
        BY <3>2, <3>3, AncTrans
      <3>5. ASSUME NEW x \in Between(p, s)
            PROVE  <<p, x>> \in M
        <4>1. x \in Rev /\ x \in Anc[s] /\ p \in Anc[x]
          BY <3>3, AncBasics DEF Between
        <4>2. Gen[x] \in Nat /\ Gen[q] \in Nat
          BY <3>3, <4>1, RevAssumption
        <4>3. CASE Gen[q] <= Gen[x]
          <5>1. x \in Between(q, s)
            BY <3>3, <4>1, <4>3, AncChain DEF Between
          <5>2. x \in G
            BY <5>1, GrownConvex
          <5> QED
            BY <5>2 DEF MergeNodes
        <4>4. CASE Gen[x] < Gen[q]
          <5>1. x \in Anc[q]
            BY <3>3, <4>1, <4>2, <4>4, AncChain
          <5>2. p # q
            BY <3>2, <4>1, <4>2, <4>4, RevAssumption
          <5>3. <<p, x>> \in N
            BY <3>2, <4>1, <5>1, <5>2 DEF Shaped, Between
          <5> QED
            BY <3>2, <5>2, <5>3 DEF MergeNodes
        <4> QED
          BY <4>2, <4>3, <4>4
      <3> QED
        BY <3>1, <3>2, <3>3, <3>4, <3>5
    <2> QED
      BY <1>1, <2>1, <2>2
  <1> QED
    BY <1>2 DEF Shaped

----------------------------------------------------------------------------
(* Rebuilding a tree from chains, as stemming and purging do *)

\* A chain can be cut: it has a revision at the place of the cut, or is short.
LEMMA CutExists ==
  ASSUME NEW l \in Rev, NEW p \in Anc[l], NEW depth \in Nat \ {0}
  PROVE  \E s \in Between(p, l) : \/ s = p /\ Gen[l] - Gen[p] < depth
                                  \/ s # p /\ Gen[s] = Gen[l] - depth + 1
  <1>1. p \in Rev /\ Gen[p] \in Nat /\ Gen[l] \in Nat /\ Gen[p] > 0
    BY RevAssumption
  <1>2. CASE Gen[l] - Gen[p] < depth
    BY <1>2, BetweenBasics
  <1>3. CASE Gen[l] - Gen[p] >= depth
    <2>1. Gen[l] - depth + 1 \in 1 .. Gen[l]
      BY <1>1, <1>3
    <2>2. PICK s \in Anc[l] : Gen[s] = Gen[l] - depth + 1
      BY <2>1, RevAssumption
    <2>3. Gen[p] < Gen[s]
      BY <1>1, <1>3, <2>2
    <2>4. p \in Anc[s]
      BY <1>1, <2>2, <2>3, AncChain
    <2> QED
      BY <2>2, <2>3, <2>4, <1>1 DEF Between
  <1> QED
    BY <1>1, <1>2, <1>3

\* A chain's cut-down top is on the chain.
LEMMA CutOnChain ==
  ASSUME NEW l \in Rev, NEW p \in Anc[l], NEW depth \in Nat \ {0}
  PROVE  CutAt(p, l, depth) \in Between(p, l)
  BY CutExists DEF CutAt

\* Chains of revisions make a tree without holes.
LEMMA ChainsShaped ==
  ASSUME NEW C, \A c \in C : c.leaf \in Rev /\ c.top \in Anc[c.leaf]
  PROVE  Shaped(ChainNodes(C))
  <1> SUFFICES ASSUME NEW n \in ChainNodes(C)
               PROVE  /\ n \in Rev \X Rev
                      /\ n[1] \in Anc[n[2]]
                      /\ \A x \in Between(n[1], n[2]) : <<n[1], x>> \in ChainNodes(C)
    BY DEF Shaped
  <1>1. PICK c \in C : n \in {c.top} \X Between(c.top, c.leaf)
    BY DEF ChainNodes
  <1>2. PICK s \in Between(c.top, c.leaf) : n = <<c.top, s>>
    BY <1>1
  <1>3. c.top \in Rev /\ s \in Rev /\ s \in Anc[c.leaf] /\ c.top \in Anc[s]
    BY AncBasics DEF Between
  <1>4. Between(c.top, s) \subseteq Between(c.top, c.leaf)
    BY <1>3, AncTrans DEF Between
  <1>5. \A x \in Between(c.top, s) : <<c.top, x>> \in {c.top} \X Between(c.top, c.leaf)
    BY <1>4
  <1> QED
    BY <1>2, <1>3, <1>5 DEF ChainNodes

\* Stemming leaves no hole.
LEMMA StemShaped ==
  ASSUME NEW t, Shaped(t.nodes), NEW depth \in Nat \ {0}
  PROVE  Shaped(Stem(t, depth).nodes)
  <1> DEFINE C == {[root |-> n[1], leaf |-> n[2], top |-> CutAt(n[1], n[2], depth)] :
                     n \in LeafNodes(t.nodes)}
  <1>1. \A c \in C : c.leaf \in Rev /\ c.top \in Anc[c.leaf]
    <2> SUFFICES ASSUME NEW n \in LeafNodes(t.nodes)
                 PROVE  n[2] \in Rev /\ CutAt(n[1], n[2], depth) \in Anc[n[2]]
      OBVIOUS
    <2>1. n[2] \in Rev /\ n[1] \in Anc[n[2]]
      BY DEF LeafNodes, Shaped
    <2> QED
      BY <2>1, CutOnChain DEF Between
  <1>2. Stem(t, depth).nodes = ChainNodes(C)
    BY DEF Stem, Rebuild
  <1> HIDE DEF C
  <1> QED
    BY <1>1, <1>2, ChainsShaped

\* Purging leaves no hole.
LEMMA RemoveShaped ==
  ASSUME NEW t, Shaped(t.nodes), NEW R
  PROVE  Shaped(RemoveLeaves(t, R).nodes)
  <1> DEFINE C == {[root |-> n[1], leaf |-> n[2], top |-> n[1]] :
                     n \in {m \in LeafNodes(t.nodes) : m[2] \notin R}}
  <1>1. CASE LeafRevs(t.nodes) \intersect R = {}
    BY <1>1 DEF RemoveLeaves
  <1>2. CASE LeafRevs(t.nodes) \intersect R # {}
    <2>1. \A c \in C : c.leaf \in Rev /\ c.top \in Anc[c.leaf]
      BY DEF LeafNodes, Shaped
    <2>2. RemoveLeaves(t, R).nodes = ChainNodes(C)
      BY <1>2 DEF RemoveLeaves, Rebuild
    <2> HIDE DEF C
    <2> QED
      BY <2>1, <2>2, ChainsShaped
  <1> QED
    BY <1>1, <1>2

----------------------------------------------------------------------------
(* Availability is recorded for nodes of the tree only *)

\* A merge marks Available only nodes it has put in the tree.
LEMMA MergeAvailNodes ==
  ASSUME NEW t, Shaped(t.nodes), t.avail \subseteq t.nodes,
         NEW r \in Rev, NEW q \in Anc[r]
  PROVE  Merge(t, q, r).avail \subseteq Merge(t, q, r).nodes
  <1> DEFINE A == Absorbed(t.nodes, q, r)
             T == Targets(t.nodes, q, A)
  <1>1. {r} \union {n[2] : n \in {m \in t.avail : m[1] \in A}} \subseteq Grown(t.nodes, q, r, A)
    BY BetweenBasics DEF Grown
  <1>2. t.avail \ {m \in t.avail : m[1] \in A} \subseteq {n \in t.nodes : n[1] \notin A}
    OBVIOUS
  <1>3. /\ Merge(t, q, r).nodes = MergeNodes(t.nodes, q, r, A)
        /\ Merge(t, q, r).avail = MergeAvail(t, q, r, A)
    BY DEF Merge
  <1> QED
    BY <1>1, <1>2, <1>3 DEF MergeNodes, MergeAvail

\* So does a rebuild.
LEMMA RebuildAvailNodes ==
  ASSUME NEW t, NEW C
  PROVE  Rebuild(t, C).avail \subseteq Rebuild(t, C).nodes
  <1>1. ASSUME NEW n \in Rebuild(t, C).avail
        PROVE  n \in Rebuild(t, C).nodes
    <2>1. PICK c \in C : n \in {<<c.top, s>> : s \in {x \in Between(c.top, c.leaf) :
                                                        <<c.root, x>> \in t.avail}}
      BY DEF Rebuild
    <2>2. PICK s \in Between(c.top, c.leaf) : n = <<c.top, s>>
      BY <2>1
    <2> QED
      BY <2>2 DEF Rebuild, ChainNodes
  <1> QED
    BY <1>1

----------------------------------------------------------------------------
(* Trees whose revisions have one root each, as without a limit *)

\* Every revision has one root.
Single(N) == \A m, n \in N : m[2] = n[2] => m = n

\* When every revision has one root, a path absorbs the roots that lie on it
\* below its own.
LEMMA SingleAbsorbs ==
  ASSUME NEW N, Shaped(N), Single(N), NEW r \in Rev, NEW q \in Anc[r]
  PROVE  Absorbed(N, q, r) = {p \in Roots(N) \ {q} : p \in Between(q, r)}
  <1> DEFINE A == {p \in Roots(N) \ {q} : p \in Between(q, r)}
  <1>1. AbsorbClosed(N, q, r, A)
    <2> SUFFICES ASSUME NEW p \in Roots(N), Gen[p] > Gen[q],
                        p \in Between(q, r) \/ \E b \in A : <<b, p>> \in N
                 PROVE  p \in A
      BY DEF AbsorbClosed
    <2>1. p # q
      BY RevAssumption
    <2>2. CASE p \in Between(q, r)
      BY <2>1, <2>2
    <2>3. CASE \E b \in A : <<b, p>> \in N
      <3>1. PICK b \in A : <<b, p>> \in N
        BY <2>3
      <3>2. <<p, p>> \in N
        BY DEF Roots
      <3>3. b = p
        BY <3>1, <3>2 DEF Single
      <3> QED
        BY <3>3
    <2> QED
      BY <2>2, <2>3
  <1>2. Absorbed(N, q, r) \subseteq A
    <2>1. A \in SUBSET Roots(N)
      OBVIOUS
    <2> HIDE DEF A
    <2> QED
      BY <1>1, <2>1, AbsorbedLeast
  <1>3. ASSUME NEW p \in A
        PROVE  p \in Absorbed(N, q, r)
    <2>1. p \in Rev /\ q \in Anc[p] /\ q # p
      BY DEF Roots, Between
    <2>2. Gen[p] > Gen[q]
      BY <2>1, AncOlder, RevAssumption
    <2> QED
      BY <2>2, AbsorbedClosed DEF AbsorbClosed
  <1> QED
    BY <1>2, <1>3

\* A merge keeps every revision under one root.
LEMMA MergeSingle ==
  ASSUME NEW N, Shaped(N), Single(N), NEW r \in Rev, NEW q \in Anc[r]
  PROVE  Single(MergeNodes(N, q, r, Absorbed(N, q, r)))
  <1> DEFINE A == Absorbed(N, q, r)
             G == Grown(N, q, r, A)
             T == Targets(N, q, A)
             M == MergeNodes(N, q, r, A)
  <1>0. q \in Rev /\ r \in Rev /\ q \in Anc[q]
    BY RevAssumption
  <1>1. \A p1, p2 \in T : p1 = p2
    <2>1. CASE Hosts(N, q, A) = {}
      BY <2>1 DEF Targets
    <2>2. CASE Hosts(N, q, A) # {}
      BY <2>2 DEF Targets, Hosts, Single
    <2> QED
      BY <2>1, <2>2
  <1>2. ASSUME NEW m \in N, m[1] \notin A, NEW p \in T, NEW s \in G, m[2] = s
        PROVE  m[1] = p
    <2>0. m[1] \in Rev /\ s \in Rev /\ m = <<m[1], s>> /\ m[1] \in Anc[s] /\ m[1] \in Roots(N)
      BY <1>2, RootPresent DEF Shaped
    <2>1. CASE \E a \in A : <<a, s>> \in N
      BY <1>2, <2>0, <2>1 DEF Single
    <2>2. CASE s \in Between(q, r)
      <3>1. s \in Anc[r] /\ q \in Anc[s]
        BY <2>2 DEF Between
      <3>2. CASE Gen[m[1]] <= Gen[q]
        <4>1. m[1] \in Anc[q]
          BY <2>0, <3>1, <3>2, AncChain
        <4>2. q \in Between(m[1], s)
          BY <3>1, <4>1 DEF Between
        <4>3. <<m[1], q>> \in N
          BY <2>0, <4>2 DEF Shaped
        <4>4. m[1] \in Hosts(N, q, A)
          BY <1>2, <2>0, <4>3 DEF Hosts
        <4>5. m[1] \in T
          BY <4>4 DEF Targets
        <4> QED
          BY <4>5, <1>1
      <3>3. CASE Gen[q] < Gen[m[1]]
        <4>1. q \in Anc[m[1]]
          BY <1>0, <2>0, <3>1, <3>3, AncChain, RevAssumption
        <4>2. m[1] \in Between(q, r)
          BY <2>0, <3>1, <4>1, AncTrans DEF Between
        <4>3. m[1] # q
          BY <1>0, <3>3, RevAssumption
        <4>4. m[1] \in A
          BY <2>0, <4>2, <4>3, SingleAbsorbs
        <4> QED
          BY <1>2, <4>4
      <3> QED
        BY <1>0, <2>0, <3>2, <3>3, RevAssumption
    <2> QED
      BY <2>1, <2>2, GrownBelow
  <1>3. ASSUME NEW m \in M, NEW n \in M, m[2] = n[2]
        PROVE  m = n
    <2>1. \A x \in M : (x \in N /\ x[1] \notin A) \/ (\E p \in T, s \in G : x = <<p, s>>)
      BY DEF MergeNodes
    <2>2. CASE (m \in N /\ m[1] \notin A) /\ (n \in N /\ n[1] \notin A)
      BY <1>3, <2>2 DEF Single
    <2>3. CASE (m \in N /\ m[1] \notin A) /\ (\E p \in T, s \in G : n = <<p, s>>)
      <3>1. m = <<m[1], m[2]>>
        BY <2>3 DEF Shaped
      <3> QED
        BY <1>2, <1>3, <2>3, <3>1
    <2>4. CASE (\E p \in T, s \in G : m = <<p, s>>) /\ (n \in N /\ n[1] \notin A)
      <3>1. n = <<n[1], n[2]>>
        BY <2>4 DEF Shaped
      <3> QED
        BY <1>2, <1>3, <2>4, <3>1
    <2>5. CASE (\E p \in T, s \in G : m = <<p, s>>) /\ (\E p \in T, s \in G : n = <<p, s>>)
      BY <1>1, <1>3, <2>5
    <2> QED
      BY <2>1, <2>2, <2>3, <2>4, <2>5
  <1> QED
    BY <1>3 DEF Single

\* A purge only takes nodes away.
LEMMA RemoveShrinks ==
  ASSUME NEW t, Shaped(t.nodes), NEW R
  PROVE  RemoveLeaves(t, R).nodes \subseteq t.nodes
  <1> DEFINE C == {[root |-> n[1], leaf |-> n[2], top |-> n[1]] :
                     n \in {m \in LeafNodes(t.nodes) : m[2] \notin R}}
  <1>1. CASE LeafRevs(t.nodes) \intersect R = {}
    BY <1>1 DEF RemoveLeaves
  <1>2. CASE LeafRevs(t.nodes) \intersect R # {}
    <2>1. RemoveLeaves(t, R).nodes = ChainNodes(C)
      BY <1>2 DEF RemoveLeaves, Rebuild
    <2>2. ASSUME NEW n \in ChainNodes(C)
          PROVE  n \in t.nodes
      <3>1. PICK c \in C : n \in {c.top} \X Between(c.top, c.leaf)
        BY <2>2 DEF ChainNodes
      <3>2. PICK m \in LeafNodes(t.nodes) : c.top = m[1] /\ c.leaf = m[2]
        BY <3>1
      <3>3. PICK s \in Between(m[1], m[2]) : n = <<m[1], s>>
        BY <3>1, <3>2
      <3> QED
        BY <3>3 DEF LeafNodes, Shaped
    <2> QED
      BY <2>1, <2>2
  <1> QED
    BY <1>1, <1>2

----------------------------------------------------------------------------
(* Natural numbers *)

\* A set of natural numbers has a least one.
LEMMA Least ==
  ASSUME NEW S \in SUBSET Nat, S # {}
  PROVE  \E x \in S : \A y \in S : x <= y
  <1>1. PICK x \in S : \A y \in S : <<y, x>> \notin OpToRel(<, Nat)
    BY NatLessThanWellFounded, WFMin
  <1>2. \A y \in S : ~(y < x)
    BY <1>1 DEF OpToRel
  <1> QED
    BY <1>2

\* Induction, for a set of natural numbers.
LEMMA Induction ==
  ASSUME NEW S, 0 \in S, \A n \in Nat : n \in S => n + 1 \in S
  PROVE  Nat \subseteq S
  <1> SUFFICES ASSUME Nat \ S # {} PROVE FALSE
    OBVIOUS
  <1>1. PICK x \in Nat \ S : \A y \in Nat \ S : x <= y
    BY Least
  <1>2. x # 0 /\ x - 1 \in Nat
    OBVIOUS
  <1>3. x - 1 \in S
    BY <1>1, <1>2
  <1> QED
    BY <1>2, <1>3

----------------------------------------------------------------------------
(* Leaves *)

\* The generations in a tree have a bound: it is finite.
Bounded(N) == \E b \in Nat : \A n \in N : Gen[n[2]] <= b

\* Every revision has a leaf below it, or is one, under each of its roots.
LEMMA LeafBelow ==
  ASSUME NEW N, Shaped(N), Bounded(N), NEW n \in N
  PROVE  \E m \in LeafNodes(N) : m[1] = n[1] /\ n[2] \in Anc[m[2]]
  <1>1. PICK b \in Nat : \A m \in N : Gen[m[2]] <= b
    BY DEF Bounded
  <1> DEFINE Below == {m \in N : m[1] = n[1] /\ n[2] \in Anc[m[2]]}
             Height(m) == b - Gen[m[2]]
             S == {Height(m) : m \in Below}
  <1>2. \A m \in N : m[2] \in Rev /\ Gen[m[2]] \in Nat /\ m = <<m[1], m[2]>>
    BY RevAssumption DEF Shaped
  <1>3. S \in SUBSET Nat
    BY <1>1, <1>2
  <1>4. n \in Below
    BY <1>2, RevAssumption
  <1>5. PICK h \in S : \A y \in S : h <= y
    <2> HIDE DEF Below
    <2> S # {}
      BY <1>4
    <2> HIDE DEF S
    <2> QED
      BY <1>3, Least
  <1>6. PICK m \in Below : h = Height(m)
    BY <1>5
  <1>7. ASSUME NEW x \in N, x[1] = m[1], m[2] \in Anc[x[2]]
        PROVE  x = m
    <2>1. x \in Below
      BY <1>2, <1>6, <1>7, AncTrans
    <2>2. Height(m) <= Height(x)
      BY <1>5, <1>6, <2>1
    <2>3. Gen[m[2]] \in Nat /\ Gen[x[2]] \in Nat /\ m[2] \in Rev /\ x[2] \in Rev
      BY <1>2, <1>6
    <2>4. Gen[x[2]] <= Gen[m[2]]
      BY <2>2, <2>3
    <2>5. x[2] = m[2]
      BY <1>7, <2>3, <2>4, AncOlder
    <2> QED
      BY <1>2, <1>6, <1>7, <2>5
  <1>8. m \in LeafNodes(N)
    BY <1>6, <1>7 DEF LeafNodes
  <1> QED
    BY <1>6, <1>8

----------------------------------------------------------------------------
(* What a merge does to the revisions and the leaves *)

\* Where a node of the merged tree comes from, and where the old ones go.
LEMMA MergeMoves ==
  ASSUME NEW N, Shaped(N), NEW r \in Rev, NEW q \in Anc[r],
         NEW A, A = Absorbed(N, q, r), NEW M, M = MergeNodes(N, q, r, A)
  PROVE  /\ Targets(N, q, A) # {}
         /\ \A t \in Targets(N, q, A) : \A s \in Grown(N, q, r, A) : <<t, s>> \in M
         /\ \A n \in N : n[1] \notin A => n \in M
         /\ \A n \in N : n[1] \in A => n[2] \in Grown(N, q, r, A)
         /\ Between(q, r) \subseteq Grown(N, q, r, A)
         /\ \A m \in M : \/ m \in N /\ m[1] \notin A
                         \/ m[1] \in Targets(N, q, A) /\ m[2] \in Grown(N, q, r, A)
  BY DEF MergeNodes, Grown, Targets

\* A merge adds the revisions of the path, and takes none away.
LEMMA MergeRevs ==
  ASSUME NEW N, Shaped(N), NEW r \in Rev, NEW q \in Anc[r],
         NEW M, M = MergeNodes(N, q, r, Absorbed(N, q, r))
  PROVE  RevsOf(M) = RevsOf(N) \union Between(q, r)
  <1> DEFINE A == Absorbed(N, q, r)
  <1>1. ASSUME NEW m \in M
        PROVE  m[2] \in RevsOf(N) \union Between(q, r)
    <2>1. CASE m \in N
      BY <2>1 DEF RevsOf
    <2>2. CASE m[2] \in Grown(N, q, r, A)
      BY <2>2 DEF Grown, RevsOf
    <2> QED
      BY <2>1, <2>2, MergeMoves
  <1>2. ASSUME NEW s \in Grown(N, q, r, A)
        PROVE  s \in RevsOf(M)
    <2>1. PICK t \in Targets(N, q, A) : <<t, s>> \in M
      BY MergeMoves
    <2> QED
      BY <2>1 DEF RevsOf
  <1>3. ASSUME NEW n \in N
        PROVE  n[2] \in RevsOf(M)
    <2>1. CASE n[1] \notin A
      BY <2>1, MergeMoves DEF RevsOf
    <2>2. CASE n[1] \in A
      BY <2>2, <1>2, MergeMoves
    <2> QED
      BY <2>1, <2>2
  <1>4. Between(q, r) \subseteq RevsOf(M)
    BY <1>2, MergeMoves
  <1>5. RevsOf(M) \subseteq RevsOf(N) \union Between(q, r)
    BY <1>1 DEF RevsOf
  <1>6. RevsOf(N) \subseteq RevsOf(M)
    BY <1>3 DEF RevsOf
  <1> QED
    BY <1>4, <1>5, <1>6

\* The leaves of the merged tree are old leaves and the path's own.
LEMMA MergeLeaves ==
  ASSUME NEW N, Shaped(N), NEW r \in Rev, NEW q \in Anc[r],
         NEW M, M = MergeNodes(N, q, r, Absorbed(N, q, r))
  PROVE  LeafRevs(M) \subseteq LeafRevs(N) \union {r}
  <1> DEFINE A == Absorbed(N, q, r)
             T == Targets(N, q, A)
             G == Grown(N, q, r, A)
  <1> SUFFICES ASSUME NEW m \in LeafNodes(M), m[2] # r
               PROVE  m[2] \in LeafRevs(N)
    BY DEF LeafRevs, RevsOf
  <1>0. m \in M /\ \A x \in M : x[1] = m[1] /\ m[2] \in Anc[x[2]] => x = m
    BY DEF LeafNodes
  <1>1. CASE m \in N /\ m[1] \notin A
    <2>1. m \in LeafNodes(N)
      BY <1>0, <1>1, MergeMoves DEF LeafNodes
    <2> QED
      BY <2>1 DEF LeafRevs, RevsOf
  <1>2. CASE m[1] \in T /\ m[2] \in G
    <2>1. CASE m[2] \in Between(q, r)
      <3>1. <<m[1], r>> \in M
        BY <1>2, MergeMoves, BetweenBasics
      <3>2. m[2] \in Anc[r]
        BY <2>1 DEF Between
      <3> QED
        BY <1>0, <3>1, <3>2
    <2>2. CASE \E a \in A : <<a, m[2]>> \in N
      <3>1. PICK a \in A : <<a, m[2]>> \in N
        BY <2>2
      <3>2. ASSUME NEW x \in N, x[1] = a, m[2] \in Anc[x[2]]
            PROVE  x = <<a, m[2]>>
        <4>1. <<m[1], x[2]>> \in M
          BY <1>2, <3>2, MergeMoves
        <4>2. x[2] = m[2]
          BY <1>0, <3>2, <4>1
        <4> QED
          BY <3>2, <4>2 DEF Shaped
      <3>3. <<a, m[2]>> \in LeafNodes(N)
        BY <3>1, <3>2 DEF LeafNodes
      <3> QED
        BY <3>3 DEF LeafRevs, RevsOf
    <2> QED
      BY <1>2, <2>1, <2>2, GrownBelow
  <1> QED
    BY <1>0, <1>1, <1>2, MergeMoves

\* A revision the tree did not have becomes a leaf.
LEMMA MergeNewLeaf ==
  ASSUME NEW N, Shaped(N), NEW r \in Rev, NEW q \in Anc[r], r \notin RevsOf(N),
         NEW M, M = MergeNodes(N, q, r, Absorbed(N, q, r)),
         NEW m \in M, m[2] = r
  PROVE  m \in LeafNodes(M)
  <1> DEFINE A == Absorbed(N, q, r)
             T == Targets(N, q, A)
             G == Grown(N, q, r, A)
             Off == {p \in A : r \notin Anc[p]}
  <1>1. Shaped(M)
    BY MergeShaped
  <1>2. AbsorbClosed(N, q, r, Off)
    <2> SUFFICES ASSUME NEW p \in Roots(N), Gen[p] > Gen[q],
                        p \in Between(q, r) \/ \E b \in Off : <<b, p>> \in N,
                        r \in Anc[p]
                 PROVE  FALSE
      BY AbsorbedClosed DEF AbsorbClosed
    <2>1. <<p, p>> \in N /\ p \in Rev /\ p # r
      BY DEF Roots, RevsOf
    <2>2. CASE p \in Between(q, r)
      BY <2>1, <2>2, AncAntisym DEF Between
    <2>3. CASE \E b \in Off : <<b, p>> \in N
      <3>1. PICK b \in Off : <<b, p>> \in N
        BY <2>3
      <3>2. b \in Rev /\ b \in Anc[p] /\ Gen[b] \in Nat /\ Gen[r] \in Nat
        BY <3>1, RevAssumption DEF Shaped
      <3>3. CASE Gen[b] <= Gen[r]
        <4>1. r \in Between(b, p)
          BY <2>1, <3>2, <3>3, AncChain DEF Between
        <4>2. <<b, r>> \in N
          BY <3>1, <4>1 DEF Shaped
        <4> QED
          BY <4>2 DEF RevsOf
      <3>4. CASE Gen[r] <= Gen[b]
        <4>1. r \in Anc[b]
          BY <2>1, <3>2, <3>4, AncChain
        <4> QED
          BY <4>1
      <3> QED
        BY <3>2, <3>3, <3>4
    <2> QED
      BY <2>2, <2>3
  <1>3. A \subseteq Off
    <2>1. Off \in SUBSET Roots(N)
      BY DEF Absorbed
    <2> HIDE DEF Off
    <2> QED
      BY <1>2, <2>1, AbsorbedLeast
  <1>4. ASSUME NEW n \in N, r \in Anc[n[2]], n[1] \in Anc[r]
        PROVE  FALSE
    <2>1. r \in Between(n[1], n[2])
      BY <1>4 DEF Between
    <2>2. <<n[1], r>> \in N
      BY <2>1 DEF Shaped
    <2> QED
      BY <2>2 DEF RevsOf
  <1>5. ASSUME NEW x \in M, x[1] = m[1], r \in Anc[x[2]]
        PROVE  x = m
    <2>0. x = <<x[1], x[2]>> /\ m = <<m[1], m[2]>> /\ x[2] \in Rev /\ m[1] \in Anc[r]
      BY <1>1 DEF Shaped
    <2>1. x \notin N
      BY <1>4, <1>5, <2>0
    <2>2. x[1] \in T /\ x[2] \in G
      BY <2>1, MergeMoves
    <2>3. CASE x[2] \in Between(q, r)
      BY <1>5, <2>0, <2>3, AncAntisym DEF Between
    <2>4. CASE \E a \in A : <<a, x[2]>> \in N
      <3>1. PICK a \in A : <<a, x[2]>> \in N
        BY <2>4
      <3>2. a \in Rev /\ a \in Anc[x[2]] /\ Gen[a] \in Nat /\ Gen[r] \in Nat
        BY <3>1, RevAssumption DEF Shaped
      <3>3. r \notin Anc[a]
        BY <1>3
      <3>4. Gen[a] <= Gen[r]
        BY <1>5, <2>0, <3>2, <3>3, AncChain
      <3>5. a \in Anc[r]
        BY <1>5, <2>0, <3>2, <3>4, AncChain
      <3> QED
        BY <1>4, <1>5, <3>1, <3>5
    <2> QED
      BY <2>2, <2>3, <2>4, GrownBelow
  <1> QED
    BY <1>5 DEF LeafNodes

\* A merge keeps the generations bounded.
LEMMA MergeBounded ==
  ASSUME NEW N, Shaped(N), Bounded(N), NEW r \in Rev, NEW q \in Anc[r]
  PROVE  Bounded(MergeNodes(N, q, r, Absorbed(N, q, r)))
  <1> DEFINE M == MergeNodes(N, q, r, Absorbed(N, q, r))
  <1>1. PICK b \in Nat : \A n \in N : Gen[n[2]] <= b
    BY DEF Bounded
  <1>2. Gen[r] \in Nat /\ \A s \in Between(q, r) : Gen[s] \in Nat /\ Gen[s] <= Gen[r]
    BY AncBasics DEF Between
  <1>3. \A s \in RevsOf(N) : Gen[s] \in Nat /\ Gen[s] <= b
    BY <1>1, RevAssumption DEF RevsOf, Shaped
  <1>4. \A m \in M : m[2] \in RevsOf(N) \union Between(q, r)
    BY MergeRevs DEF RevsOf
  <1>5. \A m \in M : Gen[m[2]] <= b + Gen[r]
    BY <1>2, <1>3, <1>4
  <1> QED
    BY <1>2, <1>5 DEF Bounded

----------------------------------------------------------------------------
(* What cutting does to the revisions and the leaves *)

\* Stemming cuts the chain above each leaf, and keeps nothing else.
LEMMA StemMoves ==
  ASSUME NEW t, Shaped(t.nodes), NEW depth \in Nat \ {0},
         NEW M, M = Stem(t, depth).nodes
  PROVE  /\ \A m \in LeafNodes(t.nodes) :
              \A s \in Between(CutAt(m[1], m[2], depth), m[2]) :
                <<CutAt(m[1], m[2], depth), s>> \in M
         /\ \A n \in M : \E m \in LeafNodes(t.nodes) :
              /\ n[1] = CutAt(m[1], m[2], depth)
              /\ n[2] \in Between(n[1], m[2])
         /\ \A n \in Stem(t, depth).avail : \E m \in t.avail : m[2] = n[2]
  <1> DEFINE Chain(n) == [root |-> n[1], leaf |-> n[2], top |-> CutAt(n[1], n[2], depth)]
             C == {Chain(n) : n \in LeafNodes(t.nodes)}
  <1>1. M = ChainNodes(C)
    BY DEF Stem, Rebuild
  <1>2. ASSUME NEW m \in LeafNodes(t.nodes),
               NEW s \in Between(CutAt(m[1], m[2], depth), m[2])
        PROVE  <<CutAt(m[1], m[2], depth), s>> \in M
    <2>1. Chain(m) \in C /\ Chain(m).top = CutAt(m[1], m[2], depth) /\ Chain(m).leaf = m[2]
      OBVIOUS
    <2> HIDE DEF Chain, C
    <2> QED
      BY <1>1, <2>1 DEF ChainNodes
  <1>3. ASSUME NEW n \in M
        PROVE  \E m \in LeafNodes(t.nodes) : /\ n[1] = CutAt(m[1], m[2], depth)
                                             /\ n[2] \in Between(n[1], m[2])
    <2>1. PICK c \in C : n \in {c.top} \X Between(c.top, c.leaf)
      BY <1>1 DEF ChainNodes
    <2>2. PICK m \in LeafNodes(t.nodes) : c = Chain(m)
      BY <2>1
    <2> QED
      BY <2>1, <2>2
  <1>4. ASSUME NEW n \in Stem(t, depth).avail
        PROVE  \E m \in t.avail : m[2] = n[2]
    <2>1. PICK c \in C : n \in {<<c.top, s>> : s \in {x \in Between(c.top, c.leaf) :
                                                        <<c.root, x>> \in t.avail}}
      BY DEF Stem, Rebuild
    <2>2. PICK s : n = <<c.top, s>> /\ <<c.root, s>> \in t.avail
      BY <2>1
    <2> QED
      BY <2>2
  <1> QED
    BY <1>2, <1>3, <1>4

\* Every leaf node stays in the tree, with the newest revisions above it.
LEMMA StemKeepsLeaf ==
  ASSUME NEW t, Shaped(t.nodes), NEW depth \in Nat \ {0},
         NEW m \in LeafNodes(t.nodes), NEW s \in Rev,
         <<m[1], s>> \in t.nodes, s \in Anc[m[2]], Gen[m[2]] - Gen[s] < depth
  PROVE  \E p \in Rev : <<p, s>> \in Stem(t, depth).nodes /\ <<p, m[2]>> \in Stem(t, depth).nodes
  <1> DEFINE p == CutAt(m[1], m[2], depth)
  <1>1. /\ m[2] \in Rev /\ m[1] \in Rev /\ m[1] \in Anc[m[2]] /\ m[1] \in Anc[s]
        /\ Gen[m[1]] \in Nat /\ Gen[m[2]] \in Nat /\ Gen[s] \in Nat
    BY RevAssumption DEF LeafNodes, Shaped
  <1>2. p \in Between(m[1], m[2])
    BY <1>1, CutOnChain
  <1>3. p \in Rev /\ p \in Anc[m[2]] /\ Gen[p] \in Nat
    BY <1>1, <1>2, BetweenBasics, RevAssumption
  <1>4. Gen[p] <= Gen[s]
    <2>1. \E x \in Between(m[1], m[2]) : \/ x = m[1] /\ Gen[m[2]] - Gen[m[1]] < depth
                                         \/ x # m[1] /\ Gen[x] = Gen[m[2]] - depth + 1
      BY <1>1, CutExists
    <2>2. \/ p = m[1] /\ Gen[m[2]] - Gen[m[1]] < depth
          \/ p # m[1] /\ Gen[p] = Gen[m[2]] - depth + 1
      BY <2>1 DEF CutAt
    <2>3. Gen[m[1]] <= Gen[s]
      BY <1>1, AncBasics
    <2> QED
      BY <1>1, <1>3, <2>2, <2>3
  <1>5. p \in Anc[s]
    BY <1>1, <1>3, <1>4, AncChain
  <1>6. s \in Between(p, m[2]) /\ m[2] \in Between(p, m[2])
    BY <1>1, <1>3, <1>5, BetweenBasics DEF Between
  <1>7. <<p, s>> \in Stem(t, depth).nodes /\ <<p, m[2]>> \in Stem(t, depth).nodes
    BY <1>6, StemMoves
  <1> QED
    BY <1>3, <1>7

\* Stemming makes no leaf and keeps every one, and adds no revision.
LEMMA StemLeaves ==
  ASSUME NEW t, Shaped(t.nodes), NEW depth \in Nat \ {0},
         NEW M, M = Stem(t, depth).nodes
  PROVE  /\ LeafRevs(M) \subseteq LeafRevs(t.nodes)
         /\ LeafRevs(t.nodes) \subseteq RevsOf(M)
         /\ RevsOf(M) \subseteq RevsOf(t.nodes)
  <1>1. ASSUME NEW m \in LeafNodes(t.nodes)
        PROVE  <<CutAt(m[1], m[2], depth), m[2]>> \in M
    <2>1. m[2] \in Rev /\ m[1] \in Anc[m[2]]
      BY DEF LeafNodes, Shaped
    <2>2. CutAt(m[1], m[2], depth) \in Anc[m[2]]
      BY <2>1, CutOnChain DEF Between
    <2>3. m[2] \in Between(CutAt(m[1], m[2], depth), m[2])
      BY <2>1, <2>2, BetweenBasics
    <2> QED
      BY <2>3, StemMoves
  <1>2. ASSUME NEW n \in M
        PROVE  /\ n[2] \in RevsOf(t.nodes)
               /\ n \in LeafNodes(M) => n[2] \in LeafRevs(t.nodes)
    <2>1. PICK m \in LeafNodes(t.nodes) : n[1] = CutAt(m[1], m[2], depth)
                                          /\ n[2] \in Between(n[1], m[2])
      BY StemMoves
    <2>2. m \in t.nodes /\ m[2] \in Rev /\ m[1] \in Anc[m[2]] /\ m[1] \in Rev
      BY DEF LeafNodes, Shaped
    <2>3. n[1] \in Between(m[1], m[2])
      BY <2>1, <2>2, CutOnChain
    <2>4. n[2] \in Anc[m[2]] /\ n[2] \in Rev /\ m[1] \in Anc[n[2]]
      BY <2>1, <2>2, <2>3, AncTrans, AncBasics DEF Between
    <2>5. <<m[1], n[2]>> \in t.nodes
      BY <2>2, <2>4 DEF Shaped, Between
    <2>6. ASSUME n \in LeafNodes(M)
          PROVE  n[2] = m[2]
      <3> DEFINE y == <<n[1], m[2]>>
      <3>1. y \in M /\ y[1] = n[1] /\ y[2] = m[2]
        BY <1>1, <2>1
      <3>2. y = n
        BY <2>4, <2>6, <3>1 DEF LeafNodes
      <3> QED
        BY <3>1, <3>2
    <2> QED
      BY <2>5, <2>6 DEF RevsOf, LeafRevs
  <1>3. LeafRevs(M) \subseteq LeafRevs(t.nodes)
    BY <1>2 DEF LeafRevs, RevsOf, LeafNodes
  <1>4. ASSUME NEW m \in LeafNodes(t.nodes)
        PROVE  m[2] \in RevsOf(M)
    <2> DEFINE y == <<CutAt(m[1], m[2], depth), m[2]>>
    <2>1. y \in M /\ y[2] = m[2]
      BY <1>1
    <2> HIDE DEF y
    <2> QED
      BY <2>1 DEF RevsOf
  <1>5. RevsOf(M) \subseteq RevsOf(t.nodes)
    BY <1>2 DEF RevsOf
  <1> QED
    BY <1>3, <1>4, <1>5 DEF LeafRevs, RevsOf

\* A revision that is a leaf under each of its roots stays a leaf.
LEMMA StemSoleLeaf ==
  ASSUME NEW t, Shaped(t.nodes), NEW depth \in Nat \ {0},
         NEW r \in RevsOf(t.nodes), \A n \in t.nodes : n[2] = r => n \in LeafNodes(t.nodes),
         NEW M, M = Stem(t, depth).nodes
  PROVE  r \in LeafRevs(M)
  <1>1. PICK n \in LeafNodes(t.nodes) : n[2] = r
    BY DEF RevsOf
  <1> DEFINE p == CutAt(n[1], r, depth)
  <1>2. r \in Rev /\ p \in Between(n[1], r) /\ p \in Anc[r] /\ p \in Rev
    BY <1>1, CutOnChain, BetweenBasics DEF LeafNodes, Shaped
  <1>3. <<p, r>> \in M
    BY <1>1, <1>2, BetweenBasics, StemMoves
  <1>4. ASSUME NEW x \in M, x[1] = p, r \in Anc[x[2]]
        PROVE  x = <<p, r>>
    <2>1. PICK m \in LeafNodes(t.nodes) : x[1] = CutAt(m[1], m[2], depth)
                                          /\ x[2] \in Between(x[1], m[2])
      BY StemMoves
    <2>2. m \in t.nodes /\ m[2] \in Rev /\ m[1] \in Rev /\ m[1] \in Anc[m[2]]
      BY DEF LeafNodes, Shaped
    <2>3. p \in Between(m[1], m[2])
      BY <1>4, <2>1, <2>2, CutOnChain
    <2>4. x[2] \in Anc[m[2]] /\ x[2] \in Rev /\ m[1] \in Anc[p]
      BY <2>1, <2>2, <2>3, AncBasics DEF Between
    <2>5. r \in Anc[m[2]] /\ m[1] \in Anc[r]
      BY <1>2, <1>4, <2>2, <2>4, AncTrans
    <2>6. <<m[1], r>> \in t.nodes
      BY <2>2, <2>5 DEF Shaped, Between
    <2>7. m[2] = r
      BY <2>2, <2>5, <2>6 DEF LeafNodes
    <2>8. x[2] = r
      BY <1>2, <1>4, <2>4, <2>7, AncAntisym
    <2>9. x = <<x[1], x[2]>>
      BY StemShaped DEF Shaped
    <2> QED
      BY <1>4, <2>8, <2>9
  <1> QED
    BY <1>3, <1>4 DEF LeafRevs, RevsOf, LeafNodes

\* Stemming keeps the generations bounded.
LEMMA StemBounded ==
  ASSUME NEW t, Shaped(t.nodes), Bounded(t.nodes), NEW depth \in Nat \ {0}
  PROVE  Bounded(Stem(t, depth).nodes)
  <1>1. PICK b \in Nat : \A n \in t.nodes : Gen[n[2]] <= b
    BY DEF Bounded
  <1>2. ASSUME NEW n \in Stem(t, depth).nodes
        PROVE  Gen[n[2]] <= b
    <2>1. n[2] \in RevsOf(t.nodes)
      BY StemLeaves DEF RevsOf
    <2> QED
      BY <1>1, <2>1 DEF RevsOf
  <1> QED
    BY <1>2 DEF Bounded

\* A purge makes no leaf, takes those it names, and keeps the other leaves.
LEMMA RemoveLeavesLeaves ==
  ASSUME NEW t, Shaped(t.nodes), t.avail \subseteq t.nodes, NEW R,
         NEW u, u = RemoveLeaves(t, R)
  PROVE  /\ LeafRevs(u.nodes) \subseteq LeafRevs(t.nodes) \ R
         /\ LeafRevs(t.nodes) \ R \subseteq RevsOf(u.nodes)
         /\ u.avail \subseteq t.avail
  <1> DEFINE Chain(n) == [root |-> n[1], leaf |-> n[2], top |-> n[1]]
             C == {Chain(n) : n \in {m \in LeafNodes(t.nodes) : m[2] \notin R}}
  <1>0. CASE LeafRevs(t.nodes) \intersect R = {}
    BY <1>0 DEF RemoveLeaves, LeafRevs, LeafNodes, RevsOf
  <1>1. CASE LeafRevs(t.nodes) \intersect R # {}
    <2>0. u = Rebuild(t, C)
      BY <1>1 DEF RemoveLeaves
    <2>1. ASSUME NEW n \in u.nodes
          PROVE  \E m \in LeafNodes(t.nodes) : /\ m[2] \notin R /\ n[1] = m[1]
                                               /\ n[2] \in Between(m[1], m[2])
      <3>1. PICK c \in C : n \in {c.top} \X Between(c.top, c.leaf)
        BY <2>0 DEF Rebuild, ChainNodes
      <3>2. PICK m \in LeafNodes(t.nodes) : m[2] \notin R /\ c = Chain(m)
        BY <3>1
      <3> QED
        BY <3>1, <3>2
    <2>2. ASSUME NEW m \in LeafNodes(t.nodes), m[2] \notin R
          PROVE  <<m[1], m[2]>> \in u.nodes
      <3>1. Chain(m) \in C /\ Chain(m).top = m[1] /\ Chain(m).leaf = m[2]
        BY <2>2
      <3>2. m[2] \in Between(m[1], m[2])
        BY BetweenBasics DEF LeafNodes, Shaped
      <3> HIDE DEF Chain, C
      <3> QED
        BY <2>0, <3>1, <3>2 DEF Rebuild, ChainNodes
    <2>3. ASSUME NEW n \in LeafNodes(u.nodes)
          PROVE  n[2] \in LeafRevs(t.nodes) \ R
      <3>1. PICK m \in LeafNodes(t.nodes) : /\ m[2] \notin R /\ n[1] = m[1]
                                            /\ n[2] \in Between(m[1], m[2])
        BY <2>1 DEF LeafNodes
      <3> DEFINE y == <<m[1], m[2]>>
      <3>0. y \in u.nodes /\ y[1] = n[1] /\ n[2] \in Anc[y[2]]
        BY <2>2, <3>1 DEF Between
      <3>2. n[2] = m[2]
        BY <3>0 DEF LeafNodes
      <3> QED
        BY <3>1, <3>2 DEF LeafRevs, RevsOf
    <2>4. ASSUME NEW n \in u.avail
          PROVE  n \in t.avail
      <3>1. PICK c \in C : n \in {<<c.top, s>> : s \in {x \in Between(c.top, c.leaf) :
                                                          <<c.root, x>> \in t.avail}}
        <4> HIDE DEF C
        <4>1. n \in Rebuild(t, C).avail
          BY <2>0
        <4> QED
          BY <4>1 DEF Rebuild
      <3>2. c.top = c.root
        OBVIOUS
      <3> QED
        BY <3>1, <3>2
    <2>5. LeafRevs(u.nodes) \subseteq LeafRevs(t.nodes) \ R
      BY <2>3 DEF LeafRevs, RevsOf
    <2>6. ASSUME NEW m \in LeafNodes(t.nodes), m[2] \notin R
          PROVE  m[2] \in RevsOf(u.nodes)
      <3> DEFINE y == <<m[1], m[2]>>
      <3>1. y \in u.nodes /\ y[2] = m[2]
        BY <2>2, <2>6
      <3> HIDE DEF y
      <3> QED
        BY <3>1 DEF RevsOf
    <2> QED
      BY <2>4, <2>5, <2>6 DEF LeafRevs, RevsOf
  <1> QED
    BY <1>0, <1>1

\* What every tree of a document is, at any revision limit.
TreeOk(t) == Shaped(t.nodes) /\ Bounded(t.nodes) /\ t.avail \subseteq t.nodes

\* An empty tree is one.
LEMMA EmptyOk == TreeOk(EmptyTree)
  <1>1. \A n \in EmptyTree.nodes : Gen[n[2]] <= 0
    BY DEF EmptyTree
  <1> QED
    BY <1>1 DEF TreeOk, EmptyTree, Shaped, Bounded

\* A merge makes one of one.
LEMMA MergeOk ==
  ASSUME NEW t, TreeOk(t), NEW r \in Rev, NEW q \in Anc[r]
  PROVE  TreeOk(Merge(t, q, r))
  BY MergeShaped, MergeBounded, MergeAvailNodes DEF TreeOk, Merge

\* A write, whatever the limit, makes one of one.
LEMMA StoreOk ==
  ASSUME NEW t, TreeOk(t), NEW r \in Rev, NEW q \in Anc[r], NEW limit \in Nat
  PROVE  TreeOk(MergeAndStem(t, q, r, limit))
  <1>1. CASE limit = 0
    BY <1>1, MergeOk DEF MergeAndStem
  <1>2. CASE limit # 0
    <2> DEFINE m == Merge(t, q, r)
    <2>1. TreeOk(m)
      BY MergeOk
    <2>2. MergeAndStem(t, q, r, limit) = Stem(m, limit)
      BY <1>2 DEF MergeAndStem
    <2> HIDE DEF m
    <2>3. Stem(m, limit).avail \subseteq Stem(m, limit).nodes
      BY RebuildAvailNodes DEF Stem
    <2> QED
      BY <1>2, <2>1, <2>2, <2>3, StemShaped, StemBounded DEF TreeOk
  <1> QED
    BY <1>1, <1>2

\* So does a purge.
LEMMA RemoveOk ==
  ASSUME NEW t, TreeOk(t), NEW R
  PROVE  TreeOk(RemoveLeaves(t, R))
  <1>1. Shaped(RemoveLeaves(t, R).nodes)
    BY RemoveShaped DEF TreeOk
  <1>2. RemoveLeaves(t, R).nodes \subseteq t.nodes
    BY RemoveShrinks DEF TreeOk
  <1>3. Bounded(RemoveLeaves(t, R).nodes)
    BY <1>2 DEF TreeOk, Bounded
  <1>4. RemoveLeaves(t, R).avail \subseteq RemoveLeaves(t, R).nodes
    BY RebuildAvailNodes DEF RemoveLeaves, TreeOk
  <1> QED
    BY <1>1, <1>3, <1>4 DEF TreeOk

\* What a write does to the revisions, the leaves and the available nodes: it
\* adds those of the path, and what it takes away is what it reports stemmed.
LEMMA StoreEffect ==
  ASSUME NEW t, TreeOk(t), NEW r \in Rev, NEW q \in Anc[r], NEW limit \in Nat,
         NEW u, u = MergeAndStem(t, q, r, limit)
  PROVE  /\ LeafRevs(u.nodes) \subseteq LeafRevs(t.nodes) \union {r}
         /\ RevsOf(u.avail) \subseteq RevsOf(t.avail) \union {r}
         /\ RevsOf(u.nodes) \subseteq RevsOf(t.nodes) \union Between(q, r)
         /\ RevsOf(t.nodes) \union Between(q, r) \subseteq
              RevsOf(u.nodes) \union Stemmed(t, q, r, limit)
         /\ Stemmed(t, q, r, limit) \intersect RevsOf(u.nodes) = {}
         /\ r \in RevsOf(t.nodes) \union LeafRevs(u.nodes)
         /\ \A s \in RevsOf(t.nodes) \union Between(q, r) : \E l \in LeafRevs(u.nodes) : s \in Anc[l]
  <1> DEFINE m == Merge(t, q, r)
             M == MergeNodes(t.nodes, q, r, Absorbed(t.nodes, q, r))
  <1>1. TreeOk(m) /\ m.nodes = M
    BY MergeOk DEF Merge
  <1>2. RevsOf(M) = RevsOf(t.nodes) \union Between(q, r)
    BY MergeRevs DEF TreeOk
  <1>3. LeafRevs(M) \subseteq LeafRevs(t.nodes) \union {r}
    BY MergeLeaves DEF TreeOk
  <1>4. RevsOf(m.avail) \subseteq RevsOf(t.avail) \union {r}
    BY DEF Merge, MergeAvail, RevsOf
  <1>5. r \in RevsOf(t.nodes) \union LeafRevs(M)
    <2> SUFFICES ASSUME r \notin RevsOf(t.nodes)
                 PROVE  r \in LeafRevs(M)
      OBVIOUS
    <2>1. PICK n \in M : n[2] = r
      BY <1>2, BetweenBasics DEF RevsOf
    <2>2. n \in LeafNodes(M)
      BY <2>1, MergeNewLeaf DEF TreeOk
    <2> QED
      BY <2>1, <2>2 DEF LeafRevs, RevsOf
  <1> HIDE DEF M, m
  <1>6. /\ LeafRevs(u.nodes) \subseteq LeafRevs(M)
        /\ LeafRevs(M) \subseteq RevsOf(u.nodes)
        /\ RevsOf(u.nodes) \subseteq RevsOf(M)
        /\ RevsOf(u.avail) \subseteq RevsOf(m.avail)
    <2>1. CASE limit = 0
      <3>1. u = m
        BY <2>1 DEF MergeAndStem, m
      <3> QED
        BY <1>1, <3>1 DEF LeafRevs, LeafNodes, RevsOf
    <2>2. CASE limit # 0
      <3>1. u = Stem(m, limit)
        BY <2>2 DEF MergeAndStem, m
      <3>2. RevsOf(u.avail) \subseteq RevsOf(m.avail)
        BY <1>1, <2>2, <3>1, StemMoves DEF RevsOf, TreeOk
      <3> QED
        BY <1>1, <2>2, <3>1, <3>2, StemLeaves DEF TreeOk
    <2> QED
      BY <2>1, <2>2
  <1>7. TreeOk(u)
    BY StoreOk
  <1>8. Stemmed(t, q, r, limit) = RevsOf(M) \ RevsOf(u.nodes)
    BY DEF Stemmed, M
  <1>9. ASSUME NEW s \in RevsOf(M)
        PROVE  \E l \in LeafRevs(u.nodes) : s \in Anc[l]
    <2>1. PICK n \in M : n[2] = s
      BY DEF RevsOf
    <2>2. PICK x \in LeafNodes(M) : s \in Anc[x[2]]
      BY <1>1, <2>1, LeafBelow DEF TreeOk
    <2>3. PICK y \in u.nodes : y[2] = x[2]
      BY <1>6, <2>2 DEF LeafRevs, RevsOf
    <2>4. PICK z \in LeafNodes(u.nodes) : y[2] \in Anc[z[2]]
      BY <1>7, <2>3, LeafBelow DEF TreeOk
    <2>5. z[2] \in Rev
      BY <1>7 DEF TreeOk, Shaped, LeafNodes
    <2> QED
      BY <2>2, <2>3, <2>4, <2>5, AncTrans DEF LeafRevs, RevsOf
  <1>10. r \in RevsOf(t.nodes) \union LeafRevs(u.nodes)
    <2> SUFFICES ASSUME r \notin RevsOf(t.nodes)
                 PROVE  r \in LeafRevs(u.nodes)
      OBVIOUS
    <2>1. \A n \in M : n[2] = r => n \in LeafNodes(M)
      BY MergeNewLeaf DEF TreeOk, M
    <2>2. r \in RevsOf(M)
      BY <1>2, BetweenBasics
    <2>3. CASE limit = 0
      <3>1. u = m
        BY <2>3 DEF MergeAndStem, m
      <3> QED
        BY <1>1, <2>1, <2>2, <3>1 DEF LeafRevs, RevsOf
    <2>4. CASE limit # 0
      <3>1. u = Stem(m, limit)
        BY <2>4 DEF MergeAndStem, m
      <3> QED
        BY <1>1, <2>1, <2>2, <2>4, <3>1, StemSoleLeaf DEF TreeOk
    <2> QED
      BY <2>3, <2>4
  <1> QED
    BY <1>2, <1>3, <1>4, <1>6, <1>8, <1>9, <1>10

----------------------------------------------------------------------------

\* The values of a database.
DocState == [tree : [nodes : SUBSET (Rev \X Rev), avail : SUBSET (Rev \X Rev)],
             bodies : SUBSET Rev, seq : Nat]

DbType == [docs : [Doc -> DocState], updateSeq : Nat,
           changes : SUBSET [seq : Nat, id : Doc, deleted : BOOLEAN],
           blobs : SUBSET Digest, purgeSeq : Nat, uuid : Nat]

TreesOk(b) == \A d \in Doc : TreeOk(b.docs[d].tree) /\ IsFiniteSet(LeafRevs(Nodes(b, d)))

\* What the feed or revs_info offers has a body.
HasBodies(t, B) == LeafRevs(t.nodes) \union RevsOf(t.avail) \subseteq B

BodiesOk(b) == \A d \in Doc : HasBodies(b.docs[d].tree, b.docs[d].bodies)

\* The sequence of a document is its own.
SeqsOk(b) ==
  /\ \A d \in Doc : IF Exists(b, d) THEN b.docs[d].seq \in 1 .. b.updateSeq
                                    ELSE b.docs[d].seq = 0
  /\ \A c, d \in Doc : Exists(b, c) /\ Exists(b, d) /\ b.docs[c].seq = b.docs[d].seq => c = d

EntryOf(b, d) == [seq |-> b.docs[d].seq, id |-> d, deleted |-> IsDeleted(Nodes(b, d))]

FeedOk(b) == b.changes = {EntryOf(b, d) : d \in {x \in Doc : Exists(b, x)}}

BlobsOk(b) == Referenced(b) \subseteq b.blobs

\* What every operation keeps of a database.
DbOk(b) ==
  b \in DbType /\ TreesOk(b) /\ BodiesOk(b) /\ SeqsOk(b) /\ FeedOk(b) /\ BlobsOk(b)

\* What a feed reader at b still knows at c, a later state of the database.
Follows(b, c) ==
  /\ b.updateSeq <= c.updateSeq
  /\ \A x \in c.changes \ b.changes : x.seq > b.updateSeq
  /\ \A d \in Doc : Exists(c, d) =>
       \/ c.docs[d].seq > b.updateSeq
       \/ c.docs[d].seq = b.docs[d].seq /\ Nodes(c, d) = Nodes(b, d)

\* The fields of a document.
LEMMA DocFields ==
  ASSUME NEW b \in DbType, NEW d \in Doc
  PROVE  /\ b.docs[d] \in DocState
         /\ b.docs[d].bodies \in SUBSET Rev
         /\ b.docs[d].seq \in Nat
         /\ b.docs[d].tree.nodes \in SUBSET (Rev \X Rev)
  BY DEF DbType, DocState

----------------------------------------------------------------------------
(* An empty database *)

LEMMA EmptyDbOk ==
  ASSUME NEW uuid \in Nat
  PROVE  DbOk(EmptyDb(uuid))
  <1> DEFINE b == EmptyDb(uuid)
  <1>1. b \in DbType
    BY DEF EmptyDb, DbType, DocState, NoDoc, EmptyTree
  <1>2. \A d \in Doc : /\ b.docs[d] = [tree |-> EmptyTree, bodies |-> {}, seq |-> 0]
                       /\ ~Exists(b, d) /\ Nodes(b, d) = {}
    BY DEF EmptyDb, NoDoc, EmptyTree, Exists, Nodes
  <1>3. LeafRevs({}) = {} /\ RevsOf({}) = {}
    BY DEF LeafRevs, LeafNodes, RevsOf
  <1>4. TreesOk(b)
    BY <1>2, <1>3, EmptyOk, FS_EmptySet DEF TreesOk
  <1>5. BodiesOk(b)
    BY <1>2, <1>3 DEF BodiesOk, HasBodies, EmptyTree
  <1>6. SeqsOk(b)
    BY <1>2 DEF SeqsOk
  <1>7. FeedOk(b)
    BY <1>2 DEF FeedOk, EmptyDb
  <1>8. BlobsOk(b)
    BY <1>2 DEF BlobsOk, Referenced
  <1> QED
    BY <1>1, <1>4, <1>5, <1>6, <1>7, <1>8 DEF DbOk

----------------------------------------------------------------------------
(* The feed *)

\* The entries that are not d's are those of the other documents.
LEMMA OthersEntries ==
  ASSUME NEW b \in DbType, SeqsOk(b), FeedOk(b), NEW d \in Doc, NEW x \in b.changes
  PROVE  x.seq # b.docs[d].seq <=> \E e \in Doc \ {d} : Exists(b, e) /\ x = EntryOf(b, e)
  <1>1. PICK y \in Doc : Exists(b, y) /\ x = EntryOf(b, y)
    BY DEF FeedOk
  <1>2. x.seq = b.docs[y].seq /\ x.id = y /\ x.seq # 0
    BY <1>1 DEF EntryOf, SeqsOk, DbType
  <1>3. CASE y = d
    BY <1>2, <1>3 DEF EntryOf
  <1>4. CASE y # d
    BY <1>1, <1>2, <1>4 DEF SeqsOk
  <1> QED
    BY <1>3, <1>4

\* A document recorded again, in place of its entry, keeps the feed right.
LEMMA FeedRecords ==
  ASSUME NEW b \in DbType, SeqsOk(b), FeedOk(b), NEW d \in Doc,
         NEW c \in DbType, \A e \in Doc \ {d} : c.docs[e] = b.docs[e],
         Exists(c, d), c.docs[d].seq = b.updateSeq + 1, c.updateSeq = b.updateSeq + 1,
         c.changes = {x \in b.changes : x.seq # b.docs[d].seq} \union {EntryOf(c, d)}
  PROVE  SeqsOk(c) /\ FeedOk(c) /\ Follows(b, c)
  <1>0. b.updateSeq \in Nat
    BY DEF DbType
  <1>1. \A e \in Doc \ {d} : /\ Exists(c, e) <=> Exists(b, e)
                             /\ EntryOf(c, e) = EntryOf(b, e)
                             /\ Nodes(c, e) = Nodes(b, e)
    BY DEF Exists, EntryOf, Nodes
  <1>2. SeqsOk(c)
    BY <1>0, <1>1 DEF SeqsOk
  <1>3. \A x \in b.changes : x.seq # b.docs[d].seq <=> \E e \in Doc \ {d} : Exists(b, e) /\ x = EntryOf(b, e)
    BY OthersEntries
  <1>4. FeedOk(c)
    <2>1. ASSUME NEW x \in c.changes
          PROVE  \E e \in Doc : Exists(c, e) /\ x = EntryOf(c, e)
      BY <1>1, <1>3
    <2>2. ASSUME NEW e \in Doc, Exists(c, e)
          PROVE  EntryOf(c, e) \in c.changes
      <3>1. CASE e = d
        BY <3>1
      <3>2. CASE e # d
        <4>1. EntryOf(b, e) \in b.changes
          BY <1>1, <2>2, <3>2 DEF FeedOk
        <4>2. EntryOf(b, e).seq # b.docs[d].seq
          BY <1>1, <1>3, <2>2, <3>2, <4>1
        <4> QED
          BY <1>1, <3>2, <4>1, <4>2
      <3> QED
        BY <3>1, <3>2
    <2> QED
      BY <2>1, <2>2 DEF FeedOk
  <1>5. Follows(b, c)
    <2>1. EntryOf(c, d).seq = b.updateSeq + 1
      BY DEF EntryOf
    <2> QED
      BY <1>0, <1>1, <2>1 DEF Follows
  <1> QED
    BY <1>2, <1>4, <1>5

\* So does a document taken out with its entry.
LEMMA FeedDrops ==
  ASSUME NEW b \in DbType, SeqsOk(b), FeedOk(b), NEW d \in Doc, Exists(b, d),
         NEW c \in DbType, \A e \in Doc \ {d} : c.docs[e] = b.docs[e],
         ~Exists(c, d), c.docs[d].seq = 0, c.updateSeq = b.updateSeq,
         c.changes = {x \in b.changes : x.seq # b.docs[d].seq}
  PROVE  SeqsOk(c) /\ FeedOk(c) /\ Follows(b, c)
  <1>0. b.updateSeq \in Nat
    BY DEF DbType
  <1>1. \A e \in Doc \ {d} : /\ Exists(c, e) <=> Exists(b, e)
                             /\ EntryOf(c, e) = EntryOf(b, e)
                             /\ Nodes(c, e) = Nodes(b, e)
    BY DEF Exists, EntryOf, Nodes
  <1>2. SeqsOk(c)
    BY <1>0, <1>1 DEF SeqsOk
  <1>3. \A x \in b.changes : x.seq # b.docs[d].seq <=> \E e \in Doc \ {d} : Exists(b, e) /\ x = EntryOf(b, e)
    BY OthersEntries
  <1>4. FeedOk(c)
    <2>1. ASSUME NEW x \in c.changes
          PROVE  \E e \in Doc : Exists(c, e) /\ x = EntryOf(c, e)
      BY <1>1, <1>3
    <2>2. ASSUME NEW e \in Doc, Exists(c, e)
          PROVE  EntryOf(c, e) \in c.changes
      <3>1. EntryOf(b, e) \in b.changes
        BY <1>1, <2>2 DEF FeedOk
      <3>2. EntryOf(b, e).seq # b.docs[d].seq
        BY <1>1, <1>3, <2>2, <3>1
      <3> QED
        BY <1>1, <2>2, <3>1, <3>2
    <2> QED
      BY <2>1, <2>2 DEF FeedOk
  <1>5. Follows(b, c)
    BY <1>0, <1>1 DEF Follows
  <1> QED
    BY <1>2, <1>4, <1>5

\* What a reader knows carries over from step to step.
LEMMA FollowsTrans ==
  ASSUME NEW a \in DbType, NEW b \in DbType, NEW c \in DbType, Follows(a, b), Follows(b, c)
  PROVE  Follows(a, c)
  <1>1. a.updateSeq \in Nat /\ b.updateSeq \in Nat /\ c.updateSeq \in Nat
    BY DEF DbType
  <1>2. a.updateSeq <= c.updateSeq
    BY <1>1 DEF Follows
  <1>3. \A x \in c.changes \ a.changes : x.seq > a.updateSeq
    <2> SUFFICES ASSUME NEW x \in c.changes \ a.changes
                 PROVE  x.seq > a.updateSeq
      OBVIOUS
    <2>1. x.seq \in Nat
      BY DEF DbType
    <2> QED
      BY <1>1, <2>1 DEF Follows
  <1>4. ASSUME NEW d \in Doc, Exists(c, d)
        PROVE  \/ c.docs[d].seq > a.updateSeq
               \/ c.docs[d].seq = a.docs[d].seq /\ Nodes(c, d) = Nodes(a, d)
    <2>1. CASE c.docs[d].seq > b.updateSeq
      <3>1. c.docs[d].seq \in Nat
        BY DocFields
      <3> QED
        BY <1>1, <2>1, <3>1 DEF Follows
    <2>2. CASE c.docs[d].seq = b.docs[d].seq /\ Nodes(c, d) = Nodes(b, d)
      <3>1. Exists(b, d)
        BY <1>4, <2>2 DEF Exists, Nodes
      <3> QED
        BY <2>2, <3>1 DEF Follows
    <2> QED
      BY <1>4, <2>1, <2>2 DEF Follows
  <1> QED
    BY <1>2, <1>3, <1>4 DEF Follows

\* A database follows itself, and one that differs in its blobs only.
LEMMA FollowsSelf ==
  ASSUME NEW b \in DbType, NEW c, c.docs = b.docs, c.changes = b.changes,
         c.updateSeq \in Nat, b.updateSeq <= c.updateSeq
  PROVE  Follows(b, c)
  BY DEF Follows, Nodes

----------------------------------------------------------------------------
(* Writes *)

\* The database c is b with d recorded again: with the tree u, the bodies B, and
\* the attachments U put in the store.
Recorded(b, c, d, u, B, U) ==
  /\ c \in DbType
  /\ c.docs[d].tree = u
  /\ c.docs[d].bodies = B
  /\ c.docs[d].seq = b.updateSeq + 1 /\ c.updateSeq = b.updateSeq + 1
  /\ \A e \in Doc \ {d} : c.docs[e] = b.docs[e]
  /\ c.changes = {x \in b.changes : x.seq # b.docs[d].seq} \union {EntryOf(c, d)}
  /\ c.blobs = b.blobs \union U
  /\ c.uuid = b.uuid

\* That is what a write does.
LEMMA ApplyWriteFields ==
  ASSUME NEW b \in DbType, NEW d \in Doc, NEW r \in Rev, NEW q \in Anc[r],
         NEW U \in SUBSET Digest, NEW limit \in Nat, TreeOk(b.docs[d].tree),
         NEW c, c = ApplyWrite(b, d, q, r, U, limit),
         NEW u, u = MergeAndStem(b.docs[d].tree, q, r, limit)
  PROVE  Recorded(b, c, d, u,
           (b.docs[d].bodies \ Stemmed(b.docs[d].tree, q, r, limit)) \union {r}, U)
  <1> DEFINE B == (b.docs[d].bodies \ Stemmed(b.docs[d].tree, q, r, limit)) \union {r}
             s == b.updateSeq + 1
             new == [tree |-> u, bodies |-> B, seq |-> s]
             entry == [seq |-> s, id |-> d, deleted |-> IsDeleted(u.nodes)]
  <1>1. TreeOk(u)
    BY StoreOk
  <1>2. u \in [nodes : SUBSET (Rev \X Rev), avail : SUBSET (Rev \X Rev)]
    <2>1. u = [nodes |-> u.nodes, avail |-> u.avail]
      BY DEF MergeAndStem, Merge, Stem, Rebuild
    <2> QED
      BY <1>1, <2>1 DEF TreeOk, Shaped
  <1>3. B \in SUBSET Rev /\ s \in Nat
    BY DocFields DEF DbType
  <1>4. new \in DocState
    BY <1>2, <1>3 DEF DocState
  <1>5. entry \in [seq : Nat, id : Doc, deleted : BOOLEAN]
    BY <1>3 DEF IsDeleted
  <1> HIDE DEF new, entry, s
  <1> DEFINE docs == [b.docs EXCEPT ![d] = new]
             changes == {x \in b.changes : x.seq # b.docs[d].seq} \union {entry}
  <1>6. c = [docs |-> docs, updateSeq |-> s, changes |-> changes, blobs |-> b.blobs \union U,
             purgeSeq |-> b.purgeSeq, uuid |-> b.uuid]
    BY DEF ApplyWrite, new, entry, s, DbType
  <1>7. c \in DbType
    <2>1. docs \in [Doc -> DocState]
      BY <1>4 DEF DbType
    <2>2. changes \in SUBSET [seq : Nat, id : Doc, deleted : BOOLEAN]
      BY <1>5 DEF DbType
    <2>3. b.blobs \union U \in SUBSET Digest /\ b.purgeSeq \in Nat /\ b.uuid \in Nat
      BY DEF DbType
    <2> HIDE DEF docs, changes
    <2> QED
      BY <1>3, <1>6, <2>1, <2>2, <2>3 DEF DbType, s
  <1>8. c.docs[d] = new /\ \A e \in Doc \ {d} : c.docs[e] = b.docs[e]
    BY <1>6 DEF DbType
  <1>9. entry = EntryOf(c, d)
    BY <1>8 DEF EntryOf, new, entry, Nodes
  <1>10. c.docs[d].tree = u /\ c.docs[d].bodies = B /\ c.docs[d].seq = s
    <2> HIDE DEF B
    <2> QED
      BY <1>8 DEF new
  <1>11. /\ c.updateSeq = s /\ c.uuid = b.uuid /\ c.blobs = b.blobs \union U
         /\ c.changes = {x \in b.changes : x.seq # b.docs[d].seq} \union {EntryOf(c, d)}
    <2>1. c.updateSeq = s /\ c.uuid = b.uuid /\ c.blobs = b.blobs \union U /\ c.changes = changes
      <3> HIDE DEF docs, changes
      <3> QED
        BY <1>6
    <2> QED
      BY <1>9, <2>1
  <1> QED
    BY <1>7, <1>8, <1>10, <1>11 DEF s, Recorded

\* A document with a revision has a leaf, so it exists when it has one.
LEMMA LeafExists ==
  ASSUME NEW N, Shaped(N), Bounded(N)
  PROVE  /\ N # {} => LeafRevs(N) # {}
         /\ N = {} => LeafRevs(N) = {}
         /\ LeafRevs(N) \subseteq RevsOf(N)
  <1>1. ASSUME NEW n \in N
        PROVE  LeafRevs(N) # {}
    BY LeafBelow DEF LeafRevs, RevsOf
  <1> QED
    BY <1>1 DEF LeafRevs, LeafNodes, RevsOf

\* The database c is b after a write of the revision r of d: no other document
\* changes, and the revisions that leave the tree leave with their bodies.
Wrote(b, c, d, r) ==
  /\ Follows(b, c)
  /\ c.uuid = b.uuid
  /\ Exists(c, d)
  /\ \A e \in Doc \ {d} : c.docs[e] = b.docs[e]
  /\ \A x \in RevsOf(Nodes(b, d)) \ RevsOf(Nodes(c, d)) : x \in c.docs[d].bodies => x = r

\* A write keeps a database in order.
LEMMA ApplyWriteOk ==
  ASSUME NEW b, DbOk(b), NEW d \in Doc, NEW r \in Rev, NEW q \in Anc[r],
         NEW U \in SUBSET Digest, NEW limit \in Nat, Att[r] \subseteq b.blobs \union U,
         NEW c, c = ApplyWrite(b, d, q, r, U, limit)
  PROVE  DbOk(c) /\ Wrote(b, c, d, r)
  <1> SUFFICES ASSUME NEW t, t = b.docs[d].tree,
                      NEW u, u = MergeAndStem(t, q, r, limit),
                      NEW S, S = Stemmed(t, q, r, limit)
               PROVE  DbOk(c) /\ Wrote(b, c, d, r)
    OBVIOUS
  <1>0. b \in DbType /\ TreesOk(b) /\ BodiesOk(b) /\ SeqsOk(b) /\ FeedOk(b) /\ BlobsOk(b)
    BY DEF DbOk
  <1>1. TreeOk(t) /\ IsFiniteSet(LeafRevs(t.nodes))
    BY <1>0 DEF TreesOk, Nodes
  <1>2. /\ c \in DbType
        /\ c.docs[d].tree = u
        /\ c.docs[d].bodies = (b.docs[d].bodies \ S) \union {r}
        /\ c.docs[d].seq = b.updateSeq + 1 /\ c.updateSeq = b.updateSeq + 1
        /\ \A e \in Doc \ {d} : c.docs[e] = b.docs[e]
        /\ c.changes = {x \in b.changes : x.seq # b.docs[d].seq} \union {EntryOf(c, d)}
        /\ c.blobs = b.blobs \union U
        /\ c.uuid = b.uuid
    <2>1. Recorded(b, c, d, u, (b.docs[d].bodies \ S) \union {r}, U)
      BY <1>0, <1>1, ApplyWriteFields
    <2> QED
      BY <2>1 DEF Recorded
  <1>3. /\ LeafRevs(u.nodes) \subseteq LeafRevs(t.nodes) \union {r}
        /\ RevsOf(u.avail) \subseteq RevsOf(t.avail) \union {r}
        /\ RevsOf(t.nodes) \union Between(q, r) \subseteq RevsOf(u.nodes) \union S
        /\ S \intersect RevsOf(u.nodes) = {}
        /\ \A s \in RevsOf(t.nodes) \union Between(q, r) : \E l \in LeafRevs(u.nodes) : s \in Anc[l]
    <2>1. LeafRevs(u.nodes) \subseteq LeafRevs(t.nodes) \union {r}
      BY SMTT(30), <1>1, StoreEffect
    <2>2. RevsOf(u.avail) \subseteq RevsOf(t.avail) \union {r}
      BY <1>1, StoreEffect
    <2>3. RevsOf(t.nodes) \union Between(q, r) \subseteq RevsOf(u.nodes) \union S
      BY <1>1, StoreEffect
    <2>4. S \intersect RevsOf(u.nodes) = {}
      BY <1>1, StoreEffect
    <2>5. \A s \in RevsOf(t.nodes) \union Between(q, r) : \E l \in LeafRevs(u.nodes) : s \in Anc[l]
      BY <1>1, StoreEffect
    <2> QED
      BY <2>1, <2>2, <2>3, <2>4, <2>5
  <1>4. TreeOk(u)
    BY <1>1, StoreOk
  <1>5. LeafRevs(u.nodes) \subseteq RevsOf(u.nodes) /\ RevsOf(u.avail) \subseteq RevsOf(u.nodes)
    BY <1>4, LeafExists DEF TreeOk, RevsOf
  <1>6. HasBodies(c.docs[d].tree, c.docs[d].bodies)
    <2>1. LeafRevs(t.nodes) \union RevsOf(t.avail) \subseteq b.docs[d].bodies
      BY <1>0 DEF BodiesOk, HasBodies
    <2> QED
      BY <1>2, <1>3, <1>5, <2>1 DEF HasBodies
  <1>7. BodiesOk(c)
    BY <1>0, <1>2, <1>6 DEF BodiesOk
  <1>8. TreesOk(c)
    <2>1. IsFiniteSet(LeafRevs(t.nodes) \union {r})
      BY <1>1, FS_AddElement
    <2>2. IsFiniteSet(LeafRevs(u.nodes))
      BY <1>3, <2>1, FS_Subset
    <2> QED
      BY <1>0, <1>2, <1>4, <2>2 DEF TreesOk, Nodes
  <1>9. Exists(c, d)
    <2>1. r \in Between(q, r)
      BY BetweenBasics
    <2>2. LeafRevs(u.nodes) # {}
      BY <1>3, <2>1
    <2>3. u.nodes # {}
      BY <1>4, <2>2, LeafExists DEF TreeOk
    <2> QED
      BY <1>2, <2>3 DEF Exists
  <1>10. SeqsOk(c) /\ FeedOk(c) /\ Follows(b, c)
    BY <1>0, <1>2, <1>9, FeedRecords
  <1>11. BlobsOk(c)
    <2>1. Referenced(c) \subseteq Referenced(b) \union Att[r]
      BY <1>2 DEF Referenced
    <2> QED
      BY <1>0, <1>2, <2>1 DEF BlobsOk
  <1>12. \A x \in RevsOf(Nodes(b, d)) \ RevsOf(Nodes(c, d)) : x \in c.docs[d].bodies => x = r
    BY <1>2, <1>3 DEF Nodes
  <1> QED
    BY <1>2, <1>7, <1>8, <1>9, <1>10, <1>11, <1>12 DEF DbOk, Wrote

\* The parent of a revision is the one above it.
LEMMA ParentBasics ==
  ASSUME NEW r \in Rev, Gen[r] > 1
  PROVE  /\ Parent(r) \in Anc[r] /\ Parent(r) \in Rev
         /\ Gen[Parent(r)] = Gen[r] - 1
         /\ Between(Parent(r), r) = {Parent(r), r}
  <1> DEFINE p == Parent(r)
  <1>1. p \in Anc[r] /\ Gen[p] = Gen[r] - 1
    <2>1. Gen[r] - 1 \in 1 .. Gen[r]
      BY RevAssumption
    <2>2. \E s \in Anc[r] : Gen[s] = Gen[r] - 1
      BY <2>1, RevAssumption
    <2> QED
      BY <2>2 DEF Parent
  <1>2. p \in Rev
    BY <1>1, AncBasics
  <1>3. ASSUME NEW s \in Between(p, r)
        PROVE  s \in {p, r}
    <2>1. s \in Rev /\ s \in Anc[r] /\ p \in Anc[s]
      BY <1>1, BetweenBasics
    <2>2. CASE s # r /\ s # p
      <3>1. Gen[s] < Gen[r] /\ Gen[p] < Gen[s]
        BY <2>1, <2>2, AncOlder
      <3> QED
        BY <1>1, <1>2, <2>1, <3>1, RevAssumption
    <2> QED
      BY <2>2
  <1>4. {p, r} \subseteq Between(p, r)
    BY <1>1, BetweenBasics
  <1> QED
    BY <1>1, <1>2, <1>3, <1>4

\* The path of an edit ends at it.
LEMMA EditPath ==
  ASSUME NEW r \in Rev
  PROVE  EditStart(r) \in Anc[r]
  BY ParentBasics, RevAssumption, AncBasics DEF EditStart

\* An edit is a write whose attachments the store has or gets.
LEMMA EditOk ==
  ASSUME NEW b, DbOk(b), NEW d \in Doc, NEW r \in Rev, NEW U \in SUBSET Att[r], NEW limit \in Nat,
         EditAttachmentsOk(b, d, r, U), NEW c, c = NewEdit(b, d, r, U, limit)
  PROVE  DbOk(c) /\ Wrote(b, c, d, r)
  <1>1. U \in SUBSET Digest
    BY AttAssumption
  <1>2. c = ApplyWrite(b, d, EditStart(r), r, U, limit)
    BY DEF NewEdit
  <1>3. Att[r] \subseteq b.blobs \union U
    <2>1. Kept(b, d, r) \subseteq Referenced(b)
      <3>1. CASE Gen[r] > 1 /\ Parent(r) \in b.docs[d].bodies
        BY <3>1 DEF Kept, Referenced
      <3> QED
        BY <3>1 DEF Kept
    <2> QED
      BY <2>1 DEF EditAttachmentsOk, DbOk, BlobsOk
  <1>4. EditStart(r) \in Anc[r]
    BY EditPath
  <1> QED
    BY <1>1, <1>2, <1>3, <1>4, ApplyWriteOk

\* A replicated write is one too, when it is not ignored.
LEMMA ReplicateOk ==
  ASSUME NEW b, DbOk(b), NEW d \in Doc, NEW r \in Rev, NEW q \in Anc[r], NEW U \in SUBSET Att[r],
         NEW limit \in Nat, NEW c, c = ReplicatedEdit(b, d, q, r, U, limit)
  PROVE  c = b \/ (DbOk(c) /\ Wrote(b, c, d, r))
  <1>1. U \in SUBSET Digest
    BY AttAssumption
  <1>2. CASE c # b
    <2>1. c = ApplyWrite(b, d, q, r, U, limit) /\ StubsPresent(b, r, U)
      BY <1>2 DEF ReplicatedEdit
    <2>2. Att[r] \subseteq b.blobs \union U
      BY <2>1 DEF StubsPresent
    <2> QED
      BY <1>1, <2>1, <2>2, ApplyWriteOk
  <1> QED
    BY <1>2

----------------------------------------------------------------------------
(* Purging *)

\* The database c is b without d.
Dropped(b, c, d) ==
  /\ c \in DbType
  /\ c.docs[d] = NoDoc /\ c.updateSeq = b.updateSeq
  /\ \A e \in Doc \ {d} : c.docs[e] = b.docs[e]
  /\ c.changes = {x \in b.changes : x.seq # b.docs[d].seq}
  /\ c.blobs = b.blobs
  /\ c.uuid = b.uuid

\* What a purge leaves of a database: no body is new, and the bodies of the
\* revisions that went are gone.
Purged(b, c) ==
  /\ Follows(b, c)
  /\ c.uuid = b.uuid
  /\ \A d \in Doc :
       /\ c.docs[d].bodies \subseteq b.docs[d].bodies
       /\ \A x \in RevsOf(Nodes(b, d)) \ RevsOf(Nodes(c, d)) : x \notin c.docs[d].bodies

\* One document of a purge is left alone, dropped or recorded again.
LEMMA PurgeDocFields ==
  ASSUME NEW b \in DbType, NEW d \in Doc, NEW R, TreeOk(b.docs[d].tree),
         NEW c, c = PurgeDoc(b, d, R),
         NEW u, u = RemoveLeaves(b.docs[d].tree, R)
  PROVE  \/ c = b
         \/ LeafRevs(Nodes(b, d)) # {} /\ u.nodes = {} /\ Dropped(b, c, d)
         \/ /\ u.nodes # {}
            /\ Recorded(b, c, d, u, b.docs[d].bodies \intersect RevsOf(u.nodes), {})
  <1> DEFINE B == b.docs[d].bodies \intersect RevsOf(u.nodes)
             s == b.updateSeq + 1
             new == [tree |-> u, bodies |-> B, seq |-> s]
             entry == [seq |-> s, id |-> d, deleted |-> IsDeleted(u.nodes)]
             rest == {x \in b.changes : x.seq # b.docs[d].seq}
             changes == rest \union {entry}
             docs == [b.docs EXCEPT ![d] = new]
             fewer == [b.docs EXCEPT ![d] = NoDoc]
  <1>1. CASE LeafRevs(Nodes(b, d)) \intersect R = {}
    BY <1>1 DEF PurgeDoc, Nodes
  <1>2. CASE LeafRevs(Nodes(b, d)) \intersect R # {} /\ u.nodes = {}
    <2>1. c = [docs |-> fewer, updateSeq |-> b.updateSeq, changes |-> rest, blobs |-> b.blobs,
               purgeSeq |-> b.purgeSeq, uuid |-> b.uuid]
      BY <1>2 DEF PurgeDoc, DbType, Nodes
    <2>2. NoDoc \in DocState
      BY DEF NoDoc, DocState, EmptyTree
    <2>3. fewer \in [Doc -> DocState] /\ rest \in SUBSET [seq : Nat, id : Doc, deleted : BOOLEAN]
      BY <2>2 DEF DbType
    <2>4. fewer[d] = NoDoc /\ \A e \in Doc \ {d} : fewer[e] = b.docs[e]
      BY DEF DbType
    <2>5. /\ b.updateSeq \in Nat /\ b.blobs \in SUBSET Digest
          /\ b.purgeSeq \in Nat /\ b.uuid \in Nat
      BY DEF DbType
    <2> HIDE DEF fewer, rest
    <2>6. c \in DbType
      BY <2>1, <2>3, <2>5 DEF DbType
    <2>7. c.docs = fewer /\ c.changes = rest /\ c.updateSeq = b.updateSeq
      BY <2>1
    <2>8. c.blobs = b.blobs /\ c.uuid = b.uuid
      BY <2>1
    <2> QED
      BY <1>2, <2>4, <2>6, <2>7, <2>8 DEF Dropped, rest
  <1>3. CASE LeafRevs(Nodes(b, d)) \intersect R # {} /\ u.nodes # {}
    <2>0. TreeOk(u)
      BY RemoveOk
    <2>1. u \in [nodes : SUBSET (Rev \X Rev), avail : SUBSET (Rev \X Rev)]
      <3>1. u = [nodes |-> u.nodes, avail |-> u.avail]
        BY <1>3 DEF RemoveLeaves, Rebuild, Nodes
      <3> QED
        BY <2>0, <3>1 DEF TreeOk, Shaped
    <2>2. B \in SUBSET Rev /\ s \in Nat
      BY DocFields DEF DbType
    <2>3. new \in DocState
      BY <2>1, <2>2 DEF DocState
    <2>4. entry \in [seq : Nat, id : Doc, deleted : BOOLEAN]
      BY <2>2 DEF IsDeleted
    <2> HIDE DEF new, entry, s
    <2>5. c = [docs |-> docs, updateSeq |-> s, changes |-> changes, blobs |-> b.blobs,
               purgeSeq |-> b.purgeSeq, uuid |-> b.uuid]
      BY <1>3 DEF PurgeDoc, DbType, Nodes, new, entry, s
    <2>6. docs \in [Doc -> DocState]
      BY <2>3 DEF DbType
    <2>7. changes \in SUBSET [seq : Nat, id : Doc, deleted : BOOLEAN]
      BY <2>4 DEF DbType
    <2>8. docs[d] = new /\ \A e \in Doc \ {d} : docs[e] = b.docs[e]
      BY DEF DbType
    <2>9. b.blobs \in SUBSET Digest /\ b.purgeSeq \in Nat /\ b.uuid \in Nat
      BY DEF DbType
    <2>10. entry = [seq |-> new.seq, id |-> d, deleted |-> IsDeleted(new.tree.nodes)]
      BY DEF entry, new
    <2> HIDE DEF docs
    <2>11. c.docs = docs
      <3> HIDE DEF changes
      <3> QED
        BY <2>5
    <2>12. changes = rest \union {EntryOf(c, d)}
      BY <2>8, <2>10, <2>11 DEF EntryOf, Nodes
    <2> HIDE DEF changes
    <2>13. c.changes = changes /\ c.updateSeq = s /\ c.blobs = b.blobs /\ c.uuid = b.uuid
      BY <2>5
    <2>14. c \in DbType
      BY <2>2, <2>5, <2>6, <2>7, <2>9 DEF DbType
    <2> HIDE DEF B, rest
    <2>15. new.tree = u /\ new.seq = s /\ new.bodies = B
      BY DEF new
    <2>16. Recorded(b, c, d, u, B, {})
      BY <2>8, <2>11, <2>12, <2>13, <2>14, <2>15 DEF Recorded, s, rest
    <2> QED
      BY <1>3, <2>16 DEF B
  <1> QED
    BY <1>1, <1>2, <1>3 DEF Nodes

\* A document of a purge keeps a database in order.
LEMMA PurgeDocOk ==
  ASSUME NEW b, DbOk(b), NEW d \in Doc, NEW R, NEW c, c = PurgeDoc(b, d, R)
  PROVE  DbOk(c) /\ Purged(b, c)
  <1> SUFFICES ASSUME NEW t, t = b.docs[d].tree, NEW u, u = RemoveLeaves(t, R)
               PROVE  DbOk(c) /\ Purged(b, c)
    OBVIOUS
  <1>0. b \in DbType /\ TreesOk(b) /\ BodiesOk(b) /\ SeqsOk(b) /\ FeedOk(b) /\ BlobsOk(b)
    BY DEF DbOk
  <1>1. TreeOk(t) /\ IsFiniteSet(LeafRevs(t.nodes))
    BY <1>0 DEF TreesOk, Nodes
  <1>2. \/ c = b
        \/ LeafRevs(Nodes(b, d)) # {} /\ u.nodes = {} /\ Dropped(b, c, d)
        \/ u.nodes # {} /\ Recorded(b, c, d, u, b.docs[d].bodies \intersect RevsOf(u.nodes), {})
    BY <1>0, <1>1, PurgeDocFields
  <1>3. CASE c = b
    <2>1. b.updateSeq \in Nat
      BY <1>0 DEF DbType
    <2>2. Follows(b, b)
      BY <1>0, <2>1, FollowsSelf
    <2> QED
      BY <1>3, <2>2 DEF Purged
  <1>4. CASE LeafRevs(Nodes(b, d)) # {} /\ u.nodes = {} /\ Dropped(b, c, d)
    <2>1. /\ c \in DbType
          /\ c.docs[d] = NoDoc /\ c.updateSeq = b.updateSeq
          /\ \A e \in Doc \ {d} : c.docs[e] = b.docs[e]
          /\ c.changes = {x \in b.changes : x.seq # b.docs[d].seq}
          /\ c.blobs = b.blobs /\ c.uuid = b.uuid
      BY <1>4 DEF Dropped
    <2>2. /\ c.docs[d].tree = EmptyTree /\ c.docs[d].bodies = {} /\ c.docs[d].seq = 0
          /\ Nodes(c, d) = {}
      BY <2>1 DEF NoDoc, EmptyTree, Nodes
    <2>3. Exists(b, d) /\ ~Exists(c, d)
      BY <1>1, <1>4, <2>2, LeafExists DEF Exists, Nodes, TreeOk
    <2>4. SeqsOk(c) /\ FeedOk(c) /\ Follows(b, c)
      BY <1>0, <2>1, <2>2, <2>3, FeedDrops
    <2>5. LeafRevs({}) = {} /\ RevsOf({}) = {}
      BY DEF LeafRevs, LeafNodes, RevsOf
    <2>6. TreesOk(c)
      BY <1>0, <2>1, <2>2, <2>5, EmptyOk, FS_EmptySet DEF TreesOk, Nodes
    <2>7. BodiesOk(c)
      <3>1. c.docs[d].tree.nodes = {} /\ c.docs[d].tree.avail = {}
        BY <2>2 DEF EmptyTree
      <3>2. HasBodies(c.docs[d].tree, c.docs[d].bodies)
        BY <2>5, <3>1 DEF HasBodies
      <3> QED
        BY <1>0, <2>1, <3>2 DEF BodiesOk
    <2>8. Referenced(c) \subseteq Referenced(b)
      BY <2>1, <2>2 DEF Referenced
    <2>9. Purged(b, c)
      BY <2>1, <2>2, <2>4 DEF Purged, Nodes
    <2> QED
      BY <1>0, <2>1, <2>4, <2>6, <2>7, <2>8, <2>9 DEF DbOk, BlobsOk
  <1>5. CASE u.nodes # {} /\ Recorded(b, c, d, u, b.docs[d].bodies \intersect RevsOf(u.nodes), {})
    <2>1. /\ c \in DbType
          /\ c.docs[d].tree = u
          /\ c.docs[d].bodies = b.docs[d].bodies \intersect RevsOf(u.nodes)
          /\ c.docs[d].seq = b.updateSeq + 1 /\ c.updateSeq = b.updateSeq + 1
          /\ \A e \in Doc \ {d} : c.docs[e] = b.docs[e]
          /\ c.changes = {x \in b.changes : x.seq # b.docs[d].seq} \union {EntryOf(c, d)}
          /\ c.blobs = b.blobs /\ c.uuid = b.uuid
      BY <1>5 DEF Recorded
    <2>2. Exists(c, d)
      BY <1>5, <2>1 DEF Exists
    <2>3. SeqsOk(c) /\ FeedOk(c) /\ Follows(b, c)
      BY <1>0, <2>1, <2>2, FeedRecords
    <2>4. LeafRevs(u.nodes) \subseteq LeafRevs(t.nodes) /\ u.avail \subseteq t.avail
      <3>1. Shaped(t.nodes) /\ t.avail \subseteq t.nodes
        BY <1>1 DEF TreeOk
      <3>2. \A l \in LeafRevs(u.nodes) : l \in LeafRevs(t.nodes)
        BY ZenonT(40), <3>1, RemoveLeavesLeaves
      <3>3. u.avail \subseteq t.avail
        BY <3>1, RemoveLeavesLeaves
      <3> QED
        BY <3>2, <3>3
    <2>5. TreeOk(u)
      BY <1>1, RemoveOk
    <2>6. TreesOk(c)
      <3>1. IsFiniteSet(LeafRevs(u.nodes))
        BY <1>1, <2>4, FS_Subset
      <3> QED
        BY <1>0, <2>1, <2>5, <3>1 DEF TreesOk, Nodes
    <2>7. LeafRevs(u.nodes) \subseteq RevsOf(u.nodes) /\ RevsOf(u.avail) \subseteq RevsOf(u.nodes)
      BY <2>5, LeafExists DEF TreeOk, RevsOf
    <2>8. BodiesOk(c)
      <3>1. LeafRevs(t.nodes) \union RevsOf(t.avail) \subseteq b.docs[d].bodies
        BY <1>0 DEF BodiesOk, HasBodies
      <3>2. RevsOf(u.avail) \subseteq RevsOf(t.avail)
        BY <2>4 DEF RevsOf
      <3>3. HasBodies(c.docs[d].tree, c.docs[d].bodies)
        BY <2>1, <2>4, <2>7, <3>1, <3>2 DEF HasBodies
      <3> QED
        BY <1>0, <2>1, <3>3 DEF BodiesOk
    <2>9. Referenced(c) \subseteq Referenced(b)
      BY <2>1 DEF Referenced
    <2>10. Purged(b, c)
      BY <2>1, <2>3 DEF Purged, Nodes
    <2> QED
      BY <1>0, <2>1, <2>3, <2>6, <2>8, <2>9, <2>10 DEF DbOk, BlobsOk
  <1> QED
    BY <1>2, <1>3, <1>4, <1>5

\* The purges of one request make one purge.
LEMMA PurgedTrans ==
  ASSUME NEW a, DbOk(a), NEW b, DbOk(b), NEW c, DbOk(c), Purged(a, b), Purged(b, c)
  PROVE  Purged(a, c)
  <1>1. Follows(a, c)
    BY FollowsTrans DEF DbOk, Purged
  <1>2. ASSUME NEW d \in Doc
        PROVE  /\ c.docs[d].bodies \subseteq a.docs[d].bodies
               /\ \A x \in RevsOf(Nodes(a, d)) \ RevsOf(Nodes(c, d)) : x \notin c.docs[d].bodies
    BY DEF Purged
  <1> QED
    BY <1>1, <1>2 DEF Purged

LEMMA PurgedSelf ==
  ASSUME NEW b, DbOk(b)
  PROVE  Purged(b, b)
  <1>1. b \in DbType /\ b.updateSeq \in Nat
    BY DEF DbOk, DbType
  <1> QED
    BY <1>1, FollowsSelf DEF Purged

----------------------------------------------------------------------------
(* Compacting and collecting attachments *)

\* The database c is b with the documents D, after collecting attachments.
Collected(b, c, D) ==
  /\ c \in DbType
  /\ c.docs = D /\ c.changes = b.changes /\ c.uuid = b.uuid
  /\ c.updateSeq \in Nat /\ b.updateSeq <= c.updateSeq
  /\ c.blobs = b.blobs \intersect Referenced(c)

\* Collecting what nothing refers to keeps a database in order, when its
\* documents keep their trees and sequences and lose bodies of inner revisions.
LEMMA CollectedOk ==
  ASSUME NEW b, DbOk(b), NEW D, NEW c, Collected(b, c, D), BodiesOk(c),
         \A d \in Doc : /\ D[d].tree.nodes = b.docs[d].tree.nodes
                        /\ D[d].tree.avail \subseteq b.docs[d].tree.avail
                        /\ D[d].bodies \subseteq b.docs[d].bodies
                        /\ D[d].seq = b.docs[d].seq
  PROVE  DbOk(c) /\ Purged(b, c)
  <1>0. b \in DbType /\ TreesOk(b) /\ BodiesOk(b) /\ SeqsOk(b) /\ FeedOk(b) /\ BlobsOk(b)
    BY DEF DbOk
  <1>1. /\ c \in DbType
        /\ c.docs = D /\ c.changes = b.changes /\ c.uuid = b.uuid
        /\ c.updateSeq \in Nat /\ b.updateSeq <= c.updateSeq
        /\ c.blobs = b.blobs \intersect Referenced(c)
    BY DEF Collected
  <1>2. \A d \in Doc : /\ Nodes(c, d) = Nodes(b, d)
                       /\ Exists(c, d) <=> Exists(b, d)
                       /\ EntryOf(c, d) = EntryOf(b, d)
                       /\ c.docs[d].seq = b.docs[d].seq
    BY <1>1 DEF Nodes, Exists, EntryOf
  <1>3. TreesOk(c)
    BY <1>0, <1>1, <1>2 DEF TreesOk, TreeOk, Nodes
  <1>4. SeqsOk(c)
    <2>1. b.updateSeq \in Nat
      BY <1>0 DEF DbType
    <2> QED
      BY <1>0, <1>1, <1>2, <2>1 DEF SeqsOk
  <1>5. FeedOk(c)
    BY <1>0, <1>1, <1>2 DEF FeedOk
  <1>6. BlobsOk(c)
    <2>1. Referenced(c) \subseteq Referenced(b)
      BY <1>1 DEF Referenced
    <2> QED
      BY <1>0, <1>1, <2>1 DEF BlobsOk
  <1>7. Follows(b, c)
    BY <1>1, <1>2 DEF Follows
  <1>8. Purged(b, c)
    BY <1>1, <1>2, <1>7 DEF Purged
  <1> QED
    BY <1>1, <1>3, <1>4, <1>5, <1>6, <1>8 DEF DbOk

\* The fields of a database after its blobs are collected.
LEMMA CollectFields ==
  ASSUME NEW b \in DbType, NEW D \in [Doc -> DocState], NEW s \in Nat, b.updateSeq <= s,
         NEW n \in Nat,
         NEW c, c = CollectBlobs([docs |-> D, updateSeq |-> s, changes |-> b.changes,
                                  blobs |-> b.blobs, purgeSeq |-> n, uuid |-> b.uuid])
  PROVE  Collected(b, c, D)
  <1> DEFINE e == [docs |-> D, updateSeq |-> s, changes |-> b.changes,
                   blobs |-> b.blobs, purgeSeq |-> n, uuid |-> b.uuid]
  <1>1. c = [e EXCEPT !.blobs = @ \intersect Referenced(e)]
    BY DEF CollectBlobs
  <1>2. c = [docs |-> D, updateSeq |-> s, changes |-> b.changes,
             blobs |-> b.blobs \intersect Referenced(e), purgeSeq |-> n, uuid |-> b.uuid]
    BY <1>1
  <1>3. /\ b.changes \in SUBSET [seq : Nat, id : Doc, deleted : BOOLEAN]
        /\ b.blobs \in SUBSET Digest /\ b.uuid \in Nat
    BY DEF DbType
  <1>4. Referenced(e) = Referenced(c)
    BY <1>2 DEF Referenced
  <1> HIDE DEF e
  <1>5. c \in DbType
    BY <1>2, <1>3 DEF DbType
  <1>6. c.docs = D /\ c.updateSeq = s /\ c.changes = b.changes /\ c.uuid = b.uuid
    BY <1>2
  <1>7. c.blobs = b.blobs \intersect Referenced(e)
    BY <1>2
  <1> QED
    BY <1>4, <1>5, <1>6, <1>7 DEF Collected

\* The document u is o without the bodies that are not in X.
Compacted(o, u, X) ==
  /\ u \in DocState
  /\ u.tree.nodes = o.tree.nodes
  /\ u.tree.avail = o.tree.avail \intersect LeafNodes(o.tree.nodes)
  /\ u.bodies = o.bodies \intersect X
  /\ u.seq = o.seq

\* What compaction does to a document.
LEMMA CompactDoc ==
  ASSUME NEW o \in DocState, NEW X,
         NEW u, u = [o EXCEPT !.bodies = @ \intersect X, !.tree = MarkNonLeavesMissing(@)]
  PROVE  Compacted(o, u, X)
  <1> SUFFICES ASSUME NEW N, N = o.tree.nodes, NEW A, A = o.tree.avail,
                      NEW B, B = o.bodies, NEW s, s = o.seq
               PROVE  /\ u \in DocState
                      /\ u.tree.nodes = N
                      /\ u.tree.avail = A \intersect LeafNodes(N)
                      /\ u.bodies = B \intersect X
                      /\ u.seq = s
    BY DEF Compacted
  <1>1. o = [tree |-> [nodes |-> N, avail |-> A], bodies |-> B, seq |-> s]
    BY DEF DocState
  <1>2. /\ N \in SUBSET (Rev \X Rev) /\ A \in SUBSET (Rev \X Rev)
        /\ B \in SUBSET Rev /\ s \in Nat
    BY DEF DocState
  <1> DEFINE t == [nodes |-> N, avail |-> A]
             v == [nodes |-> N, avail |-> A \intersect LeafNodes(N)]
             w == [tree |-> v, bodies |-> B \intersect X, seq |-> s]
  <1>3. MarkNonLeavesMissing(t) = v
    <2>1. t.nodes = N /\ t.avail = A
      OBVIOUS
    <2>2. MarkNonLeavesMissing(t) = [t EXCEPT !.avail = A \intersect LeafNodes(N)]
      <3> HIDE DEF t
      <3> QED
        BY <2>1 DEF MarkNonLeavesMissing
    <2>3. \A I : [t EXCEPT !.avail = I] = [nodes |-> N, avail |-> I]
      OBVIOUS
    <2> HIDE DEF t
    <2> QED
      BY <2>2, <2>3
  <1>4. u = w
    <2>1. o.bodies = B /\ o.tree = t
      BY <1>1
    <2>2. u = [o EXCEPT !.bodies = B \intersect X, !.tree = v]
      <3> HIDE DEF v, t
      <3> QED
        BY <1>3, <2>1
    <2> HIDE DEF v, t
    <2>3. ASSUME NEW I, NEW V, u = [o EXCEPT !.bodies = I, !.tree = V]
          PROVE  u = [tree |-> V, bodies |-> I, seq |-> s]
      BY <1>1, <2>3
    <2> QED
      BY <2>2, <2>3
  <1>5. v.nodes = N /\ v.avail = A \intersect LeafNodes(N)
    OBVIOUS
  <1>6. v \in [nodes : SUBSET (Rev \X Rev), avail : SUBSET (Rev \X Rev)]
    BY <1>2
  <1> HIDE DEF v
  <1>7. w.tree = v /\ w.bodies = B \intersect X /\ w.seq = s
    OBVIOUS
  <1>8. w \in DocState
    BY <1>2, <1>6 DEF DocState
  <1> HIDE DEF w
  <1> QED
    BY <1>4, <1>5, <1>7, <1>8

\* Compaction keeps a database in order.
LEMMA CompactOk ==
  ASSUME NEW b, DbOk(b), NEW c, c = Compact(b)
  PROVE  DbOk(c) /\ Purged(b, c)
  <1> DEFINE new(d) == [b.docs[d] EXCEPT !.bodies = @ \intersect LeafRevs(Nodes(b, d)),
                                         !.tree = MarkNonLeavesMissing(@)]
             D == [d \in Doc |-> new(d)]
  <1>0. b \in DbType /\ BodiesOk(b) /\ \A d \in Doc : b.docs[d] \in DocState
    BY DEF DbOk, DbType
  <1>1. \A d \in Doc : Compacted(b.docs[d], new(d), LeafRevs(Nodes(b, d)))
    BY <1>0, CompactDoc
  <1>2. c = CollectBlobs([b EXCEPT !.docs = D])
    BY DEF Compact
  <1> HIDE DEF new
  <1>3. D \in [Doc -> DocState]
    BY <1>1 DEF Compacted
  <1>4. [b EXCEPT !.docs = D] = [docs |-> D, updateSeq |-> b.updateSeq, changes |-> b.changes,
                                 blobs |-> b.blobs, purgeSeq |-> b.purgeSeq, uuid |-> b.uuid]
    BY <1>0 DEF DbType
  <1>5. b.updateSeq \in Nat /\ b.purgeSeq \in Nat
    BY <1>0 DEF DbType
  <1> HIDE DEF D
  <1>6. Collected(b, c, D)
    <2>1. c = CollectBlobs([docs |-> D, updateSeq |-> b.updateSeq, changes |-> b.changes,
                            blobs |-> b.blobs, purgeSeq |-> b.purgeSeq, uuid |-> b.uuid])
      BY <1>2, <1>4
    <2> QED
      BY <1>0, <1>3, <1>5, <2>1, CollectFields
  <1>7. \A d \in Doc : D[d] = new(d)
    BY DEF D
  <1>8. BodiesOk(c)
    <2> SUFFICES ASSUME NEW d \in Doc
                 PROVE  HasBodies(c.docs[d].tree, c.docs[d].bodies)
      BY DEF BodiesOk
    <2>1. /\ c.docs[d].tree.nodes = Nodes(b, d)
          /\ c.docs[d].tree.avail \subseteq LeafNodes(Nodes(b, d))
          /\ c.docs[d].bodies = b.docs[d].bodies \intersect LeafRevs(Nodes(b, d))
      BY <1>1, <1>6, <1>7 DEF Collected, Compacted, Nodes
    <2>2. RevsOf(c.docs[d].tree.avail) \subseteq LeafRevs(Nodes(b, d))
      BY <2>1 DEF LeafRevs, RevsOf
    <2>3. LeafRevs(Nodes(b, d)) \subseteq b.docs[d].bodies
      BY <1>0 DEF BodiesOk, HasBodies, Nodes
    <2> QED
      BY <2>1, <2>2, <2>3 DEF HasBodies
  <1> QED
    <2>1. \A d \in Doc : /\ D[d].tree.nodes = b.docs[d].tree.nodes
                         /\ D[d].tree.avail \subseteq b.docs[d].tree.avail
                         /\ D[d].bodies \subseteq b.docs[d].bodies
                         /\ D[d].seq = b.docs[d].seq
      BY <1>1, <1>7 DEF Compacted
    <2> QED
      BY <1>6, <1>8, <2>1, CollectedOk

\* The end of a purge request keeps a database in order.
LEMMA PurgeEndOk ==
  ASSUME NEW a, NEW b, DbOk(b), NEW c, c = PurgeEnd(a, b)
  PROVE  DbOk(c) /\ Purged(b, c)
  <1> DEFINE s == IF b.updateSeq = a.updateSeq THEN b.updateSeq + 1 ELSE b.updateSeq
  <1>0. b \in DbType /\ BodiesOk(b) /\ b.docs \in [Doc -> DocState]
    BY DEF DbOk, DbType
  <1>1. s \in Nat /\ b.updateSeq <= s /\ b.purgeSeq + 1 \in Nat
    BY <1>0 DEF DbType
  <1>2. c = CollectBlobs([b EXCEPT !.updateSeq = s, !.purgeSeq = b.purgeSeq + 1])
    BY DEF PurgeEnd
  <1> HIDE DEF s
  <1>3. ASSUME NEW e, e = [b EXCEPT !.updateSeq = s, !.purgeSeq = b.purgeSeq + 1]
        PROVE  e = [docs |-> b.docs, updateSeq |-> s, changes |-> b.changes,
                    blobs |-> b.blobs, purgeSeq |-> b.purgeSeq + 1, uuid |-> b.uuid]
    BY <1>0, <1>3 DEF DbType
  <1>4. Collected(b, c, b.docs)
    BY <1>0, <1>1, <1>2, <1>3, CollectFields
  <1>5. BodiesOk(c)
    BY <1>0, <1>4 DEF BodiesOk, Collected
  <1> QED
    BY <1>4, <1>5, CollectedOk

----------------------------------------------------------------------------
(* Reading the feed *)

\* The feed is finite, and a sequence has one entry.
Sequenced(C) ==
  /\ IsFiniteSet(C)
  /\ \A c \in C : c.seq \in Nat /\ c.seq # 0
  /\ \A c, e \in C : c.seq = e.seq => c = e

LEMMA FeedSequenced ==
  ASSUME NEW b, DbOk(b), NEW C \in SUBSET b.changes
  PROVE  Sequenced(C)
  <1>0. b \in DbType /\ SeqsOk(b) /\ FeedOk(b) /\ b.updateSeq \in Nat
    BY DEF DbOk, DbType
  <1>1. \A c \in C : \E d \in Doc : Exists(b, d) /\ c = EntryOf(b, d)
    BY <1>0 DEF FeedOk
  <1>2. \A c \in C : c.seq \in 1 .. b.updateSeq
    BY <1>0, <1>1 DEF SeqsOk, EntryOf
  <1>3. \A c, e \in C : c.seq = e.seq => c = e
    BY <1>0, <1>1 DEF SeqsOk, EntryOf
  <1> DEFINE f == [c \in C |-> c.seq]
  <1>4. f \in Injection(C, 1 .. b.updateSeq)
    BY <1>2, <1>3 DEF Injection, IsInjective
  <1>5. IsFiniteSet(1 .. b.updateSeq)
    BY <1>0, FS_Interval
  <1>6. IsFiniteSet(C)
    BY <1>4, <1>5, FS_Injection
  <1> QED
    BY <1>0, <1>2, <1>3, <1>6 DEF Sequenced

\* The first entry of some.
LEMMA FirstEntry ==
  ASSUME NEW C, Sequenced(C), C # {}
  PROVE  \E c \in C : \A e \in C : c.seq <= e.seq
  <1> DEFINE S == {c.seq : c \in C}
  <1>1. S \in SUBSET Nat /\ S # {}
    BY DEF Sequenced
  <1> HIDE DEF S
  <1>2. PICK s \in S : \A t \in S : s <= t
    BY <1>1, Least
  <1> QED
    BY <1>2 DEF S

\* The last one.
LEMMA LastEntry ==
  ASSUME NEW C, Sequenced(C), C # {}
  PROVE  \E c \in C : \A e \in C : e.seq <= c.seq
  <1> DEFINE Upto(c) == {e \in C : e.seq <= c.seq}
             S == {Cardinality(C) - Cardinality(Upto(c)) : c \in C}
  <1>0. IsFiniteSet(C) /\ Cardinality(C) \in Nat
    BY FS_CardinalityType DEF Sequenced
  <1>1. \A c \in C : /\ IsFiniteSet(Upto(c)) /\ Cardinality(Upto(c)) \in Nat
                     /\ Cardinality(Upto(c)) <= Cardinality(C)
    BY <1>0, FS_Subset, FS_CardinalityType
  <1>2. S \in SUBSET Nat /\ S # {}
    <2> HIDE DEF Upto
    <2>1. \A c \in C : Cardinality(C) - Cardinality(Upto(c)) \in Nat
      BY <1>0, <1>1
    <2> QED
      BY <2>1
  <1>3. PICK c \in C : \A e \in C : Cardinality(Upto(e)) <= Cardinality(Upto(c))
    <2> HIDE DEF Upto
    <2>1. PICK s \in S : \A t \in S : s <= t
      <3> HIDE DEF S
      <3> QED
        BY <1>2, Least
    <2>2. PICK c \in C : s = Cardinality(C) - Cardinality(Upto(c))
      BY <2>1
    <2>3. \A e \in C : Cardinality(C) - Cardinality(Upto(c)) <= Cardinality(C) - Cardinality(Upto(e))
      BY <2>1, <2>2
    <2> QED
      BY <1>0, <1>1, <2>2, <2>3
  <1>4. ASSUME NEW e \in C, e.seq > c.seq
        PROVE  FALSE
    <2>1. c.seq \in Nat /\ e.seq \in Nat
      BY DEF Sequenced
    <2>2. Upto(c) \in SUBSET Upto(e) /\ e \in Upto(e) /\ e \notin Upto(c)
      <3>1. \A z \in C : z.seq \in Nat
        BY DEF Sequenced
      <3> QED
        BY <1>4, <2>1, <3>1
    <2>3. Cardinality(Upto(c)) = Cardinality(Upto(e))
      <3> HIDE DEF Upto
      <3>1. Cardinality(Upto(c)) <= Cardinality(Upto(e))
        BY <1>1, <2>2, FS_Subset
      <3> QED
        BY <1>1, <1>3, <3>1
    <2>4. Upto(e) = Upto(c)
      <3> HIDE DEF Upto
      <3> QED
        BY <1>1, <2>2, <2>3, FS_Subset
    <2> QED
      BY <2>2, <2>4
  <1>5. \A e \in C : e.seq <= c.seq
    <2>1. \A e \in C : e.seq \in Nat
      BY DEF Sequenced
    <2> QED
      BY <1>4, <2>1
  <1> QED
    BY <1>5

\* The first n entries of C after `since', in the order of the sequences.
PageOf(C, since, n) ==
  {c \in C : c.seq > since /\ Cardinality({b \in C : since < b.seq /\ b.seq < c.seq}) < n}

\* A page has no gap, is empty only at the end, and is short only there.
Paged(C, since, n, R) ==
  /\ R = {} => \A c \in C : c.seq <= since
  /\ \A c \in C, e \in R : since < c.seq /\ c.seq <= e.seq => c \in R
  /\ Cardinality(R) # n => \A c \in C : since < c.seq => c \in R

LEMMA PageIs ==
  ASSUME NEW C, Sequenced(C), NEW since \in Nat, NEW n \in Nat \ {0},
         NEW R, R = PageOf(C, since, n)
  PROVE  Paged(C, since, n, R)
  <1> DEFINE Before(c) == {b \in C : since < b.seq /\ b.seq < c.seq}
  <1>0. IsFiniteSet(C) /\ \A c \in C : c.seq \in Nat
    BY DEF Sequenced
  <1>1. \A c \in C : /\ IsFiniteSet(Before(c)) /\ Cardinality(Before(c)) \in Nat
    BY <1>0, FS_Subset, FS_CardinalityType
  <1>2. \A c \in C : c \in R <=> since < c.seq /\ Cardinality(Before(c)) < n
    BY <1>0 DEF PageOf
  <1>3. ASSUME NEW c \in C, NEW e \in R, since < c.seq, c.seq <= e.seq
        PROVE  c \in R
    <2>1. e \in C
      BY DEF PageOf
    <2>2. Before(c) \in SUBSET Before(e)
      BY <1>0, <1>3, <2>1
    <2>3. Cardinality(Before(c)) <= Cardinality(Before(e))
      <3> HIDE DEF Before
      <3> QED
        BY <1>1, <2>1, <2>2, FS_Subset
    <2> HIDE DEF Before
    <2> QED
      BY <1>1, <1>2, <1>3, <2>1, <2>3
  <1>4. ASSUME NEW c \in C, since < c.seq, c \notin R
        PROVE  R # {} /\ Cardinality(R) = n
    <2> DEFINE L == {z \in C : since < z.seq /\ z \notin R}
    <2>1. Sequenced(L) /\ L # {}
      BY <1>4, FS_Subset DEF Sequenced
    <2>2. PICK z \in L : \A e \in L : z.seq <= e.seq
      <3> HIDE DEF L
      <3> QED
        BY <2>1, FirstEntry
    <2>3. R = Before(z)
      <3>1. ASSUME NEW e \in R
            PROVE  e \in Before(z)
        <4>1. e \in C /\ since < e.seq
          BY <1>0 DEF PageOf
        <4> QED
          BY <1>0, <1>3, <2>2, <4>1
      <3>2. ASSUME NEW e \in Before(z)
            PROVE  e \in R
        BY <1>0, <2>2
      <3> QED
        BY <3>1, <3>2
    <2>4. ~(Cardinality(Before(z)) < n) /\ IsFiniteSet(R) /\ Cardinality(R) \in Nat
      <3> HIDE DEF Before
      <3> QED
        BY <1>1, <1>2, <2>2, <2>3
    <2>5. Cardinality(R) >= n
      <3> HIDE DEF Before
      <3> QED
        BY <2>3, <2>4
    <2>6. R # {}
      BY <2>4, <2>5, FS_EmptySet
    <2>7. Sequenced(R)
      BY <2>4 DEF Sequenced, PageOf
    <2>8. PICK l \in R : \A e \in R : e.seq <= l.seq
      BY <2>6, <2>7, LastEntry
    <2>9. R = Before(l) \union {l} /\ l \notin Before(l) /\ l \in C
      <3>1. \A e \in R : e \in C /\ since < e.seq /\ e.seq \in Nat
        BY <1>0 DEF PageOf
      <3>2. ASSUME NEW e \in R, e # l
            PROVE  e \in Before(l)
        <4>1. e.seq # l.seq
          BY <2>7, <3>2 DEF Sequenced
        <4> QED
          BY <2>8, <3>1, <4>1
      <3>3. ASSUME NEW e \in Before(l)
            PROVE  e \in R
        BY <1>0, <1>3, <3>1
      <3>4. l \notin Before(l)
        BY <3>1
      <3> QED
        BY <3>1, <3>2, <3>3, <3>4
    <2>10. Cardinality(R) = Cardinality(Before(l)) + 1 /\ Cardinality(Before(l)) < n
      <3> HIDE DEF Before
      <3> QED
        BY <1>1, <1>2, <2>9, FS_AddElement
    <2> HIDE DEF Before
    <2> QED
      BY <1>1, <2>4, <2>5, <2>6, <2>9, <2>10
  <1>5. R = {} => \A c \in C : c.seq <= since
    BY <1>0, <1>4
  <1>6. Cardinality(R) # n => \A c \in C : since < c.seq => c \in R
    BY <1>4
  <1> QED
    BY <1>3, <1>5, <1>6 DEF Paged
=============================================================================
