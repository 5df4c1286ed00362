-------------------------- MODULE RevForestProofs --------------------------
(***************************************************************************)
(* Proofs about RevForest, for every universe of revisions.                *)
(*                                                                         *)
(*   - a merge, a stem and a purge leave no hole in a branch, at any limit;*)
(*   - without a limit no revision is ever under two roots, and the forest *)
(*     implements RevLinks.                                                *)
(***************************************************************************)
EXTENDS RevForest, DatabaseProofs

----------------------------------------------------------------------------
(* The invariant of the forest, at any revision limit *)

ForestInv == TypeOK /\ NoHoles /\ Bounded(tree.nodes)

\* In the words of the lemmas: the tree is as every tree of a document is.
LEMMA InvTreeOk == ForestInv <=> TreeOk(tree)
  BY DEF ForestInv, TypeOK, NoHoles, Shaped, TreeOk

\* The empty tree satisfies it.
LEMMA InitInv == Init => ForestInv
  BY InvTreeOk, EmptyOk DEF Init

\* Every write and every purge preserves it.
LEMMA NextInv == ForestInv /\ [Next]_tree => ForestInv'
  <1> SUFFICES ASSUME TreeOk(tree), [Next]_tree
               PROVE  TreeOk(tree')
    BY InvTreeOk DEF ForestInv, TypeOK, NoHoles, Shaped, TreeOk
  <1>1. ASSUME NEW r \in Rev, NEW q \in Anc[r], MergePath(q, r)
        PROVE  TreeOk(tree')
    BY <1>1, StoreOk, LimitAssumption DEF MergePath
  <1>2. ASSUME NEW R \in SUBSET LeafRevs(tree.nodes), PurgeLeaves(R)
        PROVE  TreeOk(tree')
    BY <1>2, RemoveOk DEF PurgeLeaves
  <1>3. CASE UNCHANGED tree
    BY <1>3
  <1> QED
    BY <1>1, <1>2, <1>3 DEF Next

\* Whatever paths arrive, in whatever order, at whatever limit, the tree is
\* well typed.
THEOREM TypeCorrect == Spec => []TypeOK
  <1>1. ForestInv => TypeOK
    BY DEF ForestInv
  <1> QED
    BY <1>1, InitInv, NextInv, PTL DEF Spec

\* Whatever paths arrive, in whatever order, at whatever limit, grafting,
\* stemming and purging never leave a hole in a branch.
THEOREM BranchesHaveNoHoles == Spec => []NoHoles
  <1>1. ForestInv => NoHoles
    BY DEF ForestInv
  <1> QED
    BY <1>1, InitInv, NextInv, PTL DEF Spec

----------------------------------------------------------------------------
(* What a write keeps, at any revision limit *)

\* Whatever path arrives, at whatever limit, a branch is never dropped: each
\* leaf stays one or gets a descendant that is.
THEOREM BranchesSurvive == Spec => MergeKeepsBranches
  <1>1. ASSUME ForestInv, [Next]_tree
        PROVE  (\E r \in Rev : \E q \in Anc[r] : MergePath(q, r)) =>
                 \A l \in LeafRevs(tree.nodes) : \E s \in LeafRevs(tree'.nodes) : l \in Anc[s]
    <2> SUFFICES ASSUME NEW r \in Rev, NEW q \in Anc[r], MergePath(q, r),
                        NEW l \in LeafRevs(tree.nodes)
                 PROVE  \E s \in LeafRevs(tree'.nodes) : l \in Anc[s]
      OBVIOUS
    <2>1. tree' = MergeAndStem(tree, q, r, RevLimit)
      BY DEF MergePath
    <2>2. l \in RevsOf(tree.nodes)
      BY DEF LeafRevs, LeafNodes, RevsOf
    <2> QED
      BY <1>1, <2>1, <2>2, InvTreeOk, LimitAssumption, StoreEffect
  <1> QED
    BY <1>1, InitInv, NextInv, PTL DEF Spec, MergeKeepsBranches

\* One root of the merged tree holds what one root, or the path, held before.
LEMMA MergedTogether ==
  ASSUME NEW N, Shaped(N), NEW r \in Rev, NEW q \in Anc[r],
         NEW M, M = MergeNodes(N, q, r, Absorbed(N, q, r)),
         NEW n \in N \union ({q} \X Between(q, r)), NEW l \in Rev, n[2] \in Anc[l],
         <<n[1], l>> \in N \/ (n[1] = q /\ l = r)
  PROVE  \E p \in Rev : <<p, n[2]>> \in M /\ <<p, l>> \in M
  <1> DEFINE A == Absorbed(N, q, r)
             T == Targets(N, q, A)
             G == Grown(N, q, r, A)
  <1>1. Shaped(M)
    BY MergeShaped
  <1>2. PICK t \in T : t \in Rev
    BY TargetExists
  <1>3. \A s \in G : <<t, s>> \in M
    BY MergeMoves
  <1>4. n = <<n[1], n[2]>> /\ n[1] \in Rev /\ n[2] \in Rev /\ n[1] \in Anc[n[2]]
    BY BetweenBasics, AncBasics DEF Shaped, Between
  <1>5. CASE <<n[1], l>> \in N
    <2>1. <<n[1], n[2]>> \in N
      BY <1>4, <1>5 DEF Shaped, Between
    <2>2. CASE n[1] \notin A
      BY <1>4, <1>5, <2>1, <2>2, MergeMoves
    <2>3. CASE n[1] \in A
      <3>1. n[2] \in G /\ l \in G
        BY <1>5, <2>1, <2>3, <1>4 DEF Grown
      <3> QED
        BY <1>2, <1>3, <3>1
    <2> QED
      BY <2>2, <2>3
  <1>6. CASE n[1] = q /\ l = r
    <2>1. n[2] \in Between(q, r) /\ l \in Between(q, r)
      BY <1>4, <1>6, BetweenBasics DEF Between
    <2>2. n[2] \in G /\ l \in G
      BY <2>1, MergeMoves
    <2> QED
      BY <1>2, <1>3, <2>2
  <1> QED
    BY <1>5, <1>6

\* Whatever path arrives, at whatever limit, the newest ancestors of an end of
\* a branch stay known, and a revision that is new becomes a leaf.
THEOREM StemmingKeepsTheWindow == Spec => WindowKept
  <1>1. ASSUME ForestInv, [Next]_tree
        PROVE  \A r \in Rev : \A q \in Anc[r] : MergePath(q, r) =>
                 /\ r \in RevsOf(tree.nodes) \union LeafRevs(tree'.nodes)
                 /\ \A n \in tree.nodes \union ({q} \X Between(q, r)) :
                      \A l \in Ends(tree'.nodes) :
                        /\ n[2] \in Anc[l]
                        /\ \/ <<n[1], l>> \in tree.nodes
                           \/ n[1] = q /\ l = r
                        /\ RevLimit = 0 \/ Gen[l] - Gen[n[2]] < RevLimit
                        => \E p \in Rev : {<<p, n[2]>>, <<p, l>>} \subseteq tree'.nodes
    <2> SUFFICES ASSUME NEW r \in Rev, NEW q \in Anc[r], MergePath(q, r)
                 PROVE  /\ r \in RevsOf(tree.nodes) \union LeafRevs(tree'.nodes)
                        /\ \A n \in tree.nodes \union ({q} \X Between(q, r)) :
                             \A l \in Ends(tree'.nodes) :
                               /\ n[2] \in Anc[l]
                               /\ \/ <<n[1], l>> \in tree.nodes
                                  \/ n[1] = q /\ l = r
                               /\ RevLimit = 0 \/ Gen[l] - Gen[n[2]] < RevLimit
                               => \E p \in Rev : {<<p, n[2]>>, <<p, l>>} \subseteq tree'.nodes
      OBVIOUS
    <2> DEFINE m == Merge(tree, q, r)
    <2>1. tree' = MergeAndStem(tree, q, r, RevLimit)
      BY DEF MergePath
    <2>2. TreeOk(tree) /\ TreeOk(m) /\ TreeOk(tree')
      BY <1>1, <2>1, InvTreeOk, MergeOk, StoreOk, LimitAssumption
    <2>3. r \in RevsOf(tree.nodes) \union LeafRevs(tree'.nodes)
      BY <2>1, <2>2, StoreEffect, LimitAssumption
    <2>4. ASSUME NEW n \in tree.nodes \union ({q} \X Between(q, r)),
                 NEW l \in Ends(tree'.nodes), n[2] \in Anc[l],
                 <<n[1], l>> \in tree.nodes \/ (n[1] = q /\ l = r),
                 RevLimit = 0 \/ Gen[l] - Gen[n[2]] < RevLimit
          PROVE  \E p \in Rev : {<<p, n[2]>>, <<p, l>>} \subseteq tree'.nodes
      <3>1. l \in Rev
        BY <2>2 DEF Ends, RevsOf, TreeOk, Shaped
      <3>2. PICK p \in Rev : <<p, n[2]>> \in m.nodes /\ <<p, l>> \in m.nodes
        BY <2>2, <2>4, <3>1, MergedTogether DEF Merge, TreeOk
      <3>3. CASE RevLimit = 0
        BY <2>1, <3>2, <3>3 DEF MergeAndStem
      <3>4. CASE RevLimit # 0
        <4> HIDE DEF m
        <4>1. tree' = Stem(m, RevLimit) /\ RevLimit \in Nat \ {0}
          BY <2>1, <3>4, LimitAssumption DEF MergeAndStem, m
        <4>2. PICK x \in LeafNodes(m.nodes) : x[1] = p /\ l \in Anc[x[2]]
          BY <2>2, <3>2, LeafBelow DEF TreeOk
        <4>3. x[2] \in RevsOf(tree'.nodes)
          BY <2>2, <4>1, <4>2, StemLeaves DEF TreeOk, LeafRevs, RevsOf
        <4>4. x[2] = l
          BY <4>2, <4>3 DEF Ends
        <4>5. n[2] \in Rev
          BY <2>2, <3>2 DEF TreeOk, Shaped
        <4>6. /\ <<x[1], n[2]>> \in m.nodes /\ n[2] \in Anc[x[2]]
              /\ Gen[x[2]] - Gen[n[2]] < RevLimit
          BY <2>4, <3>2, <3>4, <4>2, <4>4
        <4>7. \E b \in Rev : /\ <<b, n[2]>> \in Stem(m, RevLimit).nodes
                             /\ <<b, x[2]>> \in Stem(m, RevLimit).nodes
          BY <2>2, <4>1, <4>5, <4>6, StemKeepsLeaf DEF TreeOk
        <4> QED
          BY <4>1, <4>4, <4>7
      <3> QED
        BY <3>3, <3>4
    <2> QED
      BY <2>3, <2>4
  <1> QED
    BY <1>1, InitInv, NextInv, PTL DEF Spec, WindowKept

----------------------------------------------------------------------------
(* Without a limit *)

\* Every step of the forest keeps every revision under one root.
LEMMA NextSingle ==
  ASSUME RevLimit = 0
  PROVE  ForestInv /\ OneRoot /\ [Next]_tree => OneRoot'
  <1> SUFFICES ASSUME Shaped(tree.nodes), Single(tree.nodes), [Next]_tree
               PROVE  Single(tree'.nodes)
    BY InvTreeOk DEF OneRoot, Single, TreeOk
  <1>1. ASSUME NEW r \in Rev, NEW q \in Anc[r], MergePath(q, r)
        PROVE  Single(tree'.nodes)
    <2>1. tree' = Merge(tree, q, r)
      BY <1>1 DEF MergePath, MergeAndStem
    <2>2. tree'.nodes = MergeNodes(tree.nodes, q, r, Absorbed(tree.nodes, q, r))
      BY <2>1 DEF Merge
    <2> QED
      BY <2>2, MergeSingle
  <1>2. ASSUME NEW R \in SUBSET LeafRevs(tree.nodes), PurgeLeaves(R)
        PROVE  Single(tree'.nodes)
    <2>1. tree'.nodes \subseteq tree.nodes
      BY <1>2, RemoveShrinks DEF PurgeLeaves
    <2> QED
      BY <2>1 DEF Single
  <1>3. CASE UNCHANGED tree
    BY <1>3
  <1> QED
    BY <1>1, <1>2, <1>3 DEF Next

\* Without a revision limit a path that bridges two roots joins them: no
\* revision, and so no leaf, is ever under two roots.
THEOREM BridgedRootsJoin ==
  ASSUME RevLimit = 0
  PROVE  Spec => []OneRoot
  <1>1. Init => OneRoot
    BY DEF Init, EmptyTree, OneRoot
  <1> QED
    BY <1>1, InitInv, NextInv, NextSingle, PTL DEF Spec

\* Without a revision limit latest=true answers the winner among all the
\* leaves the tree knows to descend from the revision asked for.
THEOREM LatestIsRight ==
  ASSUME RevLimit = 0
  PROVE  Spec => []LatestIsBestDescendant
  <1>1. ForestInv /\ OneRoot => LatestIsBestDescendant
    <2> SUFFICES ASSUME ForestInv, OneRoot, NEW r \in RevsOf(tree.nodes)
                 PROVE  {n[2] : n \in {m \in LeafNodes(tree.nodes) :
                                         m[1] = FirstRoot(tree.nodes, r) /\ r \in Anc[m[2]]}}
                          = {n[2] : n \in {m \in LeafNodes(tree.nodes) :
                                             <<m[1], r>> \in tree.nodes /\ r \in Anc[m[2]]}}
      BY DEF LatestIsBestDescendant, LatestLeaf
    <2> DEFINE N == tree.nodes
    <2>1. PICK k \in N : k[2] = r
      BY DEF RevsOf
    <2>2. {m \in N : m[2] = r} = {k}
      BY <2>1 DEF OneRoot
    <2>3. FirstRoot(N, r) = k[1]
      BY <2>2 DEF FirstRoot, FirstOf
    <2>4. ASSUME NEW m \in LeafNodes(N), r \in Anc[m[2]]
          PROVE  m[1] = k[1] <=> <<m[1], r>> \in N
      <3>1. k = <<k[1], r>>
        BY <2>1 DEF ForestInv, TypeOK
      <3>2. <<m[1], r>> \in N => m[1] = k[1]
        BY <2>1 DEF OneRoot
      <3> QED
        BY <3>1, <3>2
    <2> QED
      BY <2>3, <2>4
  <1>2. Init => OneRoot
    BY DEF Init, EmptyTree, OneRoot
  <1> QED
    BY <1>1, <1>2, InitInv, NextInv, NextSingle, PTL DEF Spec

----------------------------------------------------------------------------
(* Without a limit the forest implements RevLinks *)

\* What a tree knows and what it has joined to a parent.
KnownIn(N) == RevsOf(N)
LinkedIn(N) == RevsOf({n \in N : n[1] # n[2]})

\* A merge adds the path's revisions and the path's links, and nothing else.
LEMMA MergeLearns ==
  ASSUME NEW N, Shaped(N), Single(N), NEW r \in Rev, NEW q \in Anc[r],
         NEW M, M = MergeNodes(N, q, r, Absorbed(N, q, r))
  PROVE  /\ KnownIn(M) = KnownIn(N) \union Between(q, r)
         /\ LinkedIn(M) = LinkedIn(N) \union (Between(q, r) \ {q})
  <1> DEFINE A == Absorbed(N, q, r)
             G == Grown(N, q, r, A)
             T == Targets(N, q, A)
  <1>0. q \in Rev
    BY RevAssumption
  <1>1. PICK t \in T : t \in Rev /\ t \in Anc[q] /\ (t = q \/ <<t, q>> \in N)
    <2>1. T # {}
      BY DEF Targets
    <2> QED
      BY <2>1, TargetAbove
  <1>2. \A s \in G : <<t, s>> \in M
    BY DEF MergeNodes
  <1>3. Between(q, r) \subseteq G
    BY DEF Grown
  <1>4. ASSUME NEW n \in N
        PROVE  /\ n[2] \in KnownIn(M)
               /\ n[1] # n[2] => n[2] \in LinkedIn(M)
    <2>0. n = <<n[1], n[2]>> /\ n[1] \in Rev /\ n[2] \in Rev /\ n[1] \in Anc[n[2]]
      BY DEF Shaped
    <2>1. CASE n[1] \notin A
      <3>1. n \in M
        BY <2>1 DEF MergeNodes
      <3> QED
        BY <3>1 DEF KnownIn, LinkedIn, RevsOf
    <2>2. CASE n[1] \in A
      <3>1. n[2] \in G
        BY <2>2 DEF Grown
      <3>2. <<t, n[2]>> \in M
        BY <3>1, <1>2
      <3>3. q \in Anc[n[1]] /\ Gen[q] < Gen[n[1]]
        BY <2>2, AbsorbedBelow
      <3>4. Gen[t] <= Gen[q] /\ Gen[n[1]] <= Gen[n[2]]
        BY <1>0, <1>1, <2>0, RevAssumption
      <3>5. t # n[2]
        BY <1>0, <1>1, <2>0, <3>3, <3>4, RevAssumption
      <3> QED
        BY <3>2, <3>5 DEF KnownIn, LinkedIn, RevsOf
    <2> QED
      BY <2>1, <2>2
  <1>5. ASSUME NEW s \in Between(q, r)
        PROVE  /\ s \in KnownIn(M)
               /\ s # q => s \in LinkedIn(M)
    <2>1. <<t, s>> \in M
      BY <1>2, <1>3
    <2>2. s \in Rev /\ q \in Anc[s]
      BY BetweenBasics
    <2>3. s # q => s # t
      BY <1>0, <1>1, <2>2, AncAntisym
    <2> QED
      BY <2>1, <2>3 DEF KnownIn, LinkedIn, RevsOf
  <1>6. ASSUME NEW n \in M
        PROVE  /\ n[2] \in KnownIn(N) \union Between(q, r)
               /\ n[1] # n[2] => n[2] \in LinkedIn(N) \union (Between(q, r) \ {q})
    <2>1. CASE n \in N
      BY <2>1 DEF KnownIn, LinkedIn, RevsOf
    <2>2. CASE n \in T \X G
      <3>1. PICK p \in T, s \in G : n = <<p, s>>
        BY <2>2
      <3>2. CASE s \in Between(q, r)
        <4>1. CASE s = q /\ p # q
          <5>1. <<p, q>> \in N
            BY <4>1, TargetAbove
          <5>2. q \in LinkedIn(N)
            BY <4>1, <5>1 DEF LinkedIn, RevsOf
          <5> QED
            BY <3>1, <3>2, <4>1, <5>2
        <4>2. CASE s # q \/ p = q
          BY <3>1, <3>2, <4>2
        <4> QED
          BY <4>1, <4>2
      <3>3. CASE \E a \in A : <<a, s>> \in N
        <4>1. PICK a \in A : <<a, s>> \in N
          BY <3>3
        <4>2. a \in Between(q, r) \ {q}
          BY SingleAbsorbs
        <4>3. a # s => s \in LinkedIn(N)
          BY <4>1 DEF LinkedIn, RevsOf
        <4>4. s \in KnownIn(N)
          BY <4>1 DEF KnownIn, RevsOf
        <4> QED
          BY <3>1, <4>2, <4>3, <4>4
      <3> QED
        BY <3>2, <3>3, GrownBelow
    <2> QED
      BY <2>1, <2>2 DEF MergeNodes
  <1>8. KnownIn(M) = KnownIn(N) \union Between(q, r)
    <2>1. KnownIn(M) \subseteq KnownIn(N) \union Between(q, r)
      BY <1>6 DEF KnownIn, RevsOf
    <2>2. KnownIn(N) \subseteq KnownIn(M)
      BY <1>4 DEF KnownIn, RevsOf
    <2> QED
      BY <2>1, <2>2, <1>5
  <1>9. LinkedIn(M) = LinkedIn(N) \union (Between(q, r) \ {q})
    <2>1. LinkedIn(M) \subseteq LinkedIn(N) \union (Between(q, r) \ {q})
      BY <1>6 DEF LinkedIn, RevsOf
    <2>2. LinkedIn(N) \subseteq LinkedIn(M)
      BY <1>4 DEF LinkedIn, RevsOf
    <2> QED
      BY <2>1, <2>2, <1>5
  <1> QED
    BY <1>8, <1>9

\* Links!Joined and Links!Tips, of the nodes N.
JoinedIn(N, p, r) == p \in Anc[r] /\ Between(p, r) \ {p} \subseteq LinkedIn(N)

TipsIn(N) == {r \in KnownIn(N) : \A s \in KnownIn(N) : r # s => ~JoinedIn(N, r, s)}

\* Two known revisions are joined when the elder is above the younger under
\* the one root of both.
LEMMA JoinedUnderRoot ==
  ASSUME NEW N, Shaped(N), Single(N), NEW n \in N, NEW r \in KnownIn(N)
  PROVE  JoinedIn(N, r, n[2]) <=> (<<n[1], r>> \in N /\ r \in Anc[n[2]])
  <1> DEFINE p == n[1]
             s == n[2]
  <1>1. p \in Rev /\ s \in Rev /\ p \in Anc[s] /\ n = <<p, s>>
    BY DEF Shaped
  <1>2. <<p, p>> \in N
    BY <1>1, BetweenBasics DEF Shaped
  <1>3. ASSUME <<p, r>> \in N, r \in Anc[s]
        PROVE  JoinedIn(N, r, s)
    <2>1. r \in Rev /\ p \in Anc[r]
      BY <1>3 DEF Shaped
    <2>2. ASSUME NEW x \in Between(r, s) \ {r}
          PROVE  x \in LinkedIn(N)
      <3>1. x \in Rev /\ x \in Anc[s] /\ r \in Anc[x]
        BY <1>1, AncBasics DEF Between
      <3>2. p \in Anc[x]
        BY <2>1, <3>1, AncTrans
      <3>3. <<p, x>> \in N
        BY <1>1, <3>1, <3>2 DEF Shaped, Between
      <3>4. p # x
        BY <2>1, <2>2, <3>1, AncAntisym
      <3> QED
        BY <3>3, <3>4 DEF LinkedIn, RevsOf
    <2> QED
      BY <1>3, <2>2 DEF JoinedIn
  <1>4. ASSUME JoinedIn(N, r, s)
        PROVE  <<p, r>> \in N /\ r \in Anc[s]
    <2>1. r \in Rev /\ r \in Anc[s]
      BY <1>1, <1>4, AncBasics DEF JoinedIn
    <2>2. CASE Gen[p] <= Gen[r]
      <3>1. r \in Between(p, s)
        BY <1>1, <2>1, <2>2, AncChain DEF Between
      <3> QED
        BY <1>1, <2>1, <3>1 DEF Shaped
    <2>3. CASE Gen[r] < Gen[p]
      <3>1. r # p /\ r \in Anc[p]
        BY <1>1, <2>1, <2>3, AncChain, RevAssumption
      <3>2. p \in LinkedIn(N)
        BY <1>1, <1>4, <3>1 DEF JoinedIn, Between
      <3>3. PICK m \in N : m[1] # m[2] /\ m[2] = p
        BY <3>2 DEF LinkedIn, RevsOf
      <3> QED
        BY <1>2, <3>3 DEF Single
    <2> QED
      BY <1>1, <2>1, <2>2, <2>3, RevAssumption
  <1> QED
    BY <1>3, <1>4

\* The tips of the abstract specification are the leaves of the tree.
LEMMA TipsAreLeaves ==
  ASSUME NEW N, Shaped(N), Single(N)
  PROVE  TipsIn(N) = LeafRevs(N)
  <1>1. ASSUME NEW n \in LeafNodes(N)
        PROVE  n[2] \in TipsIn(N)
    <2>0. n \in N /\ n[2] \in KnownIn(N)
      BY DEF LeafNodes, KnownIn, RevsOf
    <2>1. ASSUME NEW s \in KnownIn(N), n[2] # s, JoinedIn(N, n[2], s)
          PROVE  FALSE
      <3>1. PICK m \in N : m[2] = s
        BY DEF KnownIn, RevsOf
      <3>2. <<m[1], n[2]>> \in N /\ n[2] \in Anc[m[2]]
        BY <2>0, <2>1, <3>1, JoinedUnderRoot
      <3>3. m[1] = n[1]
        BY <2>0, <3>2 DEF Single
      <3> QED
        BY <2>1, <3>1, <3>2, <3>3 DEF LeafNodes
    <2> QED
      BY <2>0, <2>1 DEF TipsIn
  <1>2. ASSUME NEW r \in TipsIn(N)
        PROVE  r \in LeafRevs(N)
    <2>1. PICK n \in N : n[2] = r
      BY DEF TipsIn, KnownIn, RevsOf
    <2>2. ASSUME NEW m \in N, m[1] = n[1], n[2] \in Anc[m[2]]
          PROVE  m = n
      <3>1. <<m[1], r>> \in N
        BY <2>1, <2>2 DEF Shaped
      <3>2. JoinedIn(N, r, m[2])
        BY <2>1, <2>2, <3>1, JoinedUnderRoot DEF TipsIn
      <3>3. m[2] = r
        BY <3>2 DEF TipsIn, KnownIn, RevsOf
      <3> QED
        BY <2>1, <3>3 DEF Single
    <2>3. n \in LeafNodes(N)
      BY <2>2 DEF LeafNodes
    <2> QED
      BY <2>1, <2>3 DEF LeafRevs, RevsOf
  <1> QED
    BY <1>1, <1>2 DEF LeafRevs, RevsOf

\* A purge of leaves keeps the revisions, and their links, that another leaf
\* is joined to.
LEMMA RemoveForgets ==
  ASSUME NEW t, Shaped(t.nodes), Single(t.nodes), NEW R,
         LeafRevs(t.nodes) \intersect R # {},
         NEW M, M = RemoveLeaves(t, R).nodes
  PROVE  /\ KnownIn(M) = {s \in KnownIn(t.nodes) :
                            \E r \in TipsIn(t.nodes) \ R : JoinedIn(t.nodes, s, r)}
         /\ LinkedIn(M) = LinkedIn(t.nodes) \intersect KnownIn(M)
  <1> DEFINE N == t.nodes
             C == {[root |-> n[1], leaf |-> n[2], top |-> n[1]] :
                     n \in {m \in LeafNodes(N) : m[2] \notin R}}
             Remain == {s \in KnownIn(N) : \E r \in TipsIn(N) \ R : JoinedIn(N, s, r)}
  <1>1. M = ChainNodes(C)
    BY DEF RemoveLeaves, Rebuild
  <1>2. M \subseteq N
    BY RemoveShrinks
  <1>3. ASSUME NEW n \in M
        PROVE  n[2] \in Remain
    <2>1. PICK c \in C : n \in {c.top} \X Between(c.top, c.leaf)
      BY <1>1 DEF ChainNodes
    <2>2. PICK m \in LeafNodes(N) : m[2] \notin R /\ c.top = m[1] /\ c.leaf = m[2]
      BY <2>1
    <2>3. PICK s \in Between(m[1], m[2]) : n = <<m[1], s>>
      BY <2>1, <2>2
    <2>4. m \in N /\ s \in Anc[m[2]] /\ <<m[1], s>> \in N
      BY <2>3 DEF LeafNodes, Shaped, Between
    <2>5. s \in KnownIn(N)
      BY <2>4 DEF KnownIn, RevsOf
    <2>6. JoinedIn(N, s, m[2])
      BY <2>4, <2>5, JoinedUnderRoot
    <2>7. m[2] \in TipsIn(N) \ R
      BY <2>2, TipsAreLeaves DEF LeafRevs, RevsOf
    <2> QED
      BY <2>3, <2>5, <2>6, <2>7
  <1>4. ASSUME NEW s \in Remain
        PROVE  s \in KnownIn(M)
    <2>1. PICK l \in TipsIn(N) \ R : JoinedIn(N, s, l)
      OBVIOUS
    <2>2. PICK m \in LeafNodes(N) : m[2] = l
      BY TipsAreLeaves DEF LeafRevs, RevsOf
    <2>3. m \in N /\ <<m[1], s>> \in N /\ s \in Anc[m[2]]
      BY <2>1, <2>2, JoinedUnderRoot DEF LeafNodes
    <2>4. s \in Between(m[1], m[2])
      BY <2>3 DEF Shaped, Between
    <2> DEFINE c == [root |-> m[1], leaf |-> m[2], top |-> m[1]]
    <2>5. c \in C /\ c.top = m[1] /\ c.leaf = m[2]
      BY <2>1, <2>2
    <2>6. <<m[1], s>> \in M
      <3> HIDE DEF c, C
      <3> QED
        BY <1>1, <2>4, <2>5 DEF ChainNodes
    <2> QED
      BY <2>6 DEF KnownIn, RevsOf
  <1>5. KnownIn(M) = Remain
    <2>1. KnownIn(M) \subseteq Remain
      BY <1>3 DEF KnownIn, RevsOf
    <2> QED
      BY <1>4, <2>1
  <1>6. LinkedIn(M) \subseteq LinkedIn(N) \intersect KnownIn(M)
    BY <1>2 DEF LinkedIn, KnownIn, RevsOf
  <1>7. ASSUME NEW x \in LinkedIn(N), x \in KnownIn(M)
        PROVE  x \in LinkedIn(M)
    <2>1. PICK n \in N : n[1] # n[2] /\ n[2] = x
      BY DEF LinkedIn, RevsOf
    <2>2. PICK m \in M : m[2] = x
      BY <1>7 DEF KnownIn, RevsOf
    <2>3. m = n
      BY <1>2, <2>1, <2>2 DEF Single
    <2> QED
      BY <2>1, <2>2, <2>3 DEF LinkedIn, RevsOf
  <1> QED
    BY <1>5, <1>6, <1>7

\* The abstract operators, under the refinement mapping, are those above.
LEMMA Mapping ==
  ASSUME NEW N, N = tree.nodes
  PROVE  /\ Known = KnownIn(N) /\ Linked = LinkedIn(N)
         /\ Links!Tips = TipsIn(N)
         /\ \A p, r : Links!Joined(p, r) <=> JoinedIn(N, p, r)
         /\ \A q, r : Links!Between(q, r) = Between(q, r)
  <1>1. Known = KnownIn(N) /\ Linked = LinkedIn(N)
    BY DEF Known, Linked, KnownIn, LinkedIn
  <1>2. \A q, r : Links!Between(q, r) = Between(q, r)
    BY DEF Links!Between, Between
  <1>3. \A p, r : Links!Joined(p, r) <=> JoinedIn(N, p, r)
    BY <1>1, <1>2 DEF Links!Joined, JoinedIn
  <1> QED
    BY <1>1, <1>2, <1>3 DEF Links!Tips, TipsIn

\* Every step of the forest is a step of RevLinks.
LEMMA NextLinks ==
  ASSUME RevLimit = 0
  PROVE  ForestInv /\ OneRoot /\ [Next]_tree => [Links!Next]_<<Known, Linked>>
  <1> SUFFICES ASSUME Shaped(tree.nodes), Single(tree.nodes), [Next]_tree
               PROVE  [Links!Next]_<<Known, Linked>>
    BY InvTreeOk DEF OneRoot, Single, TreeOk
  <1>0. Known' = KnownIn(tree'.nodes) /\ Linked' = LinkedIn(tree'.nodes)
    BY DEF Known, Linked, KnownIn, LinkedIn
  <1>1. ASSUME NEW r \in Rev, NEW q \in Anc[r], MergePath(q, r)
        PROVE  Links!Learn(q, r)
    <2>1. tree'.nodes = MergeNodes(tree.nodes, q, r, Absorbed(tree.nodes, q, r))
      BY <1>1 DEF MergePath, MergeAndStem, Merge
    <2>2. /\ Known' = KnownIn(tree.nodes) \union Between(q, r)
          /\ Linked' = LinkedIn(tree.nodes) \union (Between(q, r) \ {q})
      BY <1>0, <2>1, MergeLearns
    <2> QED
      BY <2>2, Mapping DEF Links!Learn
  <1>2. ASSUME NEW R \in SUBSET LeafRevs(tree.nodes), PurgeLeaves(R)
        PROVE  R \in SUBSET Links!Tips /\ Links!Forget(R)
    <2>1. /\ LeafRevs(tree.nodes) \intersect R # {}
          /\ tree'.nodes = RemoveLeaves(tree, R).nodes
      BY <1>2 DEF PurgeLeaves
    <2>2. /\ Known' = {s \in KnownIn(tree.nodes) :
                         \E r \in TipsIn(tree.nodes) \ R : JoinedIn(tree.nodes, s, r)}
          /\ Linked' = LinkedIn(tree.nodes) \intersect Known'
      BY <1>0, <2>1, RemoveForgets
    <2>3. R \in SUBSET Links!Tips
      BY TipsAreLeaves, Mapping
    <2> QED
      BY <2>2, <2>3, Mapping DEF Links!Forget
  <1>3. CASE UNCHANGED tree
    BY <1>3 DEF Known, Linked
  <1> QED
    BY <1>1, <1>2, <1>3 DEF Next, Links!Next

\* Without a revision limit a document's tree is exactly the set of revisions
\* and links it has been told of and not purged: it does not depend on the
\* order in which paths arrived, on duplicates, or on the roots they had.
THEOREM ForestImplementsLinks ==
  ASSUME RevLimit = 0
  PROVE  Spec => ImplementsLinks
  <1>1. Init => Links!Init
    BY DEF Init, EmptyTree, Links!Init, Known, Linked, RevsOf
  <1>2. Init => OneRoot
    BY DEF Init, EmptyTree, OneRoot
  <1> QED
    BY <1>1, <1>2, InitInv, NextInv, NextSingle, NextLinks, PTL
       DEF Spec, ImplementsLinks, Links!Spec
=============================================================================
