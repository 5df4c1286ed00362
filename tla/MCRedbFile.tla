----------------------------- MODULE MCRedbFile -----------------------------
(* Instances of RedbFile. *)
EXTENDS RedbFile, RevUniverse

\* A first revision and two edits of it, one of them a tombstone; and another
\* first revision.
SmallRev == USet({<<3, 0>>, <<3, 2>>, <<1>>})
SmallGen == UGen(SmallRev)
SmallAnc == UAnc(SmallRev)
SmallDeleted == UDeleted(SmallRev)
SmallRank == URank(SmallRev)
AttX == [r \in SmallRev |-> IF r \in {<<3>>, <<3, 2>>} THEN {"x"} ELSE {}]

\* The second id begins with the first one and a NUL.
IdA == "a"
IdB == "a0b"
Docs == {IdA, IdB}
NulChar == <<>>
IdChars == (IdA :> <<<<91>>>>) @@ (IdB :> <<<<91>>, <<>>, <<92>>>>)
Ranks == (IdA :> 1) @@ (IdB :> 2)

\* Upper case sorts before lower case, and the letters in which spellings
\* differ after digits.
Raw == [r \in SmallRev |-> [up \in BOOLEAN |-> 10 * SmallRank[r] - IF up THEN 5 ELSE 0]]

----------------------------------------------------------------------------
(* Files of older versions *)

Lower(r) == [rev |-> r, up |-> FALSE, avail |-> TRUE, del |-> r \in SmallDeleted]
Upper(r) == [Lower(r) EXCEPT !.up = TRUE]
Dead(n) == [n EXCEPT !.del = TRUE]
Stored(d, n, v) == [id |-> d, rev |-> n.rev, up |-> n.up, data |-> v]
Absent == [paths |-> {}, seq |-> 0]
Entry(s, d, del) == [seq |-> s, id |-> d, deleted |-> del]

\* A document with an upper-case leaf, and a `_local/' document.
OldPlain ==
  [schema |-> 0,
   docs |-> (IdA :> [paths |-> {<<Lower(<<3>>), Upper(<<3, 2>>)>>}, seq |-> 1]) @@ (IdB :> Absent),
   inline |-> [l \in Local |-> [paths |-> {<<Lower(<<3>>)>>}, seq |-> 2]],
   bodies |-> {Stored(IdA, Lower(<<3>>), 1), Stored(IdA, Upper(<<3, 2>>), 1)}
                \union {Stored(l, Lower(<<3>>), 1) : l \in Local},
   locals |-> {}, atts |-> {"x"},
   changes |-> {Entry(1, IdA, FALSE)} \union {Entry(2, l, FALSE) : l \in Local},
   updateSeq |-> 2, purgeSeq |-> 0, uuid |-> 0]

\* A revision under two spellings, with two bodies, both of them leaves, of which
\* the one that is preferred by its text is deleted; and a deleted document.
OldTwoLeaves ==
  [OldPlain EXCEPT
    !.docs = (IdA :> [paths |-> {<<Lower(<<3>>), Dead(Lower(<<3, 2>>))>>,
                                 <<Lower(<<3>>), Upper(<<3, 2>>)>>},
                      seq |-> 1])
          @@ (IdB :> [paths |-> {<<Lower(<<3>>), Lower(<<3, 0>>)>>}, seq |-> 2]),
    !.inline = [l \in Local |-> Absent],
    !.bodies = {Stored(IdA, Lower(<<3>>), 1), Stored(IdA, Lower(<<3, 2>>), 1),
                Stored(IdA, Upper(<<3, 2>>), 2),
                Stored(IdB, Lower(<<3>>), 1), Stored(IdB, Lower(<<3, 0>>), 1)},
    !.changes = {Entry(1, IdA, FALSE), Entry(2, IdB, TRUE)}]

\* A root under two spellings, one of them with a child, and a deleted
\* `_local/' document; in a file of a development build.
OldTwoRoots ==
  [OldPlain EXCEPT
    !.schema = 1,
    !.docs[IdA] = [paths |-> {<<Lower(<<3>>), Lower(<<3, 2>>)>>, <<Upper(<<3>>)>>}, seq |-> 2],
    !.inline = [l \in Local |-> [paths |-> {<<Lower(<<3>>), Lower(<<3, 0>>)>>}, seq |-> 1]],
    !.bodies = {Stored(IdA, Upper(<<3>>), 2), Stored(IdA, Lower(<<3>>), 1),
                Stored(IdA, Lower(<<3, 2>>), 1)},
    !.changes = {Entry(2, IdA, FALSE)} \union {Entry(1, l, TRUE) : l \in Local}]

\* Two spellings of a root: the upper-case one is a leaf and the winner, the
\* other one has a deleted child.
OldDeletedBelow ==
  [OldPlain EXCEPT
    !.docs[IdA] = [paths |-> {<<Lower(<<3>>), Lower(<<3, 0>>)>>, <<Upper(<<3>>)>>}, seq |-> 1],
    !.bodies = {Stored(IdA, Lower(<<3>>), 1), Stored(IdA, Lower(<<3, 0>>), 1),
                Stored(IdA, Upper(<<3>>), 2)}
                 \union {Stored(l, Lower(<<3>>), 1) : l \in Local}]

\* The same, and a conflict that becomes the winner.
OldConflictWins ==
  [OldDeletedBelow EXCEPT !.docs[IdA].paths = @ \union {<<Lower(<<1>>)>>},
                          !.bodies = @ \union {Stored(IdA, Lower(<<1>>), 1)}]

\* A `_local/' document that is in the local store as well.
OldBothStores == [OldPlain EXCEPT !.locals = Local]

Old == {OldPlain, OldTwoLeaves, OldTwoRoots, OldConflictWins, OldBothStores}

OldDeleted == {OldDeletedBelow}

----------------------------------------------------------------------------
(* Files that are only planned: every small tree *)

\* The paths of a tree, in spellings.
Spelled == {Spelling(n) : n \in {Lower(r) : r \in SmallRev} \union {Upper(r) : r \in SmallRev}}
Roots1 == {<<s>> : s \in {x \in Spelled : Len(x.rev) = 1}}
Pairs == {<<s, t>> : s \in {x \in Spelled : x.rev = <<3>>}, t \in {x \in Spelled : Len(x.rev) = 2}}

\* bound: up to three paths, none within another; a spelling at one node only.
SpelledTrees ==
  {P \in UNION {kSubset(k, Roots1 \union Pairs) : k \in 1 .. 3} :
     \A p, q \in P : p # q => ~IsPrefix(p, q) /\ Last(p) # Last(q)}

OldNodes(P) == UNION {Range(p) : p \in P}

\* The spellings of a revision that has two may disagree on its deletion; another
\* revision is the deletion that its name says.
Flags(P) ==
  {D \in SUBSET OldNodes(P) : \A s \in OldNodes(P) :
     [s EXCEPT !.up = ~s.up] \notin OldNodes(P) => (s \in D <=> s.rev \in SmallDeleted)}

\* bound: every body is there, or all but one.
Bodies(P) == {OldNodes(P)} \union {OldNodes(P) \ {s} : s \in OldNodes(P)}

Flagged(P, D) ==
  {[i \in DOMAIN p |-> [rev |-> p[i].rev, up |-> p[i].up, avail |-> TRUE, del |-> p[i] \in D]] :
     p \in P}

PlannedWith(P, D) ==
  LET paths == Flagged(P, D)
      feed  == {Entry(1, IdA, RawDeleted(paths))}
  IN  {[schema |-> 0, docs |-> (IdA :> [paths |-> paths, seq |-> 1]) @@ (IdB :> Absent),
        inline |-> [l \in Local |-> Absent],
        bodies |-> {Stored(IdA, s, 1) : s \in B},
        locals |-> {}, atts |-> {"x"}, changes |-> feed,
        updateSeq |-> 1, purgeSeq |-> 0, uuid |-> 0] : B \in Bodies(P)}

Planned == UNION {UNION {PlannedWith(P, D) : D \in Flags(P)} : P \in SpelledTrees}

AllOld == Old \union Planned

\* Of a file that is only planned one process gets as far as the plan.
PlanOnly(p, f) ==
  /\ OpenFile(p, f, "backup") \/ Analyze(p)
  /\ UNCHANGED <<live, tables>>

MCNext ==
  \/ (live \/ old \notin Planned) /\ FileNext
  \/ old \in Planned /\ ~live /\ PlanOnly(CHOOSE p \in Proc : TRUE, CHOOSE f \in File : TRUE)

MCSpec == FileInit /\ [][MCNext]_vars
=============================================================================
