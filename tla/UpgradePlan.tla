---------------------------- MODULE UpgradePlan ----------------------------
(***************************************************************************)
(* What the upgrade makes of the tables of an older redb file              *)
(* (rouchdb-adapter-redb/src/upgrade.rs, from `analyze' to `apply').       *)
(*                                                                         *)
(* rouchdb <= 0.4 kept revision ids as they came, so one revision can be   *)
(* in a file under two spellings, in upper and in lower case, at two nodes *)
(* of a tree and with two bodies; it keyed attachments by document and     *)
(* name, stored `_local/' documents among the others and had no counts.    *)
(*                                                                         *)
(* An old tree is the set of its root-to-leaf paths, a path a sequence of  *)
(* nodes [rev, up, avail, del], oldest first: a spelling, with its own     *)
(* flags, as two spellings of a revision can disagree on its deletion.  An *)
(* old file is a record                                                    *)
(*   schema   0 for rouchdb <= 0.4, above 0 for a development build        *)
(*   docs     for each id its old tree and its sequence (no path: no       *)
(*            document); likewise `inline', the `_local/' documents stored *)
(*            among them                                                   *)
(*   bodies   the stored bodies: records [id, rev, up, data]               *)
(*   locals   the local documents written with put_local                   *)
(*   atts     the digests of the bytes held, whatever they are keyed by    *)
(*   changes, updateSeq, purgeSeq, uuid                                    *)
(***************************************************************************)
EXTENDS RedbTables

CONSTANT RawRank  \* RawRank[r][up]: the place of the hash as it is spelled

Spelling(n) == [rev |-> n.rev, up |-> n.up]

\* traverse_rev_tree: the nodes of an old tree, as the paths that lead to them.
NodePaths(paths) == UNION {{SubSeq(p, 1, i) : i \in 1 .. Len(p)} : p \in paths}

SpellingsOf(paths) == {Spelling(Last(p)) : p \in NodePaths(paths)}

LeafSpellings(paths) == {Spelling(Last(p)) : p \in paths}

\* node_info: whether the node so spelled is deleted.
SpelledDeleted(paths, s) ==
  \E p \in NodePaths(paths) : Spelling(Last(p)) = s /\ Last(p).del

\* winning_rev, on ids as they are spelled.
RawBeats(paths, s, t) ==
  LET dead(x) == SpelledDeleted(paths, x)
  IN  \/ ~dead(s) /\ dead(t)
      \/ /\ dead(s) <=> dead(t)
         /\ \/ Gen[s.rev] > Gen[t.rev]
            \/ Gen[s.rev] = Gen[t.rev] /\ RawRank[s.rev][s.up] > RawRank[t.rev][t.up]

RawWinner(paths) ==
  CHOOSE s \in LeafSpellings(paths) :
    \A t \in LeafSpellings(paths) \ {s} : RawBeats(paths, s, t)

\* is_deleted: the winner is, on ids as they are spelled.
RawDeleted(paths) == SpelledDeleted(paths, RawWinner(paths))

\* Slip: a live leaf does not go before a deleted one.
RankNoLive(paths, s) ==
  LET leaf == IF s \in LeafSpellings(paths) THEN 4 ELSE 0
      node == IF s \in SpellingsOf(paths) THEN 2 ELSE 0
  IN  leaf + node + (IF s.up THEN 0 ELSE 1)

\* rank: a leaf goes before an inner node, a live leaf before a deleted one, a
\* node before a spelling the tree lacks, then lower case, whose letters sort
\* after the upper ones.
Rank(paths, s) ==
  LET leaf == IF s \in LeafSpellings(paths) THEN 4 ELSE 0
      alive == IF leaf > 0 /\ ~SpelledDeleted(paths, s) THEN 8 ELSE 0
      node == IF s \in SpellingsOf(paths) THEN 2 ELSE 0
  IN  alive + leaf + node + (IF s.up THEN 0 ELSE 1)

BestSpelling(paths, S) == CHOOSE s \in S : \A t \in S : Rank(paths, s) >= Rank(paths, t)

----------------------------------------------------------------------------
(* Revision trees *)

\* The revisions that several nodes of the tree are spellings of.
MergedRevs(paths) ==
  {r \in Rev : Cardinality({p \in NodePaths(paths) : Last(p).rev = r}) > 1}

\* collapse: the paths of the tree, in one case, merged one after the other.
Collapsed(paths) ==
  FoldSet(LAMBDA p, N : MergeNodes(N, p[1].rev, Last(p).rev,
                                   Absorbed(N, p[1].rev, Last(p).rev)),
          {}, paths)

\* set_deleted: the revisions that are deletions in the new tree.  A merged one
\* is deleted if the spelling that is preferred is.
Tombstones(paths) ==
  {r \in {s.rev : s \in SpellingsOf(paths)} :
     SpelledDeleted(paths, BestSpelling(paths, {s \in SpellingsOf(paths) : s.rev = r}))}

\* normalize_doc_tree: each revision under its lower-case id, available if any
\* of its spellings was.
NormalizeDocTree(paths) ==
  LET nodes == IF MergedRevs(paths) = {}
                 THEN UNION {{<<p[1].rev, p[i].rev>> : i \in 1 .. Len(p)} : p \in paths}
                 ELSE Collapsed(paths)
  IN  [nodes |-> nodes,
       avail |-> {n \in nodes : \E p \in NodePaths(paths) : Last(p).rev = n[2] /\ Last(p).avail}]

----------------------------------------------------------------------------
(* Bodies *)

BodySpellings(F, d, r) == {Spelling(b) : b \in {x \in F.bodies : x.id = d /\ x.rev = r}}

\* plan_body_moves: of the spellings of r that have a body the preferred one.
KeptSpelling(F, d, r) == BestSpelling(F.docs[d].paths, BodySpellings(F, d, r))

----------------------------------------------------------------------------
(* Local documents *)

\* The `_local/' documents that are there and move to the local store.
MovingLocals(F) == {l \in Local : F.inline[l].paths # {} /\ ~RawDeleted(F.inline[l].paths)}

\* plan_local_moves refuses a document that is in both stores.
Refused(F) == MovingLocals(F) \intersect F.locals # {}

\* The change entries that go: a deleted `_local/' document loses its too.
LocalEntries(F) ==
  {c \in F.changes : \E l \in Local :
     F.inline[l].paths # {} /\ F.inline[l].seq = c.seq /\ c.id = l}

----------------------------------------------------------------------------
(* The plan and its application *)

LeavesAfter(F, d) == LeafRevs(NormalizeDocTree(F.docs[d].paths).nodes)

\* is_deleted, of the new tree: its winner is a deletion, so all its leaves are.
DeletedAfter(F, d) == LeavesAfter(F, d) \subseteq Tombstones(F.docs[d].paths)

\* The counts of the metadata record, from none, document by document.
CountedMeta(F) ==
  LET there == {d \in Doc : F.docs[d].paths # {}}
  IN  [NewMeta(F.uuid) EXCEPT
         !.updateSeq = F.updateSeq, !.purgeSeq = F.purgeSeq,
         !.docCount = Cardinality({d \in there : ~DeletedAfter(F, d)}),
         !.delCount = Cardinality({d \in there : DeletedAfter(F, d)})]

\* The tables after the upgrade.
Upgraded(F) ==
  LET docs == [d \in Doc |-> IF F.docs[d].paths = {} THEN NoRecord ELSE
                [tree |-> NormalizeDocTree(F.docs[d].paths), seq |-> F.docs[d].seq]]
  IN  [docs |-> docs,
       revs |-> {RevDataKey(b.id, b.rev) : b \in {x \in F.bodies : x.id \in Doc}},
       changes |-> F.changes \ LocalEntries(F),
       atts |-> F.atts,
       locals |-> F.locals \union MovingLocals(F),
       meta |-> CountedMeta(F)]

----------------------------------------------------------------------------
(* What the report foretells *)

\* The revisions that have a body, leaves or not; of spellings only one counts.
BodiesOf(F, d) == IF F.docs[d].paths = {} THEN {} ELSE {r \in Rev : BodySpellings(F, d, r) # {}}

\* old_revision_bodies
OldBodies(F) == UNION {{<<d, r>> : r \in BodiesOf(F, d) \ LeavesAfter(F, d)} : d \in Doc}

\* has_bytes: under the old keys, or by digest already.
HasBytes(F, x) == x \in F.atts

\* leaf_digests: a leaf of any document keeps the bytes.
LeafDigests(F) ==
  UNION {UNION {Att[r] : r \in BodiesOf(F, d) \intersect LeavesAfter(F, d)} : d \in Doc}

\* docs_with_old_only_attachments
OldOnlyDocs(F) ==
  {d \in Doc : \E o \in OldBodies(F) :
     o[1] = d /\ \E x \in Att[o[2]] \ LeafDigests(F) : HasBytes(F, x)}
=============================================================================
