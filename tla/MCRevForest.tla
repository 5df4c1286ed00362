---------------------------- MODULE MCRevForest ----------------------------
(* Instances of RevForest: the words name the leaves of the universe. *)
EXTENDS RevForest, RevUniverse

\* Two roots; a branch of four generations with a tombstone beside its tip,
\* a fork at the root and one lower down.
WideWords == {<<1, 1, 1>>, <<1, 1, 2>>, <<1, 2, 0>>, <<2>>}
\* One root and a longer branch.
DeepWords == {<<1, 1, 1, 1>>, <<1, 1, 2>>, <<1, 2>>}

WideRev == USet(WideWords)
WideGen == UGen(WideRev)
WideAnc == UAnc(WideRev)
WideDeleted == UDeleted(WideRev)
WideRank == URank(WideRev)

DeepRev == USet(DeepWords)
DeepGen == UGen(DeepRev)
DeepAnc == UAnc(DeepRev)
DeepDeleted == UDeleted(DeepRev)
DeepRank == URank(DeepRev)
=============================================================================
