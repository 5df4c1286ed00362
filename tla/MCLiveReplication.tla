------------------------- MODULE MCLiveReplication -------------------------
(* Instances of LiveReplication. *)
EXTENDS LiveReplication, RevUniverse

\* Documents that are created and not edited.
LineRev == USet({<<1>>})
LineGen == UGen(LineRev)
LineAnc == UAnc(LineRev)
LineDeleted == UDeleted(LineRev)
LineRank == URank(LineRev)
LineAtt == [r \in LineRev |-> {}]

\* One replicator, from "s" to "t".
SourceS == [x \in Replicator |-> "s"]
TargetT == [x \in Replicator |-> "t"]

\* The source is edited, and either database destroyed.
Destroying ==
  {[runs |-> Replicator, readOnly |-> {}, denied |-> {}, filters |-> {NoFilter}, sameIds |-> FALSE,
    edits |-> {"s"} \X Doc \X LineRev,
    purged |-> {}, destroyed |-> Node, restorable |-> {}, faults |-> 2]}
=============================================================================
