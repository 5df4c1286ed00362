-------------------------- MODULE LiveReplication --------------------------
(***************************************************************************)
(* Live replications (rouchdb-replication: protocol.rs replicate_live,     *)
(* with retry): a replicator runs one pass of Replication after another.   *)
(* Between two passes it takes in the notices both adapters have announced *)
(* (rouchdb-core: ChangeNotice, over a bounded broadcast channel that      *)
(* drops the oldest notice when it is full), and waits for the next one.   *)
(* The cursor of a pass is where the pass before it stopped, unless one of *)
(* the databases was destroyed meanwhile.                                  *)
(***************************************************************************)
EXTENDS Replication

CONSTANTS
  Announcing,  \* sets of nodes whose adapters may be those that announce changes
  Capacity     \* NOTICE_CAPACITY

ASSUME LiveAssumption == Announcing \subseteq SUBSET Node /\ Capacity \in Nat \ {0}

VARIABLES
  live,       \* live[x]: the loop around the passes of x
  queue,      \* queue[x][n]: the notices of n that x has not received
  announces   \* the nodes whose adapter has a subscribe; it never changes

liveVars == <<vars, live, queue, announces>>

----------------------------------------------------------------------------
(* Notices *)

\* What n announces in this step: a reset, or each change it recorded.
Announced(n) ==
  IF db'[n].uuid # db[n].uuid
    THEN <<"reset">>
    ELSE [i \in 1 .. Cardinality({c \in db'[n].changes : c.seq > db[n].updateSeq}) |-> "change"]

NoNotices == [notices |-> <<>>, lagged |-> FALSE]

\* The channel keeps the newest Capacity notices and tells that it lost some.
Push(q, new) ==
  LET all  == q.notices \o new
      lost == Len(all) - Capacity
  IN  IF lost > 0
        THEN [notices |-> SubSeq(all, lost + 1, Len(all)), lagged |-> TRUE]
        ELSE [q EXCEPT !.notices = all]

\* A step that receives nothing.
Announce ==
  queue' = [x \in Replicator |->
             [n \in Node |-> IF n \in announces \cap {Source[x], Target[x]}
                               THEN Push(queue[x][n], Announced(n))
                               ELSE queue[x][n]]]

Pending(x, n) == queue[x][n] # NoNotices

HasReset(x, n) == \E i \in DOMAIN queue[x][n].notices : queue[x][n].notices[i] = "reset"

----------------------------------------------------------------------------
(* The loop *)

\* since and session are those of the next pass, if there are any; ids is
\* session_ids, the identities they belong to; sid the id of the source while
\* that of the target is asked for.
NoSeq == -1

LiveInit ==
  /\ Init
  /\ live = [x \in Replicator |->
              [pc |-> "source_id", since |-> NoSeq, session |-> 0, ids |-> <<>>,
               sid |-> <<>>, reset |-> FALSE]]
  /\ queue = [x \in Replicator |-> [n \in Node |-> NoNotices]]
  /\ announces \in Announcing

LiveAt(x, pc) == live[x].pc = pc

Goes(x, l) == live' = [live EXCEPT ![x] = l]

\* peer_ids awaits the identity of the source, then that of the target.
AskSource(x) ==
  /\ LiveAt(x, "source_id")
  /\ Goes(x, [live[x] EXCEPT !.pc = "target_id", !.sid = Id(Source[x])])
  /\ UNCHANGED <<vars, queue>>

\* Slip: only an announced reset starts over.
AnnouncedReset(l, ids) == l.reset

\* Whether a peer was reset since the cursor was taken.
PeerReset(l, ids) == l.reset \/ (l.ids # <<>> /\ l.ids # ids)

\* A pass starts where the last one stopped, in its session; after a reset
\* it starts from the checkpoints, in a new session.
BeginPass(x) ==
  /\ LiveAt(x, "target_id")
  /\ LET ids    == <<live[x].sid, Id(Target[x])>>
         over   == PeerReset(live[x], ids)
         since  == IF over THEN NoSeq ELSE live[x].since
         fresh  == over \/ live[x].session = 0
         sess   == IF fresh THEN sessions + 1 ELSE live[x].session
         pass   == [Idle EXCEPT !.ids = ids, !.session = sess,
                                !.readOnly = ~fresh /\ run[x].readOnly]
     IN  /\ Goes(x, [pc |-> "pass", since |-> since, session |-> sess, ids |-> ids,
                     sid |-> <<>>, reset |-> FALSE])
         /\ run' = [run EXCEPT ![x] = IF since = NoSeq THEN Begin(pass) ELSE From(pass, since)]
         /\ sessions' = IF fresh THEN sess ELSE sessions
  /\ UNCHANGED <<db, local, backup, policy, faults, queue>>

\* A call of the pass, and what the adapters announce of it.
PassStep(x) == LiveAt(x, "pass") /\ Step(x) /\ Announce /\ UNCHANGED live

\* A checkpoint that cannot be written ends the pass; what it copied counts.
CheckpointLost(x) ==
  /\ run[x].pc \in {"cp_target", "cp_source"} /\ faults < policy.faults
  /\ run' = [run EXCEPT ![x] = Ended([@ EXCEPT !.failed = TRUE])]
  /\ faults' = faults + 1
  /\ UNCHANGED <<db, local, sessions, backup, policy, live, queue>>

\* Any other call that fails ends the pass, and its session: the identities
\* are derived again.
CallFails(x) ==
  /\ LiveAt(x, "pass") /\ run[x].pc \notin {"done", "cp_target", "cp_source"}
  /\ Stop(x)
  /\ Goes(x, [live[x] EXCEPT !.pc = "back_off", !.session = 0])
  /\ UNCHANGED queue

\* The identities cannot be read.  No pass starts, and a reset stays noted; a
\* comparison finds no change.  The in-process adapters, those that announce,
\* answer a comparison.
IdsUnread(x) ==
  /\ faults < policy.faults /\ faults' = faults + 1
  /\ \/ /\ LiveAt(x, "source_id") \/ LiveAt(x, "target_id")
        /\ Goes(x, [live[x] EXCEPT !.pc = "back_off", !.session = 0, !.sid = <<>>])
     \/ /\ LiveAt(x, "check") /\ ~({Source[x], Target[x]} \subseteq announces)
        /\ Goes(x, [live[x] EXCEPT !.pc = "wait"])
  /\ UNCHANGED <<db, local, run, sessions, backup, policy, queue>>

\* The pass has ended: its last_seq is the next cursor.
PassEnds(x) ==
  /\ LiveAt(x, "pass") /\ At(x, "done")
  /\ Goes(x, [live[x] EXCEPT !.pc = IF run[x].failed THEN "back_off" ELSE "drain",
                             !.since = run[x].since])
  /\ run' = [run EXCEPT ![x] = [Idle EXCEPT !.readOnly = run[x].readOnly]]
  /\ UNCHANGED <<db, local, sessions, backup, policy, faults, queue>>

BackedOff(x) ==
  /\ LiveAt(x, "back_off")
  /\ Goes(x, [live[x] EXCEPT !.pc = "source_id"])
  /\ UNCHANGED <<vars, queue>>

\* Slip: what was announced during the pass is taken for the pass's own.
AfterDrainAsleep(x, reset) ==
  IF reset THEN "source_id" ELSE IF queue[x][Target[x]].lagged THEN "check" ELSE "wait"

\* Slip: a reset that may have been lost is not looked for.
AfterDrainUnlagged(x, reset) ==
  IF reset \/ Pending(x, Source[x]) THEN "source_id" ELSE "wait"

\* Changes of the source, and resets, start the next pass at once; if notices
\* of the target were lost, its identity tells whether a reset was.
AfterDrain(x, reset) ==
  IF reset \/ Pending(x, Source[x])
    THEN "source_id"
    ELSE IF queue[x][Target[x]].lagged THEN "check" ELSE "wait"

\* drain_notices, of both channels.
Drain(x) ==
  /\ LiveAt(x, "drain")
  /\ LET reset == live[x].reset \/ HasReset(x, Source[x]) \/ HasReset(x, Target[x])
     IN  Goes(x, [live[x] EXCEPT !.pc = AfterDrain(x, reset), !.reset = reset])
  /\ queue' = [queue EXCEPT ![x] = [n \in Node |-> NoNotices]]
  /\ UNCHANGED vars

\* ids_changed
CompareIds(x, changed) ==
  /\ LiveAt(x, "check")
  /\ changed <=> live[x].ids # Ids(x)
  /\ Goes(x, [live[x] EXCEPT !.pc = IF changed THEN "source_id" ELSE "wait"])
  /\ UNCHANGED <<vars, queue>>

\* Waiting: a notice of the source, or that it lost some, ends the wait; the
\* others that are queued are taken in with it.
WakeBySource(x) ==
  /\ LiveAt(x, "wait") /\ Pending(x, Source[x])
  /\ Goes(x, [live[x] EXCEPT !.pc = "source_id", !.reset = @ \/ HasReset(x, Source[x])])
  /\ queue' = [queue EXCEPT ![x][Source[x]] = NoNotices]
  /\ UNCHANGED vars

\* Notices of the target count only if they are resets.
HearTarget(x) ==
  LET q == queue[x][Target[x]]
  IN  /\ LiveAt(x, "wait") /\ Pending(x, Target[x])
      /\ IF q.lagged
           THEN /\ queue' = [queue EXCEPT ![x][Target[x]].lagged = FALSE]
                /\ Goes(x, [live[x] EXCEPT !.pc = "check"])
           ELSE /\ queue' = [queue EXCEPT ![x][Target[x]].notices = Tail(@)]
                /\ IF Head(q.notices) = "reset"
                     THEN Goes(x, [live[x] EXCEPT !.pc = "source_id", !.reset = TRUE])
                     ELSE UNCHANGED live
      /\ UNCHANGED vars

\* poll_interval: a source that announces nothing is read again; of a target
\* that announces nothing the identity is compared.
Poll(x) ==
  /\ LiveAt(x, "wait")
  /\ \/ /\ Source[x] \notin announces
        /\ Goes(x, [live[x] EXCEPT !.pc = "source_id"])
     \/ /\ Source[x] \in announces /\ Target[x] \notin announces
        /\ Goes(x, [live[x] EXCEPT !.pc = "check"])
  /\ UNCHANGED <<vars, queue>>

LiveStep(x) ==
  /\ \/ AskSource(x) \/ BeginPass(x) \/ PassStep(x) \/ PassEnds(x) \/ BackedOff(x)
     \/ Drain(x) \/ \E changed \in BOOLEAN : CompareIds(x, changed)
     \/ WakeBySource(x) \/ HearTarget(x) \/ Poll(x)
  /\ UNCHANGED announces

LiveNext ==
  /\ \/ \E x \in Replicator : LiveStep(x) \/ CheckpointLost(x) \/ CallFails(x) \/ IdsUnread(x)
     \/ Applications /\ Announce /\ UNCHANGED live
  /\ UNCHANGED announces

\* The task is polled until it is cancelled.  A select! whose deadline was set
\* anew takes a notice that is ready before the deadline.
LiveFairness ==
  \A x \in Replicator :
    /\ WF_liveVars(LiveStep(x))
    /\ SF_liveVars(WakeBySource(x) /\ UNCHANGED announces)

LiveSpec == LiveInit /\ [][LiveNext]_liveVars /\ LiveFairness
----------------------------------------------------------------------------
LiveTypeOK ==
  /\ TypeOK
  /\ \A x \in Replicator :
       /\ live[x].pc \in {"source_id", "target_id", "pass", "back_off", "drain", "check", "wait"}
       /\ live[x].since \in Nat \union {NoSeq} /\ live[x].session \in 0 .. sessions
       /\ live[x].pc # "pass" => ~Active(x)
       /\ \A n \in Node : Len(queue[x][n].notices) <= Capacity

\* The cursor that the next pass takes over is sound: up to it the target has
\* everything, for the databases it was taken from, whichever passes failed
\* and whatever was destroyed while they ran.
LiveCursorSound ==
  \A x \in Replicator :
    live[x].ids = Ids(x) /\ live[x].since # NoSeq => CopiedUpTo(x, NoFilter, live[x].since)

\* No wake-up is lost: a replicator that waits with nothing left to receive,
\* between adapters that announce, has copied all there is, to the database
\* that is there now, although notices are dropped when a channel is full.
IdleMeansCopied ==
  \A x \in Replicator :
    /\ LiveAt(x, "wait") /\ {Source[x], Target[x]} \subseteq announces
    /\ ~Pending(x, Source[x])
    /\ ~HasReset(x, Target[x]) /\ ~queue[x][Target[x]].lagged
    => live[x].ids = Ids(x) /\ CopiedUpTo(x, NoFilter, db[Source[x]].updateSeq)

\* Once applications, failures and destroys cease, every change reaches the
\* target and stays there.
Converges == <>[](\A x \in Replicator : CopiedUpTo(x, NoFilter, db[Source[x]].updateSeq))
=============================================================================
