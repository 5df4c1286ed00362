--------------------------- MODULE ChangesStream ---------------------------
(***************************************************************************)
(* A changes stream (rouchdb-changes/src/lib.rs): one consumer that calls  *)
(* next_event, and may drop a call that is waiting and call again later;   *)
(* the adapter it reads, other writers of the database, and the channel of *)
(* change notices between them.                                            *)
(*                                                                         *)
(* The adapter is of a `kind':                                             *)
(*   memory   one fair readers-writer lock; a write announces its change   *)
(*            before it releases the lock, a fetch reads when the future   *)
(*            that has the lock is polled                                  *)
(*   redb     a write collects its notices if anybody is subscribed,       *)
(*            commits, then sends them; fetches run on a thread of their   *)
(*            own                                                          *)
(*   quiet    no notices (a remote database): the stream polls             *)
(* and the consumer of a `mode': it calls next_event itself (direct), or   *)
(* it is the task of live_changes (changes) or of live_changes_events      *)
(* (events), which send what the stream returns through a bounded channel. *)
(***************************************************************************)
EXTENDS Naturals, FiniteSets, SequencesExt

CONSTANTS
  Doc,          \* document ids
  Setups,       \* the combinations looked at: records [kind, mode, opt], opt
                \* the options of the stream, [live, limit, timeout, heartbeat,
                \* ids, pass], where `pass' are the documents the filter and
                \* the selector let through
  MaxSeq,       \* bound: the last sequence
  MaxFail,      \* bound: how many fetches fail
  NoticeCap,    \* the capacity of the notice channel
  OutCap,       \* the capacity of the channel of live_changes
  WritingKinds, \* the kinds to which the consumer writes between two calls
  Races,        \* whether a stream is created while a redb write is under way
  None

ASSUME StreamAssumption ==
  /\ \A x \in Setups : x.kind \in {"memory", "redb", "quiet"} /\ x.mode \in {"direct", "changes", "events"}
  /\ \A x \in Setups : x.mode # "direct" => x.opt.live
  /\ \A x \in Setups : x.opt.limit \in Nat
  /\ IsFiniteSet(Doc)
  /\ MaxSeq \in Nat \ {0} /\ MaxFail \in Nat /\ NoticeCap \in Nat \ {0} /\ OutCap \in Nat \ {0}

VARIABLES
  kind, mode, opt,
  feed,     \* the changes feed: the sequence of each document, 0 for none
  writers,  \* what the writers, one of them the consumer, are doing
  lock,     \* who has the memory adapter's lock, and who queues for it
  notices,  \* how many notices the stream's receiver has queued
  stream,   \* the LiveChangesStream; None before `new'
  call,     \* where the call of next_event is
  user,     \* what the consumer is doing
  out,      \* how many events the channel of live_changes holds
  stopped,  \* whether the stream was cancelled
  fails,    \* how many fetches have failed
  seen,     \* for each document the sequence of its last change returned
  due,      \* the feed as it was when the idle deadline passed
  stale     \* whether the fetch of the last look was in flight before

env == <<kind, mode, opt>>
database == <<feed, writers, lock, notices>>
history == <<seen, due, stale>>
vars == <<env, database, stream, call, user, out, stopped, fails, history>>

Writer == {"other", "consumer"}

Idle == [at |-> "idle", doc |-> None, tell |-> FALSE]

NoCall == [at |-> "none", asleep |-> FALSE]

Seq0 == [d \in Doc |-> 0]

LastSeqOf(f) == CHOOSE s \in {0} \union {f[d] : d \in Doc} : \A d \in Doc : f[d] <= s

Init ==
  /\ \E x \in Setups : kind = x.kind /\ mode = x.mode /\ opt = x.opt
  /\ feed = Seq0 /\ writers = [w \in Writer |-> Idle]
  /\ lock = [holder |-> None, queue |-> <<>>]
  /\ notices = 0 /\ stream = None /\ call = NoCall /\ user = "away"
  /\ out = 0 /\ stopped = FALSE /\ fails = 0
  /\ seen = Seq0 /\ due = Seq0 /\ stale = FALSE

Passes(d) == d \in opt.ids /\ d \in opt.pass

----------------------------------------------------------------------------
(* The database and its writers *)

\* tokio's lock: first come, first served.
Acquire(who) ==
  IF lock.holder = None THEN [lock EXCEPT !.holder = who] ELSE [lock EXCEPT !.queue = Append(@, who)]

Released ==
  IF lock.queue = <<>> THEN [lock EXCEPT !.holder = None]
                       ELSE [holder |-> Head(lock.queue), queue |-> Tail(lock.queue)]

Subscribed == stream # None /\ opt.live /\ kind # "quiet"

\* A lagging receiver loses the oldest notices, never the last one.
Notified == IF notices < NoticeCap THEN notices + 1 ELSE notices

Recorded(d) == [feed EXCEPT ![d] = LastSeqOf(feed) + 1]

WriterSteps(w, state) == writers' = [writers EXCEPT ![w] = state]

\* A write that queues for the lock, or has it.
Begin(w, d) ==
  /\ LastSeqOf(feed) + Cardinality({v \in Writer : writers[v] # Idle}) < MaxSeq
  /\ writers[w] = Idle
  /\ kind = "redb" => \A v \in Writer : writers[v] = Idle
  /\ WriterSteps(w, [at |-> IF kind = "redb" THEN "collected" ELSE "begun", doc |-> d,
                     tell |-> kind = "redb" /\ Subscribed])
  /\ lock' = IF kind = "memory" THEN Acquire(w) ELSE lock
  /\ UNCHANGED <<feed, notices>>

\* apply_write and announce, under the lock.
Apply(w) ==
  /\ writers[w].at = "begun"
  /\ kind = "memory" => lock.holder = w
  /\ feed' = Recorded(writers[w].doc)
  /\ notices' = IF kind = "memory" /\ Subscribed THEN Notified ELSE notices
  /\ lock' = IF kind = "memory" THEN Released ELSE lock
  /\ WriterSteps(w, Idle)

\* commit_announcing, after the notices are collected.
CommitTables(w) ==
  /\ writers[w].at = "collected"
  /\ feed' = Recorded(writers[w].doc)
  /\ WriterSteps(w, [writers[w] EXCEPT !.at = "committed"])
  /\ UNCHANGED <<lock, notices>>

SendNotices(w) ==
  /\ writers[w].at = "committed"
  /\ notices' = IF writers[w].tell THEN Notified ELSE notices
  /\ WriterSteps(w, Idle)
  /\ UNCHANGED <<feed, lock>>

WriteStep(w) ==
  /\ Apply(w) \/ CommitTables(w) \/ SendNotices(w)
  /\ UNCHANGED <<env, stream, call, user, out, stopped, fails, history>>

OtherWrites(d) ==
  /\ Begin("other", d)
  /\ UNCHANGED <<env, stream, call, user, out, stopped, fails, history>>

----------------------------------------------------------------------------
(* Fetching *)

\* Documents in the order of their last changes.
FeedOrder(S) ==
  [i \in 1 .. Cardinality(S) |-> CHOOSE d \in S : Cardinality({e \in S : feed[e] <= feed[d]}) = i]

\* What the adapter answers: the events after `since', at most n of them, and
\* last_seq.
Answer(since, n) ==
  LET later  == {d \in Doc : feed[d] > since}
      wanted == FeedOrder(later \intersect opt.ids)
      shown  == SubSeq(wanted, 1, IF n < Len(wanted) THEN n ELSE Len(wanted))
  IN  [ok |-> TRUE, events |-> [i \in 1 .. Len(shown) |-> [doc |-> shown[i], seq |-> feed[shown[i]]]],
       last |-> IF shown # <<>> THEN feed[Last(shown)]
                ELSE IF later # {} THEN LastSeqOf(feed) ELSE since]

\* A post-fetch filter decides what counts, so the adapter must not limit.
FetchLimit == IF opt.pass # Doc THEN MaxSeq ELSE opt.limit - stream.count

\* The fetch of redb or of a remote database: it reads and answers whether or
\* not anybody polls it.
ReadFeed ==
  /\ stream # None /\ stream.fetch # None /\ kind # "memory" /\ stream.fetch.answer = None
  /\ \/ /\ stream' = [stream EXCEPT !.fetch.answer = Answer(stream.fetch.since, stream.fetch.limit)]
        /\ UNCHANGED fails
     \/ /\ fails < MaxFail
        /\ fails' = fails + 1
        /\ stream' = [stream EXCEPT !.fetch.answer = [ok |-> FALSE]]
  /\ UNCHANGED <<env, database, call, user, out, stopped, history>>

----------------------------------------------------------------------------
(* The stream: what its fields become *)

NewStream ==
  [state |-> "initial", last |-> 0, buffer |-> <<>>, bufferLast |-> 0, count |-> 0,
   poll |-> "off", idle |-> "off",
   beat |-> IF opt.live /\ opt.heartbeat THEN "set" ELSE "off",
   paused |-> FALSE, failures |-> 0, fetch |-> None]

EnterWaiting(st) ==
  [st EXCEPT !.state = "waiting", !.poll = "set",
             !.idle = IF @ = "off" /\ opt.timeout THEN "set" ELSE @]

\* fetch_failed: a live stream tries again later, a one-shot stream ends.
FetchFailed(st) ==
  IF opt.live THEN EnterWaiting([st EXCEPT !.failures = 1]) ELSE [st EXCEPT !.state = "failed"]

\* fetch_changes, once the answer is there: an empty batch may still have
\* moved past changes that doc_ids excludes.
Buffered(st, answer) ==
  [st EXCEPT !.fetch = None, !.buffer = answer.events, !.bufferLast = answer.last,
             !.failures = 0,
             !.last = IF answer.events = <<>> /\ answer.last > @ THEN answer.last ELSE @]

\* resume_if_changed
Resumed(st) ==
  IF st.buffer = <<>> THEN st ELSE [st EXCEPT !.state = "yielding", !.idle = "off", !.paused = FALSE]

\* How many buffered events pop_buffered consumes: those the filter drops, and
\* the first it does not.
Consumable ==
  LET kept == {i \in 1 .. Len(stream.buffer) : stream.buffer[i].doc \in opt.pass}
  IN  IF kept = {} THEN Len(stream.buffer) ELSE CHOOSE i \in kept : \A j \in kept : i <= j

\* Slip: the position moves to the end of the batch at once.
ConsumedBatch(st, n) ==
  [st EXCEPT !.buffer = SubSeq(@, n + 1, Len(@)),
             !.last = IF n > 0 /\ st.bufferLast > @ THEN st.bufferLast ELSE @]

\* Slip: the position is that of the last batch that was empty.
ConsumedInPlace(st, n) == [st EXCEPT !.buffer = SubSeq(@, n + 1, Len(@))]

Consumed(st, n) ==
  [st EXCEPT !.buffer = SubSeq(@, n + 1, Len(@)),
             !.last = CASE n = 0 -> @
                        [] n > 0 /\ n = Len(st.buffer) /\ st.bufferLast > st.buffer[n].seq -> st.bufferLast
                        [] OTHER -> st.buffer[n].seq]

----------------------------------------------------------------------------
(* next_event, one pass of its loop at a time *)

\* The call returns an event: to the consumer, or to the task that sends it on.
Return(event) ==
  /\ call' = NoCall
  /\ user' = CASE mode = "direct" -> "free"
               [] mode = "changes" /\ event # "change" -> IF event = "complete" THEN "over" ELSE "free"
               [] OTHER -> "send"

Step(at) == call' = [at |-> at, asleep |-> FALSE] /\ UNCHANGED user

Ended == stream # None /\ stream.state \in {"finished", "failed"}

LimitReached == stream.count >= opt.limit /\ ~Ended

Pass(state) ==
  /\ call.at = "loop" /\ stream.state = state
  /\ state # "done" => ~LimitReached
  /\ UNCHANGED <<env, feed, writers, lock, out, stopped, fails, due>>

ReachLimit ==
  /\ call.at = "loop" /\ LimitReached /\ stream.state # "done"
  /\ stream' = [stream EXCEPT !.state = "done"]
  /\ UNCHANGED <<env, database, call, user, out, stopped, fails, history>>

FetchInitial == Pass("initial") /\ Step("initial") /\ UNCHANGED <<notices, stream, seen, stale>>

\* Returns the next event, or else the stream is caught up.
Yield ==
  LET n     == Consumable
      found == n > 0 /\ stream.buffer[n].doc \in opt.pass
      rest  == Consumed(stream, n)
  IN  /\ Pass("yielding")
      /\ \/ /\ found
            /\ stream' = [rest EXCEPT !.count = @ + 1]
            /\ seen' = [seen EXCEPT ![stream.buffer[n].doc] = stream.buffer[n].seq]
            /\ Return("change")
         \/ /\ ~found
            /\ stream' = IF opt.live THEN [EnterWaiting(rest) EXCEPT !.paused = TRUE]
                                     ELSE [rest EXCEPT !.state = "done"]
            /\ IF opt.live /\ ~stream.paused THEN Return("paused") ELSE Step("loop")
            /\ UNCHANGED seen
      /\ UNCHANGED <<notices, stale>>

\* Slip: the deadline ends the stream.
EndAtDeadline ==
  /\ Pass("waiting") /\ stream.idle = "due"
  /\ stream' = [stream EXCEPT !.state = "done"]
  /\ Step("loop")
  /\ UNCHANGED <<notices, seen, stale>>

\* The idle deadline has passed: look once more.
LookOnceMore ==
  /\ Pass("waiting") /\ stream.idle = "due"
  /\ Step("last look")
  /\ stale' = (stream.fetch # None)
  /\ UNCHANGED <<notices, stream, seen>>

Heartbeat ==
  /\ Pass("waiting") /\ stream.idle # "due" /\ stream.beat = "due"
  /\ stream' = [stream EXCEPT !.beat = "set"]
  /\ Return("heartbeat")
  /\ UNCHANGED <<notices, seen, stale>>

\* A fetch that was left in flight is taken up again.
Wait ==
  /\ Pass("waiting") /\ stream.idle # "due" /\ stream.beat # "due"
  /\ Step(IF stream.fetch = None THEN "sleep" ELSE "again")
  /\ UNCHANGED <<notices, stream, seen, stale>>

End ==
  /\ Pass("done")
  /\ stream' = [stream EXCEPT !.state = "finished"]
  /\ Return("complete")
  /\ UNCHANGED <<notices, seen, stale>>

\* The stream has ended: None.
Finished ==
  /\ call.at = "loop" /\ Ended
  /\ call' = NoCall /\ user' = "over"
  /\ UNCHANGED <<env, database, stream, out, stopped, fails, history>>

\* Slip: a failed fetch waits for the next notice.
PollingQuiet == ~Subscribed

Polling == ~Subscribed \/ stream.failures > 0

Fetching(c) == c.at \in {"initial", "again", "last look"}

\* Whether what a sleeping call waits for has happened.
Ready ==
  IF call.at = "sleep"
    THEN \/ "due" \in {stream.idle, stream.beat}
         \/ IF Polling THEN stream.poll = "due" ELSE notices > 0
    ELSE IF kind = "memory" THEN lock.holder = "fetch" ELSE stream.fetch.answer # None

\* wait_for_fetch: a notice or the poll time is a reason to fetch; one fetch
\* covers all the notices queued.
WakeUp ==
  /\ call.at = "sleep" /\ Ready
  /\ \/ /\ ~Polling /\ notices > 0
        /\ notices' = 0 /\ Step("again")
     \/ /\ Polling \/ "due" \in {stream.idle, stream.beat}
        /\ Step(IF Polling /\ stream.poll = "due" THEN "again" ELSE "loop")
        /\ UNCHANGED notices
  /\ UNCHANGED <<env, feed, writers, lock, stream, out, stopped, fails, history>>

\* The first poll of a fetch: it runs, or queues for the lock.
StartFetch ==
  /\ Fetching(call) /\ stream.fetch = None
  /\ kind = "memory" => lock.holder # None
  /\ stream' = [stream EXCEPT !.fetch = [since |-> stream.last, limit |-> FetchLimit, answer |-> None]]
  /\ lock' = IF kind = "memory" THEN Acquire("fetch") ELSE lock
  /\ call' = [call EXCEPT !.asleep = TRUE]
  /\ UNCHANGED <<env, feed, writers, notices, user, out, stopped, fails, history>>

\* What comes after a fetch, by where it was awaited.
Fetched(answer) ==
  LET got == Resumed(Buffered(stream, answer))
  IN  CASE call.at = "initial" ->
             /\ stream' = [Buffered(stream, answer) EXCEPT !.state = "yielding"]
             /\ Step("loop")
        [] call.at = "last look" ->
             /\ stream' = IF got.state = "yielding" THEN got ELSE [got EXCEPT !.state = "done"]
             /\ IF got.state = "yielding" /\ stream.paused THEN Return("active") ELSE Step("loop")
        [] OTHER ->
             /\ stream' = [got EXCEPT !.poll = "set",
                                      !.paused = IF got.state = "waiting" THEN TRUE ELSE @]
             /\ CASE got.state = "yielding" /\ stream.paused -> Return("active")
                  [] got.state = "waiting" /\ ~stream.paused -> Return("paused")
                  [] OTHER -> Step("loop")

\* The look at the deadline is not repeated.
FetchError ==
  /\ stream' = IF call.at = "last look" THEN [stream EXCEPT !.fetch = None, !.state = "failed"]
                                        ELSE FetchFailed([stream EXCEPT !.fetch = None])
  /\ Return("error")

\* The memory adapter reads when its future is polled with the lock; it may
\* find the lock free at the first poll.
TakeAnswer ==
  /\ Fetching(call)
  /\ IF kind = "memory"
       THEN /\ IF stream.fetch = None
                 THEN lock.holder = None /\ Fetched(Answer(stream.last, FetchLimit)) /\ UNCHANGED lock
                 ELSE /\ lock.holder = "fetch" /\ lock' = Released
                      /\ Fetched(Answer(stream.fetch.since, stream.fetch.limit))
       ELSE /\ stream.fetch # None /\ stream.fetch.answer # None
            /\ IF stream.fetch.answer.ok THEN Fetched(stream.fetch.answer) ELSE FetchError
            /\ UNCHANGED lock
  /\ UNCHANGED <<env, feed, writers, notices, out, stopped, fails, history>>

\* Nothing to do: the call awaits.
FallAsleep ==
  /\ ~call.asleep
  /\ call.at = "sleep" \/ (Fetching(call) /\ stream.fetch # None)
  /\ ~Ready
  /\ call' = [call EXCEPT !.asleep = TRUE]
  /\ UNCHANGED <<env, database, stream, user, out, stopped, fails, history>>

CallStep ==
  \/ ReachLimit \/ FetchInitial \/ Yield \/ LookOnceMore \/ Heartbeat \/ Wait \/ End \/ Finished
  \/ WakeUp \/ StartFetch \/ TakeAnswer \/ FallAsleep

----------------------------------------------------------------------------
(* The consumer *)

\* LiveChangesStream::new subscribes before anything is read.
New ==
  /\ user = "away"
  /\ Races \/ \A w \in Writer : ~(kind = "redb" /\ writers[w] # Idle)
  /\ stream' = NewStream /\ user' = "free"
  /\ UNCHANGED <<env, database, call, out, stopped, fails, history>>

NextEvent ==
  /\ user = "free"
  /\ call' = [at |-> "loop", asleep |-> FALSE] /\ user' = "calling"
  /\ UNCHANGED <<env, database, stream, out, stopped, fails, history>>

\* A call that awaits is dropped: another branch of the consumer's select.
Drop ==
  /\ mode = "direct" /\ user = "calling" /\ call.asleep
  /\ call' = NoCall /\ user' = "free"
  /\ UNCHANGED <<env, database, stream, out, stopped, fails, history>>

ConsumerWrites(d) ==
  /\ mode = "direct" /\ kind \in WritingKinds /\ user = "free"
  /\ Begin("consumer", d) /\ user' = "writing"
  /\ UNCHANGED <<env, stream, call, out, stopped, fails, history>>

Written ==
  /\ user = "writing" /\ writers["consumer"] = Idle
  /\ user' = "free"
  /\ UNCHANGED <<env, database, stream, call, out, stopped, fails, history>>

\* Slip: the send waits for room only.
SendBlocking ==
  /\ user = "send"
  /\ out < OutCap /\ out' = out + 1 /\ user' = "free"
  /\ UNCHANGED <<env, database, stream, call, stopped, fails, history>>

\* send_or_cancel
Send ==
  /\ user = "send"
  /\ \/ out < OutCap /\ out' = out + 1 /\ user' = "free"
     \/ stopped /\ user' = "over" /\ UNCHANGED out
  /\ UNCHANGED <<env, database, stream, call, stopped, fails, history>>

\* The task sees the cancellation in its select; the fetch in flight goes with
\* the stream.  live_changes_events sends a last event if there is room.
Stop ==
  /\ mode # "direct" /\ stopped /\ user \in {"free", "calling"}
  /\ call' = NoCall /\ user' = "over"
  /\ out' = IF mode = "events" /\ out < OutCap THEN out + 1 ELSE out
  /\ stream' = [stream EXCEPT !.fetch = None]
  /\ lock' = IF lock.holder = "fetch" THEN Released
             ELSE [lock EXCEPT !.queue = SelectSeq(@, LAMBDA x : x # "fetch")]
  /\ UNCHANGED <<env, feed, writers, notices, stopped, fails, history>>

ConsumerStep == New \/ NextEvent \/ Written \/ Send \/ Stop

Cancel ==
  /\ mode # "direct" /\ stream # None /\ ~stopped
  /\ stopped' = TRUE
  /\ UNCHANGED <<env, database, stream, call, user, out, fails, history>>

Receive ==
  /\ out > 0 /\ out' = out - 1
  /\ UNCHANGED <<env, database, stream, call, user, stopped, fails, history>>

----------------------------------------------------------------------------
(* Time *)

PollDue ==
  /\ stream # None /\ stream.poll = "set" /\ stream.state = "waiting" /\ Polling
  /\ stream' = [stream EXCEPT !.poll = "due"]
  /\ UNCHANGED <<env, database, call, user, out, stopped, fails, history>>

\* A heartbeat takes longer than the consumer does between two calls.
BeatDue ==
  /\ call.asleep /\ stream.beat = "set" /\ stream.state = "waiting"
  /\ stream' = [stream EXCEPT !.beat = "due"]
  /\ UNCHANGED <<env, database, call, user, out, stopped, fails, history>>

IdleDue ==
  /\ stream # None /\ stream.idle = "set"
  /\ stream' = [stream EXCEPT !.idle = "due"]
  /\ due' = feed
  /\ UNCHANGED <<env, database, call, user, out, stopped, fails, seen, stale>>

Next ==
  \/ \E d \in Doc : OtherWrites(d) \/ ConsumerWrites(d)
  \/ \E w \in Writer : WriteStep(w)
  \/ ReadFeed \/ CallStep \/ ConsumerStep \/ Drop \/ Cancel \/ Receive
  \/ PollDue \/ BeatDue \/ IdleDue

\* Writers, fetches and the poll timer go on, the consumer keeps calling, and
\* the receiver of live_changes keeps receiving until it cancels.
Fairness ==
  /\ \A w \in Writer : WF_vars(WriteStep(w))
  /\ WF_vars(ReadFeed) /\ WF_vars(CallStep) /\ WF_vars(ConsumerStep) /\ WF_vars(Stop)
  /\ WF_vars(PollDue) /\ WF_vars(~stopped /\ Receive)

Spec == Init /\ [][Next]_vars /\ Fairness

----------------------------------------------------------------------------
StreamTypeOK ==
  /\ feed \in [Doc -> 0 .. MaxSeq] /\ notices \in 0 .. NoticeCap /\ out \in 0 .. OutCap
  /\ seen \in [Doc -> 0 .. MaxSeq] /\ due \in [Doc -> 0 .. MaxSeq]
  /\ stream # None => /\ stream.last \in 0 .. MaxSeq /\ stream.count <= opt.limit
                      /\ Len(stream.buffer) <= Cardinality(Doc)

\* last_seq(): the sequence to resume from.  Whatever was dropped, retried or
\* filtered, a change at or before it that the consumer wants was returned.
NoneSkipped ==
  stream # None => \A d \in Doc :
    feed[d] # 0 /\ feed[d] <= stream.last /\ Passes(d) => seen[d] = feed[d]

\* Changes are returned in the order of the feed, and none of them twice.
InFeedOrder ==
  [][stream # None /\ stream'.count # stream.count =>
       \E d \in Doc : seen'[d] # seen[d] /\ \A e \in Doc : seen[e] < seen'[d]]_vars

\* "Timed out: look once more so a change made just before the deadline is not
\* lost, then end."
DeadlineLosesNothing ==
  stream # None /\ stream.state = "finished" /\ stream.idle = "due" /\ stream.count < opt.limit
 =>
    \A d \in Doc : Passes(d) /\ feed[d] = due[d] => seen[d] = feed[d]

\* The same, of a look that is not a fetch from before the deadline.
LastLook == ~stale => DeadlineLosesNothing

\* Every change is returned in the end, unless the stream ended, or a later
\* change of the document took its place.
Delivered ==
  \A d \in Doc, s \in 1 .. MaxSeq :
    (stream # None /\ feed[d] = s /\ Passes(d))
      ~> (seen[d] >= s \/ feed[d] > s \/ Ended \/ stopped)

\* A write is done in the end.
WritesDone == \A w \in Writer : (writers[w] # Idle) ~> (writers[w] = Idle)

\* A cancelled task ends, even if nobody receives any more.
TaskStops == stopped ~> (user = "over")
=============================================================================
