----------------------------- MODULE ServerFeed -----------------------------
(***************************************************************************)
(* A changes feed of the server that waits for changes (longpoll or        *)
(* continuous, rouchdb-server/src/routes/changes.rs), and the client that  *)
(* reads it and, when the feed ends or its connection breaks, opens it     *)
(* again where it got to.  Changes filtered by a selector are read from    *)
(* the database in batches (Database::changes, rouchdb/src/lib.rs).        *)
(***************************************************************************)
EXTENDS HttpServer

CONSTANTS
  Design,    \* the ids of design documents
  Matching,  \* the revisions whose body a selector matches
  Batch,     \* SELECTOR_CHANGES_BATCH
  MaxSeq,    \* bound: the database writes no sequence after this one
  Reopens    \* the number of times the client opens the feed again

ASSUME FeedAssumption == Batch \in Nat \ {0} /\ Reopens \in Nat

(* feed is a record                                                        *)
(*   pc         "fetch", "serve", "wait", "ended", or "closed" for good    *)
(*   kind       "longpoll" or "continuous"                                 *)
(*   filter     "none", "design" or "selector"                             *)
(*   timeout    whether inactivity ends the feed (no heartbeat asked for)  *)
(*   limit      the limit asked for, of which `remaining' is left          *)
(*   since      req.opts.since                                             *)
(*   events, lastSeq   what the fetch at hand has gathered, and from where *)
(*              it goes on                                                 *)
(*   got        the sequences sent to the client, as a list, the first     *)
(*              `base' of them on earlier connections                      *)
(*   resume     where the client opens the feed when it is opened again    *)
(*   uuid       the database that was there when the feed was opened first *)
(*   left       the number of times the client may open it again           *)
VARIABLE feed

Closed == [pc |-> "closed", got |-> <<>>, since |-> 0, uuid |-> 0, filter |-> "none"]

\* What is asked of a feed.  Of a limit of 0, FetchDesign tells.
FeedOptions ==
  [kind : {"longpoll", "continuous"}, filter : {"none", "design", "selector"}, timeout : BOOLEAN,
   limit : Nat \ {0}]

\* A feed as it is asked for.
Opened(o, uuid) ==
  [kind |-> o.kind, filter |-> o.filter, timeout |-> o.timeout, limit |-> o.limit,
   pc |-> "fetch", remaining |-> o.limit, since |-> 0, events |-> <<>>, lastSeq |-> 0,
   got |-> <<>>, base |-> 0, resume |-> 0, uuid |-> uuid, left |-> Reopens]

\* Whether the feed is to show an event with the winner r of document d.
Shows(d, r) ==
  CASE feed.filter = "none"     -> TRUE
    [] feed.filter = "design"   -> d \in Design
    [] feed.filter = "selector" -> r \in Matching

Shown(e) == \A r \in e.revs : Shows(e.id, r)

AllShown(events) == Pick(events, {i \in 1 .. Len(events) : Shown(events[i])})

Listing(since, limit) ==
  Changes(db, [since |-> since, limit |-> limit, descending |-> FALSE, ids |-> NoKey,
               style |-> "main_only"])

Smaller(m, n) == IF m < n THEN m ELSE n
Larger(m, n) == IF m < n THEN n ELSE m

Fetched(events, lastSeq) == feed' = [feed EXCEPT !.pc = "serve", !.events = events, !.lastSeq = lastSeq]

\* Without a filter of its own, the feed passes its limit on.
FetchPlain ==
  /\ feed.pc = "fetch" /\ feed.filter = "none"
  /\ LET answer == Listing(feed.since, feed.remaining)
     IN  Fetched(answer.events, answer.lastSeq)

\* Slip: last_seq stays that of the whole listing when the limit cuts it.
FetchDesignAhead ==
  /\ feed.pc = "fetch" /\ feed.filter = "design"
  /\ LET answer == Listing(feed.since, NoLimit)
         design == AllShown(answer.events)
     IN  Fetched(SubSeq(design, 1, Smaller(feed.remaining, Len(design))), answer.lastSeq)

\* `filter=_design' limits what the filter leaves; the last event shown is the
\* last sequence then.  (A limit of 0 panics in the code when there is a design
\* document, and is not asked for here.)
FetchDesign ==
  /\ feed.pc = "fetch" /\ feed.filter = "design"
  /\ LET answer == Listing(feed.since, NoLimit)
         design == AllShown(answer.events)
         cut    == Len(design) > feed.remaining
         shown  == SubSeq(design, 1, Smaller(feed.remaining, Len(design)))
     IN  Fetched(shown, IF cut THEN Last(shown).seq ELSE answer.lastSeq)

\* One batch of a selector's changes; writes happen between the batches.
FetchBatch ==
  /\ feed.pc = "fetch" /\ feed.filter = "selector"
  /\ LET limited == feed.remaining # NoLimit
         size    == IF limited THEN Larger(feed.remaining, Batch) ELSE NoLimit
         answer  == Listing(feed.lastSeq, size)
         matched == feed.events \o AllShown(answer.events)
         shown   == SubSeq(matched, 1, Smaller(feed.remaining, Len(matched)))
     IN  CASE limited /\ Len(shown) = feed.remaining ->
                Fetched(shown, IF shown = <<>> THEN feed.since ELSE Last(shown).seq)
           [] limited /\ Len(shown) # feed.remaining /\ Len(answer.events) >= size ->
                feed' = [feed EXCEPT !.events = shown, !.lastSeq = answer.lastSeq]
           [] OTHER -> Fetched(shown, answer.lastSeq)

FetchStep == (FetchPlain \/ FetchDesign \/ FetchBatch) /\ UNCHANGED serverVars

\* The feed ends at `since', which its last line says.
Ending(f, since) == [f EXCEPT !.pc = "ended", !.resume = since]

\* run_feed serves what was fetched: a longpoll answers once, a continuous feed
\* goes on until its limit is reached.
Serve ==
  /\ feed.pc = "serve"
  /\ LET n    == Len(feed.events)
         rest == IF feed.remaining = NoLimit THEN NoLimit ELSE feed.remaining - n
         sent == [feed EXCEPT !.since = feed.lastSeq, !.pc = "wait", !.remaining = rest,
                              !.got = @ \o [i \in 1 .. n |-> feed.events[i].seq], !.events = <<>>]
     IN  feed' = IF n > 0 /\ (feed.kind = "longpoll" \/ rest = 0) THEN Ending(sent, feed.lastSeq) ELSE sent
  /\ UNCHANGED serverVars

\* Slip: the feed wakes up for the writes of requests only.
WakeWhenTold ==
  /\ feed.pc = "wait" /\ woken
  /\ woken' = FALSE
  /\ feed' = IF deleted THEN Ending(feed, feed.since)
                        ELSE [feed EXCEPT !.pc = "fetch", !.lastSeq = feed.since]
  /\ UNCHANGED <<db, locals, deleted, req, stored>>

\* A write or the poll interval wakes the feed up; a deleted database ends it.
Wake ==
  /\ feed.pc = "wait"
  /\ woken' = FALSE
  /\ feed' = IF deleted THEN Ending(feed, feed.since)
                        ELSE [feed EXCEPT !.pc = "fetch", !.lastSeq = feed.since]
  /\ UNCHANGED <<db, locals, deleted, req, stored>>

\* The inactivity timeout runs out, also when there is something to look for.
Expire ==
  /\ feed.pc = "wait" /\ feed.timeout
  /\ feed' = Ending(feed, feed.since)
  /\ UNCHANGED serverVars

\* The database fails: the feed ends where it is.
FetchFails ==
  /\ feed.pc = "fetch"
  /\ feed' = [Ending(feed, feed.since) EXCEPT !.events = <<>>]
  /\ UNCHANGED serverVars

\* The connection breaks when the client has received some of what was sent: it
\* knows the sequence of the last change it has got.
Disconnect ==
  /\ feed.pc \in {"serve", "wait"} /\ feed.left > 0
  /\ \E n \in feed.base .. Len(feed.got) :
       LET last == IF n = feed.base THEN feed.resume ELSE feed.got[n]
       IN  feed' = [Ending(feed, last) EXCEPT !.got = SubSeq(@, 1, n), !.events = <<>>, !.since = last]
  /\ UNCHANGED serverVars

\* The client opens the feed again from where it got to, if the database is
\* there; or is done.
Reopen ==
  /\ feed.pc = "ended"
  /\ feed' = IF feed.left = 0
               THEN [feed EXCEPT !.pc = "closed"]
               ELSE [feed EXCEPT !.pc = IF deleted THEN "closed" ELSE "fetch", !.left = @ - 1,
                                 !.since = feed.resume, !.lastSeq = feed.resume,
                                 !.base = Len(feed.got),
                                 !.remaining = feed.limit]
  /\ UNCHANGED serverVars

FeedStep == FetchStep \/ Serve \/ Wake \/ Expire \/ Reopen

----------------------------------------------------------------------------
\* The entries of the log the feed is to show.
Due == {c \in db.changes : Shows(c.id, Winner(Nodes(db, c.id)))}

HasGot(s) == \E i \in 1 .. Len(feed.got) : feed.got[i] = s

\* Nothing the feed is to show is skipped: the client has received every change
\* at or before the sequence the feed has reached, unless it was superseded.
FeedSkipsNone ==
  db.uuid = feed.uuid => \A c \in Due : c.seq <= feed.since => HasGot(c.seq)

\* The feed catches up again and again, unless its client is done or the
\* database is another: run_feed looks every POLL_INTERVAL, told or not.
FeedCatchesUp ==
  []<>(\/ feed.pc = "closed"
       \/ db.uuid # feed.uuid
       \/ \A c \in Due : HasGot(c.seq))
=============================================================================
