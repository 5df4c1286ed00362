------------------------- MODULE ChangesStreamProofs -------------------------
(***************************************************************************)
(* That a changes stream skips nothing and repeats nothing (ChangesStream):*)
(* whatever the kind of adapter, the consumer and the options.             *)
(***************************************************************************)
EXTENDS ChangesStream, FiniteSetTheorems, SequenceTheorems, WellFoundedInduction, TLAPS

Events == Seq([doc : Doc, seq : Nat])

Answers == [ok : {TRUE}, events : Events, last : Nat] \union [ok : {FALSE}]

Fetches == [since : Nat, limit : Nat \ {0}, answer : Answers \union {None}]

Streams ==
  [state : {"initial", "yielding", "waiting", "done", "finished", "failed"},
   last : Nat, buffer : Events, bufferLast : Nat, count : Nat,
   poll : {"off", "set", "due"}, idle : {"off", "set", "due"}, beat : {"off", "set", "due"},
   paused : BOOLEAN, failures : Nat, fetch : Fetches \union {None}]

FeedOk ==
  /\ feed \in [Doc -> Nat]
  /\ \A d, e \in Doc : feed[d] = feed[e] /\ feed[d] # 0 => d = e
  /\ \E n \in Nat : \A d \in Doc : feed[d] <= n

EnvOk == \E x \in Setups : kind = x.kind /\ mode = x.mode /\ opt = x.opt

\* Events of changes that have happened in the feed f, in its order.
Batch(f, events, from, to) ==
  /\ \A i \in 1 .. Len(events) :
       /\ from < events[i].seq /\ events[i].seq <= to
       /\ events[i].seq <= f[events[i].doc]
  /\ \A i, j \in 1 .. Len(events) : i < j => events[i].seq < events[j].seq

\* What a stream with the options o passes on.
Wanted(o, d) == d \in o.ids /\ d \in o.pass

\* None that is wanted is missing between two sequences.
Covers(f, o, events, from, to) ==
  \A d \in Doc : Wanted(o, d) /\ from < f[d] /\ f[d] <= to =>
    \E i \in 1 .. Len(events) : events[i].doc = d /\ events[i].seq = f[d]

Complete(f, o, events, from, to) ==
  /\ to <= LastSeqOf(f)
  /\ Batch(f, events, from, to) /\ Covers(f, o, events, from, to)

\* What was wanted when the feed was e, and is the same in f, is at or before s.
NothingDue(f, e, o, s) == \A d \in Doc : Wanted(o, d) /\ f[d] = e[d] => f[d] <= s

\* Up to s all that is wanted was seen.
SeenUpTo(f, o, have, s) ==
  \A d \in Doc : /\ have[d] <= s
                 /\ f[d] # 0 /\ f[d] <= s /\ Wanted(o, d) => have[d] = f[d]

SeenOk ==
  /\ seen \in [Doc -> Nat] /\ due \in [Doc -> Nat]
  /\ \A d \in Doc : seen[d] <= feed[d] /\ due[d] <= feed[d]

AwayOk ==
  user = "away" => call = NoCall /\ stream = None /\ \A d \in Doc : seen[d] = 0

PositionOk ==
  user # "away" =>
    /\ stream \in Streams
    /\ stream.last <= LastSeqOf(feed)
    /\ SeenUpTo(feed, opt, seen, stream.last)

BufferOk ==
  user # "away" /\ stream.state = "yielding" =>
    Complete(feed, opt, stream.buffer, stream.last, stream.bufferLast) /\ stream.fetch = None

FetchOk ==
  user # "away" /\ stream.fetch # None =>
    /\ stream.fetch.since = stream.last
    /\ stream.fetch.answer # None /\ stream.fetch.answer.ok =>
         Complete(feed, opt, stream.fetch.answer.events, stream.last, stream.fetch.answer.last)

\* Where a call can be.
Places == {"none", "loop", "initial", "again", "sleep", "last look"}

IsCall(c) == c = [at |-> c.at, asleep |-> c.asleep] /\ c.at \in Places

CallOk ==
  /\ IsCall(call)
  /\ call.at = "initial" => stream.state = "initial"
  /\ call.at \in {"again", "sleep", "last look"} => stream.state = "waiting"
  /\ call.at \notin {"none", "loop"} => stream.count < opt.limit

\* The answer of a fetch is there and is empty.
NothingFetched ==
  /\ stream.fetch # None
  /\ stream.fetch.answer # None /\ stream.fetch.answer.ok /\ stream.fetch.answer.events = <<>>

IdleOk ==
  user # "away" =>
    /\ stream.idle # "off" => stream.state \in {"waiting", "done", "finished", "failed"} /\ opt.live
    /\ stream.state \in {"done", "finished"} /\ stream.idle # "off" /\ stream.count < opt.limit =>
         stream.idle = "due" /\ (~stale => NothingDue(feed, due, opt, stream.last))
    /\ call.at = "last look" =>
         stream.idle = "due"
           /\ (~stale /\ NothingFetched => NothingDue(feed, due, opt, stream.last))

StreamInv ==
  /\ EnvOk /\ FeedOk /\ SeenOk /\ AwayOk
  /\ PositionOk /\ BufferOk /\ FetchOk /\ CallOk /\ IdleOk

----------------------------------------------------------------------------
(* The feed *)

\* There is a last sequence.
LEMMA LastSeqIs ==
  ASSUME NEW f \in [Doc -> Nat], NEW n \in Nat, \A d \in Doc : f[d] <= n
  PROVE  /\ LastSeqOf(f) \in Nat
         /\ LastSeqOf(f) = 0 \/ \E d \in Doc : f[d] = LastSeqOf(f)
         /\ \A d \in Doc : f[d] <= LastSeqOf(f)
  <1> DEFINE bounds == {m \in Nat : \A d \in Doc : f[d] <= m}
  <1>1. PICK m \in bounds : \A k \in bounds : <<k, m>> \notin OpToRel(<, Nat)
    <2>1. n \in bounds /\ bounds \in SUBSET Nat
      OBVIOUS
    <2> QED
      BY <2>1, NatLessThanWellFounded, WFMin
  <1>2. \A k \in bounds : ~(k < m)
    BY <1>1 DEF OpToRel
  <1>3. m = 0 \/ \E d \in Doc : f[d] = m
    <2> SUFFICES ASSUME m # 0, \A d \in Doc : f[d] # m
                 PROVE  FALSE
      OBVIOUS
    <2>1. m - 1 \in Nat /\ \A d \in Doc : f[d] <= m - 1
      OBVIOUS
    <2> QED
      BY <1>2, <2>1
  <1>4. \E s \in {0} \union {f[d] : d \in Doc} : \A d \in Doc : f[d] <= s
    BY <1>3
  <1>5. /\ LastSeqOf(f) \in {0} \union {f[d] : d \in Doc}
        /\ \A d \in Doc : f[d] <= LastSeqOf(f)
    BY <1>4 DEF LastSeqOf
  <1> QED
    BY <1>5

\* The feed has grown, or is as it was.
Grown ==
  /\ feed \in [Doc -> Nat] /\ FeedOk'
  /\ LastSeqOf(feed) \in Nat /\ LastSeqOf(feed)' \in Nat /\ LastSeqOf(feed) <= LastSeqOf(feed)'
  /\ \A d \in Doc : feed[d] <= LastSeqOf(feed) /\ (feed'[d] = feed[d] \/ feed'[d] > LastSeqOf(feed))

LEMMA SameGrown ==
  ASSUME FeedOk, feed' = feed
  PROVE  Grown
  <1>1. PICK n \in Nat : \A d \in Doc : feed[d] <= n
    BY DEF FeedOk
  <1>2. LastSeqOf(feed) \in Nat /\ \A d \in Doc : feed[d] <= LastSeqOf(feed)
    BY <1>1, LastSeqIs DEF FeedOk
  <1>3. FeedOk' /\ LastSeqOf(feed)' = LastSeqOf(feed)
    BY DEF FeedOk, LastSeqOf
  <1> QED
    BY <1>2, <1>3 DEF Grown, FeedOk

LEMMA RecordedGrown ==
  ASSUME FeedOk, NEW d, feed' = Recorded(d)
  PROVE  Grown
  <1>1. PICK n \in Nat : \A e \in Doc : feed[e] <= n
    BY DEF FeedOk
  <1>2. LastSeqOf(feed) \in Nat /\ \A e \in Doc : feed[e] <= LastSeqOf(feed)
    BY <1>1, LastSeqIs DEF FeedOk
  <1> DEFINE top == LastSeqOf(feed)
  <1> HIDE DEF top
  <1>3. feed' = [feed EXCEPT ![d] = top + 1] /\ top \in Nat /\ \A e \in Doc : feed[e] <= top
    BY <1>2 DEF Recorded, top
  <1>4. feed' \in [Doc -> Nat]
    <2>1. top + 1 \in Nat /\ feed \in [Doc -> Nat]
      BY <1>3 DEF FeedOk
    <2> DEFINE s == top + 1
    <2> HIDE DEF s
    <2>2. [feed EXCEPT ![d] = s] \in [Doc -> Nat]
      BY <2>1 DEF s
    <2> QED
      BY <1>3, <2>2 DEF s
  <1>5. \A e \in Doc : feed'[e] = IF e = d THEN top + 1 ELSE feed[e]
    BY <1>3 DEF FeedOk
  <1>6. \A e \in Doc : feed'[e] <= top + 1
    BY <1>3, <1>5 DEF FeedOk
  <1>7. FeedOk'
    BY <1>3, <1>4, <1>5, <1>6 DEF FeedOk
  <1> DEFINE next == LastSeqOf(feed')
  <1>8. next \in Nat /\ \A e \in Doc : feed'[e] <= next
    <2>1. \A f \in [Doc -> Nat], m \in Nat :
            (\A e \in Doc : f[e] <= m) =>
              LastSeqOf(f) \in Nat /\ \A e \in Doc : f[e] <= LastSeqOf(f)
      BY LastSeqIs
    <2>2. top + 1 \in Nat
      BY <1>3
    <2> QED
      BY <1>4, <1>6, <2>1, <2>2
  <1>9. d \notin Doc => next = top
    BY <1>3 DEF FeedOk, top
  <1>10. LastSeqOf(feed)' = next
    BY DEF LastSeqOf
  <1> HIDE DEF next
  <1>11. top <= next
    BY <1>3, <1>4, <1>5, <1>8, <1>9
  <1>12. \A e \in Doc : feed[e] <= top /\ (feed'[e] = feed[e] \/ feed'[e] > top)
    BY <1>3, <1>5
  <1> QED
    <2>1. feed \in [Doc -> Nat]
      BY DEF FeedOk
    <2> QED
      BY <1>3, <1>7, <1>8, <1>10, <1>11, <1>12, <2>1 DEF Grown, top

\* The documents in the order of the feed: each is in the place that counts the
\* documents up to it.
Ordered(s, S) ==
  /\ s \in Seq(S)
  /\ \A i \in 1 .. Len(s), j \in 1 .. Len(s) : i < j => feed[s[i]] < feed[s[j]]
  /\ \A d \in S : \E i \in 1 .. Len(s) : s[i] = d

LEMMA FeedOrderIs ==
  ASSUME FeedOk, NEW S \in SUBSET Doc, \A d \in S : feed[d] # 0
  PROVE  Ordered(FeedOrder(S), S)
  <1> DEFINE Upto(d) == {e \in S : feed[e] <= feed[d]}
             place == [d \in S |-> Cardinality(Upto(d))]
             k == Cardinality(S)
  <1>1. IsFiniteSet(S) /\ k \in Nat
    BY StreamAssumption, FS_Subset, FS_CardinalityType
  <1>2. \A d \in S : IsFiniteSet(Upto(d)) /\ Cardinality(Upto(d)) \in Nat
    BY <1>1, FS_Subset, FS_CardinalityType
  <1>3. ASSUME NEW d \in S
        PROVE  place[d] \in 1 .. k
    <2>1. d \in Upto(d)
      BY DEF FeedOk
    <2>2. Cardinality(Upto(d)) # 0
      BY <1>2, <2>1, FS_EmptySet
    <2>3. Cardinality(Upto(d)) <= k
      BY <1>1, FS_Subset
    <2> QED
      BY <1>1, <1>2, <2>2, <2>3
  <1>4. ASSUME NEW d \in S, NEW e \in S, feed[d] < feed[e]
        PROVE  place[d] < place[e]
    <2>1. Upto(d) \in SUBSET Upto(e) /\ e \in Upto(e) /\ e \notin Upto(d)
      BY <1>4 DEF FeedOk
    <2>2. IsFiniteSet(Upto(e)) /\ Cardinality(Upto(e)) \in Nat /\ Cardinality(Upto(d)) \in Nat
      BY <1>2
    <2>3. Cardinality(Upto(d)) <= Cardinality(Upto(e)) /\ Cardinality(Upto(d)) # Cardinality(Upto(e))
      BY <2>1, <2>2, FS_Subset
    <2> QED
      BY <2>2, <2>3
  <1> HIDE DEF place, k
  <1>5. \A d, e \in S : place[d] = place[e] => d = e
    <2> TAKE d, e \in S
    <2>1. feed[d] \in Nat /\ feed[e] \in Nat /\ place[d] \in Nat /\ place[e] \in Nat
      BY <1>1, <1>3 DEF FeedOk
    <2>2. feed[d] = feed[e] => d = e
      BY DEF FeedOk
    <2> QED
      BY <1>4, <2>1, <2>2
  <1>6. \A i \in 1 .. k : \E d \in S : place[d] = i
    <2>1. place \in Injection(S, 1 .. k)
      BY <1>3, <1>5 DEF place, Injection, IsInjective
    <2>2. IsFiniteSet(1 .. k) /\ Cardinality(1 .. k) = k
      BY <1>1, FS_Interval
    <2>3. place \in Surjection(S, 1 .. k)
      BY <1>1, <2>1, <2>2, FS_Injection DEF k
    <2> QED
      BY <2>3 DEF Surjection
  <1> DEFINE s == FeedOrder(S)
  <1>7. s = [i \in 1 .. k |-> CHOOSE d \in S : Cardinality({e \in S : feed[e] <= feed[d]}) = i]
    BY DEF FeedOrder, k
  <1> HIDE DEF s
  <1>8. \A i \in 1 .. k : s[i] \in S /\ place[s[i]] = i
    <2> TAKE i \in 1 .. k
    <2>1. \E d \in S : Cardinality({e \in S : feed[e] <= feed[d]}) = i
      BY <1>6 DEF place
    <2>2. s[i] = CHOOSE d \in S : Cardinality({e \in S : feed[e] <= feed[d]}) = i
      BY <1>7
    <2>3. s[i] \in S /\ Cardinality({e \in S : feed[e] <= feed[s[i]]}) = i
      BY <2>1, <2>2
    <2> QED
      BY <2>3 DEF place
  <1>9. s \in Seq(S) /\ Len(s) = k
    <2>1. s \in [1 .. k -> S]
      BY <1>7, <1>8
    <2> QED
      BY <1>1, <2>1
  <1>10. ASSUME NEW i \in 1 .. k, NEW j \in 1 .. k, i < j
         PROVE  feed[s[i]] < feed[s[j]]
    <2>1. s[i] \in S /\ s[j] \in S /\ place[s[i]] = i /\ place[s[j]] = j
      BY <1>8
    <2>2. feed[s[i]] \in Nat /\ feed[s[j]] \in Nat
      BY <2>1 DEF FeedOk
    <2>3. feed[s[i]] # feed[s[j]]
      BY <1>10, <2>1 DEF FeedOk
    <2>4. ~(feed[s[j]] < feed[s[i]])
      BY <1>1, <1>4, <1>10, <2>1
    <2> QED
      BY <2>2, <2>3, <2>4
  <1>11. ASSUME NEW d \in S
         PROVE  \E i \in 1 .. k : s[i] = d
    BY <1>3, <1>5, <1>8
  <1> QED
    BY <1>9, <1>10, <1>11 DEF Ordered, s

\* What the adapter answers is complete; when it is empty, there is nothing.
Answered(a, since) ==
  /\ a \in [ok : {TRUE}, events : Events, last : Nat]
  /\ Complete(feed, opt, a.events, since, a.last)
  /\ a.events = <<>> => \A d \in Doc : Wanted(opt, d) => feed[d] <= since

LEMMA AnswerIs ==
  ASSUME FeedOk, NEW since \in Nat, since <= LastSeqOf(feed), NEW n \in Nat \ {0}
  PROVE  Answered(Answer(since, n), since)
  <1> DEFINE later == {d \in Doc : feed[d] > since}
             S == later \intersect opt.ids
             s == FeedOrder(S)
             m == IF n < Len(s) THEN n ELSE Len(s)
             shown == SubSeq(s, 1, m)
             events == [i \in 1 .. Len(shown) |-> [doc |-> shown[i], seq |-> feed[shown[i]]]]
             last == IF shown # <<>> THEN feed[Last(shown)]
                     ELSE IF later # {} THEN LastSeqOf(feed) ELSE since
  <1>1. Answer(since, n) = [ok |-> TRUE, events |-> events, last |-> last]
    BY DEF Answer
  <1>2. S \in SUBSET Doc /\ \A d \in S : feed[d] \in Nat /\ feed[d] > since
    BY DEF FeedOk
  <1>3. Ordered(s, S)
    BY <1>2, FeedOrderIs
  <1>4. s \in Seq(S) /\ Len(s) \in Nat /\ m \in 0 .. Len(s)
    BY <1>3 DEF Ordered
  <1> HIDE DEF s, m
  <1>5. /\ shown \in Seq(S) /\ Len(shown) = m
        /\ \A i \in 1 .. m : shown[i] = s[i] /\ s[i] \in S
    <2>1. shown \in Seq(S) /\ Len(shown) = m /\ \A i \in 1 .. m : shown[i] = s[i]
      BY <1>4
    <2> QED
      BY <1>4, <2>1
  <1>6. PICK top \in Nat : top = LastSeqOf(feed) /\ \A d \in Doc : feed[d] <= top
    <2>1. PICK k \in Nat : \A d \in Doc : feed[d] <= k
      BY DEF FeedOk
    <2> QED
      BY <2>1, LastSeqIs DEF FeedOk
  <1>7. events \in Events /\ Len(events) = m /\ \A i \in 1 .. m : events[i] = [doc |-> s[i], seq |-> feed[s[i]]]
    <2>1. \A i \in 1 .. m : shown[i] \in Doc /\ feed[shown[i]] \in Nat
      BY <1>2, <1>5
    <2>2. events \in [1 .. m -> [doc : Doc, seq : Nat]]
      BY <1>5, <2>1
    <2> QED
      BY <1>4, <1>5, <2>2 DEF Events
  <1>8. m # 0 => last = feed[s[m]] /\ s[m] \in S /\ shown # <<>>
    <2>1. m # 0 => shown # <<>> /\ Last(shown) = shown[m] /\ m \in 1 .. m
      BY <1>4, <1>5 DEF Last
    <2> QED
      BY <1>5, <2>1
  <1>9. m = 0 => /\ S = {} /\ events = <<>> /\ shown = <<>>
                 /\ last = IF later # {} THEN top ELSE since
    <2>1. m = 0 => Len(s) = 0
      BY <1>4 DEF m
    <2>2. m = 0 => S = {}
      BY <1>3, <2>1 DEF Ordered
    <2>3. m = 0 => shown = <<>> /\ events = <<>>
      BY <1>5, <1>7 DEF Events
    <2> QED
      BY <1>6, <2>2, <2>3
  <1> HIDE DEF events, last, shown
  <1>10. last \in Nat /\ last <= top /\ since <= last
    <2>1. CASE m = 0
      BY <1>6, <1>9, <2>1
    <2>2. CASE m # 0
      BY <1>2, <1>6, <1>8, <2>2
    <2> QED
      BY <2>1, <2>2
  <1>11. \A i, j \in 1 .. m : i < j => feed[s[i]] < feed[s[j]]
    <2>1. \A i \in 1 .. m : i \in 1 .. Len(s)
      BY <1>4
    <2> QED
      BY <1>3, <2>1 DEF Ordered
  <1>12. Batch(feed, events, since, last)
    <2>1. ASSUME NEW i \in 1 .. m
          PROVE  since < events[i].seq /\ events[i].seq <= last /\ events[i].seq <= feed[events[i].doc]
      <3>1. events[i].seq = feed[s[i]] /\ events[i].doc = s[i] /\ feed[s[i]] \in Nat /\ feed[s[i]] > since
        BY <1>2, <1>5, <1>7
      <3>2. feed[s[i]] <= feed[s[m]]
        <4>1. m \in 1 .. m /\ (i = m \/ i < m)
          BY <1>4
        <4>2. feed[s[m]] \in Nat
          BY <1>2, <1>5, <4>1
        <4> QED
          BY <1>11, <3>1, <4>1, <4>2
      <3>3. m # 0
        BY <1>4
      <3> QED
        BY <1>8, <3>1, <3>2, <3>3
    <2>2. \A i, j \in 1 .. m : i < j => events[i].seq < events[j].seq
      BY <1>7, <1>11
    <2> QED
      BY <1>7, <2>1, <2>2 DEF Batch
  <1>13. Covers(feed, opt, events, since, last)
    <2> SUFFICES ASSUME NEW d \in Doc, Wanted(opt, d), since < feed[d], feed[d] <= last
                 PROVE  \E i \in 1 .. m : events[i].doc = d /\ events[i].seq = feed[d]
      BY <1>7 DEF Covers
    <2>1. d \in S
      BY DEF Wanted, FeedOk
    <2>2. PICK i \in 1 .. Len(s) : s[i] = d
      BY <1>3, <2>1 DEF Ordered
    <2>3. m # 0
      BY <1>9, <2>1
    <2>4. i <= m
      <3>1. m \in 1 .. Len(s) /\ (i > m => feed[s[m]] < feed[s[i]])
        BY <1>3, <1>4, <2>3 DEF Ordered
      <3>2. last = feed[s[m]] /\ feed[s[m]] \in Nat /\ feed[s[i]] \in Nat
        BY <1>2, <1>8, <2>1, <2>2, <2>3
      <3> QED
        BY <1>4, <2>2, <3>1, <3>2
    <2> QED
      BY <1>4, <1>7, <2>2, <2>4
  <1>14. events = <<>> => \A d \in Doc : Wanted(opt, d) => feed[d] <= since
    <2>1. events = <<>> => m = 0
      BY <1>7
    <2> QED
      BY <1>9, <2>1 DEF Wanted, FeedOk
  <1> QED
    BY <1>1, <1>6, <1>7, <1>10, <1>12, <1>13, <1>14 DEF Answered, Complete

----------------------------------------------------------------------------
(* What growth leaves true *)

LEMMA GrownComplete ==
  ASSUME Grown, NEW o, NEW events \in Events, NEW from \in Nat, NEW to \in Nat,
         Complete(feed, o, events, from, to)
  PROVE  Complete(feed', o, events, from, to)
  <1>1. LastSeqOf(feed') \in Nat /\ LastSeqOf(feed) \in Nat /\ LastSeqOf(feed) <= LastSeqOf(feed')
    BY DEF Grown, LastSeqOf
  <1>2. to <= LastSeqOf(feed)
    BY DEF Complete
  <1>3. \A d \in Doc : /\ feed[d] \in Nat /\ feed'[d] \in Nat
                       /\ feed'[d] = feed[d] \/ (feed'[d] > to /\ feed'[d] > feed[d])
    BY <1>1, <1>2 DEF Grown, FeedOk
  <1>4. Batch(feed', events, from, to)
    <2>1. \A i \in 1 .. Len(events) : events[i].doc \in Doc /\ events[i].seq \in Nat
      <3>1. \A i \in 1 .. Len(events) : events[i] \in [doc : Doc, seq : Nat]
        BY ElementOfSeq DEF Events
      <3> QED
        BY <3>1
    <2>2. \A i \in 1 .. Len(events) :
            from < events[i].seq /\ events[i].seq <= to /\ events[i].seq <= feed[events[i].doc]
      BY DEF Complete, Batch
    <2>3. \A i, j \in 1 .. Len(events) : i < j => events[i].seq < events[j].seq
      BY DEF Complete, Batch
    <2>4. ASSUME NEW i \in 1 .. Len(events)
          PROVE  events[i].seq <= feed'[events[i].doc]
      <3> DEFINE d == events[i].doc
                 n == events[i].seq
      <3>1. d \in Doc /\ n \in Nat /\ n <= to /\ n <= feed[d]
        BY <2>1, <2>2
      <3> HIDE DEF d, n
      <3>2. n <= feed'[d]
        BY <1>3, <3>1
      <3> QED
        BY <3>2 DEF d, n
    <2> QED
      BY <2>2, <2>3, <2>4 DEF Batch
  <1>5. Covers(feed', o, events, from, to)
    BY <1>3 DEF Complete, Covers
  <1> QED
    BY <1>1, <1>2, <1>4, <1>5 DEF Complete

LEMMA GrownDue ==
  ASSUME Grown, SeenOk, NEW o, NEW s, NothingDue(feed, due, o, s)
  PROVE  NothingDue(feed', due, o, s)
  BY DEF Grown, FeedOk, SeenOk, NothingDue

LEMMA GrownSeen ==
  ASSUME Grown, SeenOk, NEW o, NEW s \in Nat, s <= LastSeqOf(feed), SeenUpTo(feed, o, seen, s)
  PROVE  SeenUpTo(feed', o, seen, s)
  BY DEF Grown, FeedOk, SeenOk, SeenUpTo

\* Steps that leave the position of the stream, its buffer and its state.
Quiet ==
  /\ user # "away" /\ user' # "away" /\ UNCHANGED <<env, seen, due>> /\ Grown
  /\ stream' \in Streams
  /\ stream'.last = stream.last /\ stream'.buffer = stream.buffer
  /\ stream'.bufferLast = stream.bufferLast /\ stream'.count = stream.count
  /\ stream'.state = stream.state /\ stream'.idle = stream.idle

\* The fetch stays, is given up, or begins.
FetchStep ==
  \/ stream'.fetch = stream.fetch
  \/ stream'.fetch = None
  \/ /\ stream'.fetch.since = stream.last /\ stream'.fetch.answer = None
     /\ stream.state # "yielding"

LookStep ==
  /\ stale' = stale \/ stream.state = "waiting"
  /\ call'.at = "last look" =>
       \/ call.at = "last look" /\ stale' = stale
       \/ stream.idle = "due" /\ (stale' \/ stream'.fetch = None)

LEMMA QuietKeeps ==
  ASSUME StreamInv, Quiet, FetchStep, LookStep, CallOk'
  PROVE  StreamInv'
  <1> USE DEF StreamInv
  <1>1. EnvOk' /\ FeedOk' /\ AwayOk'
    BY DEF Quiet, EnvOk, env, AwayOk, Grown
  <1>2. SeenOk'
    BY DEF Quiet, SeenOk, Grown, FeedOk
  <1>3. opt' = opt /\ seen' = seen /\ due' = due
    BY DEF Quiet, env
  <1>4. /\ stream \in Streams /\ stream.last \in Nat /\ stream.last <= LastSeqOf(feed)
        /\ SeenUpTo(feed, opt, seen, stream.last)
    BY DEF PositionOk, Quiet, Streams
  <1>5. LastSeqOf(feed') \in Nat /\ LastSeqOf(feed) \in Nat /\ LastSeqOf(feed) <= LastSeqOf(feed')
    BY DEF Quiet, Grown, LastSeqOf
  <1>6. PositionOk'
    BY <1>3, <1>4, <1>5, GrownSeen DEF PositionOk, Quiet
  <1>7. BufferOk'
    <2>1. ASSUME stream.state = "yielding"
          PROVE  /\ Complete(feed, opt, stream.buffer, stream.last, stream.bufferLast)
                 /\ stream.fetch = None /\ stream'.fetch = None
      BY <2>1 DEF BufferOk, Quiet, FetchStep
    <2>2. stream.buffer \in Events /\ stream.bufferLast \in Nat
      BY <1>4 DEF Streams
    <2>3. ASSUME stream.state = "yielding"
          PROVE  Complete(feed', opt, stream.buffer, stream.last, stream.bufferLast)
      BY <1>4, <2>1, <2>2, <2>3, GrownComplete DEF Quiet
    <2> QED
      BY <1>3, <2>1, <2>3 DEF BufferOk, Quiet
  <1>8. FetchOk'
    <2> DEFINE a == stream.fetch.answer
    <2>1. ASSUME stream'.fetch = stream.fetch, stream.fetch # None
          PROVE  /\ stream'.fetch.since = stream'.last
                 /\ a # None /\ a.ok => Complete(feed', opt, a.events, stream.last, a.last)
      <3>1. stream.fetch.since = stream.last
        BY <2>1 DEF FetchOk, Quiet
      <3>2. a # None /\ a.ok => Complete(feed, opt, a.events, stream.last, a.last)
        BY <2>1 DEF FetchOk, Quiet
      <3>3. a # None /\ a.ok => a.events \in Events /\ a.last \in Nat
        BY <1>4, <2>1 DEF Streams, Fetches, Answers
      <3>4. a # None /\ a.ok => Complete(feed', opt, a.events, stream.last, a.last)
        BY <1>4, <3>2, <3>3, GrownComplete DEF Quiet
      <3> QED
        BY <2>1, <3>1, <3>4 DEF Quiet
    <2> QED
      BY <1>3, <2>1 DEF FetchOk, FetchStep, Quiet
  <1>9. IdleOk'
    <2>1. NothingDue(feed, due, opt, stream.last) => NothingDue(feed', due, opt, stream.last)
      BY GrownDue DEF Quiet
    <2>2. NothingFetched' /\ stream'.fetch = stream.fetch => NothingFetched
      BY DEF NothingFetched
    <2>3. NothingFetched' => stream'.fetch = stream.fetch
      BY DEF FetchStep, NothingFetched
    <2>4. NothingFetched' => stream'.fetch # None
      BY DEF NothingFetched
    <2>5. /\ user # "away" /\ stream'.idle = stream.idle /\ stream'.state = stream.state
          /\ stream'.last = stream.last /\ stream'.count = stream.count
      BY DEF Quiet
    <2>6. stream'.idle # "off" =>
            stream'.state \in {"waiting", "done", "finished", "failed"} /\ opt'.live
      BY <1>3, <2>5 DEF IdleOk
    <2>7. stream'.state \in {"done", "finished"} /\ stream'.idle # "off" /\ stream'.count < opt'.limit =>
            stream'.idle = "due" /\ (~stale' => NothingDue(feed', due', opt', stream'.last))
      <3>1. stream.state \in {"done", "finished"} => stale' = stale
        BY DEF LookStep
      <3> QED
        BY <1>3, <2>1, <2>5, <3>1 DEF IdleOk
    <2>8. ASSUME call'.at = "last look"
          PROVE  stream'.idle = "due"
                   /\ (~stale' /\ NothingFetched' => NothingDue(feed', due', opt', stream'.last))
      <3>1. CASE call.at = "last look" /\ stale' = stale
        BY <1>3, <2>1, <2>2, <2>3, <2>5, <3>1 DEF IdleOk
      <3>2. CASE stream.idle = "due" /\ (stale' \/ stream'.fetch = None)
        BY <2>4, <2>5, <3>2
      <3> QED
        BY <2>8, <3>1, <3>2 DEF LookStep
    <2> QED
      BY <2>6, <2>7, <2>8 DEF IdleOk
  <1> QED
    BY <1>1, <1>2, <1>6, <1>7, <1>8, <1>9

\* Before the stream is there.
LEMMA AwayKeeps ==
  ASSUME StreamInv, Grown, user = "away", UNCHANGED <<env, stream, call, user, seen, due>>
  PROVE  StreamInv'
  <1>1. EnvOk' /\ FeedOk' /\ AwayOk'
    BY DEF StreamInv, EnvOk, env, Grown, AwayOk
  <1>2. SeenOk'
    BY DEF StreamInv, SeenOk, Grown, FeedOk
  <1>3. CallOk'
    BY DEF StreamInv, CallOk, env
  <1>4. PositionOk' /\ BufferOk' /\ FetchOk' /\ IdleOk'
    BY DEF PositionOk, BufferOk, FetchOk, IdleOk
  <1> QED
    BY <1>1, <1>2, <1>3, <1>4 DEF StreamInv

\* The database, the consumer and time, while the stream stands still.
LEMMA StillKeeps ==
  ASSUME StreamInv, Grown, UNCHANGED <<env, stream, call, seen, due, stale>>,
         user' = "away" <=> user = "away"
  PROVE  StreamInv'
  <1>1. CASE user = "away"
    BY <1>1, AwayKeeps
  <1>2. CASE user # "away"
    <2>1. Quiet
      BY <1>2 DEF Quiet, StreamInv, PositionOk
    <2>2. FetchStep /\ LookStep
      BY DEF FetchStep, LookStep
    <2>3. CallOk'
      BY DEF StreamInv, CallOk, env
    <2> QED
      BY <2>1, <2>2, <2>3, QuietKeeps
  <1> QED
    BY <1>1, <1>2

----------------------------------------------------------------------------
(* The steps that leave the stream where it is *)

LEMMA LimitIs ==
  ASSUME EnvOk
  PROVE  opt.limit \in Nat
  BY StreamAssumption DEF EnvOk

LEMMA PassIs ==
  ASSUME StreamInv, NEW state \in {"initial", "yielding", "waiting", "done"}, Pass(state)
  PROVE  /\ user # "away" /\ stream \in Streams /\ call.at = "loop" /\ stream.state = state
         /\ state # "done" => stream.count < opt.limit
         /\ UNCHANGED <<env, feed, due>>
  <1>1. user # "away" /\ call.at = "loop" /\ stream.state = state
    BY DEF Pass, StreamInv, AwayOk, NoCall
  <1>2. stream \in Streams /\ opt.limit \in Nat
    BY <1>1, LimitIs DEF StreamInv, PositionOk
  <1>3. state # "done" => stream.count < opt.limit
    <2>1. stream.count \in Nat
      BY <1>2 DEF Streams
    <2> QED
      BY <1>1, <1>2, <2>1 DEF Pass, LimitReached, Ended
  <1> QED
    BY <1>1, <1>2, <1>3 DEF Pass

LEMMA QuietIs ==
  ASSUME StreamInv, user # "away", user' # "away", UNCHANGED <<env, feed, seen, due>>,
         stream' \in Streams,
         stream'.last = stream.last, stream'.buffer = stream.buffer,
         stream'.bufferLast = stream.bufferLast, stream'.count = stream.count,
         stream'.state = stream.state, stream'.idle = stream.idle
  PROVE  Quiet
  BY SameGrown DEF StreamInv, Quiet

LEMMA AsleepIs ==
  ASSUME IsCall(call), call' = [call EXCEPT !.asleep = TRUE]
  PROVE  IsCall(call') /\ call'.at = call.at
  BY DEF IsCall

LEMMA StepIs ==
  ASSUME NEW at \in Places, Step(at)
  PROVE  IsCall(call') /\ call'.at = at /\ user' = user
  BY DEF Step, IsCall

LEMMA NoCallIs ==
  ASSUME call' = NoCall
  PROVE  IsCall(call') /\ call'.at = "none"
  BY DEF NoCall, IsCall, Places

LEMMA ReturnIs ==
  ASSUME NEW event, Return(event)
  PROVE  IsCall(call') /\ call'.at = "none" /\ user' # "away"
  BY NoCallIs DEF Return

\* Only where the call is has changed.
LEMMA CallKeeps ==
  ASSUME StreamInv, user # "away", user' # "away", UNCHANGED <<env, feed, stream, seen, due>>,
         CallOk', LookStep
  PROVE  StreamInv'
  <1>1. Quiet
    BY QuietIs DEF StreamInv, PositionOk
  <1>2. FetchStep
    BY DEF FetchStep
  <1> QED
    BY <1>1, <1>2, QuietKeeps

LEMMA WriteKeeps ==
  ASSUME StreamInv, NEW w \in Writer, WriteStep(w)
  PROVE  StreamInv'
  <1>1. Grown
    BY SameGrown, RecordedGrown DEF WriteStep, Apply, CommitTables, SendNotices, StreamInv
  <1> QED
    BY <1>1, StillKeeps DEF WriteStep, history

LEMMA BeginKeeps ==
  ASSUME StreamInv, NEW d \in Doc, OtherWrites(d) \/ ConsumerWrites(d)
  PROVE  StreamInv'
  <1>1. Grown
    BY SameGrown DEF OtherWrites, ConsumerWrites, Begin, StreamInv
  <1> QED
    BY <1>1, StillKeeps DEF OtherWrites, ConsumerWrites, history

\* What the consumer does between two calls.
LEMMA ConsumerKeeps ==
  ASSUME StreamInv, Written \/ Send \/ Cancel \/ Receive
  PROVE  StreamInv'
  <1>1. Grown
    BY SameGrown DEF Written, Send, Cancel, Receive, database, StreamInv
  <1> QED
    BY <1>1, StillKeeps DEF Written, Send, Cancel, Receive, history

\* A call begins, is dropped or falls asleep.
LEMMA NextEventKeeps ==
  ASSUME StreamInv, NextEvent \/ Drop
  PROVE  StreamInv'
  <1>1. user # "away" /\ user' # "away" /\ UNCHANGED <<env, feed, stream, seen, due, stale>>
    BY DEF NextEvent, Drop, database, history
  <1>2. IsCall(call') /\ call'.at \in {"loop", "none"}
    <2>1. CASE NextEvent
      BY <2>1 DEF NextEvent, IsCall, Places
    <2>2. CASE Drop
      BY <2>2, NoCallIs DEF Drop
    <2> QED
      BY <2>1, <2>2
  <1>3. CallOk' /\ LookStep
    BY <1>1, <1>2 DEF CallOk, LookStep
  <1> QED
    BY <1>1, <1>3, CallKeeps

LEMMA FallAsleepKeeps ==
  ASSUME StreamInv, FallAsleep
  PROVE  StreamInv'
  <1>1. /\ user' = user /\ UNCHANGED <<env, feed, stream, seen, due, stale>>
        /\ call' = [call EXCEPT !.asleep = TRUE] /\ call.at # "none"
    BY DEF FallAsleep, Fetching, database, history
  <1>2. user # "away"
    BY <1>1 DEF StreamInv, AwayOk, NoCall
  <1>3. IsCall(call') /\ call'.at = call.at
    BY <1>1, AsleepIs DEF StreamInv, CallOk
  <1>4. CallOk' /\ LookStep
    BY <1>1, <1>3 DEF StreamInv, CallOk, LookStep, env
  <1> QED
    BY <1>1, <1>2, <1>4, CallKeeps

LEMMA FinishedKeeps ==
  ASSUME StreamInv, Finished
  PROVE  StreamInv'
  <1>1. /\ user # "away" /\ user' # "away" /\ UNCHANGED <<env, feed, stream, seen, due, stale>>
        /\ call' = NoCall
    BY DEF Finished, StreamInv, AwayOk, NoCall, database, history
  <1>2. CallOk' /\ LookStep
    BY <1>1, NoCallIs DEF CallOk, LookStep
  <1> QED
    BY <1>1, <1>2, CallKeeps

\* The passes of the loop that only choose where to go.
LEMMA ChooseKeeps ==
  ASSUME StreamInv, FetchInitial \/ LookOnceMore \/ Wait
  PROVE  StreamInv'
  <1>1. CASE FetchInitial
    <2>1. /\ user # "away" /\ UNCHANGED <<env, feed, stream, seen, due, stale>>
          /\ stream.state = "initial" /\ stream.count < opt.limit
      BY <1>1, PassIs DEF FetchInitial
    <2>2. IsCall(call') /\ call'.at = "initial" /\ user' = user
      BY <1>1, StepIs DEF FetchInitial, Places
    <2>3. CallOk' /\ LookStep
      BY <2>1, <2>2 DEF CallOk, LookStep, env
    <2> QED
      BY <2>1, <2>2, <2>3, CallKeeps
  <1>2. CASE LookOnceMore
    <2>1. /\ user # "away" /\ UNCHANGED <<env, feed, stream, seen, due>>
          /\ stale' = (stream.fetch # None)
          /\ stream.state = "waiting" /\ stream.count < opt.limit /\ stream.idle = "due"
      BY <1>2, PassIs DEF LookOnceMore
    <2>2. IsCall(call') /\ call'.at = "last look" /\ user' = user
      BY <1>2, StepIs DEF LookOnceMore, Places
    <2>3. CallOk' /\ LookStep
      BY <2>1, <2>2 DEF CallOk, LookStep, env
    <2> QED
      BY <2>1, <2>2, <2>3, CallKeeps
  <1>3. CASE Wait
    <2>1. /\ user # "away" /\ UNCHANGED <<env, feed, stream, seen, due, stale>>
          /\ stream.state = "waiting" /\ stream.count < opt.limit
      BY <1>3, PassIs DEF Wait
    <2>2. IsCall(call') /\ call'.at \in {"sleep", "again"} /\ user' = user
      <3> DEFINE at == IF stream.fetch = None THEN "sleep" ELSE "again"
      <3>1. at \in {"sleep", "again"} /\ Step(at)
        BY <1>3 DEF Wait
      <3> HIDE DEF at
      <3> QED
        BY <3>1, StepIs DEF Places
    <2>3. CallOk' /\ LookStep
      BY <2>1, <2>2 DEF CallOk, LookStep, env
    <2> QED
      BY <2>1, <2>2, <2>3, CallKeeps
  <1> QED
    BY <1>1, <1>2, <1>3

LEMMA WakeUpKeeps ==
  ASSUME StreamInv, WakeUp
  PROVE  StreamInv'
  <1>1. UNCHANGED <<env, feed, stream, seen, due, stale>> /\ call.at = "sleep"
    BY DEF WakeUp, history
  <1>2. IsCall(call') /\ call'.at \in {"loop", "again"} /\ user' = user
    BY StepIs DEF WakeUp, Places
  <1>3. user # "away"
    BY <1>1 DEF StreamInv, AwayOk, NoCall
  <1>4. CallOk' /\ LookStep
    BY <1>1, <1>2 DEF StreamInv, CallOk, LookStep, env
  <1> QED
    BY <1>1, <1>2, <1>3, <1>4, CallKeeps

LEMMA TimeKeeps ==
  ASSUME StreamInv, PollDue \/ BeatDue \/ Heartbeat
  PROVE  StreamInv'
  <1>1. /\ user # "away" /\ user' # "away" /\ stream \in Streams
        /\ UNCHANGED <<env, feed, seen, due, stale>>
    <2>1. CASE PollDue \/ BeatDue
      <3>1. user # "away" /\ user' = user
        BY <2>1 DEF PollDue, BeatDue, StreamInv, AwayOk, NoCall
      <3> QED
        BY <2>1, <3>1 DEF PollDue, BeatDue, database, history, StreamInv, PositionOk
    <2>2. CASE Heartbeat
      BY <2>2, PassIs, ReturnIs DEF Heartbeat
    <2> QED
      BY <2>1, <2>2
  <1>2. /\ stream' \in Streams
        /\ stream'.last = stream.last /\ stream'.buffer = stream.buffer
        /\ stream'.bufferLast = stream.bufferLast /\ stream'.count = stream.count
        /\ stream'.state = stream.state /\ stream'.idle = stream.idle
        /\ stream'.fetch = stream.fetch
    <2>1. CASE PollDue
      BY <1>1, <2>1 DEF PollDue, Streams
    <2>2. CASE BeatDue
      BY <1>1, <2>2 DEF BeatDue, Streams
    <2>3. CASE Heartbeat
      BY <1>1, <2>3 DEF Heartbeat, Streams
    <2> QED
      BY <2>1, <2>2, <2>3
  <1>3. Quiet /\ FetchStep
    BY <1>1, <1>2, QuietIs DEF FetchStep
  <1>4. call' = call \/ (IsCall(call') /\ call'.at = "none")
    BY ReturnIs DEF PollDue, BeatDue, Heartbeat
  <1>5. CallOk' /\ LookStep
    BY <1>1, <1>2, <1>4 DEF StreamInv, CallOk, LookStep, env
  <1> QED
    BY <1>3, <1>5, QuietKeeps

\* A fetch begins, or goes with the stream.
LEMMA StartFetchKeeps ==
  ASSUME StreamInv, StartFetch
  PROVE  StreamInv'
  <1>1. /\ user' = user /\ UNCHANGED <<env, feed, seen, due, stale>>
        /\ call' = [call EXCEPT !.asleep = TRUE] /\ call.at \in {"initial", "again", "last look"}
        /\ stream' = [stream EXCEPT !.fetch =
                       [since |-> stream.last, limit |-> FetchLimit, answer |-> None]]
    BY DEF StartFetch, Fetching, history
  <1>2. user # "away" /\ stream \in Streams /\ stream.state \in {"initial", "waiting"}
    <2>1. call.at # "none" /\ (call.at = "initial" \/ call.at \in {"again", "sleep", "last look"})
      BY <1>1
    <2>2. user = "away" => call = NoCall
      BY DEF StreamInv, AwayOk
    <2>3. user # "away"
      <3>1. call.at # "none"
        BY <2>1
      <3> QED
        BY <2>2, <3>1 DEF NoCall
    <2> QED
      BY <2>1, <2>3 DEF StreamInv, CallOk, PositionOk
  <1>3. FetchLimit \in Nat \ {0}
    <2>1. opt.limit \in Nat /\ stream.count \in Nat /\ stream.count < opt.limit
      BY <1>1, <1>2, LimitIs DEF StreamInv, CallOk, Streams
    <2> QED
      BY <2>1, StreamAssumption DEF FetchLimit
  <1> DEFINE f == [since |-> stream.last, limit |-> FetchLimit, answer |-> None]
  <1>4. f \in Fetches
    BY <1>2, <1>3 DEF Fetches, Streams
  <1>5. f.since = stream.last /\ f.answer = None /\ stream' = [stream EXCEPT !.fetch = f]
    BY <1>1
  <1> HIDE DEF f
  <1>6. /\ stream' \in Streams
        /\ stream'.last = stream.last /\ stream'.buffer = stream.buffer
        /\ stream'.bufferLast = stream.bufferLast /\ stream'.count = stream.count
        /\ stream'.state = stream.state /\ stream'.idle = stream.idle
        /\ stream'.fetch = f
    BY <1>2, <1>4, <1>5 DEF Streams
  <1>7. Quiet /\ FetchStep
    BY <1>1, <1>2, <1>5, <1>6, QuietIs DEF FetchStep
  <1>8. CallOk' /\ LookStep
    <2>1. IsCall(call') /\ call'.at = call.at
      BY <1>1, AsleepIs DEF StreamInv, CallOk
    <2> QED
      BY <1>1, <1>2, <1>6, <2>1 DEF StreamInv, CallOk, LookStep, env
  <1> QED
    BY <1>7, <1>8, QuietKeeps

LEMMA StopKeeps ==
  ASSUME StreamInv, Stop
  PROVE  StreamInv'
  <1>1. /\ user # "away" /\ user' # "away" /\ UNCHANGED <<env, feed, seen, due, stale>>
        /\ call' = NoCall
        /\ stream' = [stream EXCEPT !.fetch = None] /\ stream \in Streams
    BY DEF Stop, history, StreamInv, PositionOk
  <1>2. /\ stream' \in Streams
        /\ stream'.last = stream.last /\ stream'.buffer = stream.buffer
        /\ stream'.bufferLast = stream.bufferLast /\ stream'.count = stream.count
        /\ stream'.state = stream.state /\ stream'.idle = stream.idle
        /\ stream'.fetch = None
    BY <1>1 DEF Streams
  <1>3. Quiet /\ FetchStep
    BY <1>1, <1>2, QuietIs DEF FetchStep
  <1>4. CallOk' /\ LookStep
    BY <1>1, NoCallIs DEF CallOk, LookStep
  <1> QED
    BY <1>3, <1>4, QuietKeeps

----------------------------------------------------------------------------
(* The steps that end the stream, pass the deadline, or begin *)

\* What is left when the stream is not in the middle of its buffer.
Parked ==
  /\ user # "away" /\ user' # "away" /\ UNCHANGED <<env, feed, seen>>
  /\ stream' \in Streams
  /\ stream'.last = stream.last /\ stream'.count = stream.count
  /\ stream'.state # "yielding"
  /\ stream'.fetch \in {stream.fetch, None}

LEMMA ParkedKeeps ==
  ASSUME StreamInv, Parked, CallOk', IdleOk', due' \in {due, feed}
  PROVE  StreamInv'
  <1>1. EnvOk' /\ FeedOk' /\ AwayOk'
    BY DEF StreamInv, Parked, EnvOk, env, FeedOk, AwayOk
  <1>2. SeenOk'
    BY DEF StreamInv, Parked, SeenOk, FeedOk
  <1>3. PositionOk'
    BY DEF StreamInv, Parked, PositionOk, env
  <1>4. BufferOk'
    BY DEF StreamInv, Parked, BufferOk, env
  <1>5. FetchOk'
    BY DEF StreamInv, Parked, FetchOk, env
  <1> QED
    BY <1>1, <1>2, <1>3, <1>4, <1>5 DEF StreamInv

LEMMA ReachLimitKeeps ==
  ASSUME StreamInv, ReachLimit
  PROVE  StreamInv'
  <1>1. /\ call.at = "loop" /\ ~Ended /\ stream.count >= opt.limit
        /\ UNCHANGED <<env, feed, call, user, seen, due, stale>>
        /\ stream' = [stream EXCEPT !.state = "done"]
    BY DEF ReachLimit, LimitReached, database, history
  <1>2. user # "away"
    BY <1>1 DEF StreamInv, AwayOk, NoCall
  <1>3. stream \in Streams /\ opt.limit \in Nat
    BY <1>2, LimitIs DEF StreamInv, PositionOk
  <1>4. /\ stream' \in Streams /\ stream'.state = "done" /\ stream'.idle = stream.idle
        /\ stream'.last = stream.last /\ stream'.count = stream.count
        /\ stream'.fetch = stream.fetch
    BY <1>1, <1>3 DEF Streams
  <1>5. Parked
    BY <1>1, <1>2, <1>4 DEF Parked
  <1>6. CallOk'
    BY <1>1, <1>4 DEF StreamInv, CallOk
  <1>7. IdleOk'
    <2>1. ~(stream.count < opt.limit)
      BY <1>1, <1>3 DEF Streams
    <2> QED
      BY <1>1, <1>2, <1>4, <2>1 DEF StreamInv, IdleOk, env
  <1> QED
    BY <1>1, <1>5, <1>6, <1>7, ParkedKeeps

LEMMA EndKeeps ==
  ASSUME StreamInv, End
  PROVE  StreamInv'
  <1>1. /\ user # "away" /\ stream \in Streams /\ stream.state = "done"
        /\ UNCHANGED <<env, feed, seen, due, stale>>
        /\ stream' = [stream EXCEPT !.state = "finished"]
    BY PassIs DEF End
  <1>2. IsCall(call') /\ call'.at = "none" /\ user' # "away"
    BY ReturnIs DEF End
  <1>3. /\ stream' \in Streams /\ stream'.state = "finished" /\ stream'.idle = stream.idle
        /\ stream'.last = stream.last /\ stream'.count = stream.count
        /\ stream'.fetch = stream.fetch
    BY <1>1 DEF Streams
  <1>4. Parked
    BY <1>1, <1>2, <1>3 DEF Parked
  <1>5. CallOk'
    BY <1>2 DEF CallOk
  <1>6. IdleOk'
    BY <1>1, <1>2, <1>3 DEF StreamInv, IdleOk, env
  <1> QED
    BY <1>1, <1>4, <1>5, <1>6, ParkedKeeps

\* The deadline passes: not after the stream has ended because of it.
LEMMA IdleDueKeeps ==
  ASSUME StreamInv, IdleDue
  PROVE  StreamInv'
  <1>1. /\ user # "away" /\ user' # "away" /\ stream \in Streams /\ stream.idle = "set"
        /\ UNCHANGED <<env, feed, call, seen, stale>> /\ due' = feed
        /\ stream' = [stream EXCEPT !.idle = "due"]
    BY DEF IdleDue, database, StreamInv, AwayOk, PositionOk
  <1>2. /\ stream' \in Streams /\ stream'.state = stream.state /\ stream'.idle = "due"
        /\ stream'.last = stream.last /\ stream'.count = stream.count
        /\ stream'.fetch = stream.fetch
    BY <1>1 DEF Streams
  <1>3. /\ stream.state \in {"waiting", "done", "finished", "failed"} /\ opt.live
        /\ ~(stream.state \in {"done", "finished"} /\ stream.count < opt.limit)
        /\ call.at # "last look"
    BY <1>1 DEF StreamInv, IdleOk
  <1>4. Parked
    BY <1>1, <1>2, <1>3 DEF Parked
  <1>5. CallOk'
    BY <1>1, <1>2 DEF StreamInv, CallOk, env
  <1>6. IdleOk'
    BY <1>1, <1>2, <1>3 DEF IdleOk, env
  <1> QED
    BY <1>1, <1>4, <1>5, <1>6, ParkedKeeps

LEMMA NewKeeps ==
  ASSUME StreamInv, New
  PROVE  StreamInv'
  <1>1. /\ user = "away" /\ user' = "free" /\ stream' = NewStream
        /\ UNCHANGED <<env, feed, call, seen, due, stale>>
    BY DEF New, database, history
  <1>2. call = NoCall /\ \A d \in Doc : seen[d] = 0
    BY <1>1 DEF StreamInv, AwayOk
  <1>3. <<>> \in Events
    BY DEF Events
  <1>4. /\ stream' \in Streams /\ stream'.state = "initial" /\ stream'.idle = "off"
        /\ stream'.last = 0 /\ stream'.fetch = None
    BY <1>1, <1>3 DEF NewStream, Streams
  <1>5. EnvOk' /\ FeedOk' /\ AwayOk' /\ SeenOk'
    BY <1>1 DEF StreamInv, EnvOk, env, FeedOk, AwayOk, SeenOk
  <1>6. PositionOk'
    <2>1. 0 <= LastSeqOf(feed)
      BY SameGrown, LastSeqIs DEF StreamInv, FeedOk
    <2>2. SeenUpTo(feed, opt, seen, 0)
      BY <1>2 DEF SeenUpTo, StreamInv, FeedOk
    <2> QED
      BY <1>1, <1>4, <2>1, <2>2 DEF PositionOk, env
  <1>7. BufferOk' /\ FetchOk'
    BY <1>4 DEF BufferOk, FetchOk
  <1>8. CallOk'
    BY <1>1, <1>2, NoCallIs DEF CallOk
  <1>9. IdleOk'
    BY <1>1, <1>2, <1>4, NoCallIs DEF IdleOk
  <1> QED
    BY <1>5, <1>6, <1>7, <1>8, <1>9 DEF StreamInv

\* A fetch of redb or of a remote database is answered.
LEMMA ReadFeedKeeps ==
  ASSUME StreamInv, ReadFeed
  PROVE  StreamInv'
  <1>1. /\ user # "away" /\ user' # "away" /\ stream \in Streams /\ stream.fetch # None
        /\ stream.fetch.answer = None /\ UNCHANGED <<env, feed, call, seen, due, stale>>
    BY DEF ReadFeed, database, history, StreamInv, AwayOk, PositionOk
  <1>2. stream.fetch \in Fetches /\ stream.fetch.since = stream.last
    BY <1>1 DEF Streams, StreamInv, FetchOk
  <1>3. PICK a \in Answers :
          /\ stream' = [stream EXCEPT !.fetch.answer = a]
          /\ a.ok => Answered(a, stream.last)
    <2>1. CASE stream' = [stream EXCEPT !.fetch.answer = Answer(stream.fetch.since, stream.fetch.limit)]
      <3>1. /\ stream.last \in Nat /\ stream.last <= LastSeqOf(feed)
            /\ stream.fetch.limit \in Nat \ {0}
        BY <1>1, <1>2 DEF Streams, Fetches, StreamInv, PositionOk
      <3>2. Answered(Answer(stream.fetch.since, stream.fetch.limit), stream.last)
        BY <1>2, <3>1, AnswerIs DEF StreamInv
      <3>3. Answer(stream.fetch.since, stream.fetch.limit) \in Answers
        BY <3>2 DEF Answered, Answers
      <3> QED
        BY <2>1, <3>2, <3>3
    <2>2. CASE stream' = [stream EXCEPT !.fetch.answer = [ok |-> FALSE]]
      <3>1. [ok |-> FALSE] \in Answers /\ ~[ok |-> FALSE].ok
        BY DEF Answers
      <3> QED
        BY <2>2, <3>1
    <2> QED
      BY <2>1, <2>2 DEF ReadFeed
  <1>4. /\ stream' \in Streams
        /\ stream'.last = stream.last /\ stream'.buffer = stream.buffer
        /\ stream'.bufferLast = stream.bufferLast /\ stream'.count = stream.count
        /\ stream'.state = stream.state /\ stream'.idle = stream.idle
    <2> DEFINE f == [stream.fetch EXCEPT !.answer = a]
    <2>1. f \in Fetches /\ stream' = [stream EXCEPT !.fetch = f]
      BY <1>2, <1>3 DEF Fetches
    <2> HIDE DEF f
    <2> QED
      BY <1>1, <2>1 DEF Streams
  <1>5. /\ stream'.fetch # None => stream'.fetch.since = stream.last /\ stream'.fetch.answer = a
    BY <1>1, <1>2, <1>3 DEF Streams, Fetches
  <1>6. a.ok => Complete(feed, opt, a.events, stream.last, a.last)
    BY <1>3 DEF Answered
  <1>7. a.ok /\ a.events = <<>> => NothingDue(feed, due, opt, stream.last)
    BY <1>3 DEF Answered, NothingDue
  <1>8. EnvOk' /\ FeedOk' /\ AwayOk' /\ SeenOk' /\ PositionOk' /\ CallOk'
    BY <1>1, <1>4 DEF StreamInv, EnvOk, env, FeedOk, AwayOk, SeenOk, PositionOk, CallOk
  <1>9. BufferOk'
    BY <1>1, <1>4 DEF StreamInv, BufferOk
  <1>10. FetchOk'
    BY <1>1, <1>4, <1>5, <1>6 DEF FetchOk, env
  <1>11. IdleOk'
    <2>1. NothingFetched' => NothingDue(feed, due, opt, stream.last)
      BY <1>5, <1>7 DEF NothingFetched
    <2> QED
      BY <1>1, <1>4, <2>1 DEF StreamInv, IdleOk, env
  <1> QED
    BY <1>8, <1>9, <1>10, <1>11 DEF StreamInv

----------------------------------------------------------------------------
(* The steps that move the stream on *)

\* The first event that the filter lets through, or the last.
LEMMA ConsumableIs ==
  ASSUME stream.buffer \in Events
  PROVE  /\ Consumable \in 0 .. Len(stream.buffer)
         /\ stream.buffer # <<>> => Consumable # 0
         /\ \A i \in 1 .. Len(stream.buffer) : i < Consumable => stream.buffer[i].doc \notin opt.pass
  <1> DEFINE kept == {i \in 1 .. Len(stream.buffer) : stream.buffer[i].doc \in opt.pass}
  <1>1. Len(stream.buffer) \in Nat /\ (stream.buffer # <<>> => Len(stream.buffer) # 0)
    BY DEF Events
  <1>2. CASE kept = {}
    BY <1>1, <1>2 DEF Consumable
  <1>3. CASE kept # {}
    <2>1. PICK i \in kept : \A j \in kept : <<j, i>> \notin OpToRel(<, Nat)
      <3>1. kept \in SUBSET Nat
        BY <1>1
      <3> QED
        BY ZenonT(40), <1>3, <3>1, NatLessThanWellFounded, WFMin
    <2>2. \A j \in kept : i <= j
      <3>1. \A j \in kept : j \in Nat /\ i \in Nat
        BY <1>1
      <3>2. \A j \in kept : ~(j < i)
        BY <2>1, <3>1 DEF OpToRel
      <3> QED
        BY <3>1, <3>2
    <2>3. Consumable = CHOOSE k \in kept : \A j \in kept : k <= j
      BY <1>3 DEF Consumable
    <2>4. Consumable \in kept /\ \A j \in kept : Consumable <= j
      BY <2>2, <2>3
    <2> QED
      BY <1>1, <2>4
  <1> QED
    BY <1>2, <1>3

\* What is consumed leaves what is buffered complete.
Advanced(st, n) ==
  LET rest == Consumed(st, n)
  IN  /\ rest \in Streams /\ rest.count = st.count /\ rest.fetch = st.fetch
      /\ rest.state = st.state /\ rest.idle = st.idle
      /\ st.last <= rest.last /\ rest.last <= LastSeqOf(feed)
      /\ n > 0 => st.last < st.buffer[n].seq /\ st.buffer[n].seq <= rest.last
      /\ Complete(feed, opt, rest.buffer, rest.last, rest.bufferLast)
      /\ \A d \in Doc : Wanted(opt, d) /\ st.last < feed[d] /\ feed[d] <= rest.last =>
           n > 0 /\ st.buffer[n].doc = d /\ st.buffer[n].seq = feed[d]

LEMMA ConsumedIs ==
  ASSUME FeedOk, NEW st \in Streams, NEW n \in 0 .. Len(st.buffer),
         Complete(feed, opt, st.buffer, st.last, st.bufferLast), st.last <= LastSeqOf(feed),
         st.buffer # <<>> => n # 0,
         \A i \in 1 .. Len(st.buffer) : i < n => st.buffer[i].doc \notin opt.pass
  PROVE  Advanced(st, n)
  <1> DEFINE b == st.buffer
             rest == Consumed(st, n)
             left == SubSeq(b, n + 1, Len(b))
             last == CASE n = 0 -> st.last
                       [] n > 0 /\ n = Len(st.buffer) /\ st.bufferLast > st.buffer[n].seq -> st.bufferLast
                       [] OTHER -> st.buffer[n].seq
  <1>1. /\ b \in Events /\ Len(b) \in Nat /\ st.last \in Nat /\ st.bufferLast \in Nat
        /\ \A i \in 1 .. Len(b) : b[i] \in [doc : Doc, seq : Nat]
    <2>1. b \in Events /\ st.last \in Nat /\ st.bufferLast \in Nat
      BY DEF Streams
    <2> HIDE DEF b
    <2>2. \A i \in 1 .. Len(b) : b[i] \in [doc : Doc, seq : Nat]
      BY <2>1, ElementOfSeq DEF Events
    <2> QED
      BY <2>1, <2>2 DEF Events
  <1>2. \A i \in 1 .. Len(b) : /\ b[i].doc \in Doc /\ b[i].seq \in Nat /\ feed[b[i].doc] \in Nat
                               /\ st.last < b[i].seq /\ b[i].seq <= st.bufferLast
                               /\ b[i].seq <= feed[b[i].doc]
    BY <1>1 DEF Complete, Batch, FeedOk
  <1>3. \A i, j \in 1 .. Len(b) : i < j => b[i].seq < b[j].seq
    BY DEF Complete, Batch
  <1>4. LastSeqOf(feed) \in Nat /\ st.bufferLast <= LastSeqOf(feed)
    BY LastSeqIs DEF Complete, FeedOk
  <1>5. /\ left \in Events /\ Len(left) = Len(b) - n
        /\ \A i \in 1 .. Len(b) - n : left[i] = b[n + i] /\ n + i \in 1 .. Len(b)
    BY <1>1 DEF Events
  <1>6. n = 0 => Len(b) = 0 /\ last = st.last
    BY <1>1 DEF Events
  <1>7. n > 0 => /\ n \in 1 .. Len(b)
                 /\ last = IF n = Len(b) /\ st.bufferLast > b[n].seq THEN st.bufferLast ELSE b[n].seq
    BY <1>1
  <1>8. last \in Nat /\ st.last <= last /\ last <= LastSeqOf(feed)
    <2>1. CASE n = 0
      BY <1>1, <1>6, <2>1
    <2>2. CASE n > 0
      BY <1>1, <1>2, <1>4, <1>7, <2>2
    <2> QED
      BY <2>1, <2>2
  <1>9. n > 0 => st.last < b[n].seq /\ b[n].seq <= last
    BY <1>1, <1>2, <1>7
  <1>10. /\ rest \in Streams /\ rest.count = st.count /\ rest.fetch = st.fetch
         /\ rest.state = st.state /\ rest.idle = st.idle
         /\ rest.last = last /\ rest.buffer = left /\ rest.bufferLast = st.bufferLast
    <2> HIDE DEF last, left
    <2>1. rest = [st EXCEPT !.buffer = left, !.last = last]
      BY DEF Consumed, left, last
    <2> QED
      BY <1>5, <1>8, <2>1 DEF Streams
  <1> HIDE DEF last, left, rest
  <1>11. Batch(feed, left, last, st.bufferLast)
    <2>1. ASSUME NEW i \in 1 .. Len(left)
          PROVE  last < left[i].seq /\ left[i].seq <= st.bufferLast /\ left[i].seq <= feed[left[i].doc]
      <3>1. left[i] = b[n + i] /\ n + i \in 1 .. Len(b)
        BY <1>1, <1>5
      <3>2. n > 0 /\ n # Len(b) /\ n < n + i
        BY <1>1, <1>5, <1>6
      <3>3. last = b[n].seq /\ b[n].seq < b[n + i].seq
        BY <1>3, <1>7, <3>1, <3>2
      <3> QED
        BY <1>2, <3>1, <3>3
    <2>2. ASSUME NEW i \in 1 .. Len(left), NEW j \in 1 .. Len(left), i < j
          PROVE  left[i].seq < left[j].seq
      <3>1. /\ left[i] = b[n + i] /\ n + i \in 1 .. Len(b)
            /\ left[j] = b[n + j] /\ n + j \in 1 .. Len(b) /\ n + i < n + j
        BY <1>1, <1>5, <2>2
      <3> QED
        BY <1>3, <3>1
    <2> QED
      BY <2>1, <2>2 DEF Batch
  <1>12. \A d \in Doc : Wanted(opt, d) /\ st.last < feed[d] /\ feed[d] <= st.bufferLast =>
           \E i \in 1 .. Len(b) : b[i].doc = d /\ b[i].seq = feed[d]
    BY DEF Complete, Covers
  <1>13. Covers(feed, opt, left, last, st.bufferLast)
    <2> SUFFICES ASSUME NEW d \in Doc, Wanted(opt, d), last < feed[d], feed[d] <= st.bufferLast
                 PROVE  \E i \in 1 .. Len(left) : left[i].doc = d /\ left[i].seq = feed[d]
      BY DEF Covers
    <2>1. st.last < feed[d] /\ feed[d] \in Nat
      BY <1>1, <1>8 DEF FeedOk
    <2>2. PICK i \in 1 .. Len(b) : b[i].doc = d /\ b[i].seq = feed[d]
      BY <1>12, <2>1
    <2>3. n > 0
      BY <1>1, <1>6, <2>2
    <2>4. n < i
      <3>1. b[n].seq < b[i].seq
        BY <1>1, <1>2, <1>8, <1>9, <2>1, <2>2, <2>3, <1>7
      <3>2. i < n => b[i].seq < b[n].seq
        BY <1>3, <1>7, <2>3
      <3> QED
        BY <1>1, <1>2, <1>7, <2>2, <2>3, <3>1, <3>2
    <2>5. i - n \in 1 .. Len(b) - n /\ left[i - n] = b[n + (i - n)] /\ n + (i - n) = i
      BY SMTT(30), <1>1, <1>5, <2>4
    <2> QED
      BY <1>5, <2>2, <2>5
  <1>14. ASSUME NEW d \in Doc, Wanted(opt, d), st.last < feed[d], feed[d] <= last
         PROVE  n > 0 /\ b[n].doc = d /\ b[n].seq = feed[d]
    <2>1. last <= st.bufferLast /\ n > 0
      <3>1. n # 0
        BY <1>1, <1>6, <1>14 DEF FeedOk
      <3> QED
        BY <1>1, <1>2, <1>7, <3>1
    <2>2. PICK i \in 1 .. Len(b) : b[i].doc = d /\ b[i].seq = feed[d]
      BY <1>1, <1>8, <1>12, <1>14, <2>1 DEF FeedOk
    <2>3. ~(i < n)
      BY <1>14, <2>2 DEF Wanted
    <2>4. ~(n < i)
      <3>1. SUFFICES ASSUME n < i
                     PROVE  FALSE
        OBVIOUS
      <3>2. b[n].seq < b[i].seq /\ n # Len(b)
        BY <1>1, <1>3, <1>7, <2>1, <2>2, <3>1
      <3>3. last = b[n].seq
        BY <1>7, <2>1, <3>2
      <3> QED
        BY <1>1, <1>2, <1>7, <1>14, <2>1, <2>2, <3>2, <3>3 DEF FeedOk
    <2> QED
      BY <1>1, <2>1, <2>2, <2>3, <2>4
  <1> QED
    BY <1>4, <1>8, <1>9, <1>10, <1>11, <1>13, <1>14 DEF Advanced, Complete, rest

LEMMA YieldKeeps ==
  ASSUME StreamInv, Yield
  PROVE  StreamInv'
  <1> DEFINE n == Consumable
             found == n > 0 /\ stream.buffer[n].doc \in opt.pass
             rest == Consumed(stream, n)
  <1>1. /\ user # "away" /\ stream \in Streams /\ stream.state = "yielding"
        /\ UNCHANGED <<env, feed, due, stale>>
    BY PassIs DEF Yield
  <1>2. /\ Complete(feed, opt, stream.buffer, stream.last, stream.bufferLast)
        /\ stream.fetch = None /\ stream.idle = "off" /\ stream.last <= LastSeqOf(feed)
        /\ SeenUpTo(feed, opt, seen, stream.last)
    BY <1>1 DEF StreamInv, BufferOk, IdleOk, PositionOk
  <1>3. Advanced(stream, n)
    <2>1. stream.buffer \in Events
      BY <1>1 DEF Streams
    <2> QED
      BY <1>1, <1>2, <2>1, ConsumableIs, ConsumedIs DEF StreamInv
  <1>4. /\ rest \in Streams /\ rest.count = stream.count /\ rest.fetch = None
        /\ rest.state = "yielding" /\ rest.idle = "off"
        /\ stream.last <= rest.last /\ rest.last <= LastSeqOf(feed)
        /\ Complete(feed, opt, rest.buffer, rest.last, rest.bufferLast)
    BY <1>1, <1>2, <1>3 DEF Advanced
  <1>5. n > 0 => stream.last < stream.buffer[n].seq /\ stream.buffer[n].seq <= rest.last
    BY <1>3 DEF Advanced
  <1>6. \A d \in Doc : Wanted(opt, d) /\ stream.last < feed[d] /\ feed[d] <= rest.last =>
          n > 0 /\ stream.buffer[n].doc = d /\ stream.buffer[n].seq = feed[d]
    BY <1>3 DEF Advanced
  <1>7. /\ seen \in [Doc -> Nat] /\ feed \in [Doc -> Nat] /\ LastSeqOf(feed) \in Nat
        /\ stream.last \in Nat /\ rest.last \in Nat /\ \A d \in Doc : seen[d] <= feed[d]
    BY <1>1, <1>4, LastSeqIs DEF StreamInv, FeedOk, SeenOk, Streams
  <1> HIDE DEF n, rest
  <1>8. EnvOk' /\ FeedOk'
    BY <1>1 DEF StreamInv, EnvOk, env, FeedOk
  <1>9. CASE found /\ stream' = [rest EXCEPT !.count = @ + 1]
             /\ seen' = [seen EXCEPT ![stream.buffer[n].doc] = stream.buffer[n].seq]
             /\ Return("change")
    <2> DEFINE doc == stream.buffer[n].doc
               seq == stream.buffer[n].seq
    <2>1. doc \in Doc /\ seq \in Nat /\ seq <= feed[doc]
      <3>1. stream.buffer \in Events
        BY <1>1 DEF Streams
      <3>2. n \in 1 .. Len(stream.buffer)
        BY <1>9, <3>1, ConsumableIs DEF n, Events
      <3>3. stream.buffer[n] \in [doc : Doc, seq : Nat]
        BY <3>1, <3>2, ElementOfSeq DEF Events
      <3> QED
        BY <1>2, <3>2, <3>3 DEF Complete, Batch
    <2>2. stream.last < seq /\ seq <= rest.last /\ doc \in opt.pass
      BY <1>5, <1>9
    <2>3. seen' = [seen EXCEPT ![doc] = seq]
      BY <1>9
    <2>4. \A d \in Doc : Wanted(opt, d) /\ stream.last < feed[d] /\ feed[d] <= rest.last =>
            doc = d /\ seq = feed[d]
      BY <1>6
    <2> HIDE DEF doc, seq
    <2>5. /\ stream' \in Streams /\ stream'.last = rest.last /\ stream'.buffer = rest.buffer
          /\ stream'.bufferLast = rest.bufferLast /\ stream'.state = "yielding"
          /\ stream'.idle = "off" /\ stream'.fetch = None
      BY <1>4, <1>9 DEF Streams
    <2>6. IsCall(call') /\ call'.at = "none" /\ user' # "away"
      BY <1>9, ReturnIs
    <2>7. SeenOk'
      BY <1>1, <1>7, <2>1, <2>3 DEF StreamInv, SeenOk
    <2>8. SeenUpTo(feed, opt, seen', rest.last)
      <3> SUFFICES ASSUME NEW d \in Doc
                   PROVE  /\ seen'[d] <= rest.last
                          /\ feed[d] # 0 /\ feed[d] <= rest.last /\ Wanted(opt, d) => seen'[d] = feed[d]
        BY DEF SeenUpTo
      <3>1. /\ seen[d] <= stream.last
            /\ feed[d] # 0 /\ feed[d] <= stream.last /\ Wanted(opt, d) => seen[d] = feed[d]
        BY <1>2 DEF SeenUpTo
      <3>2. CASE d = doc
        BY <1>7, <2>1, <2>2, <2>3, <2>4, <3>2
      <3>3. CASE d # doc
        BY <1>4, <1>7, <2>1, <2>3, <2>4, <3>1, <3>3
      <3> QED
        BY <3>2, <3>3
    <2>9. AwayOk' /\ PositionOk' /\ BufferOk' /\ FetchOk' /\ CallOk' /\ IdleOk'
      BY <1>1, <1>4, <2>5, <2>6, <2>8
      DEF AwayOk, PositionOk, BufferOk, FetchOk, CallOk, IdleOk, env
    <2> QED
      BY <1>8, <2>7, <2>9 DEF StreamInv
  <1>10. CASE ~found /\ seen' = seen
              /\ stream' = (IF opt.live THEN [EnterWaiting(rest) EXCEPT !.paused = TRUE]
                                        ELSE [rest EXCEPT !.state = "done"])
              /\ IF opt.live /\ ~stream.paused THEN Return("paused") ELSE Step("loop")
    <2>1. /\ stream' \in Streams /\ stream'.last = rest.last /\ stream'.fetch = None
          /\ stream'.state = (IF opt.live THEN "waiting" ELSE "done")
          /\ ~opt.live => stream'.idle = "off"
      <3>1. CASE opt.live
        <4> DEFINE idle == IF rest.idle = "off" /\ opt.timeout THEN "set" ELSE rest.idle
        <4>1. idle \in {"off", "set", "due"}
          BY <1>4
        <4>2. stream' = [rest EXCEPT !.state = "waiting", !.poll = "set", !.idle = idle, !.paused = TRUE]
          BY <1>10, <3>1 DEF EnterWaiting
        <4> HIDE DEF idle
        <4> QED
          BY <1>4, <3>1, <4>1, <4>2 DEF Streams
      <3>2. CASE ~opt.live
        BY <1>4, <1>10, <3>2 DEF Streams
      <3> QED
        BY <3>1, <3>2
    <2>2. IsCall(call') /\ call'.at \in {"none", "loop"} /\ user' # "away"
      BY <1>1, <1>10, ReturnIs, StepIs DEF Places
    <2>3. SeenUpTo(feed, opt, seen, rest.last)
      <3> SUFFICES ASSUME NEW d \in Doc
                   PROVE  /\ seen[d] <= rest.last
                          /\ feed[d] # 0 /\ feed[d] <= rest.last /\ Wanted(opt, d) => seen[d] = feed[d]
        BY DEF SeenUpTo
      <3>1. /\ seen[d] <= stream.last
            /\ feed[d] # 0 /\ feed[d] <= stream.last /\ Wanted(opt, d) => seen[d] = feed[d]
        BY <1>2 DEF SeenUpTo
      <3>2. ~(Wanted(opt, d) /\ stream.last < feed[d] /\ feed[d] <= rest.last)
        BY <1>6, <1>10 DEF Wanted
      <3> QED
        BY <1>4, <1>7, <3>1, <3>2
    <2>4. SeenOk'
      BY <1>1, <1>10 DEF StreamInv, SeenOk
    <2>5. AwayOk' /\ FetchOk' /\ CallOk'
      BY <2>1, <2>2 DEF AwayOk, FetchOk, CallOk
    <2>6. PositionOk'
      BY <1>1, <1>4, <1>10, <2>1, <2>3 DEF PositionOk, env
    <2>7. BufferOk'
      BY <2>1 DEF BufferOk
    <2>8. IdleOk'
      BY <1>1, <2>1, <2>2 DEF IdleOk, env
    <2> QED
      BY <1>8, <2>4, <2>5, <2>6, <2>7, <2>8 DEF StreamInv
  <1> QED
    BY <1>9, <1>10 DEF Yield, n, rest

\* What an answer leaves of the stream.
BatchLands(st, a) ==
  LET b == Buffered(st, a)
  IN  /\ b \in Streams /\ b.fetch = None /\ b.buffer = a.events /\ b.bufferLast = a.last
      /\ b.count = st.count /\ b.state = st.state /\ b.idle = st.idle
      /\ b.last <= LastSeqOf(feed) /\ SeenUpTo(feed, opt, seen, b.last)
      /\ Complete(feed, opt, a.events, b.last, a.last)
      /\ NothingDue(feed, due, opt, st.last) => NothingDue(feed, due, opt, b.last)

LEMMA BufferedIs ==
  ASSUME StreamInv, user # "away", NEW a \in [ok : {TRUE}, events : Events, last : Nat],
         Complete(feed, opt, a.events, stream.last, a.last)
  PROVE  BatchLands(stream, a)
  <1> DEFINE last == IF a.events = <<>> /\ a.last > stream.last THEN a.last ELSE stream.last
             b == Buffered(stream, a)
  <1>1. /\ stream \in Streams /\ stream.last \in Nat /\ stream.last <= LastSeqOf(feed)
        /\ SeenUpTo(feed, opt, seen, stream.last)
    BY DEF StreamInv, PositionOk, Streams
  <1>2. a.events \in Events /\ a.last \in Nat /\ LastSeqOf(feed) \in Nat /\ a.last <= LastSeqOf(feed)
    BY LastSeqIs DEF StreamInv, FeedOk, Complete
  <1>3. last \in Nat /\ stream.last <= last /\ last <= LastSeqOf(feed)
    BY <1>1, <1>2
  <1>4. last # stream.last => last = a.last /\ a.events = <<>>
    OBVIOUS
  <1>5. ASSUME a.events = <<>>, NEW d \in Doc, Wanted(opt, d), stream.last < feed[d], feed[d] <= a.last
        PROVE  FALSE
    <2>1. PICK i \in 1 .. Len(a.events) : a.events[i].doc = d
      BY <1>5 DEF Complete, Covers
    <2>2. Len(a.events) = 0
      BY <1>5
    <2> QED
      BY <2>1, <2>2
  <1> HIDE DEF last
  <1>6. /\ b \in Streams /\ b.fetch = None /\ b.buffer = a.events /\ b.bufferLast = a.last
        /\ b.count = stream.count /\ b.state = stream.state /\ b.idle = stream.idle /\ b.last = last
    <2> DEFINE events == a.events
               to == a.last
    <2>1. b = [stream EXCEPT !.fetch = None, !.buffer = events, !.bufferLast = to,
                             !.failures = 0, !.last = last]
      BY DEF Buffered, last
    <2>2. events \in Events /\ to \in Nat
      BY <1>2
    <2> HIDE DEF events, to
    <2> DEFINE st == [stream EXCEPT !.fetch = None, !.failures = 0]
    <2>3. /\ st \in Streams /\ st.fetch = None /\ st.count = stream.count
          /\ st.state = stream.state /\ st.idle = stream.idle
      BY <1>1 DEF Streams
    <2>4. b = [st EXCEPT !.buffer = events, !.bufferLast = to, !.last = last]
      BY <1>1, <2>1 DEF Streams
    <2> HIDE DEF st, b
    <2>5. /\ b \in Streams /\ b.fetch = None /\ b.buffer = events /\ b.bufferLast = to
          /\ b.count = stream.count /\ b.state = stream.state /\ b.idle = stream.idle /\ b.last = last
      BY <1>3, <2>2, <2>3, <2>4 DEF Streams
    <2> QED
      BY <2>5 DEF events, to
  <1> HIDE DEF b
  <1>7. SeenUpTo(feed, opt, seen, last)
    <2> SUFFICES ASSUME NEW d \in Doc
                 PROVE  /\ seen[d] <= last
                        /\ feed[d] # 0 /\ feed[d] <= last /\ Wanted(opt, d) => seen[d] = feed[d]
      BY DEF SeenUpTo
    <2>1. /\ seen[d] <= stream.last
          /\ feed[d] # 0 /\ feed[d] <= stream.last /\ Wanted(opt, d) => seen[d] = feed[d]
      BY <1>1 DEF SeenUpTo
    <2>2. feed[d] \in Nat /\ seen[d] \in Nat
      BY DEF StreamInv, FeedOk, SeenOk
    <2> QED
      BY <1>1, <1>3, <1>4, <1>5, <2>1, <2>2
  <1>8. Complete(feed, opt, a.events, last, a.last)
    <2>1. CASE last = stream.last
      BY <2>1
    <2>2. CASE last # stream.last
      <3>1. a.events = <<>> /\ last = a.last /\ Len(a.events) = 0
        BY <1>4, <2>2
      <3>2. Batch(feed, a.events, last, a.last)
        BY <3>1 DEF Batch
      <3>3. Covers(feed, opt, a.events, last, a.last)
        BY <1>2, <3>1 DEF Covers, StreamInv, FeedOk
      <3> QED
        BY <1>2, <3>2, <3>3 DEF Complete
    <2> QED
      BY <2>1, <2>2
  <1>9. NothingDue(feed, due, opt, stream.last) => NothingDue(feed, due, opt, last)
    BY <1>1, <1>3 DEF NothingDue, StreamInv, FeedOk
  <1> QED
    BY <1>3, <1>6, <1>7, <1>8, <1>9 DEF BatchLands, b

\* An answer was taken: the fetch is over and the call goes on or returns.
LEMMA LandedKeeps ==
  ASSUME StreamInv, user' # "away", UNCHANGED <<env, feed, seen, due, stale>>,
         stream' \in Streams, stream'.fetch = None,
         stream'.last <= LastSeqOf(feed), SeenUpTo(feed, opt, seen, stream'.last),
         stream'.state = "yielding" =>
           Complete(feed, opt, stream'.buffer, stream'.last, stream'.bufferLast),
         IsCall(call'), call'.at \in {"none", "loop"}, IdleOk'
  PROVE  StreamInv'
  <1>1. EnvOk' /\ FeedOk' /\ AwayOk' /\ SeenOk'
    BY DEF StreamInv, EnvOk, env, FeedOk, AwayOk, SeenOk
  <1>2. PositionOk'
    BY DEF PositionOk, env
  <1>3. BufferOk'
    BY DEF BufferOk, env
  <1>4. FetchOk' /\ CallOk'
    BY DEF FetchOk, CallOk
  <1> QED
    BY <1>1, <1>2, <1>3, <1>4 DEF StreamInv

LEMMA FetchedKeeps ==
  ASSUME StreamInv, Fetching(call), user # "away", UNCHANGED <<env, feed, seen, due, stale>>,
         NEW a \in [ok : {TRUE}, events : Events, last : Nat],
         Complete(feed, opt, a.events, stream.last, a.last),
         call.at = "last look" /\ ~stale /\ a.events = <<>> =>
           NothingDue(feed, due, opt, stream.last),
         Fetched(a)
  PROVE  StreamInv'
  <1> DEFINE b == Buffered(stream, a)
             got == Resumed(b)
  <1>1. /\ b \in Streams /\ b.fetch = None /\ b.buffer = a.events /\ b.bufferLast = a.last
        /\ b.count = stream.count /\ b.state = stream.state /\ b.idle = stream.idle
        /\ b.last <= LastSeqOf(feed) /\ SeenUpTo(feed, opt, seen, b.last)
        /\ Complete(feed, opt, b.buffer, b.last, b.bufferLast)
        /\ NothingDue(feed, due, opt, stream.last) => NothingDue(feed, due, opt, b.last)
    BY BufferedIs DEF BatchLands
  <1> HIDE DEF b
  <1>2. /\ got \in Streams /\ got.fetch = None /\ got.last = b.last /\ got.count = b.count
        /\ got.buffer = b.buffer /\ got.bufferLast = b.bufferLast
        /\ b.buffer = <<>> => got.state = b.state /\ got.idle = b.idle
        /\ b.buffer # <<>> => got.state = "yielding" /\ got.idle = "off"
    BY ZenonT(40), <1>1 DEF Resumed, Streams
  <1> HIDE DEF got
  <1>3. CASE call.at = "initial"
    <2>1. stream' = [b EXCEPT !.state = "yielding"] /\ Step("loop")
      BY <1>3 DEF Fetched, b
    <2>2. /\ stream' \in Streams /\ stream'.fetch = None /\ stream'.last = b.last
          /\ stream'.buffer = b.buffer /\ stream'.bufferLast = b.bufferLast
          /\ stream'.state = "yielding" /\ stream'.idle = b.idle
      BY <1>1, <2>1 DEF Streams
    <2>3. IsCall(call') /\ call'.at = "loop" /\ user' # "away"
      BY <2>1, StepIs DEF Places
    <2>4. b.idle = "off"
      BY <1>1, <1>3 DEF StreamInv, CallOk, IdleOk
    <2>5. IdleOk'
      BY <2>2, <2>3, <2>4 DEF IdleOk
    <2> QED
      BY <1>1, <2>2, <2>3, <2>5, LandedKeeps
  <1>4. CASE call.at = "last look"
    <2>1. /\ stream' = (IF got.state = "yielding" THEN got ELSE [got EXCEPT !.state = "done"])
          /\ IF got.state = "yielding" /\ stream.paused THEN Return("active") ELSE Step("loop")
      BY <1>4 DEF Fetched, got, b
    <2>2. /\ stream' \in Streams /\ stream'.fetch = None /\ stream'.last = b.last
          /\ stream'.buffer = b.buffer /\ stream'.bufferLast = b.bufferLast
          /\ stream'.idle = got.idle /\ stream'.count = b.count
          /\ stream'.state = (IF got.state = "yielding" THEN "yielding" ELSE "done")
      BY <1>2, <2>1 DEF Streams
    <2>3. IsCall(call') /\ call'.at \in {"none", "loop"} /\ user' # "away"
      BY <2>1, StepIs, ReturnIs DEF Places
    <2>4. stream.state = "waiting" /\ stream.idle = "due" /\ opt.live
      BY <1>4 DEF StreamInv, CallOk, IdleOk
    <2>5. IdleOk'
      <3>1. CASE b.buffer = <<>>
        <4>1. ~stale => NothingDue(feed, due, opt, b.last)
          BY <1>1, <1>4, <3>1
        <4>2. stream'.state = "done" /\ stream'.idle = "due"
          BY <1>1, <1>2, <2>2, <2>4, <3>1
        <4> QED
          BY <2>2, <2>3, <2>4, <4>1, <4>2 DEF IdleOk, env
      <3>2. CASE b.buffer # <<>>
        BY <1>2, <2>2, <2>3, <3>2 DEF IdleOk
      <3> QED
        BY <3>1, <3>2
    <2> QED
      BY <1>1, <2>2, <2>3, <2>5, LandedKeeps
  <1>5. CASE call.at = "again"
    <2> DEFINE paused == IF got.state = "waiting" THEN TRUE ELSE got.paused
    <2>1. /\ stream' = [got EXCEPT !.poll = "set", !.paused = paused]
          /\ CASE got.state = "yielding" /\ stream.paused -> Return("active")
               [] got.state = "waiting" /\ ~stream.paused -> Return("paused")
               [] OTHER -> Step("loop")
      BY <1>5 DEF Fetched, got, b
    <2>2. paused \in BOOLEAN
      BY <1>2 DEF Streams
    <2> HIDE DEF paused
    <2>3. /\ stream' \in Streams /\ stream'.fetch = None /\ stream'.last = b.last
          /\ stream'.buffer = b.buffer /\ stream'.bufferLast = b.bufferLast
          /\ stream'.idle = got.idle /\ stream'.count = b.count
          /\ stream'.state = got.state
      BY <1>2, <2>1, <2>2 DEF Streams
    <2>4. IsCall(call') /\ call'.at \in {"none", "loop"} /\ user' # "away"
      <3>1. Return("active") \/ Return("paused") \/ Step("loop")
        BY <2>1
      <3> QED
        BY <3>1, StepIs, ReturnIs DEF Places
    <2>5. stream.state = "waiting" /\ (stream.idle # "off" => opt.live)
      BY <1>5 DEF StreamInv, CallOk, IdleOk
    <2>6. IdleOk'
      <3>1. CASE b.buffer = <<>>
        BY <1>1, <1>2, <2>3, <2>4, <2>5, <3>1 DEF IdleOk, env
      <3>2. CASE b.buffer # <<>>
        BY <1>2, <2>3, <2>4, <3>2 DEF IdleOk
      <3> QED
        BY <3>1, <3>2
    <2> QED
      BY <1>1, <2>3, <2>4, <2>6, LandedKeeps
  <1> QED
    BY <1>3, <1>4, <1>5 DEF Fetching

\* A fetch that failed: the stream waits for its next try, or has failed.
LEMMA FetchErrorKeeps ==
  ASSUME StreamInv, Fetching(call), user # "away", UNCHANGED <<env, feed, seen, due, stale>>,
         FetchError
  PROVE  StreamInv'
  <1>1. stream \in Streams
    BY DEF StreamInv, PositionOk
  <1>2. IsCall(call') /\ call'.at = "none" /\ user' # "away"
    BY ReturnIs DEF FetchError
  <1>3. stream.state = "initial" \/ stream.state = "waiting"
    BY DEF StreamInv, CallOk, Fetching
  <1>4. stream.idle # "off" => opt.live
    BY DEF StreamInv, IdleOk
  <1>5. /\ stream' \in Streams /\ stream'.last = stream.last /\ stream'.count = stream.count
        /\ stream'.fetch = None
        /\ stream'.state = "failed" \/ (stream'.state = "waiting" /\ opt.live)
        /\ stream'.idle # "off" => stream.idle # "off" \/ opt.live
    <2> DEFINE st == [stream EXCEPT !.fetch = None]
    <2>1. /\ st \in Streams /\ st.last = stream.last /\ st.count = stream.count
          /\ st.fetch = None /\ st.idle = stream.idle
      BY <1>1 DEF Streams
    <2>2. \/ stream' = [st EXCEPT !.state = "failed"]
          \/ opt.live /\ stream' = EnterWaiting([st EXCEPT !.failures = 1])
      <3>1. [stream EXCEPT !.fetch = None, !.state = "failed"] = [st EXCEPT !.state = "failed"]
        BY <1>1 DEF Streams
      <3> QED
        BY <3>1 DEF FetchError, FetchFailed, st
    <2> HIDE DEF st
    <2>3. CASE stream' = [st EXCEPT !.state = "failed"]
      BY <2>1, <2>3 DEF Streams
    <2>4. CASE opt.live /\ stream' = EnterWaiting([st EXCEPT !.failures = 1])
      <3> DEFINE w == [st EXCEPT !.failures = 1]
                 idle == IF w.idle = "off" /\ opt.timeout THEN "set" ELSE w.idle
      <3>1. /\ w \in Streams /\ w.last = stream.last /\ w.count = stream.count
            /\ w.fetch = None /\ w.idle = stream.idle
        BY <2>1 DEF Streams
      <3>2. idle \in {"off", "set", "due"}
        BY <3>1 DEF Streams
      <3>3. stream' = [w EXCEPT !.state = "waiting", !.poll = "set", !.idle = idle]
        BY <2>4 DEF EnterWaiting
      <3> HIDE DEF w, idle
      <3> QED
        BY ZenonT(40), <2>4, <3>1, <3>2, <3>3 DEF Streams
    <2> QED
      BY <2>2, <2>3, <2>4
  <1>6. Parked
    BY <1>2, <1>5 DEF Parked
  <1>7. CallOk'
    BY <1>2 DEF CallOk
  <1>8. IdleOk'
    BY <1>2, <1>4, <1>5 DEF IdleOk, env
  <1> QED
    BY <1>6, <1>7, <1>8, ParkedKeeps

LEMMA TakeAnswerKeeps ==
  ASSUME StreamInv, TakeAnswer
  PROVE  StreamInv'
  <1>1. Fetching(call) /\ UNCHANGED <<env, feed, seen, due, stale>>
    BY DEF TakeAnswer, history
  <1>2. user # "away"
    <2>1. call.at # "none"
      BY <1>1 DEF Fetching
    <2> QED
      BY <2>1 DEF StreamInv, AwayOk, NoCall
  <1>3. stream \in Streams /\ stream.last \in Nat /\ stream.last <= LastSeqOf(feed)
    BY <1>2 DEF StreamInv, PositionOk, Streams
  <1>4. stream.fetch # None => stream.fetch \in Fetches /\ stream.fetch.since = stream.last
    BY <1>2, <1>3 DEF Streams, StreamInv, FetchOk
  <1>5. ASSUME NEW n \in Nat \ {0}, Fetched(Answer(stream.last, n))
        PROVE  StreamInv'
    <2> DEFINE a == Answer(stream.last, n)
    <2>1. Answered(a, stream.last)
      BY <1>3, AnswerIs DEF StreamInv
    <2> HIDE DEF a
    <2>2. /\ a \in [ok : {TRUE}, events : Events, last : Nat]
          /\ Complete(feed, opt, a.events, stream.last, a.last)
          /\ a.events = <<>> => NothingDue(feed, due, opt, stream.last)
      BY <2>1 DEF Answered, NothingDue
    <2>3. Fetched(a)
      BY <1>5 DEF a
    <2> QED
      BY <1>1, <1>2, <2>2, <2>3, FetchedKeeps
  <1>6. CASE kind = "memory" /\ stream.fetch = None
    <2>1. FetchLimit \in Nat \ {0}
      <3>1. opt.limit \in Nat /\ stream.count \in Nat /\ stream.count < opt.limit
        BY <1>1, <1>3, LimitIs DEF StreamInv, CallOk, Streams, Fetching
      <3> QED
        BY <3>1, StreamAssumption DEF FetchLimit
    <2> QED
      BY <1>5, <1>6, <2>1 DEF TakeAnswer
  <1>7. CASE kind = "memory" /\ stream.fetch # None
    <2>1. stream.fetch.limit \in Nat \ {0} /\ stream.fetch.since = stream.last
      BY <1>4, <1>7 DEF Fetches
    <2> QED
      BY <1>5, <1>7, <2>1 DEF TakeAnswer
  <1>8. CASE kind # "memory"
    <2>1. /\ stream.fetch # None /\ stream.fetch.answer # None
          /\ IF stream.fetch.answer.ok THEN Fetched(stream.fetch.answer) ELSE FetchError
      BY <1>8 DEF TakeAnswer
    <2> DEFINE a == stream.fetch.answer
    <2>2. CASE a.ok
      <3>1. a \in [ok : {TRUE}, events : Events, last : Nat]
        BY <1>4, <2>1, <2>2 DEF Fetches, Answers
      <3>2. Complete(feed, opt, a.events, stream.last, a.last)
        BY <1>2, <2>1, <2>2 DEF StreamInv, FetchOk
      <3>3. call.at = "last look" /\ ~stale /\ a.events = <<>> => NothingDue(feed, due, opt, stream.last)
        BY <1>2, <2>1, <2>2 DEF StreamInv, IdleOk, NothingFetched
      <3>4. Fetched(a)
        BY <2>1, <2>2
      <3> HIDE DEF a
      <3> QED
        BY <1>1, <1>2, <3>1, <3>2, <3>3, <3>4, FetchedKeeps
    <2>3. CASE ~a.ok
      BY <1>1, <1>2, <2>1, <2>3, FetchErrorKeeps
    <2> QED
      BY <2>2, <2>3
  <1> QED
    BY <1>6, <1>7, <1>8

----------------------------------------------------------------------------
LEMMA StreamInvInit ==
  ASSUME Init
  PROVE  StreamInv
  <1>1. /\ user = "away" /\ call = NoCall /\ stream = None
        /\ feed = Seq0 /\ seen = Seq0 /\ due = Seq0
    BY DEF Init
  <1>2. EnvOk
    BY DEF Init, EnvOk
  <1>3. FeedOk /\ SeenOk
    BY <1>1 DEF FeedOk, SeenOk, Seq0
  <1>4. AwayOk
    BY <1>1 DEF AwayOk, Seq0
  <1>5. PositionOk /\ BufferOk /\ FetchOk /\ IdleOk
    BY <1>1 DEF PositionOk, BufferOk, FetchOk, IdleOk
  <1>6. CallOk
    BY <1>1 DEF CallOk, NoCall, IsCall, Places
  <1> QED
    BY <1>2, <1>3, <1>4, <1>5, <1>6 DEF StreamInv

LEMMA StreamInvNext ==
  ASSUME StreamInv, [Next]_vars
  PROVE  StreamInv'
  <1>1. CASE UNCHANGED vars
    <2>1. Grown
      BY <1>1, SameGrown DEF vars, database, StreamInv
    <2> QED
      BY <1>1, <2>1, StillKeeps DEF vars, history
  <1>2. ASSUME NEW d \in Doc, OtherWrites(d) \/ ConsumerWrites(d)
        PROVE  StreamInv'
    BY <1>2, BeginKeeps
  <1>3. ASSUME NEW w \in Writer, WriteStep(w)
        PROVE  StreamInv'
    BY <1>3, WriteKeeps
  <1>4. CASE ReadFeed
    BY <1>4, ReadFeedKeeps
  <1>5. CASE CallStep
    BY <1>5, ReachLimitKeeps, ChooseKeeps, YieldKeeps, TimeKeeps, EndKeeps, FinishedKeeps,
       WakeUpKeeps, StartFetchKeeps, TakeAnswerKeeps, FallAsleepKeeps DEF CallStep
  <1>6. CASE ConsumerStep
    BY <1>6, NewKeeps, NextEventKeeps, ConsumerKeeps, StopKeeps DEF ConsumerStep
  <1>7. CASE Drop \/ Cancel \/ Receive
    BY <1>7, NextEventKeeps, ConsumerKeeps
  <1>8. CASE PollDue \/ BeatDue \/ IdleDue
    BY <1>8, TimeKeeps, IdleDueKeeps
  <1> QED
    BY <1>1, <1>2, <1>3, <1>4, <1>5, <1>6, <1>7, <1>8 DEF Next

LEMMA StreamInvHolds == Spec => []StreamInv
  <1>1. Init => StreamInv
    BY StreamInvInit
  <1>2. StreamInv /\ [Next]_vars => StreamInv'
    BY StreamInvNext
  <1> QED
    BY <1>1, <1>2, PTL DEF Spec

\* The position a consumer resumes from has passed no change that it wants and
\* was not given: not by a fetch given up or answered after more was written,
\* not by a batch that the filter emptied, not by a retry.
THEOREM NothingSkipped == Spec => []NoneSkipped
  <1>1. StreamInv => NoneSkipped
    <2> SUFFICES ASSUME StreamInv, stream # None, NEW d \in Doc,
                        feed[d] # 0, feed[d] <= stream.last, Passes(d)
                 PROVE  seen[d] = feed[d]
      BY DEF NoneSkipped
    <2>1. user # "away"
      BY DEF StreamInv, AwayOk
    <2>2. SeenUpTo(feed, opt, seen, stream.last) /\ Wanted(opt, d)
      BY <2>1 DEF StreamInv, PositionOk, Passes, Wanted
    <2> QED
      BY <2>2 DEF SeenUpTo
  <1> QED
    BY <1>1, StreamInvHolds, PTL

\* A stream that its idle deadline ends has returned every change made by then,
\* if the look it takes at the deadline is a fetch begun there.
THEOREM LastLookSuffices == Spec => []LastLook
  <1>1. StreamInv => LastLook
    <2> SUFFICES ASSUME StreamInv, ~stale, stream # None, stream.state = "finished",
                        stream.idle = "due", stream.count < opt.limit,
                        NEW d \in Doc, Passes(d), feed[d] = due[d]
                 PROVE  seen[d] = feed[d]
      BY DEF LastLook, DeadlineLosesNothing
    <2>1. user # "away"
      BY DEF StreamInv, AwayOk
    <2>2. NothingDue(feed, due, opt, stream.last) /\ Wanted(opt, d)
      BY <2>1 DEF StreamInv, IdleOk, Passes, Wanted
    <2>3. feed[d] <= stream.last
      BY <2>2 DEF NothingDue
    <2>4. SeenUpTo(feed, opt, seen, stream.last)
      BY <2>1 DEF StreamInv, PositionOk
    <2>5. feed[d] # 0 => seen[d] = feed[d]
      BY <2>2, <2>3, <2>4 DEF SeenUpTo
    <2>6. seen[d] \in Nat /\ feed[d] \in Nat /\ seen[d] <= feed[d]
      BY DEF StreamInv, SeenOk, FeedOk
    <2> QED
      BY <2>5, <2>6
  <1> QED
    BY <1>1, StreamInvHolds, PTL

\* A step that counts an event returns the change that comes next in the feed.
LEMMA YieldIsNews ==
  ASSUME StreamInv, Yield, stream'.count # stream.count
  PROVE  \E d \in Doc : seen'[d] # seen[d] /\ \A e \in Doc : seen[e] < seen'[d]
  <1> DEFINE n == Consumable
             rest == Consumed(stream, n)
  <1>1. user # "away" /\ stream \in Streams /\ stream.state = "yielding"
    BY PassIs DEF Yield
  <1>2. stream.buffer \in Events
    BY <1>1 DEF Streams
  <1>3. /\ Complete(feed, opt, stream.buffer, stream.last, stream.bufferLast)
        /\ stream.last <= LastSeqOf(feed) /\ SeenUpTo(feed, opt, seen, stream.last)
    BY <1>1 DEF StreamInv, BufferOk, PositionOk
  <1>4. Advanced(stream, n)
    BY <1>1, <1>2, <1>3, ConsumableIs, ConsumedIs DEF StreamInv
  <1>5. rest \in Streams /\ rest.count = stream.count /\ (n > 0 => stream.last < stream.buffer[n].seq)
    BY <1>4 DEF Advanced
  <1>6. n \in 0 .. Len(stream.buffer)
    BY <1>2, ConsumableIs
  <1> HIDE DEF n, rest
  <1>7. CASE seen' = seen
              /\ stream' = (IF opt.live THEN [EnterWaiting(rest) EXCEPT !.paused = TRUE]
                                        ELSE [rest EXCEPT !.state = "done"])
    <2>1. stream'.count = rest.count
      <3>1. CASE opt.live
        <4> DEFINE idle == IF rest.idle = "off" /\ opt.timeout THEN "set" ELSE rest.idle
        <4>1. stream' = [rest EXCEPT !.state = "waiting", !.poll = "set", !.idle = idle, !.paused = TRUE]
          BY <1>7, <3>1 DEF EnterWaiting
        <4> HIDE DEF idle
        <4> QED
          BY <1>5, <4>1 DEF Streams
      <3>2. CASE ~opt.live
        BY <1>5, <1>7, <3>2 DEF Streams
      <3> QED
        BY <3>1, <3>2
    <2> QED
      BY <1>5, <2>1
  <1>8. CASE n > 0 /\ seen' = [seen EXCEPT ![stream.buffer[n].doc] = stream.buffer[n].seq]
    <2> DEFINE doc == stream.buffer[n].doc
               seq == stream.buffer[n].seq
    <2>1. stream.buffer[n] \in [doc : Doc, seq : Nat]
      <3>1. n \in 1 .. Len(stream.buffer)
        BY <1>2, <1>6, <1>8 DEF Events
      <3> QED
        BY <1>2, <3>1, ElementOfSeq DEF Events
    <2>2. doc \in Doc /\ seq \in Nat /\ stream.last < seq
      BY <1>5, <1>8, <2>1
    <2>3. seen' = [seen EXCEPT ![doc] = seq]
      BY <1>8
    <2> HIDE DEF doc, seq
    <2>4. seen \in [Doc -> Nat] /\ stream.last \in Nat /\ \A e \in Doc : seen[e] <= stream.last
      BY <1>1, <1>3 DEF SeenUpTo, StreamInv, SeenOk, Streams
    <2>5. seen'[doc] = seq /\ \A e \in Doc : seen[e] < seq
      BY <2>2, <2>3, <2>4
    <2> QED
      BY <2>2, <2>5
  <1> QED
    BY <1>7, <1>8 DEF Yield, n, rest

\* No other step counts one.
CountsAs(st, n) == "count" \in DOMAIN st /\ st.count = n

LEMMA FetchedCounts ==
  ASSUME stream \in Streams, NEW a, Fetching(call), Fetched(a)
  PROVE  stream'.count = stream.count
  <1> DEFINE b == Buffered(stream, a)
             got == Resumed(b)
             n == stream.count
  <1>1. CountsAs(stream, n)
    BY DEF CountsAs, Streams
  <1>2. CountsAs(b, n)
    BY <1>1 DEF Buffered, CountsAs
  <1> HIDE DEF b, n
  <1>3. CountsAs(got, n)
    BY <1>2 DEF Resumed, CountsAs
  <1> HIDE DEF got
  <1>4. CASE call.at = "initial"
    <2>1. stream' = [b EXCEPT !.state = "yielding"]
      BY <1>4 DEF Fetched, b
    <2> QED
      BY <1>2, <2>1 DEF CountsAs, n
  <1>5. CASE call.at = "last look"
    <2>1. stream' = (IF got.state = "yielding" THEN got ELSE [got EXCEPT !.state = "done"])
      BY <1>5 DEF Fetched, got, b
    <2> QED
      BY <1>3, <2>1 DEF CountsAs, n
  <1>6. CASE call.at = "again"
    <2> DEFINE paused == IF got.state = "waiting" THEN TRUE ELSE got.paused
    <2>1. stream' = [got EXCEPT !.poll = "set", !.paused = paused]
      BY <1>6 DEF Fetched, got, b
    <2> HIDE DEF paused
    <2> QED
      BY <1>3, <2>1 DEF CountsAs, n
  <1> QED
    BY <1>4, <1>5, <1>6 DEF Fetching

LEMMA FetchErrorCounts ==
  ASSUME stream \in Streams, FetchError
  PROVE  stream'.count = stream.count
  <1> DEFINE n == stream.count
             st == [stream EXCEPT !.fetch = None]
             w == [st EXCEPT !.failures = 1]
             idle == IF w.idle = "off" /\ opt.timeout THEN "set" ELSE w.idle
  <1>1. CountsAs(stream, n) /\ CountsAs(st, n) /\ CountsAs(w, n)
    BY DEF CountsAs, Streams
  <1>2. \/ stream' = [stream EXCEPT !.fetch = None, !.state = "failed"]
        \/ stream' = [st EXCEPT !.state = "failed"]
        \/ stream' = [w EXCEPT !.state = "waiting", !.poll = "set", !.idle = idle]
    BY DEF FetchError, FetchFailed, EnterWaiting
  <1> HIDE DEF n, st, w, idle
  <1>3. CountsAs(stream', n)
    BY <1>1, <1>2 DEF CountsAs
  <1> QED
    BY <1>3 DEF CountsAs, n

LEMMA OthersCountNothing ==
  ASSUME StreamInv, [Next]_vars, stream # None, ~Yield
  PROVE  stream'.count = stream.count
  <1>1. stream \in Streams /\ user # "away"
    BY DEF StreamInv, PositionOk, AwayOk
  <1>2. CASE stream' = stream
    BY <1>2
  <1>3. CASE ReadFeed
    <2>1. \E f : stream' = [stream EXCEPT !.fetch = f]
      BY <1>3 DEF ReadFeed
    <2> QED
      BY <1>1, <2>1 DEF Streams
  <1>4. CASE CallStep
    <2>1. CASE TakeAnswer
      <3>1. FetchError \/ (Fetching(call) /\ \E a : Fetched(a))
        BY <2>1 DEF TakeAnswer
      <3> QED
        BY <1>1, <3>1, FetchedCounts, FetchErrorCounts
    <2>2. CASE ReachLimit \/ Heartbeat \/ End \/ StartFetch
      BY <1>1, <2>2 DEF ReachLimit, Heartbeat, End, StartFetch, Streams
    <2>3. CASE FetchInitial \/ LookOnceMore \/ Wait \/ Finished \/ WakeUp \/ FallAsleep
      BY <2>3 DEF FetchInitial, LookOnceMore, Wait, Finished, WakeUp, FallAsleep
    <2> QED
      BY <1>4, <2>1, <2>2, <2>3 DEF CallStep
  <1>5. CASE ConsumerStep
    <2>1. ~New
      BY <1>1 DEF New
    <2>2. CASE Stop
      BY <1>1, <2>2 DEF Stop, Streams
    <2>3. CASE NextEvent \/ Written \/ Send
      BY <2>3 DEF NextEvent, Written, Send
    <2> QED
      BY <1>5, <2>1, <2>2, <2>3 DEF ConsumerStep
  <1>6. CASE PollDue \/ BeatDue \/ IdleDue
    BY <1>1, <1>6 DEF PollDue, BeatDue, IdleDue, Streams
  <1>7. CASE \E d \in Doc : OtherWrites(d) \/ ConsumerWrites(d)
    BY <1>7 DEF OtherWrites, ConsumerWrites
  <1>8. CASE (\E w \in Writer : WriteStep(w)) \/ Drop \/ Cancel \/ Receive \/ UNCHANGED vars
    BY <1>8 DEF WriteStep, Drop, Cancel, Receive, vars
  <1> QED
    BY <1>3, <1>4, <1>5, <1>6, <1>7, <1>8 DEF Next

\* Events come in the order of the feed and no change comes twice, across fetches,
\* retries and calls that were dropped.
THEOREM OrderKept == Spec => InFeedOrder
  <1>1. StreamInv /\ [Next]_vars =>
          [stream # None /\ stream'.count # stream.count =>
             \E d \in Doc : seen'[d] # seen[d] /\ \A e \in Doc : seen[e] < seen'[d]]_vars
    BY YieldIsNews, OthersCountNothing
  <1> QED
    BY <1>1, StreamInvHolds, PTL DEF Spec, InFeedOrder
=============================================================================
