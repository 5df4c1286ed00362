-------------------------- MODULE MCChangesStream --------------------------
(* Instances of ChangesStream. *)
EXTENDS ChangesStream, TLC

Docs == {"a", "b"}

Unlimited == 9

Live(limit, timeout, heartbeat, ids, pass) ==
  [live |-> TRUE, limit |-> limit, timeout |-> timeout, heartbeat |-> heartbeat,
   ids |-> ids, pass |-> pass]

\* A plain feed that ends when idle, one of a single document, a filtered one
\* with a limit, and a one-shot stream.
Plain == Live(Unlimited, TRUE, FALSE, Docs, Docs)
Single == Live(Unlimited, FALSE, TRUE, {"a"}, Docs)
Limited == Live(1, TRUE, FALSE, Docs, {"a"})
OneShot == [Live(2, FALSE, FALSE, Docs, {"b"}) EXCEPT !.live = FALSE]

Setup(k, m, o) == [kind |-> k, mode |-> m, opt |-> o]

SomeSetups ==
  {Setup("memory", "direct", Plain), Setup("memory", "events", Plain),
   Setup("memory", "direct", Single), Setup("memory", "direct", OneShot),
   Setup("redb", "direct", Plain), Setup("redb", "direct", Limited),
   Setup("redb", "changes", Single),
   Setup("quiet", "direct", Plain), Setup("quiet", "direct", OneShot),
   Setup("quiet", "changes", Limited)}

\* A stream that is created while a write is under way (with Races).
RaceSetups == {Setup("redb", "direct", Live(Unlimited, FALSE, FALSE, Docs, Docs))}

\* A feed of one document that ends when idle.
IdleSetups == {Setup("redb", "direct", Live(Unlimited, TRUE, FALSE, {"a"}, Docs))}

\* A consumer that writes between two calls (with WritingKinds).
WriteSetups == {Setup("memory", "direct", Live(Unlimited, FALSE, FALSE, Docs, Docs))}
=============================================================================
