------------------------------- MODULE MCHttp -------------------------------
(* Instances of HttpAdapter. *)
EXTENDS HttpAdapter, RevUniverse, TLC

CONSTANTS t1, t2, t3, w1, w2, a, b

\* A first revision, a tombstone, what is written after it, an edit with an
\* attachment; and another first revision with one, and an edit without.
HttpRev == USet({<<1, 0, 1>>, <<1, 1>>, <<2, 1>>})
HttpGen == UGen(HttpRev)
HttpAnc == UAnc(HttpRev)
HttpDeleted == UDeleted(HttpRev)
HttpRank == URank(HttpRev)
HttpAtt == [r \in HttpRev |-> IF r \in {<<1, 1>>, <<2>>} THEN {"x"} ELSE {}]

Matched == {<<1>>, <<1, 1>>}

Docs == {"d", "_e", "_f"}
DesignDocs == {"_e", "_f"}
Ranks == ("_e" :> 1) @@ ("_f" :> 2) @@ ("d" :> 3)

HttpTask == {t1, t2, t3, w1, w2}
\* Two tasks share an adapter, one has its own, and two do without.
HttpOn == (t1 :> a) @@ (t2 :> a) @@ (t3 :> b) @@ (w1 :> NoAdapter) @@ (w2 :> NoAdapter)

----------------------------------------------------------------------------
(* Documents and calls *)

Doc1(d, r) == [id |-> d, revs |-> {r}, named |-> Len(r) > 1, bytes |-> TRUE, valid |-> TRUE, deep |-> FALSE]
\* Whatever follows from what is stored, without naming it.
Anew(d) == [Doc1(d, <<1>>) EXCEPT !.revs = {<<1>>, <<1, 0, 1>>}]
Tombstone(d) == Doc1(d, <<1, 0>>)

Bulk(docs) == [kind |-> "bulk", docs |-> docs, newEdits |-> TRUE]
Replicated(docs) == [kind |-> "bulk", docs |-> docs, newEdits |-> FALSE]
Write(d) == Bulk(<<Anew(d)>>)
Simple(kind) == [kind |-> kind]
PutDoc(x) == [kind |-> "put_doc", doc |-> x]
DeleteDoc(x) == [kind |-> "delete_doc", doc |-> x]
Attach(x) == [kind |-> "attach", doc |-> x]
OpenRevs(d) == [kind |-> "open_revs", id |-> d]
GetDocument(d, r, l) == [kind |-> "get_doc", id |-> d, rev |-> r, latest |-> l]
Bytes(d, r) == [kind |-> "get_attachment", id |-> d, rev |-> r, digest |-> "x"]
PutAttach == [kind |-> "put_attachment", doc |-> Doc1("d", <<1, 1>>)]
RemoveAttach == [kind |-> "delete_attachment", doc |-> Doc1("d", <<2, 1>>)]
LocalCall(kind) == [kind |-> kind, id |-> "l", n |-> 0]
PutLocalAfter(n) == [LocalCall("put_local") EXCEPT !.n = n]
Purge(d, R) == [kind |-> "purge", id |-> d, revs |-> R]
Read(q) == [kind |-> "read", query |-> q]

Listed(ks, desc, skip, limit) ==
  [kind |-> "all_docs",
   opts |-> [keys |-> ks, key |-> NoKey, start |-> NoKey, end |-> NoKey, descending |-> desc,
             inclusive |-> TRUE, skip |-> skip, limit |-> limit]]
ChangesOf(since, limit, desc) ==
  [kind |-> "changes",
   opts |-> [since |-> since, limit |-> limit, descending |-> desc, ids |-> NoKey, style |-> "all_docs"]]

Queries ==
  {Listed(ks, desc, skip, limit) : ks \in {NoKey, <<"d", "_e", "d">>}, desc \in BOOLEAN,
                                   skip \in {0, 1}, limit \in {1, NoLimit}}
    \union {ChangesOf(since, limit, desc) : since \in {0, 1}, limit \in {1, NoLimit}, desc \in BOOLEAN}
    \union {[kind |-> "bulk_get", id |-> "d", rev |-> r] : r \in {NoRev, <<1>>, <<1, 1>>}}
    \union {[kind |-> "revs_diff", id |-> "d", revs |-> {<<1>>, <<2>>}], [kind |-> "info"]}

Gets == {GetDocument("d", r, l) : r \in {NoRev, <<1>>, <<1, 1>>}, l \in BOOLEAN}

----------------------------------------------------------------------------
(* Databases to start from *)

Empty == <<>>
One == <<Doc1("d", <<1>>)>>
\* Two leaves, with conflicting first revisions, and a design document.
Conflict == One \o <<Doc1("d", <<2>>), Doc1("_e", <<1>>)>>
Tombstoned == One \o <<Doc1("d", <<1, 0>>), Doc1("_e", <<1>>)>>

----------------------------------------------------------------------------
(* Cases *)

Nothing == [t \in HttpTask |-> <<>>]
Case(todo) ==
  [deleted |-> FALSE, start |-> Empty, todo |-> todo @@ Nothing, feed |-> Closed, faults |-> 0,
   writes |-> {}]

\* Two tasks of an adapter set the database up, and so does another adapter,
\* which may destroy it; or one of them destroys it, so that the other may still
\* use the cell from before, and a third party deletes it again.
Setup ==
  {[Case((t1 :> <<Write("d")>>) @@ (t2 :> <<x>>) @@ (t3 :> <<y>>))
      EXCEPT !.deleted = gone, !.faults = 1] :
    x \in {Write("_e"), Simple("destroy")}, y \in {Write("d"), Simple("destroy")}, gone \in BOOLEAN}
  \union
  {[Case((t1 :> <<Simple("destroy"), Write("d"), Read([kind |-> "info"])>>) @@ (t2 :> <<Write("_e")>>)
         @@ (w1 :> <<Simple("delete_db")>>))
      EXCEPT !.deleted = gone] : gone \in BOOLEAN}

\* Bulk writes of good documents, a conflict, one nested too deep, one refused;
\* and replicated ones, with attachments that are there or not.
Deep(d) == [Anew(d) EXCEPT !.deep = TRUE]
Bulks ==
  {[Case((t1 :> <<x>>) @@ (w1 :> <<y>>)) EXCEPT !.start = One, !.faults = 1] :
    x \in {Bulk(<<Doc1("d", <<1>>), Deep("d"), Doc1("_e", <<1>>)>>),
           Bulk(<<Deep("d")>>),
           Bulk(<<Anew("_e"), [Anew("d") EXCEPT !.valid = FALSE]>>),
           Replicated(<<Deep("d"), [Doc1("_e", <<1, 1>>) EXCEPT !.bytes = FALSE]>>),
           Replicated(<<Doc1("d", <<2>>), [Doc1("_e", <<2>>) EXCEPT !.bytes = FALSE]>>)},
    y \in {PutDoc(Doc1("d", <<1, 1>>)), DeleteDoc(Tombstone("d")), Simple("delete_db")}}

\* Single writes that meet.
Singles ==
  {[Case((w1 :> <<x>>) @@ (w2 :> <<y>>)) EXCEPT !.start = s, !.faults = 1] :
    x \in {PutDoc(Tombstone("d")), DeleteDoc(Tombstone("d")), Attach(Anew("d"))},
    y \in {PutDoc(Doc1("d", <<1, 1>>)), PutDoc(Anew("d")), DeleteDoc(Tombstone("d")), Attach(Anew("d"))},
    s \in {Empty, One, Tombstoned}}

\* Attachments put and removed, of a revision that is a leaf, one that is not any
\* more, one that is not there.
Attaching ==
  {[Case((w1 :> <<x>>) @@ (w2 :> <<y>>)) EXCEPT !.start = s, !.faults = 1] :
    x \in {PutAttach, RemoveAttach}, s \in {Empty, One, Conflict},
    y \in {PutDoc(Doc1("d", <<1, 1>>)), Replicated(<<Doc1("d", <<2>>)>>), RemoveAttach,
           Purge("d", {<<2>>}), Simple("delete_db")}}
  \union
  {[Case((t1 :> <<RemoveAttach>>) @@ (t3 :> <<y>>)) EXCEPT !.start = Conflict] :
    y \in {RemoveAttach, Bytes("d", <<2>>)}}

\* Local documents written, read and removed at once.
LocalDocs ==
  {Case((t1 :> <<PutLocalAfter(0), LocalCall(x)>>) @@ y) :
    x \in {"get_local", "remove_local"},
    y \in {(t2 :> <<LocalCall("remove_local")>>) @@ (w1 :> <<PutLocalAfter(1)>>),
           (t2 :> <<Simple("destroy")>>) @@ (t3 :> <<LocalCall("get_local")>>),
           w1 :> <<PutLocalAfter(1), LocalCall("delete_local")>>}}

\* Reads of several calls while the document is written, compacted and purged.
Reading ==
  {[Case((t1 :> <<x>>) @@ (w1 :> <<y>>) @@ (w2 :> <<z>>)) EXCEPT !.start = Conflict] :
    x \in {OpenRevs("d"), Bytes("d", NoRev), Bytes("d", <<2>>)} \union Gets,
    y \in {PutDoc(Doc1("d", <<1, 1>>)), PutDoc(Tombstone("d"))},
    z \in {Simple("compact"), Purge("d", {<<2>>})}}
  \union
  {[Case((t1 :> <<Read(q)>>)) EXCEPT !.start = s] : q \in Queries, s \in {One, Conflict, Tombstoned}}
  \union
  {[Case((t1 :> <<g>>)) EXCEPT !.start = s, !.faults = 1] :
    g \in Gets \union {OpenRevs("d"), Bytes("d", NoRev), Bytes("d", <<2>>)},
    s \in {Empty, Conflict, Tombstoned}}

\* Feeds, while the database is written directly and by a request.
Feed(kind, filter, limit, timeout) ==
  [kind |-> kind, filter |-> filter, limit |-> limit, timeout |-> timeout]
Feeding ==
  {[Case((w1 :> <<x>>)) EXCEPT
      !.start = One, !.faults = 1, !.writes = {Doc1("d", <<1, 1>>), Doc1("_f", <<1>>)},
      !.feed = Feed(kind, filter, limit, kind = "longpoll")] :
    x \in {Bulk(<<Doc1("_e", <<1>>)>>), Simple("delete_db")},
    kind \in {"longpoll", "continuous"}, filter \in {"none", "design", "selector"},
    limit \in {1, NoLimit}}

HttpCases == Setup \union Bulks \union Singles \union Attaching \union LocalDocs \union Reading \union Feeding
=============================================================================
