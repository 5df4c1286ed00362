----------------------------- MODULE MangoQuery -----------------------------
(***************************************************************************)
(* What a find of a Database handle answers (rouchdb: lib.rs,              *)
(* rouchdb-query: mango.rs): the documents that a selector matches, found  *)
(* by scanning all of them or among the candidates of an index, sorted,    *)
(* and cut to a page.  The documents are a sequence in the order of their  *)
(* ids; an answer is a sequence of places in it.                           *)
(***************************************************************************)
EXTENDS Selector

CONSTANT DesignDocs   \* the ids of design documents

Id(doc) == Field(doc, "_id")

IsDesignDoc(doc) == Holds(Id(doc)) \in DesignDocs

Scanned(docs) == [i \in DOMAIN docs |-> i]

----------------------------------------------------------------------------
(* BuiltIndex: an index is the sequence of the fields that it is on *)

LookUp(doc, field) == Resolve(doc, Segments(field))

\* index_key
IndexKey(def, doc) ==
  [i \in DOMAIN def |-> LET at == LookUp(doc, def[i]) IN IF IsFound(at) THEN at.value ELSE Null]

KeyBefore(x, y) == CollateItems(x, y) < 0

\* build_index and sort_entries: the documents in the order of their keys.
Entries(docs, def) ==
  LET key == [i \in DOMAIN docs |-> IndexKey(def, docs[i])]
  IN  SortSeq(SelectSeq(Scanned(docs), LAMBDA i : ~IsDesignDoc(docs[i])),
              LAMBDA i, j : KeyBefore(key[i], key[j]) \/ (~KeyBefore(key[j], key[i]) /\ i < j))

\* lower_bound and upper_bound: how many entries come before a value, and how
\* many do not come after it.
LowerBound(keys, v) == Cardinality({i \in DOMAIN keys : Before(keys[i], v)})
UpperBound(keys, v) == Cardinality({i \in DOMAIN keys : ~Before(v, keys[i])})

\* The bounds that the conditions on the first field of the index set.
Start(keys, ops) ==
  Max({0} \union {LowerBound(keys, Field(ops, op)) : op \in Fields(ops) \intersect {"$eq", "$gte"}}
          \union {UpperBound(keys, Field(ops, op)) : op \in Fields(ops) \intersect {"$gt"}})

End(keys, ops) ==
  Min({Len(keys)}
        \union {UpperBound(keys, Field(ops, op)) : op \in Fields(ops) \intersect {"$eq", "$lte"}}
        \union {LowerBound(keys, Field(ops, op)) : op \in Fields(ops) \intersect {"$lt"}})

\* find_matching
Within(entries, keys, ops) == SubSeq(entries, Start(keys, ops) + 1, End(keys, ops))

FirstKeys(docs, def, entries) == [i \in DOMAIN entries |-> IndexKey(def, docs[entries[i]])[1]]

Candidates(docs, def, entries, selector) ==
  LET asked == Field(selector, def[1])
  IN  IF HasField(selector, def[1])
        THEN Within(entries, FirstKeys(docs, def, entries),
                    IF IsObject(asked) THEN asked ELSE Obj("$eq" :> asked))
        ELSE entries

----------------------------------------------------------------------------
(* Query: the options are [selector, sort, skip, limit], where sort is a   *)
(* sequence of fields and directions                                       *)

Descending(way) == way[2] = "desc"

\* Query::new
Accepted(opts) ==
  /\ Valid(Compile(opts.selector))
  /\ \A i \in DOMAIN opts.sort : ValidField(opts.sort[i][1]) /\ opts.sort[i][2] \in {"asc", "desc"}

FirstOrder(sort, order, i) ==
  IF i = 0 THEN 0 ELSE IF Descending(sort[i]) THEN -order[i] ELSE order[i]

\* How two documents compare by the sort fields.
SortOrder(sort, a, b) ==
  LET order == [i \in DOMAIN sort |-> Collate(LookUp(a, sort[i][1]).value, LookUp(b, sort[i][1]).value)]
  IN  FirstOrder(sort, order, FirstPlace({i \in DOMAIN sort : order[i] # 0}))

\* A stable sort of places.
SortedBy(sort, docs, places) ==
  LET inOrder == SortSeq([i \in DOMAIN places |-> i],
        LAMBDA i, j : LET c == SortOrder(sort, docs[places[i]], docs[places[j]])
                      IN  c < 0 \/ (c = 0 /\ i < j))
  IN  [i \in DOMAIN places |-> places[inOrder[i]]]

HasSortFields(sort, doc) == \A i \in DOMAIN sort : IsFound(LookUp(doc, sort[i][1]))

\* A descending sort walks the documents backwards.
Walked(sort, places) ==
  IF sort # <<>> /\ Descending(sort[1]) THEN Reverse(places) ELSE places

PageOf(rows, skip, limit) == SubSeq(rows, skip + 1, Least(Len(rows), skip + limit))

\* run
Run(docs, places, opts) ==
  LET compiled == Compile(opts.selector)
      matched  == SelectSeq(places, LAMBDA i :
                    /\ ~IsDesignDoc(docs[i]) /\ Matches(compiled, docs[i])
                    /\ HasSortFields(opts.sort, docs[i]))
  IN  IF IsEmptyCombinator(opts.selector) THEN <<>>
      ELSE PageOf(SortedBy(opts.sort, docs, Walked(opts.sort, matched)), opts.skip, opts.limit)

----------------------------------------------------------------------------
(* Database::find; the indexes are a sequence, in the order of their names *)

\* usable_index
Usable(indexes, selector) ==
  {k \in DOMAIN indexes : indexes[k] # <<>> /\ HasField(selector, indexes[k][1])}

Find(docs, indexes, opts) ==
  LET usable == Usable(indexes, opts.selector)
  IN  Run(docs, IF usable = {} THEN Scanned(docs)
                ELSE LET def == indexes[Min(usable)]
                     IN  Candidates(docs, def, Entries(docs, def), opts.selector), opts)

\* Partition::find: the pattern matches the ids that begin with the prefix.
InPartition(pattern, opts) ==
  LET only == Obj("_id" :> Obj("$regex" :> Str(pattern)))
  IN  [opts EXCEPT !.selector =
        IF Fields(@) = {} THEN only ELSE Obj("$and" :> Arr(<<@, only>>))]

----------------------------------------------------------------------------
(* What a find must answer *)

\* The documents that the selector, taken as it stands, selects, and that have
\* the fields of the sort.  A bare empty combinator selects none.
Selection(docs, opts) ==
  SelectSeq(Scanned(docs), LAMBDA i :
    /\ ~IsEmptyCombinator(opts.selector) /\ ~IsDesignDoc(docs[i])
    /\ Selected(opts.selector, docs[i]) /\ HasSortFields(opts.sort, docs[i]))

\* The selection in order: by the sort fields, then by id, backwards where the
\* first field descends.
InOrder(docs, opts) ==
  LET down == opts.sort # <<>> /\ Descending(opts.sort[1])
  IN  SortSeq(Selection(docs, opts),
        LAMBDA i, j : LET c == SortOrder(opts.sort, docs[i], docs[j])
                      IN  c < 0 \/ (c = 0 /\ IF down THEN j < i ELSE i < j))

\* The answer is a page of the selection, without a document twice: what is at
\* each place may differ only among documents that the sort does not tell apart.
IsPageOf(answer, all, docs, opts) ==
  /\ ToSet(answer) \subseteq ToSet(all)
  /\ Cardinality(ToSet(answer)) = Len(answer)
  /\ Len(answer) = Max({0, Least(opts.limit, Len(all) - opts.skip)})
  /\ \A k \in DOMAIN answer :
       SortOrder(opts.sort, docs[answer[k]], docs[all[opts.skip + k]]) = 0

IsPage(answer, docs, opts) == IsPageOf(answer, InOrder(docs, opts), docs, opts)
=============================================================================
