----------------------------- MODULE ViewQuery -----------------------------
(***************************************************************************)
(* What a view query answers (rouchdb-query: mapreduce.rs): the rows of a  *)
(* map function, in the order of their keys, selected by key, keys or      *)
(* range, cut to a page, or reduced in groups.  A row is [id, key, value]; *)
(* an option that is not given is an empty sequence.                       *)
(***************************************************************************)
EXTENDS Json, TLC

CONSTANTS
  MapFn(_),     \* the pairs of a key and a value that the map function emits for a document
  DesignDocs    \* the ids of design documents

IsDesign(doc) == Holds(Field(doc, "_id")) \in DesignDocs

\* A query that is not answered: its options do not go together, or its rows
\* cannot be reduced.
Refused == [refused |-> TRUE]

\* sort_emitted: by key, then by id (a place in the order of ids).
SortEmitted(rows) ==
  LET inOrder == SortSeq([i \in DOMAIN rows |-> i], LAMBDA i, j :
        LET c == Collate(rows[i].key, rows[j].key)
        IN  c < 0 \/ (c = 0 /\ (rows[i].id < rows[j].id \/ (rows[i].id = rows[j].id /\ i < j))))
  IN  [i \in DOMAIN rows |-> rows[inOrder[i]]]

----------------------------------------------------------------------------
(* The options: [key, keys, start, end, inclusive, descending, skip, limit, *)
(* reduce, group, level, docs]                                              *)

Given(option) == option # <<>>

Either(option, default) == IF Given(option) THEN option ELSE default

\* A single key of `keys' is `key'.
SingleKey(o) == Given(o.keys) /\ Len(o.keys[1]) = 1

Keyed(o) == IF SingleKey(o) THEN [o EXCEPT !.key = o.keys[1], !.keys = <<>>] ELSE o

Grouped(o) == IF Given(o.level) THEN o.level[1] > 0 ELSE o.group

Multiple(o) == Given(o.keys) /\ ~SingleKey(o)

RangeStart(o) == Either(o.start, Keyed(o).key)
RangeEnd(o)   == Either(o.end, Keyed(o).key)

\* The bounds are the wrong way round.
Reversed(o) ==
  /\ Given(RangeStart(o)) /\ Given(RangeEnd(o))
  /\ LET c == Collate(RangeStart(o)[1], RangeEnd(o)[1])
     IN  IF o.descending THEN c < 0 ELSE c > 0

\* reducer: whether CouchDB takes the options, for a view with a reduce function
\* or without.
Reduces(o, reduce) == reduce # "none" /\ o.reduce

Accepted(o, reduce) ==
  /\ ~(Multiple(o) /\ (Given(o.key) \/ Given(o.start) \/ Given(o.end)))
  /\ ~Reversed(o)
  /\ Grouped(o) => Reduces(o, reduce)
  /\ Reduces(o, reduce) => /\ ~o.docs
                           /\ Multiple(o) => o.group /\ ~Given(o.level)

----------------------------------------------------------------------------
(* Selecting rows: a range is a pair of numbers of rows *)

\* lower_bound and upper_bound: how many rows have a key before this one, and
\* how many have a key that is not after it.
RowsBefore(rows, key) == Cardinality({i \in DOMAIN rows : Before(rows[i].key, key)})
RowsUpTo(rows, key)   == Cardinality({i \in DOMAIN rows : ~Before(key, rows[i].key)})

EqualRange(rows, key) == <<RowsBefore(rows, key), RowsUpTo(rows, key)>>

\* Slip: the end of a descending range is always in it.
LowestOf(rows, o, low) == RowsBefore(rows, low[1])

\* The rows before the lower bound, which is the end of a descending query.
RowsBelow(rows, o, low) ==
  IF o.descending /\ ~o.inclusive THEN RowsUpTo(rows, low[1]) ELSE RowsBefore(rows, low[1])

\* The rows up to the upper bound, which is the end of an ascending query.
RowsWithin(rows, o, high) ==
  IF ~o.descending /\ ~o.inclusive THEN RowsBefore(rows, high[1]) ELSE RowsUpTo(rows, high[1])

NoLower(lo, hi) == <<lo, IF hi < lo THEN lo ELSE hi>>

\* range_bounds
RangeBounds(rows, o) ==
  LET start == Either(o.start, o.key)
      end   == Either(o.end, o.key)
      low   == IF o.descending THEN end ELSE start
      high  == IF o.descending THEN start ELSE end
  IN  IF Given(o.key) /\ ~Given(o.start) /\ ~Given(o.end) THEN EqualRange(rows, o.key[1])
      ELSE NoLower(IF Given(low) THEN RowsBelow(rows, o, low) ELSE 0,
                   IF Given(high) THEN RowsWithin(rows, o, high) ELSE Len(rows))

Slice(rows, range) == SubSeq(rows, range[1] + 1, range[2])

PageOf(rows, o) == SubSeq(rows, o.skip + 1, Least(Len(rows), o.skip + o.limit))

----------------------------------------------------------------------------
(* Reducing *)

\* group_key
GroupKey(key, o) ==
  IF Given(o.level) /\ IsArray(key)
    THEN Arr(SubSeq(Holds(key), 1, Least(Len(Holds(key)), o.level[1]))) ELSE key

Failure == <<0, 0>>

Failed(v) == Rank(v) = 0

\* Num::add: a sum is an integer while its terms are.
AddNumbers(x, y) == <<3, Holds(x) + Holds(y), IF IsInteger(x) /\ IsInteger(y) THEN 0 ELSE 1>>

\* add_arrays: the shorter one is padded with zeros.
AddArrays(x, y) ==
  [i \in 1 .. (IF Len(x) < Len(y) THEN Len(y) ELSE Len(x)) |->
    CASE i > Len(x) -> y[i]
      [] i > Len(y) -> x[i]
      [] OTHER      -> AddNumbers(x[i], y[i])]

\* Sum::from_json: what _sum can add.
RECURSIVE Summable(_)
Summable(v) ==
  \/ IsNumber(v)
  \/ IsArray(v) /\ \A i \in DOMAIN Holds(v) : IsNumber(Holds(v)[i])
  \/ IsObject(v) /\ \A f \in Fields(v) : Summable(Field(v, f))

\* Sum::add: a number is added to the first element of an array; an object only
\* to an object.
RECURSIVE Add(_, _)
Add(x, y) ==
  LET list(v) == IF IsNumber(v) THEN <<v>> ELSE Holds(v)
      sums == [f \in Fields(x) \union Fields(y) |->
                CASE f \notin Fields(x) -> Field(y, f)
                  [] f \notin Fields(y) -> Field(x, f)
                  [] OTHER              -> Add(Field(x, f), Field(y, f))]
  IN  CASE IsNumber(x) /\ IsNumber(y) -> AddNumbers(x, y)
        [] IsObject(x) /\ IsObject(y) ->
             IF \E f \in DOMAIN sums : Failed(sums[f]) THEN Failure ELSE Obj(sums)
        [] IsObject(x) # IsObject(y)  -> Failure
        [] OTHER                      -> Arr(AddArrays(list(x), list(y)))

\* sum_in_order, from a value that all can be added to: the sum, or where the
\* first value is that cannot be added.
SumInOrder(values) ==
  LET next(acc, i) ==
        IF acc.at > 0 THEN acc
        ELSE LET sum == IF i = 1 THEN values[1] ELSE Add(acc.sum, values[i])
             IN  IF Summable(values[i]) /\ ~Failed(sum) THEN [sum |-> sum, at |-> 0]
                 ELSE [sum |-> Failure, at |-> i]
  IN  FoldLeft(next, [sum |-> Num(0), at |-> 0], [i \in DOMAIN values |-> i])

\* builtin_sum; the value that could not be added is looked for backwards.
SumOrCause(values, sum, back) ==
  IF sum.at = 0 THEN sum.sum
  ELSE Obj([caused_by |-> values[IF back.at = 0 THEN Len(values) ELSE Len(values) + 1 - back.at]])
BuiltinSum(values) == SumOrCause(values, SumInOrder(values), SumInOrder(Reverse(values)))

\* Stats, with numbers of tenths and squares of hundredths.
StatsOf(n) == [sum |-> Holds(n), count |-> 1, min |-> Holds(n), max |-> Holds(n), sumsqr |-> Holds(n) * Holds(n)]

Push(s, n) ==
  [sum |-> s.sum + Holds(n), count |-> s.count + 1,
   min |-> IF Holds(n) < s.min THEN Holds(n) ELSE s.min,
   max |-> IF Holds(n) > s.max THEN Holds(n) ELSE s.max,
   sumsqr |-> s.sumsqr + Holds(n) * Holds(n)]

\* builtin_stats: of numbers, or by element of arrays of one length; a failure
\* fails the query.
Columns(v) == IF IsArray(v) THEN Holds(v) ELSE <<v>>

StatsFit(values) ==
  \A i \in DOMAIN values :
    /\ IsNumber(values[i]) \/ IsArray(values[i])
    /\ Rank(values[i]) = Rank(values[1]) /\ Len(Columns(values[i])) = Len(Columns(values[1]))
    /\ \A k \in DOMAIN Columns(values[i]) : IsNumber(Columns(values[i])[k])

BuiltinStats(values) ==
  LET column(k) == [i \in DOMAIN values |-> Columns(values[i])[k]]
      stats(k)  == Obj(FoldLeft(Push, StatsOf(Head(column(k))), Tail(column(k))))
  IN  CASE ~StatsFit(values)                        -> Failure
        [] StatsFit(values) /\ IsArray(values[1])   -> Arr([k \in DOMAIN Columns(values[1]) |-> stats(k)])
        [] OTHER                                    -> stats(1)

\* apply_reduce, of at least one row.
ApplyReduce(reduce, rows) ==
  LET values == [i \in DOMAIN rows |-> rows[i].value]
  IN  CASE reduce = "_count" -> Num(Len(rows))
        [] reduce = "_sum"   -> BuiltinSum(values)
        [] reduce = "_stats" -> BuiltinStats(values)

\* group_reduce: a row for each run of rows with one group key; a run starts
\* where the key is not that of the row before.
RunStarts(keys) ==
  SelectSeq([i \in DOMAIN keys |-> i], LAMBDA i : i = 1 \/ ~Same(keys[i - 1], keys[i]))

ReduceRuns(rows, keys, starts, reduce) ==
  LET end(g) == IF g = Len(starts) THEN Len(rows) ELSE starts[g + 1] - 1
  IN  [g \in DOMAIN starts |->
        [key |-> keys[starts[g]], value |-> ApplyReduce(reduce, SubSeq(rows, starts[g], end(g)))]]

GroupReduce(rows, o, reduce) ==
  LET keys == [i \in DOMAIN rows |-> GroupKey(rows[i].key, o)]
  IN  ReduceRuns(rows, keys, RunStarts(keys), reduce)

Directed(rows, o) == IF o.descending THEN Reverse(rows) ELSE rows

\* Of the selected rows, all in one row where they are not grouped.
ReduceSelected(rows, o, reduce) ==
  CASE Grouped(o)                      -> Directed(GroupReduce(rows, o, reduce), o)
    [] ~Grouped(o) /\ rows = <<>>      -> <<>>
    [] OTHER                           -> <<[key |-> Null, value |-> ApplyReduce(reduce, rows)]>>

ReducedRows(rows, o, reduce) ==
  IF Given(o.keys)
    THEN FlattenSeq([i \in DOMAIN o.keys[1] |->
                      GroupReduce(Slice(rows, EqualRange(rows, o.keys[1][i])), o, reduce)])
    ELSE ReduceSelected(Slice(rows, RangeBounds(rows, o)), o, reduce)

----------------------------------------------------------------------------
(* query_sorted *)

PlacesIn(range) == [i \in 1 .. range[2] - range[1] |-> range[1] + i]

\* The places of the rows that are asked for, in the order they are answered.
Places(rows, o) ==
  Directed(IF Given(o.keys)
             THEN FlattenSeq([i \in DOMAIN o.keys[1] |-> PlacesIn(EqualRange(rows, o.keys[1][i]))])
             ELSE PlacesIn(RangeBounds(rows, o)), o)

\* How many rows of the view come before the first of these places, that are in
\* this range.
FirstPosition(rows, o, place, range) ==
  CASE Given(o.keys) /\ place = <<>> -> Len(rows)
    [] Given(o.keys) /\ place # <<>> ->
         IF o.descending THEN Len(rows) - place[1] ELSE place[1] - 1
    [] OTHER -> IF o.descending THEN Len(rows) - range[2] ELSE range[1]

MapAnswer(rows, o, place) ==
  [total  |-> Len(rows),
   offset |-> Least(FirstPosition(rows, o, place, RangeBounds(rows, o)) + o.skip, Len(rows)),
   rows   |-> PageOf([i \in DOMAIN place |-> rows[place[i]]], o)]

ReduceAnswer(reduced, o) ==
  IF \E i \in DOMAIN reduced : Failed(reduced[i].value) THEN Refused
  ELSE [total |-> Len(reduced), offset |-> o.skip, rows |-> PageOf(reduced, o)]

QueryKeyed(rows, o, reduce) ==
  IF Reduces(o, reduce) THEN ReduceAnswer(ReducedRows(rows, o, reduce), o)
  ELSE MapAnswer(rows, o, Places(rows, o))

QuerySorted(rows, o, reduce) == QueryKeyed(rows, Keyed(o), reduce)

\* query_view: the map function is not given design documents.
Emitted(docs) ==
  LET emits(i) == LET pairs == MapFn(docs[i])
                  IN  [k \in DOMAIN pairs |-> [id |-> i, key |-> pairs[k][1], value |-> pairs[k][2]]]
      mapped   == SelectSeq([i \in DOMAIN docs |-> i], LAMBDA i : ~IsDesign(docs[i]))
  IN  SortEmitted(FlattenSeq([i \in DOMAIN mapped |-> emits(mapped[i])]))

QueryView(docs, o, reduce) ==
  IF Accepted(o, reduce) THEN QuerySorted(Emitted(docs), o, reduce) ELSE Refused

----------------------------------------------------------------------------
(* What a view query must answer *)

\* Whether a row is in the range, read in the direction of the query.
InRange(row, o) ==
  LET before(x, y) == IF o.descending THEN Before(y, x) ELSE Before(x, y)
  IN  /\ Given(RangeStart(o)) => ~before(row.key, RangeStart(o)[1])
      /\ Given(RangeEnd(o)) => \/ before(row.key, RangeEnd(o)[1])
                               \/ o.inclusive /\ Same(row.key, RangeEnd(o)[1])

\* A key alone selects its rows, whether or not the end is in the range.
Selects(row, o) ==
  IF Given(Keyed(o).key) /\ ~Given(o.start) /\ ~Given(o.end) THEN Same(row.key, Keyed(o).key[1])
  ELSE InRange(row, o)

\* The rows that are selected, in the order of the view, and in that of the query.
Chosen(rows, o) ==
  SelectSeq(rows, LAMBDA row : IF Multiple(o) THEN \E i \in DOMAIN o.keys[1] : Same(row.key, o.keys[1][i])
                               ELSE Selects(row, o))

Selection(rows, o) ==
  IF Multiple(o)
    THEN Directed(FlattenSeq([i \in DOMAIN o.keys[1] |->
                               SelectSeq(rows, LAMBDA row : Same(row.key, o.keys[1][i]))]), o)
    ELSE Directed(Chosen(rows, o), o)

\* A map query answers a page of the selected rows, and says how many rows of
\* the view come before it.
MapAnswered(answer, rows, o) ==
  /\ answer.total = Len(rows)
  /\ answer.rows = PageOf(Selection(rows, o), o)
  /\ answer.rows # <<>> /\ ~Multiple(o) =>
       Directed(rows, o)[answer.offset + 1] = answer.rows[1]

\* One row for each group key of the selected rows, which reduces all of them
\* that have it.
GroupsOnce(groups, chosen, o, reduce) ==
  LET keyOf(row) == IF Grouped(o) THEN GroupKey(row.key, o) ELSE Null
      mine(g)    == SelectSeq(chosen, LAMBDA row : Same(keyOf(row), groups[g].key))
  IN  /\ \A g \in DOMAIN groups : mine(g) # <<>> /\ groups[g].value = ApplyReduce(reduce, mine(g))
      /\ \A i \in DOMAIN chosen : \E g \in DOMAIN groups : Same(keyOf(chosen[i]), groups[g].key)

\* The keys in the order they are asked for, or the groups in that of the query.
InKeyOrder(groups, keys) ==
  Len(groups) = Len(keys) /\ \A g \in DOMAIN groups : Same(groups[g].key, keys[g])

InGroupOrder(groups, o) ==
  \A g, h \in DOMAIN groups : g < h =>
    LET c == Collate(groups[g].key, groups[h].key) IN IF o.descending THEN c > 0 ELSE c < 0

GroupsAnswered(groups, rows, o, reduce) ==
  /\ GroupsOnce(groups, Chosen(rows, o), o, reduce)
  /\ IF Multiple(o)
       THEN InKeyOrder(groups, SelectSeq(o.keys[1], LAMBDA k : \E i \in DOMAIN rows : Same(rows[i].key, k)))
       ELSE InGroupOrder(groups, o)

\* A reduced query answers a page of such rows.
PageOfGroups(answer, groups, rows, o, reduce) ==
  answer.rows = PageOf(groups, o) /\ GroupsAnswered(groups, rows, o, reduce)

ReduceAnswered(answer, rows, o, reduce) ==
  PageOfGroups(answer, QuerySorted(rows, [o EXCEPT !.skip = 0, !.limit = Len(rows)], reduce).rows,
               rows, o, reduce)
=============================================================================
