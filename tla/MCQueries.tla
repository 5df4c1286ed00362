----------------------------- MODULE MCQueries -----------------------------
(* Instances of Queries: the questions. *)
EXTENDS Queries, MCIndexes

LOCAL INSTANCE Json

\* No two of these strings are written the same way.
Letter(n) == <<<<n>>>>
QueryText ==
  ("" :> <<>>) @@ ("nul" :> Letter(0)) @@ ("one" :> Letter(1)) @@ ("two" :> Letter(2))
    @@ ("three" :> Letter(3)) @@ ("nul nul" :> Letter(0) \o Letter(0)) @@ ("one one" :> Letter(1) \o Letter(1))
    @@ ("last" :> Letter(65535)) @@ ("first pair" :> <<<<55296, 56320>>>>)
    @@ ("_id" :> Letter(95)) @@ ("a" :> Letter(97)) @@ ("ab" :> Letter(97) \o Letter(98))
    @@ ("b" :> Letter(98)) @@ ("k" :> Letter(107)) @@ ("v" :> Letter(118)) @@ ("x" :> Letter(120))

QueryDotted == ("a.b" :> <<"a", "b">>) @@ ("a.0" :> <<"a", "0">>) @@ ("a..b" :> <<"a", "", "b">>)
QueryIndexOf == "0" :> 0
QueryRegex == ("x" :> {"x"}) @@ ("^p:" :> {"p:1", "p:2", "p:3"})

None == <<>>
Every == 99

----------------------------------------------------------------------------
(* Values *)

Scalars ==
  {Null, Bool(FALSE), Bool(TRUE)}
    \union {Num(n) : n \in {-100, -10, -9, -1, 0, 1, 9, 10, 99, 100}}
    \union {Float(n) : n \in {-15, -5, 0, 5, 10, 15, 99, 101}}
    \union {Str(s) : s \in {"", "nul", "one", "two", "three", "nul nul", "one one", "last", "first pair",
                            "a", "ab", "b"}}

Small == {Null, Num(0), Num(1), Str(""), Str("a"), Str("ab")}

QueryValues ==
  Scalars
    \union {Arr(<<>>), Arr(<<Arr(<<>>)>>), Arr(<<Obj(<<>>)>>), Obj(<<>>), Obj("a" :> Obj(<<>>))}
    \union {Arr(<<v>>) : v \in Small} \union {Arr(<<v, Num(0)>>) : v \in Small}
    \union {Obj(f :> v) : f \in {"a", "ab"}, v \in Small}
    \union {Obj(("a" :> v) @@ ("b" :> Null)) : v \in Small}

----------------------------------------------------------------------------
(* Documents *)

Named(id, fields) == Obj(("_id" :> Str(id)) @@ fields)
A(v) == "a" :> v
B(v) == "b" :> v

Shapes ==
  << <<>>, A(Null), A(Num(1)) @@ B(Null), A(Float(10)) @@ B(Num(1)), A(Num(2)) @@ B(Str("x")), A(Str("x")),
     A(Arr(<<>>)), A(Arr(<<Num(1)>>)), A(Arr(<<Num(2), Float(10)>>)), A(Obj(<<>>)),
     A(Obj(B(Num(1)))), A(Arr(<<Obj(B(Num(2)))>>)) @@ B(Num(1)) >>

\* The ids only have to be those of design documents or not.
Varied == <<Named("_design/1", A(Num(1)))>> \o [i \in DOMAIN Shapes |-> Named("d", Shapes[i])]

\* Ties, in the order of one field and of two.
Tied ==
  << Named("d", A(Num(1)) @@ B(Num(2))), Named("d", A(Float(10)) @@ B(Num(1))),
     Named("d", A(Num(2)) @@ B(Num(1))), Named("d", A(Num(1)) @@ B(Num(1))),
     Named("d", A(Num(2))), Named("d", B(Num(1))), Named("d", A(Num(2)) @@ B(Num(1))) >>

----------------------------------------------------------------------------
(* Finds *)

Where(field, op, arg) == Obj(field :> Obj(op :> arg))
Of(op, args) == Obj(op :> Arr(args))
Not(s) == Obj("$not" :> s)
IsOne == Obj("$eq" :> Num(1))

Conditions ==
  {<<op, Num(1)>> : op \in {"$eq", "$ne", "$lt", "$lte", "$gt", "$gte", "$size"}}
    \union {<<op, v>> : op \in {"$eq", "$ne"}, v \in {Null, Obj(<<>>), Arr(<<Num(1)>>)}}
    \union {<<op, Arr(<<Num(1), Str("x")>>)>> : op \in {"$in", "$nin"}}
    \union {<<"$exists", Bool(b)>> : b \in BOOLEAN}
    \union {<<"$all", Arr(<<Num(1)>>)>>, <<"$all", Arr(<<Arr(<<Num(2), Num(1)>>)>>)>>,
            <<"$mod", Arr(<<Num(-2), Num(1)>>)>>, <<"$type", Str("array")>>,
            <<"$regex", Str("x")>>, <<"$beginsWith", Str("x")>>,
            <<"$keyMapMatch", Obj("$eq" :> Str("b"))>>}
    \union {<<op, s>> : op \in {"$elemMatch", "$allMatch"},
                        s \in {IsOne, Not(IsOne), Obj(<<>>), Where("b", "$gt", Num(1)),
                               Of("$nor", <<Where("b", "$exists", Bool(TRUE))>>)}}

Simple == {Where(f, c[1], c[2]) : f \in {"a", "a.b", "a.0"}, c \in Conditions}

\* Selectors to combine: of a field that may be missing, or in a scalar.
Parted ==
  {Where("a", "$gt", Num(1)), Where("b", "$lte", Num(1)), Where("a.b", "$ne", Num(1)),
   Where("b", "$exists", Bool(FALSE)), Obj("a" :> Num(1)), Obj(<<>>), Of("$or", <<>>),
   Obj("a" :> Of("$or", <<Num(1), Obj("$gt" :> Num(1))>>)), Obj("$gte" :> Obj("a" :> Num(2)))}

Combined ==
  {Of(op, <<s, t>>) : op \in {"$and", "$or", "$nor"}, s \in Parted, t \in Parted}
    \union {Of(op, <<>>) : op \in {"$and", "$or", "$nor"}}

Several ==
  {Obj(("a" :> Obj(("$gte" :> Num(1)) @@ ("$lt" :> v))) @@ ("b" :> w)) :
    v \in {Num(2), Str("x"), Num(1)}, w \in {Num(1), Obj("$exists" :> Bool(FALSE)), Of("$nor", <<>>)}}

Bad ==
  {Obj("$gt" :> Num(1)), Obj("a..b" :> Num(1)), Num(1), Where("a", "$where", Num(1)),
   Where("a", "$mod", Arr(<<Num(0), Num(1)>>)), Of("$or", <<Where("a", "$in", Num(1))>>),
   Where("a", "$not", Num(1)), Not(Where("a", "$elemMatch", Where("b", "$size", Num(-1))))}

Selectors ==
  Simple \union Combined \union Several \union Bad
    \union {Not(s) : s \in Simple \union Combined \union Several}
    \union {Obj("a" :> s) : s \in Combined}

Options(s, sort, skip, limit) == [selector |-> s, sort |-> sort, skip |-> skip, limit |-> limit]
All(s) == Options(s, <<>>, 0, Every)

Asc(f) == <<f, "asc">>
Desc(f) == <<f, "desc">>
Sorts == {<<>>, <<Asc("a")>>, <<Desc("a")>>, <<Asc("b"), Asc("a")>>, <<Desc("b"), Desc("a")>>,
          <<Asc("a"), Desc("b")>>, <<Desc("a"), Asc("b")>>, <<<<"a", "up">>>>}

Indexings == {<<>>, <<<<"a">>>>, <<<<>>, <<"b", "a">>, <<"a">>>>}

Sorted ==
  {Options(s, sort, skip, limit) :
    s \in {Obj(<<>>), Where("a", "$gte", Num(1)), Where("b", "$lt", Num(2))}, sort \in Sorts,
    skip \in {0, 1, 9}, limit \in {0, 2, Every}}

QueryFinds ==
  {[name |-> "varied", indexes |-> ix, opts |-> All(s)] : ix \in Indexings, s \in Selectors}
    \union {[name |-> "tied", indexes |-> ix, opts |-> o] : ix \in Indexings, o \in Sorted}

\* A bare empty combinator selects nothing, but everything once it is combined
\* with the partition.
Divided == <<Named("_design/1", A(Num(1))), Named("p", A(Num(1))), Named("p:1", <<>>),
             Named("p:2", A(Num(1))), Named("p:3", A(Num(2))), Named("q:1", A(Num(1)))>>

QueryPartitions ==
  {[name |-> "divided", opts |-> All(s), pattern |-> "^p:"] :
    s \in (Parted \union Several \union Bad) \ {Of("$or", <<>>)}}

----------------------------------------------------------------------------
(* Views: a document emits its key and its value *)

Emits(doc) == IF HasField(doc, "k") THEN <<<<Field(doc, "k"), Field(doc, "v")>>, <<Null, Num(1)>>>> ELSE <<>>
Row(k, v) == Named("d", ("k" :> k) @@ ("v" :> v))

Flat(v) == <<Named("_design/1", ("k" :> Num(2)) @@ ("v" :> Num(1))), Row(Num(3), Num(1)), Named("d", <<>>),
             Row(Num(2), v), Row(Num(1), Num(2)), Row(Num(2), Float(5))>>
Pair(x, y) == Arr(<<Num(x), Num(y)>>)
Deep == <<Row(Pair(1, 2), Num(1)), Row(Pair(2, 1), Num(2)), Row(Arr(<<Num(1)>>), Num(3)),
          Row(Num(1), Num(4)), Row(Obj(<<>>), Num(5)), Row(Pair(1, 1), Num(6))>>

View ==
  [key |-> None, keys |-> None, start |-> None, end |-> None, inclusive |-> TRUE,
   descending |-> FALSE, skip |-> 0, limit |-> Every, reduce |-> TRUE, group |-> FALSE,
   level |-> None, docs |-> FALSE]

Ranges ==
  {[View EXCEPT !.key = k, !.start = s, !.end = e, !.inclusive = i, !.descending = d] :
    k \in {None, <<Num(2)>>}, s \in {None, <<Num(1)>>, <<Num(3)>>}, e \in {None, <<Num(2)>>, <<Num(9)>>},
    i \in BOOLEAN, d \in BOOLEAN}

Keys ==
  {[View EXCEPT !.keys = <<ks>>, !.key = k, !.descending = d, !.inclusive = FALSE] :
    ks \in {<<>>, <<Num(2)>>, <<Num(3), Num(1)>>, <<Num(2), Num(9), Num(2)>>},
    k \in {None, <<Num(1)>>}, d \in BOOLEAN}

Paged == {[o EXCEPT !.skip = skip, !.limit = limit] : o \in Ranges \union Keys, skip \in {0, 1}, limit \in {1, Every}}

Grouping ==
  {[o EXCEPT !.group = g, !.level = l, !.docs = d] :
    o \in Ranges \union Keys, g \in BOOLEAN, l \in {None, <<0>>, <<1>>}, d \in {FALSE}}

QueryViews ==
  {[name |-> "numbers", opts |-> o, reduce |-> "none"] : o \in Paged}
    \union {[name |-> "deep", opts |-> [o EXCEPT !.reduce = FALSE], reduce |-> "_sum"] : o \in Paged}
    \union {[name |-> n, opts |-> o, reduce |-> f] :
              n \in {"numbers", "arrays", "objects", "nulls"}, o \in Grouping, f \in {"_count", "_sum", "_stats"}}
    \union {[name |-> "deep", opts |-> [o EXCEPT !.skip = 1, !.limit = 2], reduce |-> "_count"] : o \in Grouping}
    \union {[name |-> "deep", opts |-> [o EXCEPT !.docs = TRUE], reduce |-> f] : o \in Ranges, f \in {"none", "_sum"}}

\* What _sum and _stats add, and what they cannot.
QueryStock ==
  ("varied" :> Varied) @@ ("tied" :> Tied) @@ ("divided" :> Divided) @@ ("deep" :> Deep)
    @@ ("numbers" :> Flat(Num(1))) @@ ("arrays" :> Flat(Arr(<<Num(1), Num(2)>>)))
    @@ ("objects" :> Flat(Obj("a" :> Num(1)))) @@ ("nulls" :> Flat(Null))

----------------------------------------------------------------------------
(* Listings of the partition p *)

\* "p;" is an id that comes right after the partition, and "p:" one that is in
\* it; "o" and "q" come before and after.
ListIds == {"o", "p:", "p:1", "p:2", "p;", "q"}
ListRank == ("o" :> 1) @@ ("p:" :> 2) @@ ("p:1" :> 3) @@ ("p:2" :> 4) @@ ("p;" :> 5) @@ ("q" :> 6)
QueryInside == {"p:", "p:1", "p:2", "p:3"}

FirstEdit(base, d) == Parts!ApplyWrite(base, d, Parts!EditStart(<<1>>), <<1>>, {}, 3)

Stored(S) == FoldSet(LAMBDA d, base : FirstEdit(base, d), Parts!EmptyDb(0), S)

Listing ==
  {[keys |-> NoKey, key |-> NoKey, start |-> s, end |-> e, descending |-> d, inclusive |-> i,
    skip |-> skip, limit |-> limit] :
    s \in ListIds \union {NoKey}, e \in ListIds \union {NoKey}, d \in BOOLEAN, i \in BOOLEAN,
    skip \in {0, 1}, limit \in {0, 1, 2, NoLimit}}
  \union
  {[keys |-> ks, key |-> k, start |-> NoKey, end |-> NoKey, descending |-> d, inclusive |-> TRUE,
    skip |-> 0, limit |-> 2] :
    ks \in {NoKey}, k \in ListIds, d \in BOOLEAN}
  \union
  {[keys |-> ks, key |-> NoKey, start |-> NoKey, end |-> NoKey, descending |-> d, inclusive |-> TRUE,
    skip |-> skip, limit |-> 2] :
    ks \in {<<"q", "p:2", "p:", "p:2", "p:1">>}, d \in BOOLEAN, skip \in {0, 1}}

QueryListed == ("all" :> Stored(ListIds)) @@ ("no after" :> Stored(ListIds \ {"p;"}))

QueryLists ==
  {[name |-> n, opts |-> o] : n \in DOMAIN QueryListed, o \in Listing}
----------------------------------------------------------------------------
(* Writes with plugins: the first one validates, the second one changes *)

Executable(doc) == \E n \in DOMAIN doc.atts : doc.atts[n] = "exe"

QueryHook(p, doc) ==
  CASE p = 1 /\ doc.data = "flaky" -> [is |-> "error", error |-> "database_error"]
    [] p = 1 /\ (doc.data = "bad" \/ Executable(doc) \/ (doc.data = "no files" /\ doc.atts # <<>>)) ->
         [is |-> "error", error |-> "forbidden"]
    [] p = 2 /\ doc.data = "spam" -> [is |-> "drop"]
    [] p = 2 /\ doc.data = "draft" -> [is |-> "keep", doc |-> [doc EXCEPT !.data = "final"]]
    [] OTHER -> [is |-> "keep", doc |-> doc]

Body(data, members) == [data |-> data, members |-> members]
Attached(name, bytes) == "_attachments" :> (name :> bytes)

QuerySent ==
  {Body(data, <<>>) : data \in {"good", "draft", "bad", "spam"}}
    \union {Body("good", "_id" :> "d"), Body("good", "_conflicts" :> <<>>), Body("good", "_other" :> <<>>),
            Body("none", "_deleted" :> TRUE), Body("scalar", <<>>), Body("good", "_deleted" :> Malformed),
            Body("good", Attached("f", "text")), Body("good", Attached("f", "exe")),
            Body("good", Attached("f", Stub))}

QueryBatched == {Body("good", <<>>), Body("spam", <<>>), Body("draft", <<>>)}

\* Revisions made elsewhere, one of them spelled in upper case.
Made(data, atts) == [deleted |-> FALSE, data |-> data, atts |-> atts, up |-> FALSE]
Loud(edit) == [edit EXCEPT !.up = TRUE]
Copy(rev, members) ==
  [id |-> "d", rev |-> rev, deleted |-> FALSE, data |-> Last(rev).data, atts |-> Last(rev).atts,
   members |-> members]

Far == Made("good", <<>>)
Executing == Made("good", "f" :> "exe")
QueryIncoming ==
  {Copy(<<Far>>, <<>>), Copy(<<Far, Loud(Made("draft", <<>>))>>, "_revisions" :> <<Loud(Far), Made("draft", <<>>)>>),
   Copy(<<Made("no files", <<>>)>>, <<>>), Copy(<<Made("bad", <<>>)>>, <<>>), Copy(<<Made("flaky", <<>>)>>, <<>>), Copy(<<Made("spam", <<>>)>>, <<>>),
   Copy(<<Far, Executing>>, "_revisions" :> <<Far, Executing>>),
   Copy(<<Far, Made("final", <<>>)>>, "_revisions" :> Malformed),
   [Copy(<<Far>>, <<>>) EXCEPT !.id = "l"]}
=============================================================================
