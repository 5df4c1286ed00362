------------------------------ MODULE Selector ------------------------------
(***************************************************************************)
(* Mango selectors (rouchdb-query: mango.rs): a selector is a JSON object, *)
(* compiled into a tree of conditions on fields, with negations pushed     *)
(* down to the conditions, and then matched against documents.             *)
(***************************************************************************)
EXTENDS Json, TLC

CONSTANTS
  Dotted,   \* Dotted[f]: the segments of a field name that has dots, "" for an empty one
  IndexOf,  \* IndexOf[s]: the array index that a segment stands for
  Regex     \* Regex[p]: the strings that a valid pattern matches

Segments(field) == IF field \in DOMAIN Dotted THEN Dotted[field] ELSE <<field>>

\* parse_field
ValidField(field) == \A i \in DOMAIN Segments(field) : Segments(field)[i] # ""

----------------------------------------------------------------------------
(* resolve: a value, a field that is missing from an object, or a path that *)
(* runs into a scalar or out of an array                                    *)

Found(v) == [is |-> "found", value |-> v]
Missing == [is |-> "missing"]
BadPath == [is |-> "bad_path"]

IsFound(at) == at.is = "found"

Element(v, segment) ==
  IF segment \in DOMAIN IndexOf /\ IndexOf[segment] < Len(Holds(v))
    THEN Found(Holds(v)[IndexOf[segment] + 1]) ELSE BadPath

Step(at, segment) ==
  LET v == at.value
  IN  CASE ~IsFound(at)  -> at
        [] IsFound(at) /\ IsObject(v) ->
             IF HasField(v, segment) THEN Found(Field(v, segment)) ELSE Missing
        [] IsFound(at) /\ IsArray(v) -> Element(v, segment)
        [] OTHER -> BadPath

Resolve(v, path) == FoldLeft(Step, Found(v), path)

----------------------------------------------------------------------------
(* Conditions *)

Comparisons == {"$eq", "$ne", "$lt", "$lte", "$gt", "$gte"}
Nesting     == {"$elemMatch", "$allMatch", "$keyMapMatch"}
Combinators == {"$and", "$or", "$nor"}
\* The other names that begin with a dollar, one of them not supported.
Conditions  == Comparisons \union Nesting \union
  {"$in", "$nin", "$exists", "$type", "$regex", "$beginsWith", "$size", "$mod", "$all", "$where"}

TypeName(v) == <<"null", "boolean", "number", "string", "array", "object">>[Rank(v)]

Whole(v) == Holds(v) \div 10

\* The remainder has the sign of the dividend.
Remainder(n, d) ==
  LET r == (IF n < 0 THEN -n ELSE n) % (IF d < 0 THEN -d ELSE d)
  IN  IF n < 0 THEN -r ELSE r

IsPair(v) == IsArray(v) /\ Len(Holds(v)) = 2 /\ \A i \in 1 .. 2 : IsInteger(Holds(v)[i])

\* compile_operator
GoodArgument(op, arg) ==
  \/ op \in Comparisons
  \/ op \in {"$in", "$nin", "$all"} /\ IsArray(arg)
  \/ op = "$exists" /\ Rank(arg) = 2
  \/ op \in {"$type", "$beginsWith"} /\ IsString(arg)
  \/ op = "$regex" /\ IsString(arg) /\ Holds(arg) \in DOMAIN Regex
  \/ op = "$size" /\ IsInteger(arg) /\ Holds(arg) >= 0
  \/ op = "$mod" /\ IsPair(arg) /\ Whole(Holds(arg)[1]) # 0
  \/ op \in Nesting /\ IsObject(arg)

\* in_matches
InMatches(args, v) ==
  LET values == IF IsArray(v) THEN Holds(v) ELSE <<v>>
  IN  \E i \in DOMAIN values, j \in DOMAIN args : Same(values[i], args[j])

\* Each argument is an element as it is written, or the only argument is the
\* array itself, up to how its numbers are written.
AllMatches(args, v) ==
  /\ IsArray(v)
  /\ \/ args # <<>> /\ \A i \in DOMAIN args : Contains(Holds(v), args[i])
     \/ Len(args) = 1 /\ IsArray(args[1]) /\ Same(args[1], v)

\* A condition without a selector inside.
Meets(op, arg, v) ==
  CASE op = "$eq"  -> Same(v, arg)
    [] op = "$ne"  -> ~Same(v, arg)
    [] op = "$lt"  -> Collate(v, arg) < 0
    [] op = "$lte" -> Collate(v, arg) <= 0
    [] op = "$gt"  -> Collate(v, arg) > 0
    [] op = "$gte" -> Collate(v, arg) >= 0
    [] op = "$in"  -> InMatches(Holds(arg), v)
    [] op = "$nin" -> ~InMatches(Holds(arg), v)
    [] op = "$exists" -> Holds(arg) = 1
    [] op = "$type"   -> TypeName(v) = Holds(arg)
    [] op = "$regex"  -> IsString(v) /\ Holds(v) \in Regex[Holds(arg)]
    [] op = "$beginsWith" -> IsString(v) /\ IsPrefix(Text[Holds(arg)], Text[Holds(v)])
    [] op = "$size" -> IsArray(v) /\ Len(Holds(v)) = Whole(arg)
    [] op = "$mod"  -> /\ IsInteger(v)
                       /\ Remainder(Whole(v), Whole(Holds(arg)[1])) = Whole(Holds(arg)[2])
    [] op = "$all"  -> AllMatches(Holds(arg), v)

----------------------------------------------------------------------------
(* CompiledSelector::new *)

Invalid == [op |-> "invalid"]
Always == [op |-> "and", nodes |-> <<>>]

Opposite ==
  ("$eq" :> "$ne") @@ ("$ne" :> "$eq") @@ ("$lt" :> "$gte") @@ ("$gte" :> "$lt")
    @@ ("$gt" :> "$lte") @@ ("$lte" :> "$gt") @@ ("$in" :> "$nin") @@ ("$nin" :> "$in")

\* Slip: a negated condition is one that is not met, $exists too.
NotMet(c) == [op |-> "not", cond |-> c]

\* negate
Negate(c) ==
  CASE c.op \in DOMAIN Opposite -> [c EXCEPT !.op = Opposite[@]]
    [] c.op = "$exists" -> [c EXCEPT !.arg = Bool(Holds(@) = 0)]
    [] c.op = "not"     -> c.cond
    [] OTHER            -> [op |-> "not", cond |-> c]

\* leaf
Leaf(path, cond, negate, nested) ==
  IF path = <<>> /\ ~nested THEN Invalid
  ELSE [op |-> "field", path |-> path, cond |-> IF negate THEN Negate(cond) ELSE cond]

\* compile_value and compile_object: `negate' is set under an odd number of
\* negations, and `nested' where a condition may be about the value itself.
RECURSIVE CompileValue(_, _, _, _), CompileEntry(_, _, _, _, _)

CompileOperator(op, arg) ==
  IF op \in Nesting THEN [op |-> op, node |-> CompileValue(arg, <<>>, FALSE, TRUE)]
  ELSE [op |-> op, arg |-> arg]

CompileValue(v, path, negate, nested) ==
  IF ~IsObject(v) \/ Fields(v) = {}
    THEN Leaf(path, [op |-> "$eq", arg |-> v], negate, nested)
    ELSE [op    |-> IF negate THEN "or" ELSE "and",
          nodes |-> [k \in Fields(v) |-> CompileEntry(k, Field(v, k), path, negate, nested)]]

CompileEntry(key, arg, path, negate, nested) ==
  LET inside == IF key = "$nor" THEN ~negate ELSE negate
  IN  CASE key \in Combinators ->
             IF ~IsArray(arg) THEN Invalid
             ELSE IF Holds(arg) = <<>> THEN Always
             ELSE [op    |-> IF (key = "$or") = negate THEN "and" ELSE "or",
                   nodes |-> [i \in DOMAIN Holds(arg) |->
                               CompileValue(Holds(arg)[i], path, inside, TRUE)]]
        [] key = "$not" ->
             IF IsObject(arg) THEN CompileValue(arg, path, ~negate, nested) ELSE Invalid
        [] key \in Conditions ->
             IF GoodArgument(key, arg) THEN Leaf(path, CompileOperator(key, arg), negate, nested)
             ELSE Invalid
        [] OTHER ->
             IF ValidField(key) THEN CompileValue(arg, path \o Segments(key), negate, nested)
             ELSE Invalid

\* `{}' as the whole selector matches every document.
Compile(selector) ==
  IF ~IsObject(selector) THEN Invalid
  ELSE IF Fields(selector) = {} THEN Always
  ELSE CompileValue(selector, <<>>, FALSE, FALSE)

\* Whether every part of a compiled selector is valid.
RECURSIVE Valid(_)
Valid(node) ==
  LET good(c) == "node" \in DOMAIN c => Valid(c.node)
  IN  CASE node.op = "invalid" -> FALSE
        [] node.op \in {"and", "or"} -> \A k \in DOMAIN node.nodes : Valid(node.nodes[k])
        [] node.op = "field" ->
             good(IF node.cond.op = "not" THEN node.cond.cond ELSE node.cond)

----------------------------------------------------------------------------
(* matches *)

RECURSIVE Matches(_, _)

CondMatches(c, v) ==
  CASE c.op = "$elemMatch" ->
         IsArray(v) /\ \E i \in DOMAIN Holds(v) : Matches(c.node, Holds(v)[i])
    [] c.op = "$allMatch" ->
         IsArray(v) /\ Holds(v) # <<>> /\ \A i \in DOMAIN Holds(v) : Matches(c.node, Holds(v)[i])
    [] c.op = "$keyMapMatch" ->
         IsObject(v) /\ \E f \in Fields(v) : Matches(c.node, Str(f))
    [] OTHER -> Meets(c.op, c.arg, v)

Matches(node, v) ==
  LET at == Resolve(v, node.path)
  IN  CASE node.op = "and" -> \A k \in DOMAIN node.nodes : Matches(node.nodes[k], v)
        [] node.op = "or"  -> \E k \in DOMAIN node.nodes : Matches(node.nodes[k], v)
        [] node.op = "field" /\ IsFound(at) ->
             IF node.cond.op = "not" THEN ~CondMatches(node.cond.cond, at.value)
             ELSE CondMatches(node.cond, at.value)
        [] node.op = "field" /\ at = Missing ->
             node.cond.op = "$exists" /\ Holds(node.cond.arg) = 0
        [] OTHER -> FALSE

\* is_empty_combinator
RECURSIVE IsEmptyCombinator(_)
IsEmptyCombinator(selector) ==
  /\ IsObject(selector) /\ Cardinality(Fields(selector)) = 1
  /\ LET key == CHOOSE k \in Fields(selector) : TRUE
         arg == Field(selector, key)
     IN  CASE key \in Combinators -> IsArray(arg) /\ Holds(arg) = <<>>
           [] key \in Conditions  -> FALSE
           [] OTHER               -> IsEmptyCombinator(arg)

----------------------------------------------------------------------------
(* What a selector says, without compiling it: the set of the truth values *)
(* that it has.  A condition on a missing field has none, unless it asks   *)
(* whether the field exists, and an empty combinator has both.             *)

All(verdicts) ==
  {b \in BOOLEAN : IF b THEN \A k \in DOMAIN verdicts : TRUE \in verdicts[k]
                        ELSE \E k \in DOMAIN verdicts : FALSE \in verdicts[k]}

Negation(verdict) == {~b : b \in verdict}

RECURSIVE Verdict(_, _)

\* Whether a condition holds for a value that exists.
Truth(op, arg, v) ==
  LET says(w) == TRUE \in Verdict(arg, Found(w))
  IN  CASE op = "$elemMatch" -> IsArray(v) /\ \E i \in DOMAIN Holds(v) : says(Holds(v)[i])
        [] op = "$allMatch"  -> /\ IsArray(v) /\ Holds(v) # <<>>
                                /\ \A i \in DOMAIN Holds(v) : says(Holds(v)[i])
        [] op = "$keyMapMatch" -> IsObject(v) /\ \E f \in Fields(v) : says(Str(f))
        [] OTHER -> Meets(op, arg, v)

Judge(op, arg, at) ==
  CASE IsFound(at)                       -> {Truth(op, arg, at.value)}
    [] at = Missing /\ op = "$exists"    -> {Holds(arg) = 0}
    [] OTHER                             -> {}

\* An entry of an object: a combinator, a negation, a condition or a field.
EntryVerdict(key, arg, at) ==
  LET each == [i \in DOMAIN Holds(arg) |-> Verdict(Holds(arg)[i], at)]
      none == [i \in DOMAIN each |-> Negation(each[i])]
  IN  CASE key \in Combinators /\ Holds(arg) = <<>> -> BOOLEAN
        [] key = "$and" /\ Holds(arg) # <<>> -> All(each)
        [] key = "$nor" /\ Holds(arg) # <<>> -> All(none)
        [] key = "$or"  /\ Holds(arg) # <<>> -> Negation(All(none))
        [] key = "$not"          -> Negation(Verdict(arg, at))
        [] key \in Conditions    -> Judge(key, arg, at)
        [] OTHER                 -> Verdict(arg, FoldLeft(Step, at, Segments(key)))

Verdict(selector, at) ==
  IF IsObject(selector) /\ Fields(selector) # {}
    THEN All([k \in Fields(selector) |-> EntryVerdict(k, Field(selector, k), at)])
    ELSE Judge("$eq", selector, at)

Selected(selector, doc) ==
  Fields(selector) = {} \/ TRUE \in Verdict(selector, Found(doc))
=============================================================================
