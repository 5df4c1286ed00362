-------------------------------- MODULE Json --------------------------------
(***************************************************************************)
(* JSON values, their order and the keys that stand for them in a sorted   *)
(* store (rouchdb-core: collation.rs).  A value is a pair of its type's    *)
(* rank and what it holds; a number is counted in tenths, and is written   *)
(* as an integer or as a float.                                            *)
(***************************************************************************)
EXTENDS Integers, Sequences, FiniteSets, SequencesExt

\* Text[s] is the sequence of the characters of string s, each the sequence
\* of its one or two UTF-16 units.
CONSTANT Text

Null   == <<1, 0>>
Bool(b) == <<2, IF b THEN 1 ELSE 0>>
Num(n) == <<3, 10 * n, 0>>
Float(tenths) == <<3, tenths, 1>>
Str(s) == <<4, s>>
Arr(items) == <<5, items>>
Obj(fields) == <<6, fields>>

\* type_rank
Rank(v) == v[1]
Holds(v) == v[2]

IsNumber(v) == Rank(v) = 3
IsString(v) == Rank(v) = 4
IsArray(v)  == Rank(v) = 5
IsObject(v) == Rank(v) = 6
IsInteger(v) == IsNumber(v) /\ v[3] = 0

Fields(v) == DOMAIN Holds(v)
HasField(v, f) == IsObject(v) /\ f \in Fields(v)
Field(v, f) == Holds(v)[f]

----------------------------------------------------------------------------
(* collate *)

Sign(n) == IF n < 0 THEN -1 ELSE IF n > 0 THEN 1 ELSE 0

Least(a, b) == IF a < b THEN a ELSE b

\* The places two sequences have in common, and the first of some places or 0.
Common(x, y) == 1 .. Least(Len(x), Len(y))
FirstPlace(places) == IF places = {} THEN 0 ELSE CHOOSE i \in places : \A j \in places : i <= j

FirstDifference(x, y) == FirstPlace({i \in Common(x, y) : x[i] # y[i]})

\* Two sequences of numbers, the shorter first where one begins the other.
NumbersAt(x, y, i) == IF i = 0 THEN Sign(Len(x) - Len(y)) ELSE Sign(x[i] - y[i])
Lexicographic(x, y) == NumbersAt(x, y, FirstDifference(x, y))

\* utf16_units
Units(c) == IF Len(c) = 2 THEN c ELSE <<c[1], 0>>

\* compare_strings
CharactersAt(x, y, i) ==
  IF i = 0 THEN Sign(Len(x) - Len(y)) ELSE Lexicographic(Units(x[i]), Units(y[i]))
CompareStrings(s, t) == CharactersAt(Text[s], Text[t], FirstDifference(Text[s], Text[t]))

SortedFields(v) == SetToSortSeq(Fields(v), LAMBDA f, g : CompareStrings(f, g) < 0)

\* What is compared of an array or object, in order: its elements, or each of
\* its fields' name and value.
NamesAndValues(v, names) ==
  FlattenSeq([i \in 1 .. Len(names) |-> <<Str(names[i]), Field(v, names[i])>>])
Items(v) == IF IsArray(v) THEN Holds(v) ELSE NamesAndValues(v, SortedFields(v))

RECURSIVE Collate(_, _)

\* Place i is the first one where the items differ, if any.
ItemsAt(x, y, i) == IF i = 0 THEN Sign(Len(x) - Len(y)) ELSE Collate(x[i], y[i])
CollateItems(x, y) == ItemsAt(x, y, FirstPlace({i \in Common(x, y) : Collate(x[i], y[i]) # 0}))

Collate(a, b) ==
  CASE Rank(a) # Rank(b)                        -> Sign(Rank(a) - Rank(b))
    [] Rank(a) = Rank(b) /\ Rank(a) \in 1 .. 3 -> Sign(Holds(a) - Holds(b))
    [] IsString(a) /\ IsString(b)               -> CompareStrings(Holds(a), Holds(b))
    [] OTHER                                    -> CollateItems(Items(a), Items(b))

Same(a, b) == Collate(a, b) = 0
Before(a, b) == Collate(a, b) < 0

----------------------------------------------------------------------------
(* to_indexable_string: a sequence of the numbers of its characters *)

\* Slip: the units of pairs are moved behind all others.
PairsLast(unit) ==
  CASE unit \in 0 .. 1         -> <<1, unit + 1>>
    [] unit = 2                -> <<2, 2>>
    [] unit \in 55296 .. 57343 -> <<unit - 55296 + 65536>>
    [] OTHER                   -> <<unit>>

\* encode_string
Remapped(unit) ==
  CASE unit \in 0 .. 1         -> <<1, unit + 1>>
    [] unit = 2                -> <<2, 2>>
    [] unit \in 55296 .. 57343 -> <<unit - 55296 + 65536>>
    [] unit \in 57344 .. 65535 -> <<unit - 57344 + 67584>>
    [] OTHER                   -> <<unit>>

EncodeString(s) ==
  LET units == FlattenSeq(Text[s])
  IN  FlattenSeq([i \in 1 .. Len(units) |-> Remapped(units[i])])

Digit0 == 48

\* The decimal digits of n \in Nat, the most significant first.
DigitsOf(n) ==
  LET size == CHOOSE k \in 1 .. 9 : n < 10 ^ k /\ (k > 1 => n >= 10 ^ (k - 1))
  IN  [i \in 1 .. size |-> (n \div 10 ^ (size - i)) % 10]

Significant(digits) ==
  SubSeq(digits, 1, CHOOSE k \in 1 .. Len(digits) :
                      digits[k] # 0 /\ \A j \in k + 1 .. Len(digits) : digits[j] = 0)

Complemented(digits) == [i \in 1 .. Len(digits) |-> 9 - digits[i]]

\* The last character sorts after every digit.
AfterDigits == 58

\* encode_number, of a number of tenths; its exponent is one character here.
EncodeNumber(n) ==
  LET digits   == DigitsOf(IF n < 0 THEN -n ELSE n)
      exponent == Len(digits) - 2
      shown(ds) == [i \in 1 .. Len(ds) |-> Digit0 + ds[i]]
  IN  CASE n = 0 -> <<Digit0 + 1>>
        [] n > 0 -> <<Digit0 + 2, 500 + exponent>> \o shown(Significant(digits))
        [] n < 0 -> <<Digit0, 500 - exponent>> \o shown(Complemented(Significant(digits)))
                      \o <<AfterDigits>>

\* encode_value
RECURSIVE Encode(_)
Encode(v) ==
  LET items == Items(v)
      held  == CASE Rank(v) = 1 -> <<>>
                 [] Rank(v) = 2 -> <<IF Holds(v) = 1 THEN 84 ELSE 70>>
                 [] Rank(v) = 3 -> EncodeNumber(Holds(v))
                 [] Rank(v) = 4 -> EncodeString(Holds(v))
                 [] OTHER -> FlattenSeq([i \in 1 .. Len(items) |-> Encode(items[i])])
  IN  <<Digit0 + Rank(v)>> \o held \o <<0>>
=============================================================================
