------------------------------ MODULE Queries ------------------------------
(***************************************************************************)
(* Queries of a database that nothing changes meanwhile, beside the        *)
(* indexes that are kept while it changes and the writes that plugins see: *)
(* a behaviour keeps an index, or makes writes, or it is one question and  *)
(* its answer.                                                             *)
(***************************************************************************)
EXTENDS Indexes, Facade, SequencesExt

CONSTANTS
  Text, Dotted, IndexOf, Regex, DesignDocs, MapFn(_),
  Ids, IdRank, NoKey, NoLimit, Prefix, After, Inside

Finds == INSTANCE MangoQuery
Views == INSTANCE ViewQuery
Parts == INSTANCE Partition WITH Doc <- Ids

CONSTANTS
  Stock,         \* the documents of a database, by its name
  FindCases,       \* finds: [name, indexes, opts]
  PartitionFinds,  \* finds in a partition: [name, opts, pattern]
  ViewCases,       \* view queries: [name, opts, reduce]
  ListCases,       \* listings of a partition: [name, opts], of a database of Listed
  Listed,
  Values           \* JSON values whose keys are compared

VARIABLES
  asked,    \* the question
  answer    \* its answer; nothing, where the question was refused

queryVars == <<asked, answer>>

Nothing == [is |-> "nothing"]

QueryInit ==
  /\ Unused /\ NothingHeld /\ kind \in {"view", "mango", "query", "writes"}
  /\ asked = Nothing /\ answer = Nothing

Ask(what, question, result) ==
  /\ asked' = [is |-> what, question |-> question]
  /\ answer' = result

Answer(result) == [is |-> "answer", result |-> result]

AskFind ==
  \E q \in FindCases :
    Ask("find", q, IF Finds!Accepted(q.opts) THEN Answer(Finds!Find(Stock[q.name], q.indexes, q.opts))
                   ELSE Nothing)

AskPartition ==
  \E q \in PartitionFinds :
    Ask("partition", q, IF Finds!Accepted(q.opts)
                          THEN Answer(Finds!Find(Stock[q.name], <<>>, Finds!InPartition(q.pattern, q.opts)))
                          ELSE Nothing)

AskView ==
  \E q \in ViewCases :
    LET result == Views!QueryView(Stock[q.name], q.opts, q.reduce)
    IN  Ask("view", q, IF result = Views!Refused THEN Nothing ELSE Answer(result))

AskList ==
  \E q \in ListCases : Ask("list", q, Answer(Parts!PartitionRows(Listed[q.name], q.opts)))

AskOrder ==
  \E v, w \in Values :
    Ask("order", <<v, w>>, Answer(Finds!Lexicographic(Finds!Encode(v), Finds!Encode(w))))

Query ==
  /\ kind = "query" /\ asked = Nothing
  /\ AskFind \/ AskPartition \/ AskView \/ AskList \/ AskOrder
  /\ UNCHANGED <<indexVars, facadeVars>>

WithPlugins ==
  /\ kind = "writes" /\ FacadeNext
  /\ UNCHANGED <<indexVars, queryVars>>

QueryNext ==
  \/ Query
  \/ WithPlugins
  \/ Next /\ UNCHANGED <<queryVars, facadeVars>>

QuerySpec == QueryInit /\ [][QueryNext]_<<indexVars, queryVars, facadeVars>>

----------------------------------------------------------------------------
Answered(what) == asked.is = what /\ answer # Nothing

Asked == asked.question
Result == answer.result

\* A find answers a page of the documents that its selector selects, sorted, and
\* the same documents with an index as without one: a selector means what it
\* says where negations are not pushed down, whatever fields are missing, and
\* no document it selects is outside the bounds that an index is read between.
\* In a partition it answers those of the partition.
FindAnswered ==
  /\ Answered("find") => Finds!IsPage(Result, Stock[Asked.name], Asked.opts)
  /\ Answered("partition") =>
       Result = SelectSeq(Finds!InOrder(Stock[Asked.name], Asked.opts),
                          LAMBDA i : Finds!Holds(Finds!Id(Stock[Asked.name][i])) \in Inside)

RowsAnswered(rows) ==
  IF Views!Reduces(Asked.opts, Asked.reduce)
    THEN Views!ReduceAnswered(Result, rows, Asked.opts, Asked.reduce)
    ELSE Views!MapAnswered(Result, rows, Asked.opts)

\* A view query answers the rows in the range, in either direction, and groups
\* every row once.
ViewAnswered == Answered("view") => RowsAnswered(Views!Emitted(Stock[Asked.name]))

\* A listing of a partition answers the caller's page of the rows in range that
\* are in the partition.
PartitionScoped == Answered("list") => Result = Parts!RowsInside(Listed[Asked.name], Asked.opts)

\* The keys of a sorted store are in the order of the values they stand for.
KeysInOrder == Answered("order") => Result = Finds!Collate(Asked[1], Asked[2])
=============================================================================
