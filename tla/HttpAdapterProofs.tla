-------------------------- MODULE HttpAdapterProofs --------------------------
(***************************************************************************)
(* Proofs about HttpAdapter and the parts of the server it is built on,    *)
(* for any number of tasks, adapters and faults:                           *)
(*                                                                         *)
(*   - ensure_setup suffices, however the tasks of an adapter, other       *)
(*     adapters and other clients set up, delete and create the database   *)
(*     at once (SetupInv);                                                 *)
(*   - the server keeps its database in order (DataInv);                   *)
(*   - a changes feed that waits, fetches in batches, breaks and is opened *)
(*     again skips nothing it is to show (FeedInv, on top of the other).   *)
(***************************************************************************)
EXTENDS HttpAdapter, DatabaseProofs

----------------------------------------------------------------------------
(* Setting up *)

\* The task uses an adapter; the current cell of adapter a.
Mine(t) == On[t] # NoAdapter
Current(a) == Len(cells[a])

\* Task u has seen the database, or created it, and is about to say so.
Good(u) ==
  \/ task[u].pc = "looking" /\ \/ req[u].at = "checked"
                               \/ req[u].at = "answered" /\ req[u].answer.status = 200
  \/ task[u].pc = "creating" /\ req[u].at = "answered"

\* By what adapter a has in cell g the database is there.
Known(a, g) ==
  \/ cells[a][g] = "set"
  \/ cells[a][g] = "busy" /\ \E u \in Task : On[u] = a /\ task[u].gen = g /\ Good(u)

TaskFields ==
  {"pc", "todo", "call", "gen", "retries", "gone", "hit", "before", "found", "outcome"}

AllCalls == UNION {UNION {Range(c.todo[t]) : t \in Task} : c \in Cases}

\* The calls of task t, the one at hand and those to come.
CallsOk(t) ==
  /\ task[t].todo \in Seq(AllCalls)
  /\ \A i \in 1 .. Len(task[t].todo) : CallOk(t, task[t].todo[i])
  /\ task[t].pc # "idle" =>
       /\ "kind" \in DOMAIN task[t].call /\ "at" \notin DOMAIN task[t].call
       /\ Mine(t) => task[t].call.kind \notin {"info", "put_db", "delete_db"}
  /\ task[t].pc \in {"setup", "looking", "creating"} => task[t].call.kind # "destroy"

Shapes ==
  /\ cells \in [Adapter -> Seq({"empty", "busy", "set"})] /\ \A a \in Adapter : Current(a) >= 1
  /\ stale \in [Adapter -> BOOLEAN] /\ deleted \in BOOLEAN
  /\ DOMAIN task = Task /\ DOMAIN req = Task

TaskShape(t) ==
  /\ TaskFields \subseteq DOMAIN task[t]
  /\ {"kind", "at"} \subseteq DOMAIN req[t]
  /\ {task[t].gone, task[t].hit} \subseteq BOOLEAN /\ task[t].retries \in Nat
  /\ task[t].pc \in {"idle", "call"} \/ (Mine(t) /\ task[t].pc \in {"setup", "looking", "creating", "locating"})
  /\ Mine(t) => task[t].gen \in 1 .. Current(On[t])

\* The request under way is that of the step the task is at.
Asking(t) ==
  LET ans == req[t].answer
  IN  /\ task[t].pc \in {"idle", "setup"} => req[t] = NoRequest
      /\ req[t].at = "unmade" => req[t].was \in {404, 409}
      /\ task[t].pc = "looking" =>
           /\ req[t].kind = "info" /\ req[t].at \in {"sent", "checked", "answered"}
           /\ req[t].at = "answered" => ans.status \in {200, 404, 500}
      /\ task[t].pc = "creating" =>
           /\ req[t].kind = "put_db" /\ req[t].at \in {"sent", "answered"}
           /\ req[t].at = "answered" => ans.status \in {201, 412}
      /\ task[t].pc \in {"call", "locating"} /\ Mine(t) =>
           IF task[t].call.kind = "destroy"
             THEN task[t].pc = "call" /\ req[t].kind = "delete_db"
             ELSE Cell(t) = "set" /\ req[t].kind \notin {"info", "put_db", "delete_db"}

\* One task at a time looks.
Alone ==
  \A t, u \in Task :
    /\ task[t].pc \in {"looking", "creating"} => Cell(t) = "busy"
    /\ {task[t].pc, task[u].pc} \subseteq {"looking", "creating"} /\ On[t] = On[u] /\ task[t].gen = task[u].gen => t = u

\* A deletion of a database that is known to be there is noted.
Noted ==
  /\ \A t \in Task : Mine(t) /\ task[t].pc # "idle" /\ deleted /\ Known(On[t], task[t].gen) => task[t].gone
  /\ \A a \in Adapter : deleted /\ Known(a, Current(a)) => stale[a]

\* A failure is the work of a fault, a missing database that of a deletion.
Blamed(t) ==
  /\ req[t].at = "answered" /\ req[t].answer.status = 500 => task[t].hit \/ (AboutDb(t) /\ task[t].retries > 0)
  /\ /\ Mine(t) /\ task[t].pc \in {"call", "locating"} /\ task[t].call.kind # "destroy"
     /\ req[t].at = "answered" /\ req[t].answer = NoDatabase
     => task[t].gone
  /\ Mine(t) /\ task[t].outcome.is = "missing" => task[t].gone
  /\ Mine(t) /\ task[t].outcome.is = "error" => task[t].hit

TaskInv(t) == TaskShape(t) /\ CallsOk(t) /\ Asking(t) /\ Blamed(t)

SetupInv == Shapes /\ Alone /\ Noted /\ \A t \in Task : TaskInv(t)

----------------------------------------------------------------------------
(* What a handler does to its request *)

\* What a request asks for stays while it is handled.
Moves(t) ==
  /\ req' = [req EXCEPT ![t] = req'[t]]
  /\ "at" \in DOMAIN req'[t]
  /\ \A f \in DOMAIN req[t] \ {"at", "answer", "rev", "leaves", "was"} :
       f \in DOMAIN req'[t] /\ req'[t][f] = req[t][f]

LEMMA AnswerIs ==
  ASSUME NEW t \in Task, DOMAIN req = Task, {"kind", "at"} \subseteq DOMAIN req[t], NEW a, Answer(t, a)
  PROVE  /\ Moves(t) /\ {"kind", "at"} \subseteq DOMAIN req'[t]
         /\ req'[t].kind = req[t].kind /\ req'[t].at = "answered" /\ req'[t].answer = a
  <1> DEFINE f == [answer |-> a]
             g == [req[t] EXCEPT !.at = "answered"]
             h == Over(f, g)
  <1>1. req' = [req EXCEPT ![t] = h]
    BY DEF Answer
  <1>2. req'[t] = h
    BY <1>1
  <1>3. h = [x \in DOMAIN f \union DOMAIN g |-> IF x \in DOMAIN f THEN f[x] ELSE g[x]]
    BY DEF Over
  <1>4. DOMAIN f = {"answer"} /\ f["answer"] = a
    OBVIOUS
  <1>5. DOMAIN g = DOMAIN req[t] /\ g["at"] = "answered"
    OBVIOUS
  <1>6. \A x \in DOMAIN req[t] : x # "at" => g[x] = req[t][x]
    OBVIOUS
  <1> HIDE DEF f, g
  <1>7. DOMAIN h = {"answer"} \union DOMAIN req[t]
    BY <1>3, <1>4, <1>5
  <1>8. h["answer"] = a
    BY <1>3, <1>4
  <1>9. h["at"] = "answered"
    BY <1>3, <1>4, <1>5
  <1>10. \A x \in DOMAIN req[t] \ {"at", "answer"} : h[x] = req[t][x]
    BY <1>3, <1>4, <1>5, <1>6
  <1> HIDE DEF h
  <1>11. Moves(t)
    BY <1>1, <1>2, <1>7, <1>10 DEF Moves
  <1> QED
    BY <1>2, <1>7, <1>8, <1>9, <1>10, <1>11

LEMMA ProceedIs ==
  ASSUME NEW t \in Task, DOMAIN req = Task, {"kind", "at"} \subseteq DOMAIN req[t], NEW at, NEW kept,
         DOMAIN kept \subseteq {"rev", "leaves", "was"}, Proceed(t, at, kept)
  PROVE  /\ Moves(t) /\ {"kind", "at"} \subseteq DOMAIN req'[t]
         /\ req'[t].kind = req[t].kind /\ req'[t].at = at
         /\ \A x \in DOMAIN kept : req'[t][x] = kept[x]
  <1> DEFINE g == [req[t] EXCEPT !.at = at]
             h == Over(kept, g)
  <1>1. req' = [req EXCEPT ![t] = h]
    BY DEF Proceed
  <1>2. req'[t] = h
    BY <1>1
  <1>3. h = [x \in DOMAIN kept \union DOMAIN g |-> IF x \in DOMAIN kept THEN kept[x] ELSE g[x]]
    BY DEF Over
  <1>5. DOMAIN g = DOMAIN req[t] /\ g["at"] = at
    OBVIOUS
  <1>6. \A x \in DOMAIN req[t] : x # "at" => g[x] = req[t][x]
    OBVIOUS
  <1> HIDE DEF g
  <1>7. DOMAIN h = DOMAIN kept \union DOMAIN req[t]
    BY <1>3, <1>5
  <1>9. h["at"] = at
    BY <1>3, <1>5
  <1>10. \A x \in DOMAIN req[t] \ {"at", "rev", "leaves", "was"} : h[x] = req[t][x]
    BY <1>3, <1>5, <1>6
  <1>8. \A x \in DOMAIN kept : h[x] = kept[x]
    BY <1>3
  <1> HIDE DEF h
  <1>11. Moves(t)
    BY <1>1, <1>2, <1>7, <1>10 DEF Moves
  <1> QED
    BY <1>2, <1>7, <1>8, <1>9, <1>10, <1>11

\* What a step of the handler of t does to the request and the deleted mark.
Handled(t) ==
  /\ Moves(t) /\ {"kind", "at"} \subseteq DOMAIN req'[t] /\ req'[t].kind = req[t].kind
  /\ deleted' \in BOOLEAN
  /\ req[t].at \notin {"none", "answered"} /\ req'[t].at \notin {"none", "sent"}
  /\ req'[t].at = "answered" =>
       /\ req'[t].answer.status # 500
       /\ req'[t].answer = NoDatabase => deleted
  /\ req'[t].at = "unmade" => req'[t].was \in {404, 409}
  /\ req[t].kind = "put_db" /\ req[t].at = "sent" =>
       req'[t].at = "answered" /\ req'[t].answer.status \in {201, 412} /\ ~deleted'
  /\ req[t].kind = "info" /\ req[t].at = "sent" =>
       /\ deleted' = deleted
       /\ IF deleted THEN req'[t].at = "answered" /\ req'[t].answer.status = 404
                     ELSE req'[t].at = "checked"
  /\ req[t].kind = "info" /\ req[t].at = "checked" =>
       deleted' = deleted /\ req'[t].at = "answered" /\ req'[t].answer.status = 200

LEMMA AnsweredPlainly ==
  ASSUME NEW t \in Task, DOMAIN req = Task, {"kind", "at"} \subseteq DOMAIN req[t],
         deleted' \in BOOLEAN, NEW a, Answer(t, a),
         req[t].kind \notin {"put_db", "info"} \/ req[t].at \notin {"sent", "checked"},
         req[t].at \notin {"none", "answered"},
         a.status # 500, a = NoDatabase => deleted
  PROVE  Handled(t)
  BY AnswerIs DEF Handled

LEMMA ProceedsPlainly ==
  ASSUME NEW t \in Task, DOMAIN req = Task, {"kind", "at"} \subseteq DOMAIN req[t],
         deleted' \in BOOLEAN, NEW at, NEW kept, Proceed(t, at, kept),
         DOMAIN kept \subseteq {"rev", "leaves", "was"},
         req[t].kind \notin {"put_db", "info"}, req[t].at \notin {"none", "answered"},
         at \notin {"none", "sent", "answered"},
         at = "unmade" => "was" \in DOMAIN kept /\ kept["was"] \in {404, 409}
  PROVE  Handled(t)
  BY ProceedIs DEF Handled

LEMMA StatusIs ==
  ASSUME NEW n
  PROVE  Status(n).status = n /\ Status(n) # NoDatabase
  <1>1. DOMAIN Status(n) = {"status"} /\ "reason" \in DOMAIN NoDatabase
    BY DEF Status, NoDatabase
  <1> QED
    BY <1>1 DEF Status

LEMMA OtherAnswers ==
  /\ \A n, v : [status |-> n, value |-> v] # NoDatabase
  /\ \A n, v : [status |-> n, results |-> v] # NoDatabase
  /\ \A n, v : [status |-> n, found |-> v] # NoDatabase
  /\ \A n, v : [status |-> n, rev |-> v] # NoDatabase
  /\ \A n, v : [status |-> n, n |-> v] # NoDatabase
  /\ \A n, v : v # "no_db_file" => [status |-> n, reason |-> v] # NoDatabase
  <1>1. DOMAIN NoDatabase = {"status", "reason"} /\ NoDatabase.reason = "no_db_file"
    BY DEF NoDatabase
  <1>2. \A n, v : "reason" \notin DOMAIN [status |-> n, value |-> v]
    OBVIOUS
  <1>3. \A n, v : "reason" \notin DOMAIN [status |-> n, results |-> v]
    OBVIOUS
  <1>4. \A n, v : "reason" \notin DOMAIN [status |-> n, found |-> v]
    OBVIOUS
  <1>5. \A n, v : "reason" \notin DOMAIN [status |-> n, rev |-> v]
    OBVIOUS
  <1>6. \A n, v : "reason" \notin DOMAIN [status |-> n, n |-> v]
    OBVIOUS
  <1>7. \A n, v : [status |-> n, reason |-> v].reason = v
    OBVIOUS
  <1> QED
    BY <1>1, <1>2, <1>3, <1>4, <1>5, <1>6, <1>7

LEMMA NoneKept == DOMAIN <<>> \subseteq {"rev", "leaves", "was"}
  OBVIOUS

LEMMA HandleIs ==
  ASSUME NEW t \in Task, DOMAIN req = Task, {"kind", "at"} \subseteq DOMAIN req[t],
         deleted \in BOOLEAN, req[t].at = "unmade" => req[t].was \in {404, 409}, Handle(t)
  PROVE  Handled(t)
  <1> USE DEF Handling
  <1>1. CASE CheckDb(t)
    <2>1. deleted' = deleted /\ req[t].at = "sent" /\ req[t].kind # "put_db"
      BY <1>1 DEF CheckDb
    <2>2. CASE deleted
      <3>1. Answer(t, NoDatabase)
        BY <1>1, <2>2 DEF CheckDb
      <3>2. NoDatabase.status = 404
        BY DEF NoDatabase
      <3> QED
        BY <3>1, <3>2, <2>1, <2>2, AnswerIs DEF Handled
    <2>3. CASE ~deleted
      <3>1. Proceed(t, "checked", <<>>)
        BY <1>1, <2>3 DEF CheckDb
      <3> QED
        BY <3>1, <2>1, <2>3, ProceedIs, NoneKept DEF Handled
    <2> QED
      BY <2>2, <2>3
  <1>2. CASE GetDbInfo(t)
    <2>1. Answer(t, Status(200)) /\ deleted' = deleted /\ req[t].kind = "info" /\ req[t].at = "checked"
      BY <1>2 DEF GetDbInfo
    <2> QED
      BY <2>1, AnswerIs, StatusIs DEF Handled
  <1>3. CASE PutDb(t)
    <2>1. PICK n \in {201, 412} : Answer(t, Status(n))
      BY <1>3 DEF PutDb
    <2>2. ~deleted' /\ deleted' \in BOOLEAN /\ req[t].kind = "put_db" /\ req[t].at = "sent"
      BY <1>3 DEF PutDb
    <2> QED
      BY <2>1, <2>2, AnswerIs, StatusIs DEF Handled
  <1>4. CASE DeleteDbMarks(t)
    <2>1. deleted' = TRUE /\ req[t].at = "checked" /\ req[t].kind = "delete_db"
      BY <1>4 DEF DeleteDbMarks
    <2>2. CASE deleted
      <3>1. Answer(t, NoDatabase) /\ NoDatabase.status = 404
        BY <1>4, <2>2 DEF DeleteDbMarks, NoDatabase
      <3> QED
        BY <3>1, <2>1, <2>2, AnsweredPlainly
    <2>3. CASE ~deleted
      <3>1. Proceed(t, "marked", <<>>)
        BY <1>4, <2>3 DEF DeleteDbMarks
      <3> QED
        BY <3>1, <2>1, ProceedsPlainly, NoneKept
    <2> QED
      BY <2>2, <2>3
  <1>5. CASE DeleteDbDestroys(t)
    <2>1. Answer(t, Status(200)) /\ deleted' = deleted /\ req[t].kind = "delete_db" /\ req[t].at = "marked"
      BY <1>5 DEF DeleteDbDestroys
    <2> QED
      BY <2>1, AnsweredPlainly, StatusIs
  <1>6. CASE CompactRoute(t)
    <2>1. Answer(t, Status(202)) /\ deleted' = deleted /\ req[t].kind = "compact" /\ req[t].at = "checked"
      BY <1>6 DEF CompactRoute
    <2> QED
      BY <2>1, AnsweredPlainly, StatusIs
  <1>7. CASE PurgeRoute(t)
    <2>1. Answer(t, Status(201)) /\ deleted' = deleted /\ req[t].kind = "purge" /\ req[t].at = "checked"
      BY <1>7 DEF PurgeRoute
    <2> QED
      BY <2>1, AnsweredPlainly, StatusIs
  <1>8. CASE BulkDocs(t)
    <2>1. deleted' = deleted /\ req[t].kind = "bulk" /\ req[t].at = "checked"
      BY <1>8 DEF BulkDocs
    <2>2. CASE Answer(t, Status(400))
      BY <2>1, <2>2, AnsweredPlainly, StatusIs
    <2>3. CASE \E v : Answer(t, [status |-> 201, results |-> v])
      BY <2>1, <2>3, AnsweredPlainly, OtherAnswers
    <2> QED
      BY <1>8, <2>2, <2>3 DEF BulkDocs
  <1>9. ASSUME NEW x, WriteOne(t, x), deleted' = deleted, req[t].kind \notin {"put_db", "info"},
               req[t].at \notin {"none", "answered"}
        PROVE  Handled(t)
    <2>2. CASE Answer(t, Status(409))
      BY <1>9, <2>2, AnsweredPlainly, StatusIs
    <2>3. CASE \E v : Answer(t, [status |-> 201, results |-> v])
      BY <1>9, <2>3, AnsweredPlainly, OtherAnswers
    <2> QED
      BY <1>9, <2>2, <2>3, ZenonT(60) DEF WriteOne
  <1>10. CASE EnsureLive(t)
    <2>1. deleted' = deleted /\ req[t].kind \in {"put_doc", "delete_doc"} /\ req[t].at = "checked"
      BY <1>10 DEF EnsureLive
    <2>2. Proceed(t, "live", <<>>) \/ \E n \in {404, 409} : Answer(t, Status(n))
      BY <1>10, ZenonT(60) DEF EnsureLive
    <2> QED
      BY <2>1, <2>2, AnsweredPlainly, ProceedsPlainly, StatusIs, NoneKept
  <1>11. CASE WriteSent(t)
    BY <1>9, <1>11 DEF WriteSent
  <1>12. CASE AttachLooks(t)
    <2>1. deleted' = deleted /\ req[t].kind = "attach" /\ req[t].at = "checked"
      BY <1>12 DEF AttachLooks
    <2>2. Proceed(t, "absent", <<>>) \/ Answer(t, Status(409))
      BY <1>12 DEF AttachLooks
    <2> QED
      BY <2>1, <2>2, AnsweredPlainly, ProceedsPlainly, StatusIs, NoneKept
  <1>13. CASE AttachCreates(t)
    BY <1>9, <1>13 DEF AttachCreates
  <1>14. ASSUME NEW x, NEW U, EditsAttachment(t, x, U), req[t].at = "checked",
                req[t].kind \notin {"put_db", "info"}
         PROVE  Handled(t)
    <2>1. deleted' = deleted
      BY <1>14 DEF EditsAttachment
    <2>2. (\E n \in {404, 409} : Proceed(t, "unmade", [was |-> n])) \/ Answer(t, Status(201))
      BY <1>14 DEF EditsAttachment
    <2>3. \A n : DOMAIN [was |-> n] = {"was"} /\ [was |-> n]["was"] = n
      OBVIOUS
    <2>4. ASSUME NEW n \in {404, 409}, Proceed(t, "unmade", [was |-> n])
          PROVE  Handled(t)
      <3> DEFINE k == [was |-> n]
      <3>1. DOMAIN k = {"was"} /\ k["was"] = n /\ Proceed(t, "unmade", k)
        BY <2>4
      <3> HIDE DEF k
      <3> QED
        BY <1>14, <2>1, <3>1, ProceedsPlainly
    <2> QED
      BY <1>14, <2>1, <2>2, <2>4, AnsweredPlainly, StatusIs
  <1>15. CASE PutAttachment(t) \/ DeleteAttachment(t)
    BY <1>14, <1>15 DEF PutAttachment, DeleteAttachment
  <1>16. CASE AttachRefused(t)
    <2>1. deleted' = deleted /\ req[t].at = "unmade"
      BY <1>16 DEF AttachRefused
    <2>2. Answer(t, [status |-> 409, reason |-> "missing_rev"]) \/ Answer(t, Status(req[t].was))
      BY <1>16 DEF AttachRefused
    <2>3. req[t].was # 500
      BY <2>1
    <2> QED
      BY <2>1, <2>2, <2>3, AnsweredPlainly, StatusIs, OtherAnswers
  <1>17. CASE GetLocal(t)
    <2>1. deleted' = deleted /\ req[t].kind = "get_local" /\ req[t].at = "checked"
      BY <1>17 DEF GetLocal
    <2>2. CASE Answer(t, [status |-> 404, reason |-> "missing"])
      BY <2>1, <2>2, AnsweredPlainly, OtherAnswers
    <2>3. CASE \E v : Answer(t, [status |-> 200, value |-> v])
      BY <2>1, <2>3, AnsweredPlainly, OtherAnswers
    <2> QED
      BY <1>17, <2>2, <2>3, ZenonT(60) DEF GetLocal, Missing
  <1>18. CASE PutLocal(t)
    <2>1. deleted' = deleted /\ req[t].kind = "put_local" /\ req[t].at = "checked"
      BY <1>18 DEF PutLocal
    <2>2. \E v : Answer(t, [status |-> 201, n |-> v])
      BY <1>18 DEF PutLocal
    <2> QED
      BY <2>1, <2>2, AnsweredPlainly, OtherAnswers
  <1>19. CASE DeleteLocal(t)
    <2>1. deleted' = deleted /\ req[t].kind = "delete_local" /\ req[t].at = "checked"
      BY <1>19 DEF DeleteLocal
    <2>2. Answer(t, [status |-> 404, reason |-> "missing"]) \/ Answer(t, Status(200))
      BY <1>19 DEF DeleteLocal, Missing
    <2> QED
      BY <2>1, <2>2, AnsweredPlainly, StatusIs, OtherAnswers
  <1>20. CASE ReadRoute(t)
    <2>1. deleted' = deleted /\ req[t].kind = "read" /\ req[t].at = "checked"
      BY <1>20 DEF ReadRoute
    <2>2. \E v : Answer(t, [status |-> 200, value |-> v])
      BY <1>20 DEF ReadRoute
    <2> QED
      BY <2>1, <2>2, AnsweredPlainly, OtherAnswers
  <1>21. CASE GetDoc(t)
    <2>1. deleted' = deleted /\ req[t].kind = "get_doc" /\ req[t].at = "checked"
      BY <1>21 DEF GetDoc
    <2> DEFINE got == Get(db, req[t].id, req[t].rev, req[t].latest)
    <2>2. CASE got.found
      <3>1. \E v : Answer(t, [status |-> 200, value |-> v])
        BY <1>21, <2>2 DEF GetDoc
      <3> QED
        BY <2>1, <3>1, AnsweredPlainly, OtherAnswers
    <2>3. CASE ~got.found /\ req[t].rev # NoRev
      <3>1. Answer(t, [status |-> 404, reason |-> "missing"])
        BY <1>21, <2>3 DEF GetDoc, Missing
      <3> QED
        BY <2>1, <3>1, AnsweredPlainly, OtherAnswers
    <2>4. CASE ~got.found /\ req[t].rev = NoRev
      <3>1. Proceed(t, "absent", <<>>)
        BY <1>21, <2>4 DEF GetDoc
      <3> QED
        BY <2>1, <3>1, ProceedsPlainly, NoneKept
    <2> QED
      BY <2>2, <2>3, <2>4
  <1>22. CASE DocNotFound(t)
    <2>1. deleted' = deleted /\ req[t].kind \in {"get_doc", "get_attachment"} /\ req[t].at = "absent"
      BY <1>22 DEF DocNotFound, LooksWhy
    <2>2. \E v \in {"deleted", "missing"} : Answer(t, [status |-> 404, reason |-> v])
      BY <1>22 DEF DocNotFound, Missing
    <2> QED
      BY <2>1, <2>2, AnsweredPlainly, OtherAnswers
  <1>23. CASE ListLeaves(t)
    <2>1. deleted' = deleted /\ req[t].kind = "open_revs" /\ req[t].at = "checked"
      BY <1>23 DEF ListLeaves
    <2>2. CASE Answer(t, Status(404))
      BY <2>1, <2>2, AnsweredPlainly, StatusIs
    <2>3. ASSUME NEW v, Proceed(t, "listed", [leaves |-> v])
          PROVE  Handled(t)
      <3> DEFINE k == [leaves |-> v]
      <3>1. DOMAIN k = {"leaves"} /\ Proceed(t, "listed", k)
        BY <2>3
      <3> HIDE DEF k
      <3> QED
        BY <2>1, <3>1, ProceedsPlainly
    <2> QED
      BY <1>23, <2>2, <2>3 DEF ListLeaves
  <1>24. CASE ReadLeaves(t)
    <2>1. deleted' = deleted /\ req[t].kind = "open_revs" /\ req[t].at = "listed"
      BY <1>24 DEF ReadLeaves
    <2>2. \E v : Answer(t, [status |-> 200, found |-> v])
      BY <1>24, ZenonT(60) DEF ReadLeaves
    <2> QED
      BY <2>1, <2>2, AnsweredPlainly, OtherAnswers
  <1>25. CASE ReadMeta(t)
    <2>1. deleted' = deleted /\ req[t].kind = "get_attachment" /\ req[t].at = "checked"
      BY <1>25 DEF ReadMeta
    <2>2. CASE Answer(t, Status(404))
      BY <2>1, <2>2, AnsweredPlainly, StatusIs
    <2>3. ASSUME NEW v, Proceed(t, "read", [rev |-> v])
          PROVE  Handled(t)
      <3> DEFINE k == [rev |-> v]
      <3>1. DOMAIN k = {"rev"} /\ Proceed(t, "read", k)
        BY <2>3
      <3> HIDE DEF k
      <3> QED
        BY <2>1, <3>1, ProceedsPlainly
    <2>4. CASE Proceed(t, "absent", <<>>)
      BY <2>1, <2>4, ProceedsPlainly, NoneKept
    <2> QED
      BY <1>25, <2>2, <2>3, <2>4, ZenonT(60) DEF ReadMeta
  <1>26. CASE ReadBytes(t)
    <2>1. deleted' = deleted /\ req[t].kind = "get_attachment" /\ req[t].at = "read"
      BY <1>26 DEF ReadBytes
    <2>2. CASE Answer(t, Status(404))
      BY <2>1, <2>2, AnsweredPlainly, StatusIs
    <2>3. CASE \E v : Answer(t, [status |-> 200, rev |-> v])
      BY <2>1, <2>3, AnsweredPlainly, OtherAnswers
    <2> QED
      BY <1>26, <2>2, <2>3, ZenonT(60) DEF ReadBytes
  <1> QED
    BY <1>1, <1>2, <1>3, <1>4, <1>5, <1>6, <1>7, <1>8, <1>10, <1>11, <1>12, <1>13, <1>15, <1>16, <1>17,
       <1>18, <1>19, <1>20, <1>21, <1>22, <1>23, <1>24, <1>25, <1>26 DEF Handle

----------------------------------------------------------------------------
(* A step of one task *)

LEMMA SentIs ==
  ASSUME NEW t \in Task, DOMAIN req = Task, NEW r, "kind" \in DOMAIN r, "at" \notin DOMAIN r, Send(t, r)
  PROVE  /\ req' = [req EXCEPT ![t] = req'[t]]
         /\ {"kind", "at"} \subseteq DOMAIN req'[t] /\ req'[t].kind = r.kind /\ req'[t].at = "sent"
         /\ \A f \in DOMAIN r : f \in DOMAIN req'[t] /\ req'[t][f] = r[f]
  <1> DEFINE g == [at |-> "sent"]
             h == Over(r, g)
  <1>1. req' = [req EXCEPT ![t] = h]
    BY DEF Send
  <1>2. req'[t] = h
    BY <1>1
  <1>3. h = [x \in DOMAIN r \union DOMAIN g |-> IF x \in DOMAIN r THEN r[x] ELSE g[x]]
    BY DEF Over
  <1>4. DOMAIN g = {"at"} /\ g["at"] = "sent"
    OBVIOUS
  <1> HIDE DEF g
  <1>5. DOMAIN h = DOMAIN r \union {"at"}
    BY <1>3, <1>4
  <1>6. h["at"] = "sent"
    BY <1>3, <1>4
  <1>7. \A x \in DOMAIN r : h[x] = r[x]
    BY <1>3
  <1> HIDE DEF h
  <1> QED
    BY <1>1, <1>2, <1>5, <1>6, <1>7

\* Only task t, its request and perhaps a cell change.
Frame(t) ==
  /\ DOMAIN task' = Task /\ DOMAIN req' = Task
  /\ \A u \in Task : u # t => task'[u] = task[u] /\ req'[u] = req[u]
  /\ deleted' = deleted

\* The cells but that of task t stay, which t may change if nobody else looks.
CellsStay(t) ==
  /\ cells' \in [Adapter -> Seq({"empty", "busy", "set"})]
  /\ \A a \in Adapter :
       /\ Current(a)' >= Current(a)
       /\ \A g \in 1 .. Current(a) :
            \/ cells'[a][g] = cells[a][g]
            \/ /\ a = On[t] /\ g = task[t].gen
               /\ Cell(t) = "empty" \/ task[t].pc \in {"looking", "creating"}

\* What task t has learnt of the database is all that is learnt.
LearnsNothing(t) ==
  /\ Mine(t) /\ cells'[On[t]][task[t].gen] = "set" => Known(On[t], task[t].gen)
  /\ Mine(t) /\ Good(t)' => Good(t) /\ task'[t].gen = task[t].gen

LEMMA OnMine ==
  ASSUME NEW t \in Task, Mine(t)
  PROVE  On[t] \in Adapter
  BY AdapterAssumption DEF Mine

LEMMA AdapterIsMine ==
  ASSUME NEW t \in Task, On[t] \in Adapter
  PROVE  Mine(t)
  BY AdapterAssumption DEF Mine

LEMMA OthersStay ==
  ASSUME SetupInv, NEW t \in Task, Frame(t), CellsStay(t), NEW u \in Task, u # t
  PROVE  TaskInv(u)'
  <1>1. task'[u] = task[u] /\ req'[u] = req[u] /\ Mine(u)' = Mine(u)
    BY DEF Frame, SetupInv, Shapes, Mine
  <1>2. TaskShape(u) /\ CallsOk(u) /\ Asking(u) /\ Blamed(u)
    BY DEF SetupInv, TaskInv
  <1>3. Mine(u) => Current(On[u])' >= Current(On[u]) /\ Current(On[u]) \in Nat /\ Current(On[u])' \in Nat
    BY OnMine DEF CellsStay, SetupInv, Shapes, Current
  <1>4. TaskShape(u)'
    <2>1. Mine(u) => task[u].gen \in 1 .. Current(On[u])'
      BY <1>2, <1>3 DEF TaskShape
    <2> QED
      BY <1>1, <1>2, <2>1 DEF TaskShape, Mine
  <1>5. CallsOk(u)'
    BY <1>1, <1>2 DEF CallsOk, CallOk, Mine
  <1>6. Mine(u) /\ Cell(u) = "set" => cells'[On[u]][task[u].gen] = "set"
    <2> SUFFICES ASSUME Mine(u), Cell(u) = "set"
                 PROVE  cells'[On[u]][task[u].gen] = "set"
      OBVIOUS
    <2>1. On[u] \in Adapter /\ task[u].gen \in 1 .. Current(On[u])
      BY <1>2, OnMine DEF TaskShape
    <2>2. CASE cells'[On[u]][task[u].gen] = cells[On[u]][task[u].gen]
      BY <2>2 DEF Cell
    <2>3. CASE /\ On[u] = On[t] /\ task[u].gen = task[t].gen
               /\ Cell(t) = "empty" \/ task[t].pc \in {"looking", "creating"}
      <3>1. Cell(t) = "set"
        BY <2>3 DEF Cell
      <3>2. task[t].pc \in {"looking", "creating"} => Cell(t) = "busy"
        BY DEF SetupInv, Alone
      <3> QED
        BY <2>3, <3>1, <3>2
    <2> QED
      BY <2>1, <2>2, <2>3 DEF CellsStay
  <1>7. Asking(u)'
    BY <1>1, <1>2, <1>6 DEF Asking, Cell, Mine, NoRequest
  <1>8. Blamed(u)'
    BY <1>1, <1>2 DEF Blamed, AboutDb, Mine, NoDatabase
  <1> QED
    BY <1>4, <1>5, <1>7, <1>8 DEF TaskInv

LEMMA NothingLearnt ==
  ASSUME SetupInv, NEW t \in Task, Frame(t), CellsStay(t), LearnsNothing(t),
         NEW a \in Adapter, NEW g \in 1 .. Current(a), Known(a, g)'
  PROVE  Known(a, g)
  <1>1. cells'[a][g] = cells[a][g] \/ (a = On[t] /\ g = task[t].gen)
    BY DEF CellsStay
  <1>2. CASE cells'[a][g] = "set"
    BY <1>1, <1>2, AdapterIsMine DEF Known, LearnsNothing
  <1>3. CASE cells'[a][g] # "set"
    <2>1. PICK u \in Task : On[u] = a /\ task'[u].gen = g /\ Good(u)'
      BY <1>3 DEF Known
    <2>2. Good(u) /\ task[u].gen = g
      <3>1. CASE u = t
        BY <2>1, <3>1, AdapterIsMine DEF LearnsNothing
      <3>2. CASE u # t
        <4>1. task'[u] = task[u] /\ req'[u] = req[u]
          BY <3>2 DEF Frame, SetupInv, Shapes
        <4> QED
          BY <2>1, <4>1 DEF Good
      <3> QED
        BY <3>1, <3>2
    <2>3. Cell(u) = "busy"
      BY <2>2 DEF Good, SetupInv, Alone
    <2> QED
      BY <2>1, <2>2, <2>3 DEF Known, Cell
  <1> QED
    BY <1>2, <1>3

\* A step of one task keeps what is known of all of them, ...
LEMMA OneTask ==
  ASSUME SetupInv, NEW t \in Task, Frame(t), CellsStay(t), LearnsNothing(t), TaskInv(t)',
         stale' \in [Adapter -> BOOLEAN],
         task'[t].pc \in {"looking", "creating"} =>
           /\ Mine(t) /\ task'[t].gen = task[t].gen
           /\ cells'[On[t]][task[t].gen] = "busy"
           /\ Cell(t) = "empty" \/ task[t].pc \in {"looking", "creating"},
         Mine(t) /\ task'[t].pc # "idle" /\ deleted /\ Known(On[t], task[t].gen)' => task'[t].gone,
         \A a \in Adapter : deleted /\ Known(a, Current(a))' => stale'[a]
  PROVE  SetupInv'
  <1>1. \A u \in Task : TaskInv(u)'
    BY OthersStay
  <1>2. Shapes'
    BY DEF SetupInv, Shapes, Frame, CellsStay, Current
  <1>3. \A u \in Task : u # t => task'[u] = task[u] /\ req'[u] = req[u]
    BY DEF Frame, SetupInv, Shapes
  <1>4. \A u \in Task : task'[u].pc \in {"looking", "creating"} => cells'[On[u]][task'[u].gen] = "busy"
    <2> SUFFICES ASSUME NEW u \in Task, task'[u].pc \in {"looking", "creating"}, u # t
                 PROVE  cells'[On[u]][task[u].gen] = "busy"
      BY <1>3
    <2>1. task[u].pc \in {"looking", "creating"} /\ Cell(u) = "busy" /\ TaskShape(u)
      BY <1>3 DEF SetupInv, Alone, TaskInv
    <2>2. Mine(u) /\ On[u] \in Adapter /\ task[u].gen \in 1 .. Current(On[u])
      BY <2>1, OnMine DEF TaskShape
    <2>3. ~(On[u] = On[t] /\ task[u].gen = task[t].gen
            /\ (Cell(t) = "empty" \/ task[t].pc \in {"looking", "creating"}))
      BY <2>1 DEF SetupInv, Alone, Cell
    <2> QED
      BY <2>1, <2>2, <2>3 DEF CellsStay, Cell
  <1>5. Alone'
    <2>1. \A u \in Task : task'[u].pc \in {"looking", "creating"} => Cell(u)' = "busy"
      BY <1>4 DEF Cell
    <2>2. ASSUME NEW u \in Task, NEW v \in Task, {task'[u].pc, task'[v].pc} \subseteq {"looking", "creating"},
                 On[u] = On[v], task'[u].gen = task'[v].gen
          PROVE  u = v
      <3>1. ASSUME u # t, v # t
            PROVE  u = v
        BY <1>3, <2>2, <3>1 DEF SetupInv, Alone
      <3>2. ASSUME NEW w \in Task, w # t, task'[w].pc \in {"looking", "creating"},
                   task'[t].pc \in {"looking", "creating"}, On[w] = On[t], task'[w].gen = task'[t].gen
            PROVE  FALSE
        <4>1. task[w].pc \in {"looking", "creating"} /\ task[w].gen = task[t].gen
          BY <1>3, <3>2
        <4>2. Cell(w) = "busy" /\ Cell(w) = Cell(t)
          BY <3>2, <4>1 DEF SetupInv, Alone, Cell
        <4> QED
          BY <3>2, <4>1, <4>2 DEF SetupInv, Alone
      <3> QED
        BY <2>2, <3>1, <3>2
    <2> QED
      BY <2>1, <2>2 DEF Alone
  <1>6. Noted'
    <2>1. ASSUME NEW u \in Task, Mine(u), task'[u].pc # "idle", deleted, Known(On[u], task[u].gen)'
          PROVE  task'[u].gone
      <3>1. CASE u # t
        <4>1. TaskShape(u) /\ On[u] \in Adapter /\ task'[u] = task[u]
          BY <1>3, <2>1, <3>1, OnMine DEF SetupInv, TaskInv
        <4>2. PICK g \in 1 .. Current(On[u]) : g = task[u].gen
          BY <2>1, <4>1 DEF TaskShape
        <4>3. Known(On[u], g)'
          BY <2>1, <4>1, <4>2 DEF Known
        <4>4. Known(On[u], task[u].gen)
          BY <4>1, <4>2, <4>3, NothingLearnt
        <4> QED
          BY <2>1, <4>1, <4>4 DEF SetupInv, Noted
      <3> QED
        BY <2>1, <3>1
    <2> QED
      BY <2>1 DEF Noted, Frame, Mine
  <1> QED
    BY <1>1, <1>2, <1>5, <1>6 DEF SetupInv

\* ... and, when it leaves `stale' and the number of cells alone and uses the
\* cell it used, all but its own part.
LEMMA OneTaskQuietly ==
  ASSUME SetupInv, NEW t \in Task, Frame(t), CellsStay(t), LearnsNothing(t), TaskInv(t)', stale' = stale,
         \A a \in Adapter : Current(a)' = Current(a),
         task'[t].pc \in {"looking", "creating"} =>
           /\ Mine(t) /\ task'[t].gen = task[t].gen
           /\ cells'[On[t]][task[t].gen] = "busy"
           /\ Cell(t) = "empty" \/ task[t].pc \in {"looking", "creating"},
         Mine(t) /\ task'[t].pc # "idle" /\ deleted /\ Known(On[t], task[t].gen)' => task'[t].gone
  PROVE  SetupInv'
  <1>1. \A a \in Adapter : Current(a) \in Nat /\ Current(a) >= 1
    BY DEF SetupInv, Shapes, Current
  <1>2. \A a \in Adapter : deleted /\ Known(a, Current(a))' => stale'[a]
    <2> SUFFICES ASSUME NEW a \in Adapter, deleted, Known(a, Current(a))'
                 PROVE  stale[a]
      OBVIOUS
    <2>1. \E g \in 1 .. Current(a) : g = Current(a)
      BY <1>1
    <2>2. PICK g \in 1 .. Current(a) : g = Current(a)
      BY <2>1
    <2>3. Known(a, g)'
      BY <2>2 DEF Known, Current
    <2>4. Known(a, g)
      BY <2>3, NothingLearnt
    <2> QED
      BY <2>2, <2>4 DEF SetupInv, Noted
  <1>3. stale' \in [Adapter -> BOOLEAN]
    BY DEF SetupInv, Shapes
  <1> QED
    BY <1>2, <1>3, OneTask

\* What OutcomeOf calls missing or an error.
LEMMA OutcomeIs ==
  ASSUME NEW call, NEW a, NEW o, o = OutcomeOf(call, a)
  PROVE  /\ o.is = "missing" => a = NoDatabase
         /\ o.is = "error" => a.status = 500
  <1>1. ASSUME NEW f, "is" \in DOMAIN f, NEW g
        PROVE  Over(f, g).is = f.is
    BY <1>1 DEF Over
  <1>2. Over([is |-> "not_found"], a).is = "not_found"
    BY <1>1
  <1>3. Over([is |-> "refused"], Over(a, [reason |-> "none"])).is = "refused"
    BY <1>1
  <1>4. Over([is |-> "ok"], a).is = "ok"
    BY <1>1
  <1>5. Over(WinningOpenRev(a.found), a).is \in {"not_found", "ok"}
    <2>1. "is" \in DOMAIN WinningOpenRev(a.found) /\ WinningOpenRev(a.found).is \in {"not_found", "ok"}
      BY DEF WinningOpenRev
    <2> QED
      BY <1>1, <2>1
  <1>6. CASE a = NoDatabase
    BY <1>6 DEF OutcomeOf, NoDatabase, Success
  <1>7. CASE a.status = 500
    BY <1>7 DEF OutcomeOf, NoDatabase, Success
  <1>8. CASE a # NoDatabase /\ a.status # 500
    BY <1>2, <1>3, <1>4, <1>5, <1>8 DEF OutcomeOf
  <1> QED
    BY <1>6, <1>7, <1>8

\* A step of task t that finishes its call, keeping what was noted of it.
LEMMA Finished ==
  ASSUME SetupInv, NEW t \in Task, NEW h \in BOOLEAN, NEW o,
         task' = [task EXCEPT ![t].pc = "idle", ![t].hit = h, ![t].outcome = o],
         req' = [req EXCEPT ![t] = NoRequest], deleted' = deleted, CellsStay(t),
         Mine(t) /\ cells'[On[t]][task[t].gen] = "set" => Known(On[t], task[t].gen),
         Mine(t) /\ o.is = "missing" => task[t].gone,
         Mine(t) /\ o.is = "error" => h
  PROVE  Frame(t) /\ LearnsNothing(t) /\ TaskInv(t)' /\ task'[t].pc = "idle"
  <1>1. TaskInv(t) /\ t \in DOMAIN task /\ t \in DOMAIN req
    BY DEF SetupInv, Shapes
  <1>2. Frame(t)
    BY <1>1 DEF Frame, SetupInv, Shapes
  <1>3. /\ task'[t].pc = "idle" /\ task'[t].hit = h /\ task'[t].outcome = o
        /\ task'[t].todo = task[t].todo /\ task'[t].gen = task[t].gen /\ task'[t].retries = task[t].retries
        /\ task'[t].gone = task[t].gone /\ DOMAIN task'[t] = DOMAIN task[t]
        /\ req'[t] = NoRequest
    BY <1>1 DEF TaskInv, TaskShape, TaskFields
  <1>4. Mine(t) => Current(On[t])' >= Current(On[t]) /\ Current(On[t]) \in Nat /\ Current(On[t])' \in Nat
    BY OnMine DEF CellsStay, SetupInv, Shapes, Current
  <1>5. TaskShape(t)'
    <2>1. Mine(t) => task'[t].gen \in 1 .. Current(On[t])'
      BY <1>1, <1>3, <1>4 DEF TaskInv, TaskShape
    <2> QED
      BY <1>1, <1>3, <2>1 DEF TaskInv, TaskShape, Mine, NoRequest
  <1>6. CallsOk(t)'
    BY <1>1, <1>3 DEF TaskInv, CallsOk
  <1>7. Asking(t)'
    BY <1>3 DEF Asking, NoRequest
  <1>8. Blamed(t)'
    BY <1>3 DEF Blamed, NoRequest, Mine
  <1>9. LearnsNothing(t)
    BY <1>3 DEF LearnsNothing, Good
  <1> QED
    BY <1>2, <1>3, <1>5, <1>6, <1>7, <1>8, <1>9 DEF TaskInv

LEMMA KindOfRequest ==
  ASSUME NEW call, {"kind"} \subseteq DOMAIN call, "at" \notin DOMAIN call,
         call.kind \notin {"info", "put_db", "delete_db"}
  PROVE  /\ "kind" \in DOMAIN RequestOf(call) /\ "at" \notin DOMAIN RequestOf(call)
         /\ RequestOf(call).kind \notin {"info", "put_db", "delete_db"}
  BY DEF RequestOf

\* A task that knows the database to be there sends its request.
LEMMA SendCallStep ==
  ASSUME SetupInv, NEW t \in Task, Mine(t), task[t].pc \in {"setup", "looking", "creating"}, SendCall(t),
         deleted' = deleted, stale' = stale, CellsStay(t), \A a \in Adapter : Current(a)' = Current(a),
         cells'[On[t]][task[t].gen] = "set", Known(On[t], task[t].gen)
  PROVE  SetupInv'
  <1> DEFINE call == task[t].call
  <1>1. TaskInv(t) /\ t \in DOMAIN task /\ t \in DOMAIN req
    BY DEF SetupInv, Shapes
  <1>2. call.kind # "destroy" /\ "kind" \in DOMAIN call /\ "at" \notin DOMAIN call
        /\ call.kind \notin {"info", "put_db", "delete_db"}
    BY <1>1 DEF TaskInv, CallsOk
  <1>3. deleted => task[t].gone
    BY DEF SetupInv, Noted
  <1>4. On[t] \in Adapter /\ Current(On[t]) \in Nat /\ Current(On[t]) >= 1
    BY OnMine DEF SetupInv, Shapes, Current
  <1>5. CASE call.kind = "bulk" /\ Sent(call.docs) = <<>>
    <2>1. PICK o : Finish(t, o) /\ o.is = "ok"
      BY <1>5 DEF SendCall
    <2>2. task' = [task EXCEPT ![t].pc = "idle", ![t].hit = task[t].hit, ![t].outcome = o]
      BY <2>1, <1>1 DEF Finish, TaskInv, TaskShape, TaskFields
    <2>3. Frame(t) /\ LearnsNothing(t) /\ TaskInv(t)' /\ task'[t].pc = "idle"
      BY <2>1, <2>2, <1>1, Finished DEF Finish, TaskInv, TaskShape
    <2> QED
      BY <2>3, OneTaskQuietly
  <1>6. CASE call.kind = "remove_local"
    <2>1. /\ task' = [task EXCEPT ![t].pc = "setup", ![t].call.kind = "removing",
                                  ![t].gen = Len(cells[On[t]])]
          /\ req' = [req EXCEPT ![t] = NoRequest]
      BY <1>6 DEF SendCall
    <2>2. Frame(t)
      BY <1>1, <2>1 DEF Frame, SetupInv, Shapes
    <2>3. /\ task'[t].pc = "setup" /\ task'[t].gen = Current(On[t]) /\ req'[t] = NoRequest
          /\ task'[t].call = [call EXCEPT !.kind = "removing"]
          /\ \A f \in {"todo", "retries", "gone", "hit", "outcome"} : task'[t][f] = task[t][f]
          /\ DOMAIN task'[t] = DOMAIN task[t]
      BY <1>1, <2>1 DEF TaskInv, TaskShape, TaskFields, Current
    <2>4. task'[t].todo = task[t].todo /\ task'[t].retries = task[t].retries /\ task'[t].gone = task[t].gone
          /\ task'[t].hit = task[t].hit /\ task'[t].outcome = task[t].outcome
      BY <2>3
    <2>5. "kind" \in DOMAIN task'[t].call /\ "at" \notin DOMAIN task'[t].call /\ task'[t].call.kind = "removing"
      BY <1>2, <2>3
    <2>6. TaskShape(t)'
      <3>1. task'[t].gen \in 1 .. Current(On[t])'
        BY <1>4, <2>3
      <3> QED
        BY <1>1, <2>3, <2>4, <3>1 DEF TaskInv, TaskShape, Mine, NoRequest
    <2>7. CallsOk(t)'
      BY <1>1, <2>3, <2>4, <2>5 DEF TaskInv, CallsOk
    <2>8. Asking(t)'
      BY <2>3 DEF Asking, NoRequest
    <2>9. Blamed(t)'
      BY <1>1, <2>3, <2>4 DEF TaskInv, Blamed, NoRequest, Mine
    <2>10. LearnsNothing(t)
      BY <2>3 DEF LearnsNothing, Good
    <2> QED
      BY <1>3, <2>2, <2>3, <2>4, <2>6, <2>7, <2>8, <2>9, <2>10, OneTaskQuietly DEF TaskInv
  <1>7. CASE call.kind # "remove_local" /\ ~(call.kind = "bulk" /\ Sent(call.docs) = <<>>)
    <2>1. PICK pc \in {"locating", "call"} : Go(t, pc, RequestOf(call))
      BY <1>7 DEF SendCall
    <2>2. Frame(t)
      BY <1>1, <1>2, <2>1, SentIs, KindOfRequest DEF Frame, Go, SetupInv, Shapes
    <2>3. /\ req'[t].at = "sent" /\ {"kind", "at"} \subseteq DOMAIN req'[t]
          /\ req'[t].kind \notin {"info", "put_db", "delete_db"}
      BY <1>1, <1>2, <2>1, SentIs, KindOfRequest DEF Go, SetupInv, Shapes
    <2>4. /\ task'[t].pc = pc /\ task'[t].gen = task[t].gen /\ task'[t].call = call
          /\ task'[t].todo = task[t].todo /\ task'[t].retries = task[t].retries /\ task'[t].gone = task[t].gone
          /\ task'[t].hit = task[t].hit /\ task'[t].outcome = task[t].outcome
          /\ DOMAIN task'[t] = DOMAIN task[t]
      BY <1>1, <2>1 DEF Go, TaskInv, TaskShape, TaskFields
    <2>6. TaskShape(t)'
      <3>1. task'[t].gen \in 1 .. Current(On[t])'
        BY <1>1, <1>4, <2>4 DEF TaskInv, TaskShape
      <3> QED
        BY <1>1, <2>3, <2>4, <3>1 DEF TaskInv, TaskShape, Mine
    <2>7. CallsOk(t)'
      BY <1>1, <1>2, <2>4 DEF TaskInv, CallsOk
    <2>8. Asking(t)'
      BY <1>2, <2>3, <2>4 DEF Asking, Cell
    <2>9. Blamed(t)'
      BY <1>1, <2>3, <2>4 DEF TaskInv, Blamed, Mine
    <2>10. LearnsNothing(t)
      BY <2>4 DEF LearnsNothing, Good
    <2> QED
      BY <1>3, <2>2, <2>4, <2>6, <2>7, <2>8, <2>9, <2>10, OneTaskQuietly DEF TaskInv
  <1> QED
    BY <1>5, <1>6, <1>7

\* A step of task t that changes no cell.
LEMMA SameCells ==
  ASSUME SetupInv, NEW t \in Task, cells' = cells
  PROVE  CellsStay(t) /\ \A a \in Adapter : Current(a)' = Current(a)
  BY DEF CellsStay, SetupInv, Shapes, Current

\* The cell of task t, which it may change.
LEMMA OwnCell ==
  ASSUME SetupInv, NEW t \in Task, Mine(t), NEW s \in {"empty", "busy", "set"}, SetCell(t, s),
         Cell(t) = "empty" \/ task[t].pc \in {"looking", "creating"}
  PROVE  /\ CellsStay(t) /\ \A a \in Adapter : Current(a)' = Current(a)
         /\ cells'[On[t]][task[t].gen] = s
  <1> DEFINE a == On[t]
             g == task[t].gen
             c == [cells[a] EXCEPT ![g] = s]
  <1>1. a \in Adapter /\ g \in 1 .. Current(a)
    BY OnMine DEF SetupInv, TaskInv, TaskShape
  <1>2. cells \in [Adapter -> Seq({"empty", "busy", "set"})]
    BY DEF SetupInv, Shapes
  <1>3. cells' = [cells EXCEPT ![a] = c]
    BY DEF SetCell
  <1>4. cells[a] \in Seq({"empty", "busy", "set"}) /\ g \in 1 .. Len(cells[a])
    BY <1>1, <1>2 DEF Current
  <1>5. c \in Seq({"empty", "busy", "set"}) /\ Len(c) = Len(cells[a]) /\ c[g] = s
        /\ \A i \in 1 .. Len(cells[a]) : i # g => c[i] = cells[a][i]
    BY <1>4
  <1> HIDE DEF c, g, a
  <1>6. cells' \in [Adapter -> Seq({"empty", "busy", "set"})] /\ cells'[a] = c
        /\ \A b \in Adapter : b # a => cells'[b] = cells[b]
    BY <1>1, <1>2, <1>3, <1>5
  <1>7. \A b \in Adapter : Current(b)' = Current(b) /\ Current(b) \in Nat
    <2>1. \A b \in Adapter : Len(cells[b]) \in Nat
      BY <1>2
    <2>2. \A b \in Adapter : Len(cells'[b]) = Len(cells[b])
      BY <1>5, <1>6
    <2> QED
      BY <2>1, <2>2 DEF Current
  <1>8. \A b \in Adapter : \A i \in 1 .. Current(b) : cells'[b][i] = cells[b][i] \/ (b = a /\ i = g)
    BY <1>5, <1>6 DEF Current
  <1>9. CellsStay(t)
    BY <1>6, <1>7, <1>8 DEF CellsStay, a, g
  <1> QED
    BY <1>5, <1>6, <1>7, <1>9 DEF a, g

LEMMA BeginKeeps ==
  ASSUME SetupInv, NEW t \in Task, Begin(t)
  PROVE  SetupInv'
  <1> DEFINE call == Head(task[t].todo)
             own == On[t] = NoAdapter
  <1>1. TaskInv(t) /\ t \in DOMAIN task /\ t \in DOMAIN req /\ task[t].pc = "idle" /\ req[t] = NoRequest
    BY DEF SetupInv, Shapes, Begin, TaskInv, Asking
  <1>2. /\ task[t].todo \in Seq(AllCalls) /\ task[t].todo # <<>>
        /\ \A i \in 1 .. Len(task[t].todo) : CallOk(t, task[t].todo[i])
    BY <1>1 DEF TaskInv, CallsOk, Begin
  <1>3. CallOk(t, call)
    <2>1. Len(task[t].todo) >= 1 /\ Len(task[t].todo) \in Nat /\ call = task[t].todo[1]
      BY <1>2
    <2> QED
      BY <1>2, <2>1
  <1>4. Tail(task[t].todo) \in Seq(AllCalls)
        /\ \A i \in 1 .. Len(Tail(task[t].todo)) : CallOk(t, Tail(task[t].todo)[i])
    <2>1. \A i \in 1 .. Len(Tail(task[t].todo)) :
            i + 1 \in 1 .. Len(task[t].todo) /\ Tail(task[t].todo)[i] = task[t].todo[i + 1]
      BY <1>2
    <2>2. Tail(task[t].todo) \in Seq(AllCalls)
      BY <1>2
    <2> QED
      BY <1>2, <2>1, <2>2
  <1> DEFINE gone == ~own /\ stale[On[t]] /\ Last(cells[On[t]]) # "empty"
  <1>5. PICK pc \in {"call", "setup"} :
          task' = [task EXCEPT ![t] =
                     [[task[t] EXCEPT !.todo = Tail(@), !.call = call, !.retries = Retries, !.hit = FALSE,
                                      !.before = db, !.found = locals, !.gone = gone,
                                      !.outcome = [is |-> "none"], !.gen = IF own THEN 1 ELSE Len(cells[On[t]])]
                      EXCEPT !.pc = pc]]
          /\ \/ pc = "call" /\ (own \/ call.kind = "destroy") /\ Send(t, IF own THEN call ELSE DeleteDbRequest)
             \/ pc = "setup" /\ ~(own \/ call.kind = "destroy") /\ UNCHANGED req
    BY DEF Begin
  <1>6. /\ task' = [task EXCEPT ![t] = task'[t]]
        /\ task'[t].pc = pc /\ task'[t].gen = (IF own THEN 1 ELSE Len(cells[On[t]])) /\ task'[t].call = call
        /\ task'[t].todo = Tail(task[t].todo) /\ task'[t].retries = Retries /\ task'[t].gone = gone
        /\ task'[t].hit = FALSE /\ task'[t].outcome = [is |-> "none"]
        /\ DOMAIN task'[t] = DOMAIN task[t]
    BY <1>1, <1>5 DEF TaskInv, TaskShape, TaskFields
  <1> HIDE DEF gone
  <1>7. /\ DOMAIN req' = Task /\ \A u \in Task : u # t => req'[u] = req[u]
        /\ {"kind", "at"} \subseteq DOMAIN req'[t]
        /\ pc = "setup" => req'[t] = NoRequest /\ Mine(t) /\ call.kind # "destroy"
        /\ pc = "call" =>
             req'[t].at = "sent" /\ (Mine(t) => call.kind = "destroy" /\ req'[t].kind = "delete_db")
    <2>1. CASE pc = "setup"
      <3>1. req' = req /\ Mine(t) /\ call.kind # "destroy"
        BY <1>5, <2>1 DEF Mine
      <3>2. DOMAIN req' = Task /\ \A u \in Task : u # t => req'[u] = req[u]
        BY <3>1 DEF SetupInv, Shapes
      <3>3. {"kind", "at"} \subseteq DOMAIN req'[t]
        BY <1>1, <3>1 DEF NoRequest
      <3> QED
        BY <1>1, <2>1, <3>1, <3>2, <3>3
    <2>2. CASE pc = "call" /\ own
      BY <1>1, <1>3, <1>5, <2>2, SentIs DEF CallOk, SetupInv, Shapes, Mine
    <2>3. CASE pc = "call" /\ ~own
      <3>1. "kind" \in DOMAIN DeleteDbRequest /\ "at" \notin DOMAIN DeleteDbRequest
            /\ DeleteDbRequest.kind = "delete_db"
        BY DEF DeleteDbRequest
      <3>2. Send(t, DeleteDbRequest) /\ DOMAIN req = Task /\ call.kind = "destroy"
        BY <1>5, <2>3 DEF SetupInv, Shapes
      <3>3. req' = [req EXCEPT ![t] = req'[t]] /\ {"kind", "at"} \subseteq DOMAIN req'[t]
            /\ req'[t].at = "sent" /\ req'[t].kind = "delete_db"
        BY <3>1, <3>2, SentIs
      <3> QED
        BY <2>3, <3>2, <3>3
    <2> QED
      BY <2>1, <2>2, <2>3
  <1>8. Frame(t) /\ stale' = stale /\ cells' = cells
    BY <1>6, <1>7 DEF Frame, Begin, SetupInv, Shapes
  <1>9. Mine(t) => /\ On[t] \in Adapter /\ Current(On[t]) \in Nat /\ Current(On[t]) >= 1
                   /\ task'[t].gen = Current(On[t])
                   /\ gone = (stale[On[t]] /\ Last(cells[On[t]]) # "empty") /\ stale[On[t]] \in BOOLEAN
                   /\ cells[On[t]] \in Seq({"empty", "busy", "set"})
    BY <1>6, OnMine DEF SetupInv, Shapes, Current, Mine, gone
  <1>10. gone \in BOOLEAN
    BY <1>9 DEF gone, Mine
  <1>11. TaskShape(t)'
    <2>1. Mine(t) => task'[t].gen \in 1 .. Current(On[t])'
      <3>1. Mine(t) => Current(On[t])' = Current(On[t])
        BY <1>8 DEF Current
      <3> QED
        BY <1>9, <3>1
    <2>2. TaskFields \subseteq DOMAIN task'[t]
      BY <1>1, <1>6 DEF TaskInv, TaskShape
    <2>3. {task'[t].gone, task'[t].hit} \subseteq BOOLEAN /\ task'[t].retries \in Nat
      BY <1>6, <1>10, AdapterAssumption
    <2>4. task'[t].pc \in {"idle", "call"} \/ (Mine(t) /\ task'[t].pc = "setup")
      BY <1>6, <1>7
    <2> QED
      BY <1>7, <2>1, <2>2, <2>3, <2>4 DEF TaskShape, Mine
  <1>12. CallsOk(t)'
    BY <1>3, <1>4, <1>6, <1>7 DEF CallsOk, CallOk, Mine
  <1>13. Asking(t)'
    BY <1>6, <1>7 DEF Asking, NoRequest, Mine
  <1>14. Blamed(t)'
    BY <1>6, <1>7 DEF Blamed, NoRequest, Mine
  <1>15. LearnsNothing(t)
    BY <1>6, <1>8 DEF LearnsNothing, Good, Known
  <1>16. Mine(t) /\ deleted /\ Known(On[t], task[t].gen)' => task'[t].gone
    <2> SUFFICES ASSUME Mine(t), deleted, Known(On[t], task[t].gen)'
                 PROVE  gone
      BY <1>6
    <2>1. PICK g \in 1 .. Current(On[t]) : g = Current(On[t])
      BY <1>9
    <2>2. Known(On[t], g)'
      BY <1>9, <2>1 DEF Known
    <2>3. Known(On[t], Current(On[t]))
      BY <1>8, <1>9, <1>15, <2>1, <2>2, NothingLearnt, SameCells
    <2>4. stale[On[t]]
      BY <1>9, <2>3 DEF SetupInv, Noted
    <2>5. cells[On[t]][Len(cells[On[t]])] # "empty"
      BY <2>3 DEF Known, Current
    <2> QED
      BY <1>9, <2>4, <2>5 DEF Last
  <1> QED
    BY <1>6, <1>8, <1>11, <1>12, <1>13, <1>14, <1>15, <1>16, OneTaskQuietly, SameCells DEF TaskInv

LEMMA EnsureSetupKeeps ==
  ASSUME SetupInv, NEW t \in Task, EnsureSetup(t)
  PROVE  SetupInv'
  <1>1. TaskInv(t) /\ t \in DOMAIN task /\ t \in DOMAIN req /\ task[t].pc = "setup" /\ req[t] = NoRequest
        /\ deleted' = deleted
    BY DEF SetupInv, Shapes, EnsureSetup, TaskInv, Asking
  <1>2. Mine(t) /\ On[t] \in Adapter /\ task[t].gen \in 1 .. Current(On[t])
    BY <1>1, OnMine DEF TaskInv, TaskShape
  <1>3. stale \in [Adapter -> BOOLEAN]
    BY DEF SetupInv, Shapes
  <1>4. stale' = [stale EXCEPT ![On[t]] = @ /\ (Cell(t) = "set" \/ task[t].gen # Len(cells[On[t]]))]
    BY DEF EnsureSetup
  <1>5. CASE Cell(t) = "set" /\ SendCall(t) /\ UNCHANGED cells
    <2>1. stale' = stale
      BY <1>2, <1>3, <1>4, <1>5
    <2>2. cells'[On[t]][task[t].gen] = "set" /\ Known(On[t], task[t].gen)
      BY <1>5 DEF Cell, Known
    <2> QED
      BY <1>1, <1>2, <1>5, <2>1, <2>2, SendCallStep, SameCells
  <1>6. CASE Cell(t) = "empty" /\ SetCell(t, "busy") /\ Go(t, "looking", InfoRequest)
    <2>1. CellsStay(t) /\ cells'[On[t]][task[t].gen] = "busy" /\ \A a \in Adapter : Current(a)' = Current(a)
      BY <1>2, <1>6, OwnCell
    <2>2. "kind" \in DOMAIN InfoRequest /\ "at" \notin DOMAIN InfoRequest /\ InfoRequest.kind = "info"
      BY DEF InfoRequest
    <2>3. DOMAIN req = Task /\ Send(t, InfoRequest)
      BY <1>6 DEF Go, SetupInv, Shapes
    <2>4. req' = [req EXCEPT ![t] = req'[t]] /\ {"kind", "at"} \subseteq DOMAIN req'[t]
          /\ req'[t].at = "sent" /\ req'[t].kind = "info"
      BY <2>2, <2>3, SentIs
    <2>5. /\ task'[t].pc = "looking" /\ task'[t].gen = task[t].gen /\ task'[t].call = task[t].call
          /\ task'[t].todo = task[t].todo /\ task'[t].retries = task[t].retries /\ task'[t].gone = task[t].gone
          /\ task'[t].hit = task[t].hit /\ task'[t].outcome = task[t].outcome
          /\ DOMAIN task'[t] = DOMAIN task[t]
      BY <1>1, <1>6 DEF Go, TaskInv, TaskShape, TaskFields
    <2>6. Frame(t)
      BY <1>1, <1>6, <2>4 DEF Frame, Go, SetupInv, Shapes
    <2>7. TaskShape(t)'
      <3>1. task'[t].gen \in 1 .. Current(On[t])'
        BY <1>2, <2>1, <2>5
      <3> QED
        BY <1>1, <1>2, <2>4, <2>5, <3>1 DEF TaskInv, TaskShape, Mine
    <2>8. CallsOk(t)'
      BY <1>1, <2>5 DEF TaskInv, CallsOk
    <2>9. Asking(t)'
      BY <2>4, <2>5 DEF Asking
    <2>10. Blamed(t)'
      BY <1>1, <2>4, <2>5 DEF TaskInv, Blamed, Mine
    <2>11. LearnsNothing(t)
      BY <2>1, <2>4, <2>5 DEF LearnsNothing, Good
    <2>12. stale' \in [Adapter -> BOOLEAN] /\ \A a \in Adapter : a # On[t] => stale'[a] = stale[a]
      BY <1>2, <1>3, <1>4
    <2>13. Cell(t) = "empty" => ~Known(On[t], task[t].gen)
      BY DEF Known, Cell
    <2>14. ~Known(On[t], task[t].gen)'
      <3> SUFFICES ASSUME Known(On[t], task[t].gen)'
                   PROVE  FALSE
        OBVIOUS
      <3>1. PICK g \in 1 .. Current(On[t]) : g = task[t].gen
        BY <1>2
      <3>2. Known(On[t], g)'
        BY <2>5, <3>1 DEF Known
      <3>3. Known(On[t], task[t].gen)
        BY <1>2, <2>1, <2>6, <2>11, <3>1, <3>2, NothingLearnt
      <3> QED
        BY <1>6, <2>13, <3>3
    <2>15. ASSUME NEW a \in Adapter, deleted, Known(a, Current(a))'
           PROVE  stale'[a]
      <3>1. Current(a) \in 1 .. Current(a)
        BY DEF SetupInv, Shapes, Current
      <3>2. PICK g \in 1 .. Current(a) : g = Current(a)
        BY <3>1
      <3>3. Known(a, g)'
        BY <2>1, <2>15, <3>2 DEF Known
      <3>4. Known(a, Current(a))
        BY <2>1, <2>6, <2>11, <3>2, <3>3, NothingLearnt
      <3>5. stale[a]
        BY <2>15, <3>4 DEF SetupInv, Noted
      <3>6. CASE a = On[t] /\ task[t].gen = Current(a)
        BY <1>6, <2>13, <3>4, <3>6
      <3>7. CASE ~(a = On[t] /\ task[t].gen = Current(a))
        BY <1>2, <1>3, <1>4, <3>5, <3>7 DEF Current
      <3> QED
        BY <3>6, <3>7
    <2>16. TaskInv(t)'
      BY <2>7, <2>8, <2>9, <2>10 DEF TaskInv
    <2> QED
      BY <1>2, <1>6, <2>1, <2>5, <2>6, <2>11, <2>12, <2>14, <2>15, <2>16, OneTask
  <1> QED
    BY <1>5, <1>6 DEF EnsureSetup

LEMMA RetryKeeps ==
  ASSUME SetupInv, NEW t \in Task, Retry(t)
  PROVE  SetupInv'
  <1>1. TaskInv(t) /\ t \in DOMAIN task /\ t \in DOMAIN req /\ Mine(t)
        /\ deleted' = deleted /\ cells' = cells /\ stale' = stale
        /\ req[t].at = "answered" /\ req[t].answer.status = 500 /\ task[t].retries > 0
        /\ req[t].kind \in {"info", "put_db", "delete_db"}
    BY DEF SetupInv, Shapes, Retry, Retried, AboutDb, Mine
  <1> DEFINE r == [kind |-> req[t].kind]
  <1>2. "kind" \in DOMAIN r /\ "at" \notin DOMAIN r /\ r.kind = req[t].kind
    OBVIOUS
  <1>3. DOMAIN req = Task /\ Send(t, r)
    BY DEF Retry, SetupInv, Shapes
  <1> HIDE DEF r
  <1>4. req' = [req EXCEPT ![t] = req'[t]] /\ {"kind", "at"} \subseteq DOMAIN req'[t]
        /\ req'[t].at = "sent" /\ req'[t].kind = req[t].kind
    BY <1>2, <1>3, SentIs
  <1>5. task' = [task EXCEPT ![t].retries = @ - 1]
    BY DEF Retry
  <1>6. /\ task'[t].pc = task[t].pc /\ task'[t].gen = task[t].gen /\ task'[t].call = task[t].call
        /\ task'[t].todo = task[t].todo /\ task'[t].retries = task[t].retries - 1
        /\ task'[t].gone = task[t].gone
        /\ task'[t].hit = task[t].hit /\ task'[t].outcome = task[t].outcome
        /\ DOMAIN task'[t] = DOMAIN task[t]
    BY <1>1, <1>5 DEF TaskInv, TaskShape, TaskFields
  <1>7. Frame(t)
    BY <1>1, <1>4, <1>5 DEF Frame, SetupInv, Shapes
  <1>8. TaskShape(t)'
    <2>1. Mine(t) => task'[t].gen \in 1 .. Current(On[t])'
      BY <1>1, <1>6 DEF TaskInv, TaskShape, Current
    <2>2. task'[t].retries \in Nat
      BY <1>1, <1>6 DEF TaskInv, TaskShape
    <2> QED
      BY <1>1, <1>4, <1>6, <2>1, <2>2 DEF TaskInv, TaskShape, Mine
  <1>9. CallsOk(t)'
    BY <1>1, <1>6 DEF TaskInv, CallsOk
  <1>10. Asking(t)'
    BY <1>1, <1>4, <1>6 DEF TaskInv, Asking, Cell, Mine, NoRequest
  <1>11. Blamed(t)'
    BY <1>1, <1>4, <1>6 DEF TaskInv, Blamed, Mine
  <1>12. LearnsNothing(t)
    BY <1>1, <1>4, <1>6 DEF LearnsNothing, Good, Known
  <1>13. Mine(t) /\ task'[t].pc # "idle" /\ deleted /\ Known(On[t], task[t].gen)' => task'[t].gone
    <2> SUFFICES ASSUME task[t].pc # "idle", deleted, Known(On[t], task[t].gen)'
                 PROVE  task[t].gone
      BY <1>6
    <2>1. PICK g \in 1 .. Current(On[t]) : g = task[t].gen
      BY <1>1 DEF TaskInv, TaskShape
    <2>2. Known(On[t], g)'
      BY <1>6, <2>1 DEF Known
    <2>3. Known(On[t], task[t].gen)
      BY <1>1, <1>7, <1>12, <2>1, <2>2, NothingLearnt, SameCells, OnMine
    <2> QED
      BY <1>1, <2>3 DEF SetupInv, Noted
  <1>14. task'[t].pc \in {"looking", "creating"} =>
           cells'[On[t]][task[t].gen] = "busy" /\ task[t].pc \in {"looking", "creating"}
    BY <1>1, <1>6 DEF SetupInv, Alone, Cell
  <1>15. TaskInv(t)'
    BY <1>8, <1>9, <1>10, <1>11 DEF TaskInv
  <1> QED
    BY <1>1, <1>6, <1>7, <1>12, <1>13, <1>14, <1>15, OneTaskQuietly, SameCells

\* A step that finishes the call of task t, with no new cell.
LEMMA FinishKeeps ==
  ASSUME SetupInv, NEW t \in Task, NEW h \in BOOLEAN, NEW o,
         task' = [task EXCEPT ![t].pc = "idle", ![t].hit = h, ![t].outcome = o],
         req' = [req EXCEPT ![t] = NoRequest], deleted' = deleted, stale' = stale,
         CellsStay(t), \A a \in Adapter : Current(a)' = Current(a),
         Mine(t) /\ cells'[On[t]][task[t].gen] = "set" => Known(On[t], task[t].gen),
         Mine(t) /\ o.is = "missing" => task[t].gone,
         Mine(t) /\ o.is = "error" => h
  PROVE  SetupInv'
  <1>1. Frame(t) /\ LearnsNothing(t) /\ TaskInv(t)' /\ task'[t].pc = "idle"
    BY Finished
  <1> QED
    BY <1>1, OneTaskQuietly

\* A task without a fault's help.
LEMMA FinishIs ==
  ASSUME SetupInv, NEW t \in Task, NEW o, Finish(t, o)
  PROVE  /\ task' = [task EXCEPT ![t].pc = "idle", ![t].hit = task[t].hit, ![t].outcome = o]
         /\ req' = [req EXCEPT ![t] = NoRequest] /\ task[t].hit \in BOOLEAN
  <1>1. TaskInv(t) /\ t \in DOMAIN task
    BY DEF SetupInv, Shapes
  <1> QED
    BY <1>1 DEF Finish, TaskInv, TaskShape, TaskFields

LEMMA LookedKeeps ==
  ASSUME SetupInv, NEW t \in Task, Looked(t)
  PROVE  SetupInv'
  <1>1. TaskInv(t) /\ t \in DOMAIN task /\ t \in DOMAIN req /\ task[t].pc = "looking" /\ req[t].at = "answered"
        /\ deleted' = deleted /\ stale' = stale /\ ~Retried(t)
    BY DEF SetupInv, Shapes, Looked, Answered, Received
  <1>2. Mine(t) /\ On[t] \in Adapter /\ task[t].gen \in 1 .. Current(On[t]) /\ Cell(t) = "busy"
    BY <1>1, OnMine DEF TaskInv, TaskShape, SetupInv, Alone
  <1>3. req[t].kind = "info" /\ req[t].answer.status \in {200, 404, 500}
    BY <1>1 DEF TaskInv, Asking
  <1>4. CASE req[t].answer.status = 200
    <2>1. SetCell(t, "set") /\ SendCall(t)
      BY <1>4 DEF Looked
    <2>2. CellsStay(t) /\ cells'[On[t]][task[t].gen] = "set" /\ \A a \in Adapter : Current(a)' = Current(a)
      BY <1>1, <1>2, <2>1, OwnCell
    <2>3. Known(On[t], task[t].gen)
      BY <1>1, <1>2, <1>4 DEF Known, Good, Cell
    <2> QED
      BY <1>1, <1>2, <2>1, <2>2, <2>3, SendCallStep
  <1>5. CASE req[t].answer.status = 404
    <2>1. task' = [task EXCEPT ![t].pc = "creating", ![t].retries = Retries] /\ Send(t, PutDbRequest)
          /\ UNCHANGED cells
      BY <1>5 DEF Looked
    <2>2. "kind" \in DOMAIN PutDbRequest /\ "at" \notin DOMAIN PutDbRequest /\ PutDbRequest.kind = "put_db"
      BY DEF PutDbRequest
    <2>3. DOMAIN req = Task
      BY DEF SetupInv, Shapes
    <2>4. req' = [req EXCEPT ![t] = req'[t]] /\ {"kind", "at"} \subseteq DOMAIN req'[t]
          /\ req'[t].at = "sent" /\ req'[t].kind = "put_db"
      BY <2>1, <2>2, <2>3, SentIs
    <2>5. /\ task'[t].pc = "creating" /\ task'[t].gen = task[t].gen /\ task'[t].call = task[t].call
          /\ task'[t].todo = task[t].todo /\ task'[t].retries = Retries /\ task'[t].gone = task[t].gone
          /\ task'[t].hit = task[t].hit /\ task'[t].outcome = task[t].outcome
          /\ DOMAIN task'[t] = DOMAIN task[t]
      BY <1>1, <2>1 DEF TaskInv, TaskShape, TaskFields
    <2>6. Frame(t)
      BY <1>1, <2>1, <2>4 DEF Frame, SetupInv, Shapes
    <2>7. TaskShape(t)'
      <3>1. task'[t].gen \in 1 .. Current(On[t])'
        BY <1>2, <2>1, <2>5 DEF Current
      <3> QED
        BY <1>1, <1>2, <2>4, <2>5, <3>1, AdapterAssumption DEF TaskInv, TaskShape, Mine
    <2>8. CallsOk(t)'
      BY <1>1, <2>5 DEF TaskInv, CallsOk
    <2>9. Asking(t)'
      BY <2>4, <2>5 DEF Asking
    <2>10. Blamed(t)'
      BY <1>1, <2>4, <2>5 DEF TaskInv, Blamed, Mine
    <2>11. LearnsNothing(t)
      BY <2>1, <2>4, <2>5 DEF LearnsNothing, Good, Known
    <2>12. CellsStay(t) /\ \A a \in Adapter : Current(a)' = Current(a)
      BY <2>1, SameCells
    <2>13. deleted /\ Known(On[t], task[t].gen)' => task'[t].gone
      <3> SUFFICES ASSUME deleted, Known(On[t], task[t].gen)'
                   PROVE  task[t].gone
        BY <2>5
      <3>1. PICK g \in 1 .. Current(On[t]) : g = task[t].gen
        BY <1>2
      <3>2. Known(On[t], g)'
        BY <2>5, <3>1 DEF Known
      <3>3. Known(On[t], task[t].gen)
        BY <1>2, <2>6, <2>11, <2>12, <3>1, <3>2, NothingLearnt
      <3> QED
        BY <1>1, <1>2, <3>3 DEF SetupInv, Noted
    <2>14. TaskInv(t)' /\ cells'[On[t]][task[t].gen] = "busy"
      BY <1>2, <2>1, <2>7, <2>8, <2>9, <2>10 DEF TaskInv, Cell
    <2> QED
      BY <1>1, <1>2, <2>5, <2>6, <2>11, <2>12, <2>13, <2>14, OneTaskQuietly
  <1>6. CASE req[t].answer.status = 500
    <2> DEFINE o == [is |-> "error"]
    <2>1. SetCell(t, "empty") /\ Finish(t, o)
      BY <1>6 DEF Looked
    <2>2. CellsStay(t) /\ cells'[On[t]][task[t].gen] = "empty" /\ \A a \in Adapter : Current(a)' = Current(a)
      BY <1>1, <1>2, <2>1, OwnCell
    <2>3. task[t].retries \in Nat /\ ~(task[t].retries > 0)
      BY <1>1, <1>6 DEF TaskInv, TaskShape, Retried
    <2>4. task[t].hit
      BY <1>1, <1>6, <2>3 DEF TaskInv, Blamed
    <2>6. o.is = "error"
      OBVIOUS
    <2> HIDE DEF o
    <2>5. /\ task' = [task EXCEPT ![t].pc = "idle", ![t].hit = task[t].hit, ![t].outcome = o]
          /\ req' = [req EXCEPT ![t] = NoRequest] /\ task[t].hit \in BOOLEAN
      BY <2>1, FinishIs
    <2> QED
      BY <1>1, <2>2, <2>4, <2>5, <2>6, FinishKeeps
  <1> QED
    BY <1>3, <1>4, <1>5, <1>6

LEMMA CreatedKeeps ==
  ASSUME SetupInv, NEW t \in Task, Created(t)
  PROVE  SetupInv'
  <1>1. TaskInv(t) /\ task[t].pc = "creating" /\ req[t].at = "answered" /\ deleted' = deleted /\ stale' = stale
    BY DEF SetupInv, Shapes, Created, Answered, Received
  <1>2. Mine(t) /\ Cell(t) = "busy"
    BY <1>1 DEF TaskInv, TaskShape, SetupInv, Alone
  <1>3. req[t].answer.status \in {201, 412}
    BY <1>1 DEF TaskInv, Asking
  <1>4. SetCell(t, "set") /\ SendCall(t)
    BY <1>3 DEF Created
  <1>5. CellsStay(t) /\ cells'[On[t]][task[t].gen] = "set" /\ \A a \in Adapter : Current(a)' = Current(a)
    BY <1>1, <1>2, <1>4, OwnCell
  <1>6. Known(On[t], task[t].gen)
    BY <1>1, <1>2 DEF Known, Good, Cell
  <1> QED
    BY <1>1, <1>2, <1>4, <1>5, <1>6, SendCallStep

\* The answer to a call tells its outcome.
LEMMA AnswerTells ==
  ASSUME SetupInv, NEW t \in Task, task[t].pc \in {"call", "locating"}, req[t].at = "answered",
         Mine(t), NEW o, o = OutcomeOf(task[t].call, req[t].answer),
         task[t].call.kind # "destroy" \/ (req[t].answer.status # 404 /\ ~Retried(t))
  PROVE  /\ o.is = "missing" => task[t].gone
         /\ o.is = "error" => task[t].hit
  <1>1. TaskInv(t)
    BY DEF SetupInv
  <1>2. task[t].retries \in Nat /\ Asking(t) /\ Blamed(t)
    BY <1>1 DEF TaskInv, TaskShape
  <1>3. ASSUME o.is = "missing"
        PROVE  task[t].gone
    <2>1. req[t].answer = NoDatabase /\ req[t].answer.status = 404
      BY <1>3, OutcomeIs DEF NoDatabase
    <2> QED
      BY <1>2, <2>1 DEF Blamed
  <1>4. ASSUME o.is = "error"
        PROVE  task[t].hit
    <2>1. req[t].answer.status = 500
      BY <1>4, OutcomeIs
    <2>2. CASE task[t].call.kind = "destroy"
      BY <1>2, <2>1, <2>2 DEF Blamed, Retried
    <2>3. CASE task[t].call.kind # "destroy"
      <3>1. ~AboutDb(t)
        BY <1>2, <2>3 DEF Asking, AboutDb
      <3> QED
        BY <1>2, <2>1, <3>1 DEF Blamed
    <2> QED
      BY <2>2, <2>3
  <1> QED
    BY <1>3, <1>4

LEMMA LocatedKeeps ==
  ASSUME SetupInv, NEW t \in Task, Located(t)
  PROVE  SetupInv'
  <1>1. TaskInv(t) /\ t \in DOMAIN task /\ t \in DOMAIN req /\ task[t].pc = "locating"
        /\ req[t].at = "answered" /\ deleted' = deleted /\ stale' = stale /\ cells' = cells
    BY DEF SetupInv, Shapes, Located, Answered, Received
  <1>2. Mine(t) /\ On[t] \in Adapter /\ task[t].gen \in 1 .. Current(On[t])
    BY <1>1, OnMine DEF TaskInv, TaskShape
  <1>3. task[t].call.kind # "destroy" /\ Cell(t) = "set"
    BY <1>1, <1>2 DEF TaskInv, Asking
  <1>4. Known(On[t], task[t].gen)
    BY <1>3 DEF Known, Cell
  <1>5. CASE Success(req[t].answer)
    <2> DEFINE r == [kind |-> "delete_local", id |-> task[t].call.id]
    <2>1. Go(t, "call", r)
      BY <1>5 DEF Located
    <2>2. "kind" \in DOMAIN r /\ "at" \notin DOMAIN r /\ r.kind = "delete_local"
      OBVIOUS
    <2> HIDE DEF r
    <2>3. DOMAIN req = Task /\ Send(t, r) /\ task' = [task EXCEPT ![t].pc = "call"]
      BY <2>1 DEF Go, SetupInv, Shapes
    <2>4. req' = [req EXCEPT ![t] = req'[t]] /\ {"kind", "at"} \subseteq DOMAIN req'[t]
          /\ req'[t].at = "sent" /\ req'[t].kind = "delete_local"
      BY <2>2, <2>3, SentIs
    <2>5. /\ task'[t].pc = "call" /\ task'[t].gen = task[t].gen /\ task'[t].call = task[t].call
          /\ task'[t].todo = task[t].todo /\ task'[t].retries = task[t].retries /\ task'[t].gone = task[t].gone
          /\ task'[t].hit = task[t].hit /\ task'[t].outcome = task[t].outcome
          /\ DOMAIN task'[t] = DOMAIN task[t]
      BY <1>1, <2>3 DEF TaskInv, TaskShape, TaskFields
    <2>6. Frame(t)
      BY <1>1, <2>3, <2>4 DEF Frame, SetupInv, Shapes
    <2>7. TaskShape(t)'
      <3>1. task'[t].gen \in 1 .. Current(On[t])'
        BY <1>1, <1>2, <2>5 DEF Current
      <3> QED
        BY <1>1, <1>2, <2>4, <2>5, <3>1 DEF TaskInv, TaskShape, Mine
    <2>8. CallsOk(t)'
      BY <1>1, <2>5 DEF TaskInv, CallsOk
    <2>9. Asking(t)'
      BY <1>1, <1>3, <2>4, <2>5 DEF Asking, Cell
    <2>10. Blamed(t)'
      BY <1>1, <2>4, <2>5 DEF TaskInv, Blamed, Mine
    <2>11. LearnsNothing(t)
      BY <1>4, <2>5 DEF LearnsNothing, Good
    <2>12. deleted => task'[t].gone
      BY <1>1, <1>2, <1>4, <2>5 DEF SetupInv, Noted
    <2>13. TaskInv(t)'
      BY <2>7, <2>8, <2>9, <2>10 DEF TaskInv
    <2> QED
      BY <1>1, <2>5, <2>6, <2>11, <2>12, <2>13, OneTaskQuietly, SameCells
  <1>6. CASE ~Success(req[t].answer)
    <2> DEFINE o == OutcomeOf(task[t].call, req[t].answer)
    <2>1. Finish(t, o)
      BY <1>6 DEF Located
    <2>2. (o.is = "missing" => task[t].gone) /\ (o.is = "error" => task[t].hit)
      BY <1>1, <1>2, <1>3, AnswerTells
    <2> HIDE DEF o
    <2>3. /\ task' = [task EXCEPT ![t].pc = "idle", ![t].hit = task[t].hit, ![t].outcome = o]
          /\ req' = [req EXCEPT ![t] = NoRequest] /\ task[t].hit \in BOOLEAN
      BY <2>1, FinishIs
    <2> QED
      BY <1>1, <1>4, <2>2, <2>3, FinishKeeps, SameCells
  <1> QED
    BY <1>5, <1>6

LEMMA DoneKeeps ==
  ASSUME SetupInv, NEW t \in Task, Done(t)
  PROVE  SetupInv'
  <1> DEFINE ans  == req[t].answer
             mine == task[t].call.kind = "destroy"
             o    == OutcomeOf(task[t].call, ans)
  <1>1. TaskInv(t) /\ t \in DOMAIN task /\ t \in DOMAIN req /\ task[t].pc = "call"
        /\ req[t].at = "answered" /\ deleted' = deleted /\ ~(mine /\ Retried(t))
    BY DEF SetupInv, Shapes, Done, Answered, Received
  <1>2. CASE mine /\ (Success(ans) \/ ans.status = 404)
    <2>1. /\ cells' = [cells EXCEPT ![On[t]] = Append(@, "empty")]
          /\ stale' = [stale EXCEPT ![On[t]] = FALSE]
          /\ Finish(t, [is |-> "ok"])
      BY <1>2 DEF Done
    <2> DEFINE p == [is |-> "ok"]
    <2>0. p.is = "ok" /\ Finish(t, p)
      BY <2>1
    <2> HIDE DEF p
    <2>2. cells \in [Adapter -> Seq({"empty", "busy", "set"})] /\ stale \in [Adapter -> BOOLEAN]
          /\ \A a \in Adapter : Len(cells[a]) \in Nat
      BY DEF SetupInv, Shapes
    <2>3. \A a \in Adapter : a # On[t] => cells'[a] = cells[a] /\ stale'[a] = stale[a]
      BY <2>1, <2>2
    <2>4. ASSUME On[t] \in Adapter
          PROVE  /\ Len(cells'[On[t]]) = Len(cells[On[t]]) + 1
                 /\ cells'[On[t]] \in Seq({"empty", "busy", "set"})
                 /\ cells'[On[t]][Len(cells[On[t]]) + 1] = "empty"
                 /\ \A g \in 1 .. Len(cells[On[t]]) : cells'[On[t]][g] = cells[On[t]][g]
      <3>1. cells'[On[t]] = Append(cells[On[t]], "empty") /\ cells[On[t]] \in Seq({"empty", "busy", "set"})
        BY <2>1, <2>2, <2>4
      <3> QED
        BY <3>1
    <2>5. cells' \in [Adapter -> Seq({"empty", "busy", "set"})]
      BY <2>1, <2>2, <2>3, <2>4
    <2>6. CellsStay(t)
      <3>1. \A a \in Adapter : Current(a)' >= Current(a) /\ \A g \in 1 .. Current(a) : cells'[a][g] = cells[a][g]
        BY <2>2, <2>3, <2>4 DEF Current
      <3> QED
        BY <2>5, <3>1 DEF CellsStay
    <2>7. Mine(t) /\ cells'[On[t]][task[t].gen] = "set" => Known(On[t], task[t].gen)
      <3>1. Mine(t) => On[t] \in Adapter /\ task[t].gen \in 1 .. Len(cells[On[t]])
        BY <1>1, OnMine DEF TaskInv, TaskShape, Current
      <3> QED
        BY <2>4, <3>1 DEF Known
    <2>8. Frame(t) /\ LearnsNothing(t) /\ TaskInv(t)' /\ task'[t].pc = "idle"
      <3>1. /\ task' = [task EXCEPT ![t].pc = "idle", ![t].hit = task[t].hit, ![t].outcome = p]
            /\ req' = [req EXCEPT ![t] = NoRequest] /\ task[t].hit \in BOOLEAN
        BY <2>0, FinishIs
      <3> QED
        BY <1>1, <2>0, <2>6, <2>7, <3>1, Finished
    <2>9. stale' \in [Adapter -> BOOLEAN]
      BY <2>1, <2>2
    <2>10. ASSUME NEW a \in Adapter, deleted, Known(a, Current(a))'
           PROVE  stale'[a]
      <3>1. a # On[t]
        BY <2>2, <2>4, <2>10 DEF Known, Current
      <3>2. Current(a)' = Current(a)
        BY <2>3, <3>1 DEF Current
      <3>3. PICK g \in 1 .. Current(a) : g = Current(a)
        BY DEF SetupInv, Shapes, Current
      <3>4. Known(a, g)'
        BY <2>10, <3>2, <3>3 DEF Known
      <3>5. Known(a, Current(a))
        BY <2>6, <2>8, <3>3, <3>4, NothingLearnt
      <3> QED
        BY <2>3, <2>10, <3>1, <3>5 DEF SetupInv, Noted
    <2> QED
      BY <2>6, <2>8, <2>9, <2>10, OneTask
  <1>3. CASE ~(mine /\ (Success(ans) \/ ans.status = 404))
    <2>1. Finish(t, o) /\ cells' = cells /\ stale' = stale
      BY <1>3 DEF Done
    <2>2. Mine(t) => (o.is = "missing" => task[t].gone) /\ (o.is = "error" => task[t].hit)
      BY <1>1, <1>3, AnswerTells
    <2> HIDE DEF o
    <2>3. Mine(t) /\ cells'[On[t]][task[t].gen] = "set" => Known(On[t], task[t].gen)
      BY <2>1 DEF Known
    <2>4. /\ task' = [task EXCEPT ![t].pc = "idle", ![t].hit = task[t].hit, ![t].outcome = o]
          /\ req' = [req EXCEPT ![t] = NoRequest] /\ task[t].hit \in BOOLEAN
      BY <2>1, FinishIs
    <2> QED
      BY <1>1, <2>1, <2>2, <2>3, <2>4, FinishKeeps, SameCells
  <1> QED
    BY <1>2, <1>3

LEMMA LoseKeeps ==
  ASSUME SetupInv, NEW t \in Task, Lose(t)
  PROVE  SetupInv'
  <1> DEFINE o == [is |-> "error"]
  <1>1. TaskInv(t) /\ deleted' = deleted /\ stale' = stale
    BY DEF SetupInv, Lose, Broken
  <1>2. /\ task' = [task EXCEPT ![t].pc = "idle", ![t].hit = TRUE, ![t].outcome = o]
        /\ req' = [req EXCEPT ![t] = NoRequest] /\ o.is = "error"
    BY DEF Lose
  <1> HIDE DEF o
  <1>3. CASE task[t].pc \in {"looking", "creating"}
    <2>1. Mine(t) /\ SetCell(t, "empty")
      BY <1>1, <1>3 DEF TaskInv, TaskShape, Lose, SetCell
    <2>2. CellsStay(t) /\ cells'[On[t]][task[t].gen] = "empty" /\ \A a \in Adapter : Current(a)' = Current(a)
      BY <1>3, <2>1, OwnCell
    <2> QED
      BY <1>1, <1>2, <2>2, FinishKeeps
  <1>4. CASE task[t].pc \notin {"looking", "creating"}
    <2>1. cells' = cells
      BY <1>4 DEF Lose
    <2>2. Mine(t) /\ cells'[On[t]][task[t].gen] = "set" => Known(On[t], task[t].gen)
      BY <2>1 DEF Known
    <2> QED
      BY <1>1, <1>2, <2>1, <2>2, FinishKeeps, SameCells
  <1> QED
    BY <1>3, <1>4

\* The parts of the invariant when a handler of task t goes on or fails: the
\* request of t moves on, and a deletion is noted.
LEMMA HandlerKeeps ==
  ASSUME SetupInv, NEW t \in Task, cells' = cells,
         Moves(t), {"kind", "at"} \subseteq DOMAIN req'[t], req'[t].kind = req[t].kind,
         DOMAIN task' = Task, deleted' \in BOOLEAN, stale' \in [Adapter -> BOOLEAN],
         \A u \in Task :
           /\ DOMAIN task'[u] = DOMAIN task[u]
           /\ task'[u].pc = task[u].pc /\ task'[u].gen = task[u].gen /\ task'[u].call = task[u].call
           /\ task'[u].todo = task[u].todo /\ task'[u].retries = task[u].retries
           /\ task'[u].outcome = task[u].outcome
           /\ task'[u].gone \in BOOLEAN /\ (task[u].gone => task'[u].gone)
           /\ task'[u].hit \in BOOLEAN /\ (task[u].hit => task'[u].hit),
         Asking(t)', Blamed(t)', Noted'
  PROVE  SetupInv'
  <1>1. \A u \in Task : u # t => req'[u] = req[u]
    BY DEF Moves, SetupInv, Shapes
  <1>2. DOMAIN req' = Task
    BY DEF Moves, SetupInv, Shapes
  <1>3. Shapes'
    BY <1>2 DEF SetupInv, Shapes, Current
  <1>4. Alone'
    BY DEF SetupInv, Alone, Cell
  <1>5. ASSUME NEW u \in Task
        PROVE  TaskInv(u)'
    <2>1. TaskInv(u)
      BY DEF SetupInv
    <2>2. TaskShape(u)'
      BY <1>1, <2>1 DEF TaskInv, TaskShape, Mine, Current
    <2>3. CallsOk(u)'
      BY <2>1 DEF TaskInv, CallsOk
    <2>4. Asking(u)'
      <3>1. CASE u # t
        BY <1>1, <2>1, <3>1 DEF TaskInv, Asking, Mine, Cell, NoRequest
      <3> QED
        BY <3>1
    <2>5. Blamed(u)'
      <3>1. CASE u # t
        BY <1>1, <2>1, <3>1 DEF TaskInv, Blamed, Mine, AboutDb, NoDatabase
      <3> QED
        BY <3>1
    <2> QED
      BY <2>2, <2>3, <2>4, <2>5 DEF TaskInv
  <1> QED
    BY <1>3, <1>4, <1>5 DEF SetupInv

\* The answer of a handler one of whose calls fails: it is not that there is no
\* database, and a task that sets up hears of the failure.
LEMMA AnswersOfAFailure ==
  ASSUME NEW t \in Task, TaskInv(t), deleted \in BOOLEAN, Fail(t)
  PROVE  \E a : /\ Answer(t, a) /\ a # NoDatabase /\ (deleted' => deleted) /\ deleted' \in BOOLEAN
                /\ req[t].at \notin {"none", "sent", "answered"}
                /\ task[t].pc \in {"looking", "creating"} => a.status = 500
  <1>1. CASE HandlerFails(t)
    <2>1. /\ Answer(t, Status(500)) /\ req[t].at \notin {"none", "sent", "answered"}
          /\ (deleted' => deleted) /\ deleted' \in BOOLEAN
      BY <1>1 DEF HandlerFails, Handling
    <2> QED
      BY <2>1, StatusIs
  <1>2. CASE FailureSwallowed(t)
    <2>1. req[t].at \in {"unmade", "absent"} /\ deleted' = deleted
      BY <1>2 DEF FailureSwallowed, LooksWhy
    <2>2. task[t].pc \notin {"looking", "creating"}
      BY <2>1 DEF TaskInv, Asking
    <2>3. Answer(t, Status(req[t].was)) \/ Answer(t, Missing)
      BY <1>2 DEF FailureSwallowed
    <2>4. Missing # NoDatabase
      BY OtherAnswers DEF Missing
    <2> QED
      BY <2>1, <2>2, <2>3, <2>4, StatusIs
  <1> QED
    BY <1>1, <1>2 DEF Fail

LEMMA FailKeeps ==
  ASSUME SetupInv, NEW t \in Task, Fail(t)
  PROVE  SetupInv'
  <1>0. TaskInv(t) /\ t \in DOMAIN task /\ DOMAIN req = Task /\ cells' = cells /\ stale' = stale
    BY DEF SetupInv, Shapes, Fail
  <1>a. PICK ans : /\ Answer(t, ans) /\ ans # NoDatabase /\ (deleted' => deleted) /\ deleted' \in BOOLEAN
                   /\ req[t].at \notin {"none", "sent", "answered"}
                   /\ task[t].pc \in {"looking", "creating"} => ans.status = 500
    BY <1>0, AnswersOfAFailure DEF SetupInv, Shapes
  <1>1. TaskInv(t) /\ t \in DOMAIN task /\ DOMAIN req = Task /\ cells' = cells /\ stale' = stale
        /\ (deleted' => deleted) /\ req[t].at \notin {"none", "sent", "answered"}
    BY <1>0, <1>a
  <1>2. /\ Moves(t) /\ {"kind", "at"} \subseteq DOMAIN req'[t] /\ req'[t].kind = req[t].kind
        /\ req'[t].at = "answered" /\ req'[t].answer = ans
    BY <1>1, <1>a, AnswerIs DEF TaskInv, TaskShape
  <1>3. /\ req'[t].answer # NoDatabase
        /\ task[t].pc \in {"looking", "creating"} => req'[t].answer.status = 500
    BY <1>2, <1>a
  <1>4. task' = [task EXCEPT ![t].hit = @ \/ ~AboutDb(t) \/ task[t].retries = 0]
    BY DEF Fail
  <1>5. /\ DOMAIN task' = Task /\ \A u \in Task : u # t => task'[u] = task[u]
        /\ DOMAIN task'[t] = DOMAIN task[t]
        /\ task'[t].pc = task[t].pc /\ task'[t].gen = task[t].gen /\ task'[t].call = task[t].call
        /\ task'[t].todo = task[t].todo /\ task'[t].retries = task[t].retries
        /\ task'[t].outcome = task[t].outcome /\ task'[t].gone = task[t].gone
        /\ task'[t].hit = (task[t].hit \/ ~AboutDb(t) \/ task[t].retries = 0)
    BY <1>1, <1>4 DEF SetupInv, Shapes, TaskInv, TaskShape, TaskFields
  <1>6. \A u \in Task : {task[u].gone, task[u].hit} \subseteq BOOLEAN
    BY DEF SetupInv, TaskInv, TaskShape
  <1>7. Asking(t)'
    BY <1>1, <1>2, <1>3, <1>5 DEF TaskInv, Asking, Mine, Cell, NoRequest
  <1>8. Blamed(t)'
    <2>1. AboutDb(t)' = AboutDb(t)
      BY <1>2 DEF AboutDb
    <2>2. task[t].retries \in Nat
      BY <1>1 DEF TaskInv, TaskShape
    <2>3. task'[t].hit \/ (AboutDb(t)' /\ task'[t].retries > 0)
      <3>1. AboutDb(t) \/ ~AboutDb(t)
        BY DEF AboutDb
      <3>2. task[t].retries = 0 \/ task[t].retries > 0
        BY <2>2
      <3> QED
        BY <1>5, <2>1, <3>1, <3>2
    <2> QED
      BY <1>1, <1>3, <1>5, <2>3, ZenonT(60) DEF TaskInv, Blamed, Mine
  <1>9. \A u \in Task : Good(u)' => Good(u)
    <2>1. \A u \in Task : u # t => req'[u] = req[u]
      BY <1>1, <1>2 DEF Moves
    <2>2. ~Good(t)'
      BY <1>1, <1>2, <1>3, <1>5 DEF Good, TaskInv, Asking
    <2> QED
      BY <1>5, <2>1, <2>2 DEF Good
  <1>10. \A a \in Adapter : \A g : Known(a, g)' => Known(a, g)
    BY <1>1, <1>5, <1>9 DEF Known
  <1>11. Noted'
    <2>1. deleted' => deleted
      BY <1>1
    <2>2. \A u \in Task : Mine(u) => On[u] \in Adapter
      BY OnMine
    <2>3. \A u \in Task : task'[u].pc = task[u].pc /\ task'[u].gen = task[u].gen /\ task'[u].gone = task[u].gone
      BY <1>5
    <2>4. ASSUME NEW u \in Task, Mine(u), task'[u].pc # "idle", deleted', Known(On[u], task[u].gen)'
          PROVE  task'[u].gone
      <3>1. Known(On[u], task[u].gen)
        BY <1>10, <2>2, <2>3, <2>4 DEF Known
      <3> QED
        BY <2>1, <2>3, <2>4, <3>1 DEF SetupInv, Noted
    <2>5. ASSUME NEW a \in Adapter, deleted', Known(a, Current(a))'
          PROVE  stale'[a]
      <3>1. Known(a, Current(a))
        BY <1>1, <1>10, <2>5 DEF Known, Current
      <3> QED
        BY <1>1, <2>1, <2>5, <3>1 DEF SetupInv, Noted
    <2> QED
      BY <2>4, <2>5 DEF Noted, Mine
  <1>12. deleted' \in BOOLEAN /\ stale' \in [Adapter -> BOOLEAN]
    BY <1>1, <1>a DEF SetupInv, Shapes
  <1>13. task'[t].hit \in BOOLEAN
    BY <1>5, <1>6 DEF AboutDb
  <1>14. \A u \in Task :
           /\ DOMAIN task'[u] = DOMAIN task[u]
           /\ task'[u].pc = task[u].pc /\ task'[u].gen = task[u].gen /\ task'[u].call = task[u].call
           /\ task'[u].todo = task[u].todo /\ task'[u].retries = task[u].retries
           /\ task'[u].outcome = task[u].outcome
           /\ task'[u].gone \in BOOLEAN /\ (task[u].gone => task'[u].gone)
           /\ task'[u].hit \in BOOLEAN /\ (task[u].hit => task'[u].hit)
    BY <1>5, <1>6, <1>13
  <1> QED
    BY <1>1, <1>2, <1>5, <1>7, <1>8, <1>11, <1>12, <1>14, HandlerKeeps

LEMMA ServerKeeps ==
  ASSUME SetupInv, NEW t \in Task, ServerStep(t)
  PROVE  SetupInv'
  <1>1. TaskInv(t) /\ DOMAIN task = Task /\ DOMAIN req = Task /\ cells' = cells /\ deleted \in BOOLEAN
        /\ stale \in [Adapter -> BOOLEAN]
    BY DEF SetupInv, Shapes, ServerStep
  <1>2. Handled(t)
    BY <1>1, HandleIs DEF ServerStep, TaskInv, TaskShape, Asking
  <1>3. \A u \in Task : TaskFields \subseteq DOMAIN task[u] /\ {task[u].gone, task[u].hit} \subseteq BOOLEAN
    BY DEF SetupInv, TaskInv, TaskShape
  <1> DEFINE now == deleted' /\ ~deleted
  <1>4. /\ DOMAIN task' = Task /\ stale' \in [Adapter -> BOOLEAN]
        /\ \A u \in Task :
             /\ DOMAIN task'[u] = DOMAIN task[u]
             /\ task'[u].pc = task[u].pc /\ task'[u].gen = task[u].gen /\ task'[u].call = task[u].call
             /\ task'[u].todo = task[u].todo /\ task'[u].retries = task[u].retries
             /\ task'[u].outcome = task[u].outcome
             /\ task'[u].gone \in BOOLEAN /\ (task[u].gone => task'[u].gone)
             /\ task'[u].hit = task[u].hit
             /\ now /\ task[u].pc # "idle" => task'[u].gone
        /\ \A a \in Adapter : (stale[a] => stale'[a]) /\ (now /\ Last(cells[a]) # "empty" => stale'[a])
    <2>1. CASE now
      <3>1. /\ task' = [u \in Task |-> [task[u] EXCEPT !.gone = @ \/ task[u].pc # "idle"]]
            /\ stale' = [a \in Adapter |-> stale[a] \/ Last(cells[a]) # "empty"]
        BY <2>1 DEF ServerStep, NoteDeleted
      <3>2. stale' \in [Adapter -> BOOLEAN]
            /\ \A a \in Adapter : (stale[a] => stale'[a]) /\ (Last(cells[a]) # "empty" => stale'[a])
        BY <1>1, <3>1
      <3>3. ASSUME NEW u \in Task
            PROVE  /\ DOMAIN task'[u] = DOMAIN task[u]
                   /\ task'[u].pc = task[u].pc /\ task'[u].gen = task[u].gen /\ task'[u].call = task[u].call
                   /\ task'[u].todo = task[u].todo /\ task'[u].retries = task[u].retries
                   /\ task'[u].outcome = task[u].outcome /\ task'[u].hit = task[u].hit
                   /\ task'[u].gone = (task[u].gone \/ task[u].pc # "idle")
        <4>1. task'[u] = [task[u] EXCEPT !.gone = @ \/ task[u].pc # "idle"]
          BY <3>1
        <4> QED
          BY <1>3, <4>1 DEF TaskFields
      <3>4. \A u \in Task : task'[u].gone \in BOOLEAN
        BY <1>3, <3>3
      <3> QED
        BY <3>1, <3>2, <3>3, <3>4, ZenonT(60)
    <2>2. CASE ~now
      <3>1. task' = task /\ stale' = stale
        BY <2>2 DEF ServerStep
      <3> QED
        BY <1>1, <1>3, <2>2, <3>1
    <2> QED
      BY <2>1, <2>2
  <1>5. task[t].pc \notin {"idle", "setup"}
    BY <1>1, <1>2 DEF TaskInv, Asking, NoRequest, Handled
  <1>6. Asking(t)'
    BY <1>1, <1>2, <1>4, <1>5 DEF TaskInv, Asking, Mine, Cell, Handled
  <1>7. \A u \in Task : u # t => req'[u] = req[u]
    BY <1>1, <1>2 DEF Handled, Moves
  <1>8. deleted /\ deleted' => \A u \in Task : Good(u)' => Good(u)
    <2> SUFFICES ASSUME deleted, deleted', Good(t)'
                 PROVE  Good(t)
      BY <1>4, <1>7 DEF Good
    <2>1. CASE task[t].pc = "looking"
      BY <1>1, <1>2, <1>4, <2>1 DEF Handled, Good, TaskInv, Asking
    <2>2. CASE task[t].pc = "creating"
      BY <1>1, <1>2, <1>4, <2>2 DEF Handled, Good, TaskInv, Asking
    <2> QED
      BY <1>4, <2>1, <2>2 DEF Good
  <1>9. ASSUME deleted, deleted', NEW a, NEW g, Known(a, g)'
        PROVE  Known(a, g)
    BY <1>1, <1>4, <1>8, <1>9 DEF Known
  <1>10. Noted'
    <2>1. ASSUME NEW u \in Task, Mine(u), task'[u].pc # "idle", deleted', Known(On[u], task[u].gen)'
          PROVE  task'[u].gone
      <3>1. CASE deleted
        <4>1. Known(On[u], task[u].gen)
          BY <1>4, <1>9, <2>1, <3>1 DEF Known
        <4> QED
          BY <1>4, <2>1, <3>1, <4>1 DEF SetupInv, Noted
      <3>2. CASE ~deleted
        BY <1>4, <2>1, <3>2
      <3> QED
        BY <3>1, <3>2
    <2>2. ASSUME NEW a \in Adapter, deleted', Known(a, Current(a))'
          PROVE  stale'[a]
      <3>1. CASE deleted
        <4>1. Known(a, Current(a))
          BY <1>1, <1>9, <2>2, <3>1 DEF Known, Current
        <4> QED
          BY <1>4, <2>2, <3>1, <4>1 DEF SetupInv, Noted
      <3>2. CASE ~deleted
        <4>1. Last(cells[a]) # "empty"
          BY <1>1, <2>2 DEF Known, Current, Last
        <4> QED
          BY <1>4, <2>2, <3>2, <4>1
      <3> QED
        BY <3>1, <3>2
    <2> QED
      BY <2>1, <2>2 DEF Noted, Mine
  <1>11. Blamed(t)'
    <2>1. req'[t].at = "answered" => req'[t].answer.status # 500 /\ (req'[t].answer = NoDatabase => deleted)
      BY <1>2 DEF Handled
    <2>2. ASSUME Mine(t), task'[t].pc \in {"call", "locating"}, task'[t].call.kind # "destroy", deleted
          PROVE  task'[t].gone
      <3>1. Cell(t) = "set"
        BY <1>1, <1>4, <2>2 DEF TaskInv, Asking
      <3>2. Known(On[t], task[t].gen)
        BY <3>1 DEF Known, Cell
      <3> QED
        BY <1>4, <1>5, <2>2, <3>2 DEF SetupInv, Noted
    <2>3. Mine(t) /\ task'[t].outcome.is = "missing" => task'[t].gone
      BY <1>1, <1>4 DEF TaskInv, Blamed
    <2>4. Mine(t) /\ task'[t].outcome.is = "error" => task'[t].hit
      BY <1>1, <1>4 DEF TaskInv, Blamed
    <2> QED
      BY <2>1, <2>2, <2>3, <2>4 DEF Blamed, Mine, NoDatabase
  <1>12. /\ Moves(t) /\ {"kind", "at"} \subseteq DOMAIN req'[t] /\ req'[t].kind = req[t].kind
         /\ deleted' \in BOOLEAN
    BY <1>2 DEF Handled
  <1>13. \A u \in Task : task'[u].hit \in BOOLEAN /\ (task[u].hit => task'[u].hit)
    BY <1>3, <1>4
  <1> QED
    BY <1>1, <1>4, <1>6, <1>10, <1>11, <1>12, <1>13, HandlerKeeps

LEMMA SetupStill ==
  ASSUME SetupInv, deleted' = deleted, req' = req, cells' = cells, stale' = stale, task' = task
  PROVE  SetupInv'
  <1>1. Shapes' /\ Alone'
    BY DEF SetupInv, Shapes, Alone, Cell, Current
  <1>2. Noted'
    BY DEF SetupInv, Noted, Known, Good, Current, Mine
  <1>3. ASSUME NEW t \in Task
        PROVE  TaskInv(t)'
    <2>1. TaskInv(t)
      BY DEF SetupInv
    <2>2. TaskShape(t)' /\ CallsOk(t)'
      BY <2>1 DEF TaskInv, TaskShape, CallsOk, Mine, Current
    <2>3. Asking(t)' /\ Blamed(t)'
      BY <2>1 DEF TaskInv, Asking, Blamed, Mine, Cell, AboutDb
    <2> QED
      BY <2>2, <2>3 DEF TaskInv
  <1> QED
    BY <1>1, <1>2, <1>3 DEF SetupInv

LEMMA SetupInit ==
  ASSUME Init
  PROVE  SetupInv
  <1>1. PICK c \in Cases :
          /\ deleted = c.deleted /\ req = [t \in Task |-> NoRequest]
          /\ cells = [a \in Adapter |-> <<"empty">>]
          /\ stale = [a \in Adapter |-> FALSE]
          /\ task = [t \in Task |-> [pc |-> "idle", todo |-> c.todo[t], call |-> NoRequest, gen |-> 1,
                                     retries |-> 0, gone |-> FALSE, hit |-> FALSE, before |-> db, found |-> locals,
                                     outcome |-> [is |-> "none"]]]
    BY DEF Init, ServerInit
  <1>2. Shapes
    <2>1. \A a \in Adapter : cells[a] \in Seq({"empty", "busy", "set"}) /\ Len(cells[a]) = 1
      BY <1>1
    <2> QED
      BY <1>1, <2>1, AdapterAssumption DEF Shapes, Current
  <1>3. Alone /\ Noted
    BY <1>1 DEF Alone, Noted, Known, Good, Current, Mine
  <1>4. ASSUME NEW t \in Task
        PROVE  TaskInv(t)
    <2>1. task[t] = [pc |-> "idle", todo |-> c.todo[t], call |-> NoRequest, gen |-> 1,
                     retries |-> 0, gone |-> FALSE, hit |-> FALSE, before |-> db, found |-> locals,
                     outcome |-> [is |-> "none"]]
          /\ req[t] = NoRequest
      BY <1>1
    <2>2. TaskShape(t)
      <3>1. Mine(t) => Current(On[t]) = 1
        BY <1>1, OnMine DEF Current
      <3> QED
        BY <2>1, <3>1 DEF TaskShape, TaskFields, NoRequest
    <2>3. CallsOk(t)
      <3>1. c.todo[t] \in Seq(Range(c.todo[t])) /\ \A call \in Range(c.todo[t]) : CallOk(t, call)
        BY AdapterAssumption
      <3>2. Range(c.todo[t]) \subseteq AllCalls
        BY DEF AllCalls
      <3>3. \A i \in 1 .. Len(c.todo[t]) : c.todo[t][i] \in Range(c.todo[t])
        BY <3>1
      <3>4. c.todo[t] \in Seq(AllCalls)
        BY <3>1, <3>2
      <3> QED
        BY <2>1, <3>1, <3>3, <3>4 DEF CallsOk
    <2>4. Asking(t)
      BY <2>1 DEF Asking, NoRequest
    <2>5. Blamed(t)
      BY <2>1 DEF Blamed, NoRequest
    <2> QED
      BY <2>2, <2>3, <2>4, <2>5 DEF TaskInv
  <1> QED
    BY <1>2, <1>3, <1>4 DEF SetupInv

LEMMA SetupStep ==
  ASSUME SetupInv, [Next]_httpVars
  PROVE  SetupInv'
  <1>1. ASSUME NEW t \in Task, Client(t)
        PROVE  SetupInv'
    BY <1>1, BeginKeeps, EnsureSetupKeeps, RetryKeeps, LookedKeeps, CreatedKeeps, LocatedKeeps, DoneKeeps
    DEF Client
  <1>2. ASSUME NEW t \in Task, ServerStep(t)
        PROVE  SetupInv'
    BY <1>2, ServerKeeps
  <1>3. CASE FeedStep /\ UNCHANGED <<clientVars, faults>>
    <2>1. deleted' = deleted /\ req' = req
      BY <1>3 DEF FeedStep, FetchStep, Serve, Wake, Expire, Reopen, serverVars
    <2> QED
      BY <1>3, <2>1, SetupStill DEF clientVars
  <1>4. CASE DirectWrite
    BY <1>4, SetupStill DEF DirectWrite
  <1>5. CASE Fault
    <2>1. ASSUME NEW t \in Task, Lose(t) \/ Fail(t)
          PROVE  SetupInv'
      BY <2>1, LoseKeeps, FailKeeps
    <2>2. CASE (FetchFails \/ Disconnect) /\ UNCHANGED clientVars
      BY <2>2, SetupStill DEF FetchFails, Disconnect, serverVars, clientVars
    <2> QED
      BY <1>5, <2>1, <2>2 DEF Fault
  <1>6. CASE UNCHANGED httpVars
    BY <1>6, SetupStill DEF httpVars
  <1> QED
    BY <1>1, <1>2, <1>3, <1>4, <1>5, <1>6 DEF Next

\* ensure_setup suffices: whatever the tasks of an adapter, other adapters and
\* other clients do at once, a call finds no database only because of a
\* deletion, and fails only because of a fault.
THEOREM SetupIsEnough == Spec => []SetupSuffices
  <1>1. Init => SetupInv
    BY SetupInit
  <1>2. SetupInv /\ [Next]_httpVars => SetupInv'
    BY SetupStep
  <1>3. SetupInv => SetupSuffices
    BY DEF SetupInv, TaskInv, Blamed, SetupSuffices, Mine
  <1> QED
    BY <1>1, <1>2, <1>3, PTL DEF Spec

----------------------------------------------------------------------------
(* Lists *)

\* The numbers of a set, in order, are all of them.
LEMMA AscendingIs ==
  ASSUME NEW n \in Nat, NEW I \in SUBSET (1 .. n)
  PROVE  /\ Cardinality(I) \in 0 .. n
         /\ Ascending(I) \in [1 .. Cardinality(I) -> I]
         /\ \A j, k \in 1 .. Cardinality(I) : j < k => Ascending(I)[j] < Ascending(I)[k]
         /\ \A i \in I : \E k \in 1 .. Cardinality(I) : Ascending(I)[k] = i
  <1> DEFINE A == Ascending(I)
             c == Cardinality(I)
             Upto(i) == {j \in I : j <= i}
             R(i) == Cardinality(Upto(i))
  <1>0. \A i \in I : i \in Nat /\ 1 <= i /\ i <= n
    OBVIOUS
  <1>1. IsFiniteSet(I) /\ c \in Nat /\ c <= n
    <2>1. IsFiniteSet(1 .. n) /\ Cardinality(1 .. n) = n
      BY FS_Interval
    <2>2. IsFiniteSet(I) /\ c <= n
      BY <2>1, FS_Subset
    <2> QED
      BY <2>2, FS_CardinalityType
  <1>2. \A i \in 0 .. n : IsFiniteSet(Upto(i)) /\ R(i) \in Nat /\ R(i) <= c
    <2> SUFFICES ASSUME NEW i \in 0 .. n PROVE IsFiniteSet(Upto(i)) /\ R(i) \in Nat /\ R(i) <= c
      OBVIOUS
    <2>1. Upto(i) \in SUBSET I
      OBVIOUS
    <2> HIDE DEF Upto
    <2> QED
      BY <1>1, <2>1, FS_Subset, FS_CardinalityType
  <1>3. \A i \in I : R(i) = R(i - 1) + 1
    <2> SUFFICES ASSUME NEW i \in I PROVE R(i) = R(i - 1) + 1
      OBVIOUS
    <2>0. \A j \in I : j <= i <=> j <= i - 1 \/ j = i
      BY <1>0
    <2>1. Upto(i) = Upto(i - 1) \union {i}
      BY <2>0
    <2>2. i \notin Upto(i - 1) /\ i - 1 \in 0 .. n
      BY <1>0
    <2> HIDE DEF Upto
    <2> QED
      BY <1>2, <2>1, <2>2, FS_AddElement
  <1>4. \A i \in 1 .. n : i \notin I => R(i) = R(i - 1)
    <2> SUFFICES ASSUME NEW i \in 1 .. n, i \notin I PROVE R(i) = R(i - 1)
      OBVIOUS
    <2>0. \A j \in I : j <= i <=> j <= i - 1
      <3>1. \A j \in I : j # i
        OBVIOUS
      <3> QED
        BY <1>0, <3>1
    <2>1. Upto(i) = Upto(i - 1)
      BY <2>0
    <2> QED
      BY <2>1
  <1>5. \A i, j \in 0 .. n : i <= j => R(i) <= R(j)
    <2> SUFFICES ASSUME NEW i \in 0 .. n, NEW j \in 0 .. n, i <= j PROVE R(i) <= R(j)
      OBVIOUS
    <2>0. \A k \in I : k <= i => k <= j
      BY <1>0
    <2>1. Upto(i) \in SUBSET Upto(j)
      BY <2>0
    <2> HIDE DEF Upto
    <2> QED
      BY <1>2, <2>1, FS_Subset
  <1>6. \A i, j \in I : i < j => R(i) < R(j)
    <2> SUFFICES ASSUME NEW i \in I, NEW j \in I, i < j PROVE R(i) < R(j)
      OBVIOUS
    <2>1. i \in 0 .. n /\ j \in 0 .. n /\ j - 1 \in 0 .. n /\ i <= j - 1
      BY <1>0
    <2> HIDE DEF R, Upto
    <2>2. R(j) = R(j - 1) + 1 /\ R(i) <= R(j - 1) /\ R(i) \in Nat /\ R(j - 1) \in Nat
      BY <1>2, <1>3, <1>5, <2>1
    <2> QED
      BY <2>2
  <1>7. Upto(0) = {} /\ Upto(n) = I
    <2>1. \A j \in I : ~(j <= 0) /\ j <= n
      BY <1>0
    <2> QED
      BY <2>1
  <1>8. R(0) = 0 /\ R(n) = c
    BY <1>7, FS_EmptySet
  <1>9. \A k \in 1 .. c : \E i \in I : R(i) = k
    <2> SUFFICES ASSUME NEW k \in 1 .. c PROVE \E i \in I : R(i) = k
      OBVIOUS
    <2> HIDE DEF R, c, Upto
    <2> DEFINE S == {i \in 0 .. n : R(i) >= k}
    <2>1. n \in S /\ S \in SUBSET Nat
      BY <1>1, <1>8
    <2> HIDE DEF S
    <2>2. PICK x \in S : \A y \in S : x <= y
      BY <2>1, Least
    <2>3. x \in 0 .. n /\ R(x) >= k /\ x # 0
      BY <1>1, <1>8, <2>2 DEF S
    <2>4. x - 1 \in 0 .. n /\ x \in 1 .. n /\ ~(x <= x - 1)
      BY <2>3
    <2>5. ~(R(x - 1) >= k)
      BY <2>2, <2>4 DEF S
    <2>6. R(x) \in Nat /\ R(x - 1) \in Nat /\ k \in Nat
      BY <1>1, <1>2, <2>3, <2>4
    <2>7. x \in I
      BY <1>4, <2>3, <2>4, <2>5
    <2>8. R(x) = k
      BY <1>3, <2>3, <2>5, <2>6, <2>7
    <2> QED
      BY <2>7, <2>8
  <1>10. A = [k \in 1 .. c |-> CHOOSE i \in I : R(i) = k]
    BY DEF Ascending
  <1> HIDE DEF A, c, R, Upto
  <1>11. \A k \in 1 .. c : A[k] \in I /\ R(A[k]) = k
    BY <1>9, <1>10
  <1>12. A \in [1 .. c -> I]
    BY <1>10, <1>11
  <1>13. \A j, k \in 1 .. c : j < k => A[j] < A[k]
    <2> SUFFICES ASSUME NEW j \in 1 .. c, NEW k \in 1 .. c, j < k PROVE A[j] < A[k]
      OBVIOUS
    <2>0. A[j] \in I /\ A[k] \in I /\ R(A[j]) = j /\ R(A[k]) = k
      BY <1>11
    <2>1. A[j] \in Nat /\ A[j] <= n /\ A[k] \in Nat /\ A[k] <= n
      BY <1>0, <2>0
    <2>2. j \in Nat /\ k \in Nat
      BY <1>1
    <2>3. ~(A[k] <= A[j])
      <3>1. A[k] \in 0 .. n /\ A[j] \in 0 .. n
        BY <2>1
      <3>2. ~(k <= j)
        BY <2>2
      <3> QED
        BY <1>5, <2>0, <3>1, <3>2
    <2> QED
      BY <2>1, <2>3
  <1>14. ASSUME NEW i \in I
         PROVE  \E k \in 1 .. c : A[k] = i
    <2> DEFINE k == R(i)
    <2>1. i \in 0 .. n /\ i - 1 \in 0 .. n
      BY <1>0
    <2>2. k \in 1 .. c
      <3>1. R(i) \in Nat /\ R(i - 1) \in Nat /\ R(i) <= c /\ R(i) = R(i - 1) + 1
        BY <1>2, <1>3, <2>1
      <3> QED
        BY <1>1, <3>1
    <2>3. A[k] \in I /\ R(A[k]) = R(i)
      BY <1>11, <2>2
    <2>4. ~(A[k] < i) /\ ~(i < A[k])
      <3>1. R(i) \in Nat
        BY <1>2, <2>1
      <3>2. ~(R(i) < R(i))
        BY <3>1
      <3> HIDE DEF k
      <3> QED
        BY <1>6, <2>3, <3>2
    <2>5. A[k] \in Nat /\ i \in Nat
      BY <1>0, <2>3
    <2>6. A[k] = i
      <3> HIDE DEF k
      <3> QED
        BY <2>4, <2>5
    <2> QED
      BY <2>2, <2>6
  <1>15. c \in 0 .. n
    BY <1>1
  <1> QED
    BY <1>12, <1>13, <1>14, <1>15 DEF A, c

\* p has what s has at the places I, in order.
Drawn(p, s, I) ==
  /\ Len(p) <= Len(s)
  /\ \A k \in 1 .. Len(p) : \E i \in I : p[k] = s[i]
  /\ \A i \in I : \E k \in 1 .. Len(p) : p[k] = s[i]
  /\ \A j, k \in 1 .. Len(p) : j < k => \E i, m \in I : i < m /\ p[j] = s[i] /\ p[k] = s[m]

\* Some places of a list, picked, are those, in order.
LEMMA PickIs ==
  ASSUME NEW T, NEW s \in Seq(T), NEW I \in SUBSET (1 .. Len(s)), NEW p, p = Pick(s, I)
  PROVE  p \in Seq(T) /\ Drawn(p, s, I)
  <1> DEFINE A == Ascending(I)
             c == Cardinality(I)
  <1>0. Len(s) \in Nat /\ \A i \in 1 .. Len(s) : s[i] \in T
    OBVIOUS
  <1>1. /\ c \in 0 .. Len(s)
        /\ A \in [1 .. c -> I]
        /\ \A j, k \in 1 .. c : j < k => A[j] < A[k]
        /\ \A i \in I : \E k \in 1 .. c : A[k] = i
    BY <1>0, AscendingIs
  <1>2. p = [k \in 1 .. c |-> s[A[k]]]
    BY DEF Pick
  <1> HIDE DEF A, c
  <1>3. \A k \in 1 .. c : A[k] \in I /\ A[k] \in 1 .. Len(s)
    BY <1>1
  <1>4. p \in [1 .. c -> T]
    BY <1>0, <1>2, <1>3
  <1>5. p \in Seq(T) /\ Len(p) = c
    BY <1>1, <1>4
  <1>6. \A k \in 1 .. c : p[k] = s[A[k]]
    BY <1>2
  <1>7. ASSUME NEW j \in 1 .. c, NEW k \in 1 .. c, j < k
        PROVE  \E i, m \in I : i < m /\ p[j] = s[i] /\ p[k] = s[m]
    BY <1>1, <1>3, <1>6, <1>7
  <1>8. ASSUME NEW i \in I
        PROVE  \E k \in 1 .. c : p[k] = s[i]
    BY <1>1, <1>6
  <1>9. \A k \in 1 .. c : \E i \in I : p[k] = s[i]
    BY <1>3, <1>6
  <1>10. c <= Len(s)
    BY <1>0, <1>1
  <1> QED
    BY <1>5, <1>7, <1>8, <1>9, <1>10 DEF Drawn

\* The list E has the entries C, in the order of their sequences.
InSeqOrder(E, C) ==
  /\ E \in Seq(C)
  /\ \A j, k \in 1 .. Len(E) : j < k => E[j].seq < E[k].seq
  /\ \A c \in C : \E k \in 1 .. Len(E) : E[k] = c

\* The entries of a feed are those after `since', in that order.
LEMMA EntriesIs ==
  ASSUME NEW b, DbOk(b), NEW C \in SUBSET b.changes, NEW o, o.descending = FALSE, \A c \in C : c.seq > o.since,
         NEW E, E = Entries(C, o)
  PROVE  InSeqOrder(E, C)
  <1> DEFINE S == {c.seq : c \in {x \in C : x.seq > o.since}}
             A == Ascending(S)
             n == Cardinality(S)
  <1>0. b \in DbType /\ SeqsOk(b) /\ FeedOk(b) /\ b.updateSeq \in Nat
    BY DEF DbOk, DbType
  <1>1. Sequenced(C)
    BY FeedSequenced
  <1>2. S = {c.seq : c \in C}
    OBVIOUS
  <1>3. S \in SUBSET (1 .. b.updateSeq)
    <2>1. \A c \in C : \E d \in Doc : Exists(b, d) /\ c = EntryOf(b, d)
      BY <1>0 DEF FeedOk
    <2>2. \A c \in C : c.seq \in 1 .. b.updateSeq
      BY <1>0, <2>1 DEF SeqsOk, EntryOf
    <2> QED
      BY <1>2, <2>2
  <1> HIDE DEF S
  <1>4. /\ n \in 0 .. b.updateSeq
        /\ A \in [1 .. n -> S]
        /\ \A j, k \in 1 .. n : j < k => A[j] < A[k]
        /\ \A i \in S : \E k \in 1 .. n : A[k] = i
    BY <1>0, <1>3, AscendingIs
  <1>5. Len(A) = n
    BY <1>4
  <1>6. E = [k \in 1 .. Len(A) |-> CHOOSE c \in C : c.seq = A[k]]
    BY DEF Entries, S
  <1> HIDE DEF A, n
  <1>7. \A k \in 1 .. n : E[k] \in C /\ E[k].seq = A[k]
    <2>1. \A k \in 1 .. n : \E c \in C : c.seq = A[k]
      BY <1>2, <1>4
    <2> QED
      BY <1>5, <1>6, <2>1
  <1>8. E \in [1 .. n -> C]
    BY <1>5, <1>6, <1>7
  <1>9. E \in Seq(C) /\ Len(E) = n
    BY <1>4, <1>8
  <1>10. ASSUME NEW c \in C
         PROVE  \E k \in 1 .. n : E[k] = c
    <2>1. PICK k \in 1 .. n : A[k] = c.seq
      BY <1>2, <1>4
    <2> QED
      BY <1>1, <1>7, <2>1 DEF Sequenced
  <1>11. \A j, k \in 1 .. n : j < k => E[j].seq < E[k].seq
    BY <1>4, <1>7
  <1> QED
    BY <1>9, <1>10, <1>11 DEF InSeqOrder

\* What a list of events has of the changes of b from `since' to `last'.
Covers(b, events, since, last) ==
  \A c \in b.changes : since < c.seq /\ c.seq <= last =>
    \E i \in 1 .. Len(events) :
      events[i].seq = c.seq /\ events[i].id = c.id /\ events[i].revs = {Winner(Nodes(b, c.id))}

\* A list, of whatever it holds.
IsList(events) == \E T : events \in Seq(T)

\* A list of events between two sequences, in order.
EventsOk(events, since, last) ==
  /\ IsList(events)
  /\ \A i \in 1 .. Len(events) : events[i].seq \in Nat /\ since < events[i].seq /\ events[i].seq <= last
  /\ \A i, j \in 1 .. Len(events) : i < j => events[i].seq < events[j].seq

\* A listing shows, in order, every change up to where it says it got.
LEMMA ListingIs ==
  ASSUME NEW b, DbOk(b), NEW since \in Nat, NEW n \in Nat,
         NEW A, A = Changes(b, [since |-> since, limit |-> n, descending |-> FALSE, ids |-> NoKey,
                                style |-> "main_only"])
  PROVE  /\ EventsOk(A.events, since, A.lastSeq) /\ Len(A.events) <= n
         /\ Covers(b, A.events, since, A.lastSeq)
         /\ A.lastSeq \in Nat /\ since <= A.lastSeq
         /\ A.lastSeq = since \/ A.lastSeq <= b.updateSeq
  <1> DEFINE o == [since |-> since, limit |-> n, descending |-> FALSE, ids |-> NoKey, style |-> "main_only"]
             C == {c \in b.changes : c.seq > o.since}
             W == {c \in C : Wanted(c, o)}
             E == Entries(W, o)
             m == IF o.limit < Len(E) THEN o.limit ELSE Len(E)
             shown == SubSeq(E, 1, m)
             event(c) == EventOf(b.docs[c.id].tree, c, Winner(Nodes(b, c.id)) \in b.docs[c.id].bodies, o.style)
             events == [i \in 1 .. Len(shown) |-> event(shown[i])]
  <1>1. o.since = since /\ o.limit = n /\ o.descending = FALSE /\ o.style = "main_only" /\ o.ids = NoKey
    OBVIOUS
  <1>2. A = IF o.limit = 0 THEN [events |-> <<>>, lastSeq |-> IF o.descending THEN b.updateSeq ELSE o.since]
                           ELSE [events |-> events, lastSeq |-> LastSeq(events, C, o)]
    BY DEF Changes
  <1> HIDE DEF o
  <1>0. CASE n = 0
    <2>1. A = [events |-> <<>>, lastSeq |-> since]
      <3> HIDE DEF events, C
      <3> QED
        BY <1>0, <1>1, <1>2
    <2>2. EventsOk(<<>>, since, since) /\ Covers(b, <<>>, since, since)
      <3>1. \A x \in Nat : ~(since < x /\ x <= since)
        OBVIOUS
      <3>2. \A c \in b.changes : c.seq \in Nat
        BY DEF DbOk, DbType
      <3>3. IsList(<<>>)
        <4>1. <<>> \in Seq({})
          OBVIOUS
        <4> QED
          BY <4>1 DEF IsList
      <3> QED
        BY <3>1, <3>2, <3>3 DEF EventsOk, Covers
    <2> QED
      BY <2>1, <2>2
  <1> SUFFICES ASSUME n # 0
               PROVE  /\ EventsOk(A.events, since, A.lastSeq) /\ Len(A.events) <= n
                      /\ Covers(b, A.events, since, A.lastSeq)
                      /\ A.lastSeq \in Nat /\ since <= A.lastSeq
                      /\ A.lastSeq = since \/ A.lastSeq <= b.updateSeq
    BY <1>0
  <1>3. A.events = events /\ A.lastSeq = LastSeq(events, C, o)
    <2> HIDE DEF events, C
    <2> QED
      BY <1>1, <1>2
  <1>4. W = C /\ C \in SUBSET b.changes /\ \A c \in C : c.seq > o.since
    BY <1>1 DEF Wanted
  <1>5. \A c : /\ event(c).seq = c.seq /\ event(c).id = c.id
               /\ event(c).revs = {Winner(Nodes(b, c.id))}
    BY <1>1 DEF EventOf, Nodes
  <1> HIDE DEF event
  <1>6. \A c \in b.changes : c.seq > since => c \in C
    BY <1>1
  <1>7. \A c \in C : c.seq \in Nat /\ c.seq > since /\ c.seq <= b.updateSeq
    <2>0. b \in DbType /\ SeqsOk(b) /\ FeedOk(b) /\ b.updateSeq \in Nat
      BY DEF DbOk, DbType
    <2>1. \A c \in C : \E d \in Doc : Exists(b, d) /\ c = EntryOf(b, d)
      BY <2>0 DEF FeedOk
    <2>2. \A c \in C : c.seq \in 1 .. b.updateSeq
      BY <2>0, <2>1 DEF SeqsOk, EntryOf
    <2> QED
      BY <1>1, <1>4, <2>0, <2>2
  <1> HIDE DEF C
  <1>8. /\ E \in Seq(C)
        /\ \A j, k \in 1 .. Len(E) : j < k => E[j].seq < E[k].seq
        /\ \A c \in C : \E k \in 1 .. Len(E) : E[k] = c
    <2>1. W \in SUBSET b.changes /\ \A c \in W : c.seq > o.since
      BY <1>4
    <2>2. E = Entries(W, o)
      OBVIOUS
    <2> HIDE DEF W, E
    <2>3. InSeqOrder(E, W)
      BY <1>1, <2>1, <2>2, EntriesIs
    <2> QED
      BY <1>4, <2>3 DEF InSeqOrder
  <1> HIDE DEF E
  <1>9. Len(E) \in Nat /\ \A k \in 1 .. Len(E) : E[k] \in C
    BY <1>8
  <1>10. m \in Nat /\ m <= n /\ m <= Len(E) /\ (m = 0 => Len(E) = 0)
    BY <1>1, <1>9
  <1> HIDE DEF m
  <1>11. Len(shown) = m /\ \A i \in 1 .. m : shown[i] = E[i]
    BY <1>8, <1>10
  <1> HIDE DEF shown
  <1>12. events = [i \in 1 .. m |-> event(E[i])]
    BY <1>11
  <1> HIDE DEF events
  <1>13. IsList(events) /\ Len(events) = m
    <2> DEFINE T == {event(E[i]) : i \in 1 .. m}
    <2>1. events \in [1 .. m -> T]
      BY <1>12
    <2> HIDE DEF T
    <2>2. events \in Seq(T) /\ Len(events) = m
      BY <1>10, <2>1
    <2> QED
      BY <2>2 DEF IsList
  <1>14. \A i \in 1 .. m : /\ events[i].seq = E[i].seq /\ events[i].id = E[i].id
                           /\ events[i].revs = {Winner(Nodes(b, E[i].id))}
                           /\ i \in 1 .. Len(E)
    BY <1>5, <1>9, <1>10, <1>12
  <1>15. CASE m = 0
    <2>1. C = {}
      BY <1>8, <1>10, <1>15
    <2>2. events = <<>>
      BY <1>13, <1>15
    <2>3. A.lastSeq = since
      BY <1>1, <1>3, <2>1, <2>2 DEF LastSeq
    <2>4. EventsOk(events, since, since) /\ Len(events) <= n
      BY <1>13, <1>15 DEF EventsOk
    <2>5. Covers(b, events, since, since)
      BY <1>6, <2>1 DEF Covers
    <2> QED
      BY <1>3, <2>3, <2>4, <2>5
  <1>16. CASE m # 0
    <2>1. events # <<>> /\ m \in 1 .. m /\ m \in 1 .. Len(E)
      BY <1>10, <1>13, <1>16
    <2>2. A.lastSeq = Last(A.events).seq /\ A.lastSeq = E[m].seq
      BY <1>3, <1>13, <1>14, <2>1 DEF LastSeq, Last
    <2>3. A.lastSeq \in Nat /\ since < A.lastSeq /\ A.lastSeq <= b.updateSeq
      BY <1>7, <1>9, <2>1, <2>2
    <2>4. ASSUME NEW i \in 1 .. m
          PROVE  events[i].seq \in Nat /\ since < events[i].seq /\ events[i].seq <= A.lastSeq
      <3>1. i \in 1 .. Len(E) /\ E[i].seq \in Nat /\ since < E[i].seq
        BY <1>7, <1>9, <1>14
      <3>2. i = m \/ i < m
        BY <1>10
      <3>3. E[i].seq = E[m].seq \/ E[i].seq < E[m].seq
        BY <1>8, <2>1, <3>1, <3>2
      <3>4. E[i].seq <= E[m].seq
        BY <2>2, <2>3, <3>1, <3>3
      <3> QED
        BY <1>14, <2>2, <3>1, <3>4
    <2>5. \A i, j \in 1 .. m : i < j => events[i].seq < events[j].seq
      BY <1>8, <1>14
    <2>6. EventsOk(events, since, A.lastSeq)
      BY <1>13, <2>4, <2>5 DEF EventsOk
    <2>7. ASSUME NEW c \in b.changes, since < c.seq, c.seq <= A.lastSeq
          PROVE  \E i \in 1 .. Len(events) :
                   events[i].seq = c.seq /\ events[i].id = c.id /\ events[i].revs = {Winner(Nodes(b, c.id))}
      <3>1. c \in C
        <4>1. c.seq \in Nat
          BY DEF DbOk, DbType
        <4> QED
          BY <1>6, <2>7, <4>1
      <3>2. PICK k \in 1 .. Len(E) : E[k] = c
        BY <1>8, <3>1
      <3>3. ~(m < k)
        <4>1. ASSUME m < k PROVE FALSE
          <5>1. E[m].seq < c.seq
            BY <1>8, <2>1, <3>2, <4>1
          <5> QED
            BY <1>7, <2>2, <2>3, <2>7, <3>1, <5>1
        <4> QED
          BY <4>1
      <3>4. k \in 1 .. m
        BY <1>9, <1>10, <3>3
      <3> QED
        BY <1>13, <1>14, <3>2, <3>4
    <2>8. Covers(b, events, since, A.lastSeq)
      BY <2>7 DEF Covers
    <2> QED
      BY <1>3, <1>10, <1>13, <2>1, <2>2, <2>3, <2>6, <2>8
  <1> QED
    BY <1>15, <1>16

----------------------------------------------------------------------------
(* What the server's calls make of the database *)

\* The database c is in order, and is b some operations later.
Leads(b, c) == DbOk(c) /\ c.uuid = b.uuid /\ Follows(b, c)

\* A database leads to itself, to where it is led from where it leads to, and to
\* what a write and a purge make of it.
LEMMA LeadsSelf ==
  ASSUME NEW b, DbOk(b)
  PROVE  Leads(b, b)
  BY PurgedSelf DEF Leads, Purged

LEMMA LeadsTrans ==
  ASSUME NEW a, DbOk(a), NEW b, NEW c, Leads(a, b), Leads(b, c)
  PROVE  Leads(a, c)
  BY FollowsTrans DEF Leads, DbOk

LEMMA WroteLeads ==
  ASSUME NEW b, NEW c, NEW d, NEW r, DbOk(c), Wrote(b, c, d, r)
  PROVE  Leads(b, c)
  BY DEF Leads, Wrote

LEMMA PurgedLeads ==
  ASSUME NEW b, NEW c, DbOk(c), Purged(b, c)
  PROVE  Leads(b, c)
  BY DEF Leads, Purged

\* One document of a request.
LEMMA WriteDocOk ==
  ASSUME NEW acc, DbOk(acc.db), NEW x, DocumentOk(x), NEW newEdits,
         NEW c, c = WriteDoc(newEdits, acc, x).db
  PROVE  Leads(acc.db, c)
  <1> DEFINE b == acc.db
             edit == Made(b, x)
             repl == CHOOSE r \in x.revs : TRUE
             ok == IF newEdits THEN edit # {}
                               ELSE AlreadyStored(b, x.id, repl) \/ StubsPresent(b, repl, Inline(x, repl))
             made == CHOOSE r \in edit : TRUE
             rev == IF newEdits /\ ok THEN made ELSE repl
  <1>1. x.id \in Doc /\ repl \in x.revs /\ x.revs \subseteq Rev /\ edit \subseteq x.revs
    BY DEF DocumentOk, Made
  <1>2. c = CASE ~ok -> b
              [] ok /\ newEdits -> NewEdit(b, x.id, rev, Inline(x, rev), StoreLimit)
              [] OTHER -> ReplicatedEdit(b, x.id, EditStart(rev), rev, Inline(x, rev), StoreLimit)
    BY DEF WriteDoc
  <1> HIDE DEF ok
  <1>3. CASE ~ok
    BY <1>2, <1>3, LeadsSelf
  <1>4. CASE ok /\ newEdits
    <2>1. made \in edit
      BY <1>4 DEF ok
    <2>2. made \in Rev /\ EditAttachmentsOk(b, x.id, made, Inline(x, made))
      BY <1>1, <2>1 DEF Made, Inline
    <2>3. c = NewEdit(b, x.id, made, Inline(x, made), StoreLimit)
      BY <1>2, <1>4
    <2>4. Inline(x, made) \in SUBSET Att[made]
      BY DEF Inline
    <2> HIDE DEF made
    <2>5. DbOk(c) /\ Wrote(b, c, x.id, made)
      BY <1>1, <2>2, <2>3, <2>4, EditOk, ServerAssumption
    <2> QED
      BY <2>5, WroteLeads
  <1>5. CASE ok /\ ~newEdits
    <2>1. c = ReplicatedEdit(b, x.id, EditStart(repl), repl, Inline(x, repl), StoreLimit)
      BY <1>2, <1>5
    <2>2. Inline(x, repl) \in SUBSET Att[repl]
      BY DEF Inline
    <2>3. repl \in Rev /\ EditStart(repl) \in Anc[repl]
      BY <1>1, EditPath
    <2> HIDE DEF repl
    <2>4. c = b \/ (DbOk(c) /\ Wrote(b, c, x.id, repl))
      BY <1>1, <2>1, <2>2, <2>3, ReplicateOk, ServerAssumption
    <2> QED
      BY <2>4, WroteLeads, LeadsSelf
  <1> QED
    BY <1>3, <1>4, <1>5

\* The function WriteDocs is built from is there.
LEMMA WritesDefined ==
  ASSUME NEW base, NEW docs, NEW newEdits, NEW n \in Nat
  PROVE  \E f : f = [i \in 0 .. n |->
                       IF i = 0 THEN [db |-> base, results |-> <<>>] ELSE WriteDoc(newEdits, f[i - 1], docs[i])]
  <1> DEFINE first == [db |-> base, results |-> <<>>]
             Step(f, i) == WriteDoc(newEdits, f[i - 1], docs[i])
             Fits(f, m) == f = [i \in 0 .. m |-> IF i = 0 THEN first ELSE Step(f, i)]
             S == {m \in Nat : \E f : Fits(f, m)}
  <1> HIDE DEF first
  <1>1. 0 \in S
    <2> DEFINE f == [i \in 0 .. 0 |-> first]
    <2>1. \A i \in 0 .. 0 : i = 0
      OBVIOUS
    <2>2. Fits(f, 0)
      BY <2>1
    <2> QED
      BY <2>2
  <1>2. ASSUME NEW m \in Nat, m \in S
        PROVE  m + 1 \in S
    <2>1. PICK f : Fits(f, m)
      BY <1>2
    <2> DEFINE g == [i \in 0 .. m + 1 |-> IF i = m + 1 THEN Step(f, i) ELSE f[i]]
    <2>2. \A i \in 0 .. m : g[i] = f[i]
      OBVIOUS
    <2>3. ASSUME NEW i \in 0 .. m + 1
          PROVE  g[i] = IF i = 0 THEN first ELSE Step(g, i)
      <3>1. CASE i = 0
        BY <2>1, <2>2, <3>1
      <3>2. CASE i # 0 /\ i # m + 1
        <4>1. i \in 0 .. m /\ i - 1 \in 0 .. m
          BY <3>2
        <4>2. f[i] = Step(f, i)
          BY <2>1, <3>2, <4>1
        <4> QED
          BY <2>2, <3>2, <4>1, <4>2
      <3>3. CASE i = m + 1
        <4>1. i - 1 \in 0 .. m /\ g[i] = Step(f, i)
          BY <3>3
        <4> QED
          BY <2>2, <3>3, <4>1
      <3> QED
        BY <3>1, <3>2, <3>3
    <2>4. Fits(g, m + 1)
      BY <2>3
    <2> HIDE DEF g
    <2> QED
      BY <2>4
  <1> HIDE DEF S
  <1>3. n \in S
    BY <1>1, <1>2, Induction
  <1> QED
    BY <1>3 DEF S, first

\* The documents of a request are written one after the other.
LEMMA WriteDocsOk ==
  ASSUME NEW base, DbOk(base), NEW docs, docs \in Seq(Range(docs)), \A x \in Range(docs) : DocumentOk(x),
         NEW newEdits
  PROVE  Leads(base, WriteDocs(base, docs, newEdits).db)
  <1> DEFINE n == Len(docs)
             first == [db |-> base, results |-> <<>>]
             after == CHOOSE f : f = [i \in 0 .. n |->
                        IF i = 0 THEN [db |-> base, results |-> <<>>] ELSE WriteDoc(newEdits, f[i - 1], docs[i])]
  <1>1. n \in Nat /\ \A i \in 1 .. n : DocumentOk(docs[i])
    OBVIOUS
  <1>2. after = [i \in 0 .. n |->
                   IF i = 0 THEN [db |-> base, results |-> <<>>] ELSE WriteDoc(newEdits, after[i - 1], docs[i])]
    BY <1>1, WritesDefined
  <1>3. WriteDocs(base, docs, newEdits) = after[n]
    BY DEF WriteDocs
  <1> HIDE DEF after, n
  <1> DEFINE S == {m \in Nat : m \in 0 .. n => Leads(base, after[m].db)}
  <1>4. 0 \in S
    <2>1. 0 \in 0 .. n => after[0].db = base
      BY <1>2
    <2> QED
      BY <2>1, LeadsSelf
  <1>5. ASSUME NEW m \in Nat, m \in S
        PROVE  m + 1 \in S
    <2> SUFFICES ASSUME m + 1 \in 0 .. n
                 PROVE  Leads(base, after[m + 1].db)
      OBVIOUS
    <2>2. Leads(base, after[m].db)
      BY <1>1, <1>5
    <2>3. after[m + 1] = WriteDoc(newEdits, after[m], docs[m + 1])
      BY <1>1, <1>2
    <2>4. DocumentOk(docs[m + 1])
      BY <1>1
    <2>5. Leads(after[m].db, after[m + 1].db)
      BY <2>2, <2>3, <2>4, WriteDocOk DEF Leads
    <2> QED
      BY <2>2, <2>5, LeadsTrans
  <1> HIDE DEF S
  <1>6. n \in S
    BY <1>1, <1>4, <1>5, Induction
  <1> QED
    BY <1>1, <1>3, <1>6 DEF S

\* What becomes of the database in a step: it goes on, or is made anew.
DbMoves == Leads(db, db') \/ (DbOk(db') /\ db'.uuid = db.uuid + 1)

\* One document, or the attachments of one, written.
LEMMA WriteOneMoves ==
  ASSUME DbOk(db), NEW t, NEW x, DocumentOk(x), db' = WriteDocs(db, <<x>>, TRUE).db
  PROVE  DbMoves
  <1> DEFINE docs == <<x>>
  <1>1. docs \in Seq(Range(docs)) /\ \A y \in Range(docs) : DocumentOk(y)
    BY DEF Range
  <1>2. db' = WriteDocs(db, docs, TRUE).db
    OBVIOUS
  <1> HIDE DEF docs
  <1> QED
    BY <1>1, <1>2, WriteDocsOk DEF DbMoves

LEMMA AttachmentMoves ==
  ASSUME DbOk(db), NEW x, DocumentOk(x), NEW U,
         db' = AttachmentEdit(db, x.id, CHOOSE r \in x.revs : TRUE, U, StoreLimit)
  PROVE  DbMoves
  <1> DEFINE r == CHOOSE s \in x.revs : TRUE
  <1>1. r \in Rev /\ x.id \in Doc
    BY DEF DocumentOk
  <1> HIDE DEF r
  <1>2. db' = AttachmentEdit(db, x.id, r, U, StoreLimit)
    BY DEF r
  <1>3. CASE db' = db
    BY <1>3, LeadsSelf DEF DbMoves
  <1>4. CASE db' # db
    <2>1. db' = NewEdit(db, x.id, r, U, StoreLimit) /\ EditAttachmentsOk(db, x.id, r, U)
      BY <1>2, <1>4 DEF AttachmentEdit
    <2>2. U \in SUBSET Att[r]
      BY <2>1 DEF EditAttachmentsOk
    <2>3. DbOk(db') /\ Wrote(db, db', x.id, r)
      BY <1>1, <2>1, <2>2, EditOk, ServerAssumption
    <2> QED
      BY <2>3, WroteLeads DEF DbMoves
  <1> QED
    BY <1>3, <1>4

\* A step of a handler.
LEMMA HandleMoves ==
  ASSUME DbOk(db), NEW t \in Task, Writable(req[t]), Handle(t)
  PROVE  DbMoves
  <1> USE DEF Handling
  <1>1. CASE db' = db
    BY <1>1, LeadsSelf DEF DbMoves
  <1>2. CASE DeleteDbDestroys(t)
    <2>1. db' = EmptyDb(db.uuid + 1) /\ db.uuid + 1 \in Nat
      BY <1>2 DEF DeleteDbDestroys, Destroy, DbOk, DbType
    <2>2. db'.uuid = db.uuid + 1
      BY <2>1 DEF EmptyDb
    <2> QED
      BY <2>1, <2>2, EmptyDbOk DEF DbMoves
  <1>3. CASE CompactRoute(t)
    BY <1>3, CompactOk, PurgedLeads DEF CompactRoute, DbMoves
  <1>4. CASE PurgeRoute(t)
    <2> DEFINE c == PurgeDoc(db, req[t].id, req[t].revs)
    <2>1. req[t].id \in Doc /\ db' = PurgeEnd(db, c)
      BY <1>4 DEF PurgeRoute, Writable
    <2>2. DbOk(c) /\ Purged(db, c)
      BY <2>1, PurgeDocOk
    <2> HIDE DEF c
    <2>3. DbOk(db') /\ Purged(c, db')
      BY <2>1, <2>2, PurgeEndOk
    <2> QED
      BY <2>2, <2>3, PurgedLeads, LeadsTrans DEF DbMoves
  <1>5. CASE BulkDocs(t)
    <2>1. CASE db' # db
      <3>1. db' = WriteDocs(db, req[t].docs, req[t].newEdits).db /\ req[t].kind = "bulk"
        BY <1>5, <2>1 DEF BulkDocs
      <3> QED
        BY <3>1, WriteDocsOk DEF Writable, DbMoves
    <2> QED
      BY <1>1, <2>1
  <1>6. CASE WriteSent(t)
    BY <1>6, WriteOneMoves DEF WriteSent, WriteOne, Writable
  <1>7. CASE AttachCreates(t)
    BY <1>7, WriteOneMoves DEF AttachCreates, WriteOne, Writable
  <1>8. CASE PutAttachment(t)
    BY <1>8, AttachmentMoves DEF PutAttachment, EditsAttachment, Writable
  <1>9. CASE DeleteAttachment(t)
    BY <1>9, AttachmentMoves DEF DeleteAttachment, EditsAttachment, Writable
  <1>10. CASE CheckDb(t) \/ GetDbInfo(t) \/ PutDb(t) \/ DeleteDbMarks(t) \/ EnsureLive(t) \/ AttachLooks(t)
    BY <1>1, <1>10 DEF CheckDb, GetDbInfo, PutDb, DeleteDbMarks, EnsureLive, AttachLooks
  <1>11. CASE AttachRefused(t) \/ GetLocal(t) \/ PutLocal(t) \/ DeleteLocal(t) \/ ReadRoute(t) \/ GetDoc(t)
    BY <1>1, <1>11 DEF AttachRefused, GetLocal, PutLocal, DeleteLocal, ReadRoute, GetDoc
  <1>12. CASE DocNotFound(t) \/ ListLeaves(t) \/ ReadLeaves(t) \/ ReadMeta(t) \/ ReadBytes(t)
    BY <1>1, <1>12 DEF DocNotFound, ListLeaves, ReadLeaves, ReadMeta, ReadBytes
  <1> QED
    BY <1>2, <1>3, <1>4, <1>5, <1>6, <1>7, <1>8, <1>9, <1>10, <1>11, <1>12 DEF Handle

----------------------------------------------------------------------------
(* What is sent is about documents of the database *)

\* The database is in order, and what is to be written is about its documents.
DataInv ==
  /\ DbOk(db)
  /\ \A x \in writes : DocumentOk(x)
  /\ \A t \in Task : Writable(req[t]) /\ (task[t].pc # "idle" => Writable(task[t].call))

\* Only what is written matters to that.
LEMMA WritableAlike ==
  ASSUME NEW r, Writable(r), NEW s, "kind" \in DOMAIN r,
         \A f \in DOMAIN r \intersect {"kind", "docs", "doc", "id"} : f \in DOMAIN s /\ s[f] = r[f]
  PROVE  Writable(s)
  <1>1. s.kind = r.kind
    OBVIOUS
  <1>2. "docs" \in DOMAIN r => "docs" \in DOMAIN s /\ s.docs = r.docs
    OBVIOUS
  <1>3. "doc" \in DOMAIN r => "doc" \in DOMAIN s /\ s.doc = r.doc
    OBVIOUS
  <1>4. "id" \in DOMAIN r => "id" \in DOMAIN s /\ s.id = r.id
    OBVIOUS
  <1> QED
    BY <1>1, <1>2, <1>3, <1>4 DEF Writable

\* A request that writes nothing.
Harmless(kind) == kind \notin {"bulk", "put_doc", "delete_doc", "attach", "put_attachment", "delete_attachment", "purge"}

LEMMA HarmlessIs ==
  ASSUME NEW r, Harmless(r.kind)
  PROVE  Writable(r)
  BY DEF Harmless, Writable

LEMMA RequestWritable ==
  ASSUME NEW call, Writable(call)
  PROVE  Writable(RequestOf(call))
  <1>1. CASE call.kind = "bulk"
    <2> DEFINE docs == call.docs
               p == Sent(docs)
               I == {i \in 1 .. Len(docs) : ~docs[i].deep}
    <2>1. docs \in Seq(Range(docs)) /\ (\A x \in Range(docs) : DocumentOk(x)) /\ "docs" \in DOMAIN call
      BY <1>1 DEF Writable
    <2>2. p = Pick(docs, I) /\ I \in SUBSET (1 .. Len(docs))
      BY DEF Sent
    <2> HIDE DEF I, docs, p
    <2>3. p \in Seq(Range(docs))
      BY <2>1, <2>2, PickIs
    <2>4. p \in Seq(Range(p)) /\ Range(p) \subseteq Range(docs)
      BY <2>3 DEF Range
    <2>5. RequestOf(call) = [call EXCEPT !.docs = p]
      BY <1>1 DEF RequestOf, p, docs
    <2>6. RequestOf(call).kind = "bulk" /\ RequestOf(call).docs = p /\ "docs" \in DOMAIN RequestOf(call)
      BY <1>1, <2>1, <2>5
    <2> QED
      BY <2>1, <2>4, <2>6 DEF Writable
  <1>2. CASE call.kind = "removing"
    <2>1. RequestOf(call).kind = "get_local"
      BY <1>2 DEF RequestOf
    <2> QED
      BY <2>1, HarmlessIs DEF Harmless
  <1>3. CASE call.kind \notin {"bulk", "removing"}
    BY <1>3 DEF RequestOf
  <1> QED
    BY <1>1, <1>2, <1>3

\* A step of task t leaves its request and its call in order.
Orderly(t) ==
  /\ \A u \in Task : u # t => req'[u] = req[u] /\ task'[u] = task[u]
  /\ Writable(req'[t]) /\ (task'[t].pc # "idle" => Writable(task'[t].call))

LEMMA NoRequestWritable == Writable(NoRequest)
  BY HarmlessIs DEF Harmless, NoRequest

\* The ends of a step of a task: the call is over, or its next request is sent.
LEMMA FinishOrderly ==
  ASSUME SetupInv, NEW t \in Task, NEW o, Finish(t, o)
  PROVE  Orderly(t)
  <1>1. t \in DOMAIN task /\ DOMAIN req = Task /\ DOMAIN task = Task /\ TaskFields \subseteq DOMAIN task[t]
    BY DEF SetupInv, Shapes, TaskInv, TaskShape
  <1>2. req'[t] = NoRequest /\ task'[t].pc = "idle"
    BY <1>1 DEF Finish, TaskFields
  <1>3. \A u \in Task : u # t => req'[u] = req[u] /\ task'[u] = task[u]
    BY <1>1 DEF Finish
  <1> QED
    BY <1>2, <1>3, NoRequestWritable DEF Orderly

LEMMA SendWritable ==
  ASSUME SetupInv, NEW t \in Task, NEW r, "kind" \in DOMAIN r, "at" \notin DOMAIN r, Writable(r), Send(t, r)
  PROVE  /\ Writable(req'[t]) /\ \A u \in Task : u # t => req'[u] = req[u]
  <1>1. DOMAIN req = Task
    BY DEF SetupInv, Shapes
  <1>2. /\ req' = [req EXCEPT ![t] = req'[t]]
        /\ \A f \in DOMAIN r : f \in DOMAIN req'[t] /\ req'[t][f] = r[f]
    BY <1>1, SentIs
  <1>3. Writable(req'[t])
    BY <1>2, WritableAlike
  <1>4. \A u \in Task : u # t => req'[u] = req[u]
    BY <1>1, <1>2
  <1> QED
    BY <1>3, <1>4

LEMMA GoOrderly ==
  ASSUME SetupInv, NEW t \in Task, NEW pc, NEW r, "kind" \in DOMAIN r, "at" \notin DOMAIN r, Writable(r),
         Go(t, pc, r), Writable(task[t].call)
  PROVE  Orderly(t)
  <1>1. DOMAIN task = Task /\ TaskFields \subseteq DOMAIN task[t]
    BY DEF SetupInv, Shapes, TaskInv, TaskShape
  <1>2. task'[t].call = task[t].call /\ \A u \in Task : u # t => task'[u] = task[u]
    BY <1>1 DEF Go, TaskFields
  <1> QED
    BY <1>2, SendWritable DEF Go, Orderly

\* The steps of a task.
LEMMA SendCallOrderly ==
  ASSUME SetupInv, NEW t \in Task, Mine(t), task[t].pc \in {"setup", "looking", "creating"},
         Writable(task[t].call), SendCall(t)
  PROVE  Orderly(t)
  <1> DEFINE call == task[t].call
  <1>1. DOMAIN task = Task /\ TaskFields \subseteq DOMAIN task[t] /\ DOMAIN req = Task
    BY DEF SetupInv, Shapes, TaskInv, TaskShape
  <1>2. "kind" \in DOMAIN call /\ "at" \notin DOMAIN call /\ call.kind \notin {"info", "put_db", "delete_db"}
    BY DEF SetupInv, TaskInv, CallsOk
  <1>3. CASE call.kind = "bulk" /\ Sent(call.docs) = <<>>
    <2>1. \E o : Finish(t, o)
      BY <1>3 DEF SendCall
    <2> QED
      BY <2>1, FinishOrderly
  <1>4. CASE call.kind = "remove_local"
    <2>1. /\ task' = [task EXCEPT ![t].pc = "setup", ![t].call.kind = "removing", ![t].gen = Len(cells[On[t]])]
          /\ req' = [req EXCEPT ![t] = NoRequest]
      BY <1>4 DEF SendCall
    <2>2. task'[t].call = [call EXCEPT !.kind = "removing"]
      BY <1>1, <2>1 DEF TaskFields
    <2>3. Writable(task'[t].call)
      BY <1>2, <2>2, HarmlessIs DEF Harmless
    <2>4. req'[t] = NoRequest /\ \A u \in Task : u # t => req'[u] = req[u] /\ task'[u] = task[u]
      BY <1>1, <2>1
    <2> QED
      BY <2>3, <2>4, NoRequestWritable DEF Orderly
  <1>5. CASE call.kind # "remove_local" /\ ~(call.kind = "bulk" /\ Sent(call.docs) = <<>>)
    <2>1. PICK pc : Go(t, pc, RequestOf(call))
      BY <1>5 DEF SendCall
    <2>2. "kind" \in DOMAIN RequestOf(call) /\ "at" \notin DOMAIN RequestOf(call)
      BY <1>2, KindOfRequest
    <2>3. Writable(RequestOf(call))
      BY RequestWritable
    <2> QED
      BY <2>1, <2>2, <2>3, GoOrderly
  <1> QED
    BY <1>3, <1>4, <1>5

\* The requests the adapter makes by itself.
LEMMA OwnRequests ==
  /\ "kind" \in DOMAIN InfoRequest /\ "at" \notin DOMAIN InfoRequest /\ Writable(InfoRequest)
  /\ "kind" \in DOMAIN PutDbRequest /\ "at" \notin DOMAIN PutDbRequest /\ Writable(PutDbRequest)
  /\ "kind" \in DOMAIN DeleteDbRequest /\ "at" \notin DOMAIN DeleteDbRequest /\ Writable(DeleteDbRequest)
  BY HarmlessIs DEF Harmless, InfoRequest, PutDbRequest, DeleteDbRequest

LEMMA BeginOrderly ==
  ASSUME SetupInv, DataInv, NEW t \in Task, Begin(t)
  PROVE  Orderly(t)
  <1> DEFINE call == Head(task[t].todo)
             own == On[t] = NoAdapter
             next == [task[t] EXCEPT
                        !.todo = Tail(@), !.call = call, !.retries = Retries, !.hit = FALSE, !.before = db,
                        !.found = locals,
                        !.gone = ~own /\ stale[On[t]] /\ Last(cells[On[t]]) # "empty", !.outcome = [is |-> "none"],
                        !.gen = IF own THEN 1 ELSE Len(cells[On[t]])]
  <1>1. DOMAIN task = Task /\ TaskFields \subseteq DOMAIN task[t] /\ DOMAIN req = Task
    BY DEF SetupInv, Shapes, TaskInv, TaskShape
  <1>2. CallOk(t, call)
    <2>1. /\ task[t].todo \in Seq(AllCalls) /\ task[t].todo # <<>>
          /\ \A i \in 1 .. Len(task[t].todo) : CallOk(t, task[t].todo[i])
      BY DEF SetupInv, TaskInv, CallsOk, Begin
    <2>2. Len(task[t].todo) >= 1 /\ Len(task[t].todo) \in Nat /\ call = task[t].todo[1]
      BY <2>1
    <2> QED
      BY <2>1, <2>2
  <1>3. next.call = call /\ "call" \in DOMAIN next
    BY <1>1 DEF TaskFields
  <1>4. \/ task' = [task EXCEPT ![t] = [next EXCEPT !.pc = "call"]] /\ Send(t, IF own THEN call ELSE DeleteDbRequest)
        \/ task' = [task EXCEPT ![t] = [next EXCEPT !.pc = "setup"]] /\ req' = req
    BY DEF Begin
  <1> HIDE DEF next
  <1>5. task'[t].call = call /\ \A u \in Task : u # t => task'[u] = task[u]
    BY <1>1, <1>3, <1>4
  <1>6. Writable(req'[t]) /\ \A u \in Task : u # t => req'[u] = req[u]
    <2>1. CASE req' = req
      BY <2>1 DEF DataInv
    <2>2. CASE Send(t, call)
      BY <1>2, <2>2, SendWritable DEF CallOk
    <2>3. CASE Send(t, DeleteDbRequest)
      BY <2>3, SendWritable, OwnRequests
    <2> QED
      BY <1>4, <2>1, <2>2, <2>3
  <1> QED
    BY <1>2, <1>5, <1>6 DEF Orderly, CallOk

LEMMA ClientOrderly ==
  ASSUME SetupInv, DataInv, NEW t \in Task, Client(t)
  PROVE  Orderly(t) /\ db' = db
  <1>0. task[t].pc # "idle" => Writable(task[t].call)
    BY DEF DataInv
  <1>1. CASE Begin(t)
    BY <1>1, BeginOrderly DEF Begin
  <1>2. CASE EnsureSetup(t)
    <2>1. Mine(t)
      BY <1>2 DEF EnsureSetup, SetupInv, TaskInv, TaskShape
    <2>2. SendCall(t) \/ Go(t, "looking", InfoRequest)
      BY <1>2 DEF EnsureSetup
    <2> QED
      BY <1>0, <1>2, <2>1, <2>2, SendCallOrderly, GoOrderly, OwnRequests DEF EnsureSetup
  <1>3. CASE Retry(t)
    <2> DEFINE r == [kind |-> req[t].kind]
    <2>1. task' = [task EXCEPT ![t].retries = @ - 1] /\ Send(t, r) /\ AboutDb(t)
      BY <1>3 DEF Retry
    <2>2. DOMAIN r = {"kind"} /\ r.kind \in {"info", "put_db", "delete_db"}
      BY <2>1 DEF AboutDb
    <2> HIDE DEF r
    <2>3. Writable(req'[t]) /\ \A u \in Task : u # t => req'[u] = req[u]
      BY <2>1, <2>2, HarmlessIs, SendWritable DEF Harmless
    <2>4. DOMAIN task = Task /\ TaskFields \subseteq DOMAIN task[t]
      BY DEF SetupInv, Shapes, TaskInv, TaskShape
    <2>5. task'[t].call = task[t].call /\ task'[t].pc = task[t].pc /\ \A u \in Task : u # t => task'[u] = task[u]
      BY <2>1, <2>4 DEF TaskFields
    <2> QED
      BY <1>0, <1>3, <2>3, <2>5 DEF Orderly, Retry
  <1>4. CASE Looked(t) \/ Created(t)
    <2>1. task[t].pc \in {"looking", "creating"} /\ Mine(t)
      BY <1>4 DEF Looked, Created, Answered, SetupInv, TaskInv, TaskShape
    <2>2. \/ SendCall(t)
          \/ \E o : Finish(t, o)
          \/ /\ task' = [task EXCEPT ![t].pc = "creating", ![t].retries = Retries]
             /\ Send(t, PutDbRequest)
      BY <1>4 DEF Looked, Created
    <2>3. ASSUME task' = [task EXCEPT ![t].pc = "creating", ![t].retries = Retries], Send(t, PutDbRequest)
          PROVE  Orderly(t)
      <3>1. DOMAIN task = Task /\ TaskFields \subseteq DOMAIN task[t]
        BY DEF SetupInv, Shapes, TaskInv, TaskShape
      <3>2. task'[t].call = task[t].call /\ \A u \in Task : u # t => task'[u] = task[u]
        BY <2>3, <3>1 DEF TaskFields
      <3> QED
        BY <1>0, <2>1, <2>3, <3>2, SendWritable, OwnRequests DEF Orderly
    <2>4. Orderly(t)
      BY <1>0, <2>1, <2>2, <2>3, SendCallOrderly, FinishOrderly
    <2> QED
      BY <1>4, <2>4 DEF Looked, Created, Received
  <1>5. CASE Located(t)
    <2> DEFINE r == [kind |-> "delete_local", id |-> task[t].call.id]
    <2>1. task[t].pc = "locating"
      BY <1>5 DEF Located, Answered
    <2>2. Go(t, "call", r) \/ \E o : Finish(t, o)
      BY <1>5 DEF Located
    <2>3. DOMAIN r = {"kind", "id"} /\ r.kind = "delete_local"
      OBVIOUS
    <2> HIDE DEF r
    <2>4. Orderly(t)
      BY <1>0, <2>1, <2>2, <2>3, GoOrderly, FinishOrderly, HarmlessIs DEF Harmless
    <2> QED
      BY <1>5, <2>4 DEF Located, Received
  <1>6. CASE Done(t)
    <2>1. \E o : Finish(t, o)
      BY <1>6 DEF Done
    <2> QED
      BY <1>6, <2>1, FinishOrderly DEF Done, Received
  <1> QED
    BY <1>1, <1>2, <1>3, <1>4, <1>5, <1>6 DEF Client

\* Such a step keeps the invariant, and moves keep the database in order.
LEMMA OrderlyKeeps ==
  ASSUME DataInv, NEW t \in Task, Orderly(t), DbOk(db'), writes' \subseteq writes
  PROVE  DataInv'
  <1>1. ASSUME NEW u \in Task
        PROVE  Writable(req'[u]) /\ (task'[u].pc # "idle" => Writable(task'[u].call))
    <2>1. CASE u = t
      BY <2>1 DEF Orderly
    <2>2. CASE u # t
      <3>1. req'[u] = req[u] /\ task'[u] = task[u]
        BY <2>2 DEF Orderly
      <3> QED
        BY <3>1 DEF DataInv
    <2> QED
      BY <2>1, <2>2
  <1> QED
    BY <1>1 DEF DataInv

LEMMA MovesOk ==
  ASSUME DbMoves
  PROVE  DbOk(db')
  BY DEF DbMoves, Leads

LEMMA StillMoves ==
  ASSUME DbOk(db), db' = db
  PROVE  DbMoves
  BY LeadsSelf DEF DbMoves

\* A request keeps what it asks for while it is handled.
LEMMA MovesWritable ==
  ASSUME DataInv, NEW t \in Task, DOMAIN req = Task, "kind" \in DOMAIN req[t], Moves(t)
  PROVE  Writable(req'[t]) /\ \A u \in Task : u # t => req'[u] = req[u]
  <1>1. Writable(req[t])
    BY DEF DataInv
  <1>2. \A f \in DOMAIN req[t] \intersect {"kind", "docs", "doc", "id"} :
          f \in DOMAIN req'[t] /\ req'[t][f] = req[t][f]
    BY DEF Moves
  <1>3. req' = [req EXCEPT ![t] = req'[t]]
    BY DEF Moves
  <1>4. \A u \in Task : u # t => req'[u] = req[u]
    BY <1>3
  <1> QED
    BY <1>1, <1>2, <1>4, WritableAlike

\* Every step keeps the database in order.
LEMMA DataStep ==
  ASSUME SetupInv, DataInv, [Next]_httpVars
  PROVE  DataInv' /\ DbMoves
  <1>0. DbOk(db) /\ DOMAIN req = Task /\ DOMAIN task = Task
        /\ \A t \in Task : TaskFields \subseteq DOMAIN task[t] /\ {"kind", "at"} \subseteq DOMAIN req[t]
    BY DEF DataInv, SetupInv, Shapes, TaskInv, TaskShape
  <1>1. ASSUME NEW t \in Task, Client(t), UNCHANGED <<feed, faults, writes>>
        PROVE  DataInv' /\ DbMoves
    <2>1. Orderly(t) /\ db' = db /\ writes' = writes
      BY <1>1, ClientOrderly
    <2>2. DbMoves
      BY <1>0, <2>1, StillMoves
    <2> QED
      BY <2>1, <2>2, MovesOk, OrderlyKeeps
  <1>2. ASSUME NEW t \in Task, ServerStep(t)
        PROVE  DataInv' /\ DbMoves
    <2>1. DbMoves
      BY <1>0, <1>2, HandleMoves DEF DataInv, ServerStep
    <2>2. Moves(t)
      BY <1>0, <1>2, HandleIs DEF ServerStep, SetupInv, Shapes, TaskInv, Asking, Handled
    <2>3. Writable(req'[t]) /\ \A u \in Task : u # t => req'[u] = req[u]
      BY <1>0, <2>2, MovesWritable
    <2>4. \A u \in Task : task'[u].pc = task[u].pc /\ task'[u].call = task[u].call
      <3>1. CASE task' = [u \in Task |-> [task[u] EXCEPT !.gone = @ \/ task[u].pc # "idle"]]
        BY <1>0, <3>1 DEF TaskFields
      <3> QED
        BY <1>2, <3>1 DEF ServerStep, NoteDeleted
    <2>5. writes' = writes
      BY <1>2 DEF ServerStep
    <2>6. \A u \in Task : Writable(req'[u])
      BY <2>3 DEF DataInv
    <2>7. \A u \in Task : task'[u].pc # "idle" => Writable(task'[u].call)
      BY <2>4 DEF DataInv
    <2>8. DbOk(db')
      BY <2>1, MovesOk
    <2> QED
      BY <2>1, <2>5, <2>6, <2>7, <2>8 DEF DataInv
  <1>3. ASSUME db' = db, req' = req, task' = task, writes' = writes
        PROVE  DataInv' /\ DbMoves
    BY <1>0, <1>3, StillMoves DEF DataInv
  <1>4. CASE FeedStep /\ UNCHANGED <<clientVars, faults>>
    <2>1. db' = db /\ req' = req
      BY <1>4 DEF FeedStep, FetchStep, Serve, Wake, Expire, Reopen, serverVars
    <2> QED
      BY <1>3, <1>4, <2>1 DEF clientVars
  <1>5. CASE DirectWrite
    <2>1. PICK w \in writes : db' = WriteDocs(db, <<w>>, TRUE).db /\ writes' = writes \ {w}
      BY <1>5 DEF DirectWrite
    <2>2. DbMoves
      BY <1>0, <2>1, WriteOneMoves DEF DataInv
    <2>3. req' = req /\ task' = task
      BY <1>5 DEF DirectWrite
    <2>4. \A x \in writes' : DocumentOk(x)
      BY <2>1 DEF DataInv
    <2>5. DbOk(db')
      BY <2>2, MovesOk
    <2> QED
      BY <2>2, <2>3, <2>4, <2>5 DEF DataInv
  <1>6. ASSUME NEW t \in Task, Lose(t), writes' = writes
        PROVE  DataInv' /\ DbMoves
    <2>1. db' = db
      BY <1>6 DEF Lose, Broken
    <2>2. /\ req'[t] = NoRequest /\ task'[t].pc = "idle"
          /\ \A u \in Task : u # t => req'[u] = req[u] /\ task'[u] = task[u]
      BY <1>0, <1>6 DEF Lose, TaskFields
    <2>3. Orderly(t)
      BY <2>2, NoRequestWritable DEF Orderly
    <2> QED
      BY <1>0, <1>6, <2>1, <2>3, StillMoves, OrderlyKeeps
  <1>7. ASSUME NEW t \in Task, Fail(t), writes' = writes
        PROVE  DataInv' /\ DbMoves
    <2>1. db' = db /\ \E a : Answer(t, a)
      BY <1>7 DEF Fail, HandlerFails, FailureSwallowed
    <2>2. Moves(t)
      BY <1>0, <2>1, AnswerIs
    <2>3. Writable(req'[t]) /\ \A u \in Task : u # t => req'[u] = req[u]
      BY <1>0, <2>2, MovesWritable
    <2>4. /\ task'[t].pc = task[t].pc /\ task'[t].call = task[t].call
          /\ \A u \in Task : u # t => task'[u] = task[u]
      BY <1>0, <1>7 DEF Fail, TaskFields
    <2>5. Orderly(t)
      BY <2>3, <2>4 DEF Orderly, DataInv
    <2> QED
      BY <1>0, <1>7, <2>1, <2>5, StillMoves, OrderlyKeeps
  <1>8. CASE Fault
    <2>1. CASE (FetchFails \/ Disconnect) /\ UNCHANGED clientVars
      BY <1>3, <2>1 DEF FetchFails, Disconnect, serverVars, clientVars
    <2> QED
      BY <1>6, <1>7, <1>8, <2>1 DEF Fault
  <1>9. CASE UNCHANGED httpVars
    BY <1>3, <1>9 DEF httpVars
  <1> QED
    BY <1>1, <1>2, <1>4, <1>5, <1>8, <1>9 DEF Next

\* So it starts.
LEMMA DataInit ==
  ASSUME Init
  PROVE  DataInv
  <1>1. PICK c \in Cases :
          /\ db = WriteDocs(EmptyDb(0), c.start, FALSE).db /\ req = [t \in Task |-> NoRequest]
          /\ writes = c.writes
          /\ task = [t \in Task |-> [pc |-> "idle", todo |-> c.todo[t], call |-> NoRequest, gen |-> 1,
                                     retries |-> 0, gone |-> FALSE, hit |-> FALSE, before |-> db, found |-> locals,
                                     outcome |-> [is |-> "none"]]]
    BY DEF Init, ServerInit
  <1>2. c.start \in Seq(Range(c.start)) /\ \A x \in Range(c.start) \union c.writes : DocumentOk(x)
    BY AdapterAssumption
  <1>3. DbOk(db)
    <2>1. DbOk(EmptyDb(0))
      BY EmptyDbOk
    <2> QED
      BY <1>1, <1>2, <2>1, WriteDocsOk DEF Leads
  <1>4. \A t \in Task : req[t] = NoRequest /\ task[t].pc = "idle"
    BY <1>1
  <1> QED
    BY <1>1, <1>2, <1>3, <1>4, NoRequestWritable DEF DataInv

----------------------------------------------------------------------------
(* The invariant of the feed *)

FeedFields ==
  {"kind", "filter", "timeout", "limit", "pc", "remaining", "since", "events", "lastSeq", "got", "base",
   "resume", "uuid", "left"}

\* A feed that was asked for.
FeedTyped ==
  /\ FeedFields \subseteq DOMAIN feed
  /\ feed.pc \in {"fetch", "serve", "wait", "ended", "closed"}
  /\ feed.kind \in {"longpoll", "continuous"} /\ feed.filter \in {"none", "design", "selector"}
  /\ feed.limit \in Nat \ {0} /\ feed.left \in Nat /\ feed.uuid = 0
  /\ feed.remaining \in Nat /\ feed.since \in Nat /\ feed.lastSeq \in Nat /\ feed.resume \in Nat
  /\ feed.got \in Seq(Nat) /\ feed.base \in 0 .. Len(feed.got)

\* It is connected; it has events in hand.
Busy == feed.pc \in {"fetch", "serve", "wait"}
Gathering == feed.pc \in {"fetch", "serve"}

\* The sequence s is among the events.
Lists(events, s) == \E i \in 1 .. Len(events) : events[i].seq = s

\* What was sent on this connection, and what is in hand, is in order and beyond
\* what went before, and no more than was asked for.
FeedOrdered ==
  /\ \A i \in feed.base + 1 .. Len(feed.got) : feed.got[i] <= feed.since
  /\ \A i, j \in feed.base + 1 .. Len(feed.got) : i < j => feed.got[i] < feed.got[j]
  /\ feed.resume <= feed.since
  /\ Busy => feed.remaining # 0
  /\ Gathering => /\ feed.since <= feed.lastSeq
                  /\ EventsOk(feed.events, feed.since, feed.lastSeq)
                  /\ Len(feed.events) <= feed.remaining
  /\ feed.pc = "fetch" /\ feed.remaining = NoLimit => feed.events = <<>>
  /\ feed.pc \in {"wait", "ended"} => feed.events = <<>>
  /\ feed.pc = "ended" => feed.resume = feed.since

\* The client has what the feed is to show up to `last', among the first n it got;
\* the events have it from `since' to `last'.
GotAll(last, n) == \A c \in Due : c.seq <= last => \E i \in 1 .. n : feed.got[i] = c.seq

Gathered(events, since, last) == \A c \in Due : since < c.seq /\ c.seq <= last => Lists(events, c.seq)

\* Nothing is skipped: not up to where the feed is, not up to where the client
\* would open it again, and not in what is in hand.
FeedCovers ==
  /\ feed.since <= db.updateSeq /\ GotAll(feed.since, Len(feed.got))
  /\ Busy => GotAll(feed.resume, feed.base)
  /\ Gathering => /\ feed.lastSeq <= db.updateSeq
                  /\ Gathered(feed.events, feed.since, feed.lastSeq)

\* The feed, of the database it was opened on.
FeedInv == feed = Closed \/ (FeedTyped /\ FeedOrdered /\ (db.uuid = feed.uuid => FeedCovers))

----------------------------------------------------------------------------
(* Lists of events *)

\* The first elements of a list.
LEMMA PrefixIs ==
  ASSUME NEW T, NEW s \in Seq(T), NEW k \in Nat, k <= Len(s), NEW p, p = SubSeq(s, 1, k)
  PROVE  /\ p \in Seq(T) /\ Len(p) = k
         /\ \A i \in 1 .. k : p[i] = s[i] /\ i \in 1 .. Len(s)
  <1>1. p \in Seq(T)
    OBVIOUS
  <1>2. Len(p) = k /\ \A i \in 1 .. k : p[i] = s[i] /\ i \in 1 .. Len(s)
    OBVIOUS
  <1> QED
    BY <1>1, <1>2

\* J has what E and F have.
Joins(J, E, F) ==
  /\ Len(J) = Len(E) + Len(F)
  /\ \A s : Lists(E, s) \/ Lists(F, s) => Lists(J, s)

\* What was gathered before is followed by what comes after it.
LEMMA JoinedIs ==
  ASSUME NEW since \in Nat, NEW middle \in Nat, NEW last \in Nat, since <= middle, middle <= last,
         NEW E, EventsOk(E, since, middle), NEW F, EventsOk(F, middle, last), NEW J, J = E \o F
  PROVE  EventsOk(J, since, last) /\ Joins(J, E, F)
  <1> DEFINE m == Len(E)
             n == Len(F)
  <1>0. PICK T, U : E \in Seq(T) /\ F \in Seq(U)
    BY DEF EventsOk, IsList
  <1>1. E \in Seq(T \union U) /\ F \in Seq(T \union U) /\ m \in Nat /\ n \in Nat
    BY <1>0
  <1>2. J \in Seq(T \union U) /\ Len(J) = m + n
    BY <1>1
  <1>3. /\ \A i \in 1 .. m : J[i] = E[i]
        /\ \A i \in 1 .. m + n : i > m => J[i] = F[i - m] /\ i - m \in 1 .. n
    BY <1>1
  <1>4. \A i \in 1 .. n : J[m + i] = F[i] /\ m + i \in 1 .. m + n
    BY <1>1
  <1>5. /\ \A i \in 1 .. m : E[i].seq \in Nat /\ since < E[i].seq /\ E[i].seq <= middle
        /\ \A i \in 1 .. n : F[i].seq \in Nat /\ middle < F[i].seq /\ F[i].seq <= last
        /\ \A i, j \in 1 .. m : i < j => E[i].seq < E[j].seq
        /\ \A i, j \in 1 .. n : i < j => F[i].seq < F[j].seq
    BY DEF EventsOk
  <1>6. IsList(J)
    BY <1>2 DEF IsList
  <1> HIDE DEF m, n
  <1>12. \A x \in Nat : since < x /\ x <= middle => x <= last
    OBVIOUS
  <1>15. \A x \in Nat : middle < x => since < x
    OBVIOUS
  <1>13. \A x, y \in Nat : x <= middle /\ middle < y => x < y
    OBVIOUS
  <1>14. \A i \in 1 .. m + n : i <= m \/ i > m
    BY <1>1
  <1>7. \A i \in 1 .. m + n : i <= m => i \in 1 .. m
    BY <1>1
  <1>8. ASSUME NEW i \in 1 .. m + n
        PROVE  J[i].seq \in Nat /\ since < J[i].seq /\ J[i].seq <= last
    <2>1. CASE i <= m
      <3>1. J[i].seq \in Nat /\ since < J[i].seq /\ J[i].seq <= middle
        BY <1>3, <1>5, <1>7, <2>1
      <3> QED
        BY <1>12, <3>1
    <2>2. CASE i > m
      <3>1. J[i].seq \in Nat /\ middle < J[i].seq /\ J[i].seq <= last
        BY <1>3, <1>5, <2>2
      <3> QED
        BY <1>15, <3>1
    <2> QED
      BY <1>14, <2>1, <2>2
  <1>9. ASSUME NEW i \in 1 .. m + n, NEW j \in 1 .. m + n, i < j
        PROVE  J[i].seq < J[j].seq
    <2>1. CASE j <= m
      <3>1. i \in 1 .. m /\ j \in 1 .. m
        BY <1>1, <1>9, <2>1
      <3> QED
        BY <1>3, <1>5, <1>9, <3>1
    <2>2. CASE i > m
      <3>1. j > m /\ i - m < j - m
        BY <1>1, <1>9, <2>2
      <3> QED
        BY <1>3, <1>5, <2>2, <3>1
    <2>3. CASE i <= m /\ j > m
      <3>1. J[i].seq \in Nat /\ J[i].seq <= middle /\ J[j].seq \in Nat /\ middle < J[j].seq
        BY <1>3, <1>5, <1>7, <2>3
      <3> QED
        BY <1>13, <3>1
    <2> QED
      BY <1>14, <2>1, <2>2, <2>3
  <1>10. EventsOk(J, since, last)
    BY <1>2, <1>6, <1>8, <1>9 DEF EventsOk
  <1>11. ASSUME NEW s, Lists(E, s) \/ Lists(F, s)
         PROVE  Lists(J, s)
    <2>1. CASE Lists(E, s)
      <3>1. PICK i \in 1 .. m : E[i].seq = s
        BY <2>1 DEF Lists, m
      <3>2. i \in 1 .. m + n
        BY <1>1
      <3> QED
        BY <1>2, <1>3, <3>1, <3>2 DEF Lists
    <2>2. CASE Lists(F, s)
      <3>1. PICK i \in 1 .. n : F[i].seq = s
        BY <2>2 DEF Lists, n
      <3> QED
        BY <1>2, <1>4, <3>1 DEF Lists
    <2> QED
      BY <1>11, <2>1, <2>2
  <1> QED
    BY <1>2, <1>10, <1>11 DEF Joins, m, n

\* A list that is not too long is not cut.
LEMMA UncutIs ==
  ASSUME NEW E, IsList(E), NEW n \in Nat, Len(E) <= n, NEW C, C = SubSeq(E, 1, Smaller(n, Len(E)))
  PROVE  C = E
  <1>1. PICK T : E \in Seq(T)
    BY DEF IsList
  <1>2. Len(E) \in Nat
    BY <1>1
  <1>3. Smaller(n, Len(E)) = Len(E)
    BY <1>2 DEF Smaller
  <1> QED
    BY <1>1, <1>3

\* C is the first n events of E.
IsFront(C, E, since, last, n) ==
  /\ Len(C) = n /\ C # <<>> /\ Last(C).seq \in Nat
  /\ since < Last(C).seq /\ Last(C).seq <= last /\ EventsOk(C, since, Last(C).seq)
  /\ \A s \in Nat : Lists(E, s) /\ s <= Last(C).seq => Lists(C, s)

LEMMA FrontIs ==
  ASSUME NEW since \in Nat, NEW last \in Nat, NEW E, EventsOk(E, since, last),
         NEW n \in Nat, n # 0, n <= Len(E), NEW C, C = SubSeq(E, 1, n)
  PROVE  IsFront(C, E, since, last, n)
  <1>0. PICK T : E \in Seq(T)
    BY DEF EventsOk, IsList
  <1>1. Len(E) \in Nat
    BY <1>0
  <1>2. C \in Seq(T) /\ Len(C) = n /\ \A i \in 1 .. n : C[i] = E[i] /\ i \in 1 .. Len(E)
    BY <1>0, PrefixIs
  <1>3. IsList(C)
    BY <1>2 DEF IsList
  <1>4. n \in 1 .. n /\ n \in 1 .. Len(E) /\ C # <<>>
    BY <1>1, <1>2
  <1>5. Last(C).seq = E[n].seq
    BY <1>2, <1>4 DEF Last
  <1>6. /\ \A i \in 1 .. Len(E) : E[i].seq \in Nat /\ since < E[i].seq /\ E[i].seq <= last
        /\ \A i, j \in 1 .. Len(E) : i < j => E[i].seq < E[j].seq
    BY DEF EventsOk
  <1>7. ASSUME NEW i \in 1 .. n
        PROVE  C[i].seq \in Nat /\ since < C[i].seq /\ C[i].seq <= E[n].seq
    <2>1. i \in 1 .. Len(E) /\ C[i] = E[i]
      BY <1>2
    <2>2. i = n \/ i < n
      OBVIOUS
    <2>3. E[i].seq = E[n].seq \/ E[i].seq < E[n].seq
      BY <1>4, <1>6, <2>1, <2>2
    <2>4. E[i].seq \in Nat /\ E[n].seq \in Nat /\ since < E[i].seq
      BY <1>4, <1>6, <2>1
    <2>5. \A x, y \in Nat : x = y \/ x < y => x <= y
      OBVIOUS
    <2> QED
      BY <2>1, <2>3, <2>4, <2>5
  <1>8. \A i, j \in 1 .. n : i < j => C[i].seq < C[j].seq
    BY <1>2, <1>6
  <1>9. EventsOk(C, since, E[n].seq)
    BY <1>2, <1>3, <1>7, <1>8 DEF EventsOk
  <1>10. ASSUME NEW s \in Nat, Lists(E, s), s <= E[n].seq
         PROVE  Lists(C, s)
    <2>1. PICK i \in 1 .. Len(E) : E[i].seq = s
      BY <1>10 DEF Lists
    <2>2. ASSUME n < i PROVE FALSE
      <3>1. E[n].seq < s /\ E[n].seq \in Nat
        BY <1>4, <1>6, <2>1, <2>2
      <3> QED
        BY <1>10, <3>1
    <2>3. i \in 1 .. n
      BY <1>1, <2>2
    <2> QED
      BY <1>2, <2>1, <2>3 DEF Lists
  <1> QED
    BY <1>2, <1>4, <1>5, <1>6, <1>9, <1>10 DEF IsFront

----------------------------------------------------------------------------
(* What the feed is to show *)

\* A whole listing has what the feed is to show of it.
LEMMA CoversGathers ==
  ASSUME NEW E, NEW s, NEW l, Covers(db, E, s, l)
  PROVE  Gathered(E, s, l)
  BY DEF Covers, Gathered, Due, Lists

\* So has what a filter leaves of it.
LEMMA ShownIs ==
  ASSUME NEW E, NEW s, NEW l, EventsOk(E, s, l), Covers(db, E, s, l), NEW p, p = AllShown(E)
  PROVE  EventsOk(p, s, l) /\ Len(p) <= Len(E) /\ Gathered(p, s, l)
  <1> DEFINE I == {i \in 1 .. Len(E) : Shown(E[i])}
  <1>1. PICK T : E \in Seq(T)
    BY DEF EventsOk, IsList
  <1>2. I \in SUBSET (1 .. Len(E)) /\ p = Pick(E, I)
    BY DEF AllShown
  <1>3. \A c \in Due : s < c.seq /\ c.seq <= l => \E i \in I : E[i].seq = c.seq
    <2> SUFFICES ASSUME NEW c \in Due, s < c.seq, c.seq <= l PROVE \E i \in I : E[i].seq = c.seq
      OBVIOUS
    <2>1. c \in db.changes /\ Shows(c.id, Winner(Nodes(db, c.id)))
      BY DEF Due
    <2>2. PICK i \in 1 .. Len(E) : E[i].seq = c.seq /\ E[i].id = c.id /\ E[i].revs = {Winner(Nodes(db, c.id))}
      BY <2>1 DEF Covers
    <2>3. Shown(E[i])
      BY <2>1, <2>2 DEF Shown
    <2> QED
      BY <2>2, <2>3
  <1> HIDE DEF I
  <1>4. /\ p \in Seq(T) /\ Len(p) <= Len(E)
        /\ \A k \in 1 .. Len(p) : \E i \in I : p[k] = E[i]
        /\ \A i \in I : \E k \in 1 .. Len(p) : p[k] = E[i]
        /\ \A j, k \in 1 .. Len(p) : j < k => \E i, m \in I : i < m /\ p[j] = E[i] /\ p[k] = E[m]
    <2>1. Drawn(p, E, I)
      BY <1>1, <1>2, PickIs
    <2>2. p \in Seq(T)
      BY <1>1, <1>2, PickIs
    <2> QED
      BY <2>1, <2>2 DEF Drawn
  <1>5. /\ \A i \in I : E[i].seq \in Nat /\ s < E[i].seq /\ E[i].seq <= l
        /\ \A i, j \in I : i < j => E[i].seq < E[j].seq
    BY <1>2 DEF EventsOk
  <1>6. IsList(p)
    BY <1>4 DEF IsList
  <1>7. \A k \in 1 .. Len(p) : p[k].seq \in Nat /\ s < p[k].seq /\ p[k].seq <= l
    BY <1>4, <1>5, ZenonT(60)
  <1>8. \A j, k \in 1 .. Len(p) : j < k => p[j].seq < p[k].seq
    <2> SUFFICES ASSUME NEW j \in 1 .. Len(p), NEW k \in 1 .. Len(p), j < k PROVE p[j].seq < p[k].seq
      OBVIOUS
    <2>1. PICK i, m \in I : i < m /\ p[j] = E[i] /\ p[k] = E[m]
      BY <1>4
    <2> QED
      BY <1>5, <2>1
  <1>9. EventsOk(p, s, l)
    BY <1>6, <1>7, <1>8 DEF EventsOk
  <1>10. Gathered(p, s, l)
    BY <1>3, <1>4 DEF Gathered, Lists
  <1> QED
    BY <1>4, <1>9, <1>10

\* The sequences of a database in order.
LEMMA DueTyped ==
  ASSUME NEW b, DbOk(b)
  PROVE  /\ b.updateSeq \in Nat /\ b.uuid \in Nat
         /\ \A c \in b.changes : c.seq \in 1 .. b.updateSeq /\ c.id \in Doc
                                 /\ Exists(b, c.id) /\ c = EntryOf(b, c.id)
  <1>0. b \in DbType /\ SeqsOk(b) /\ FeedOk(b) /\ b.updateSeq \in Nat /\ b.uuid \in Nat
    BY DEF DbOk, DbType
  <1>1. \A c \in b.changes : \E d \in Doc : Exists(b, d) /\ c = EntryOf(b, d)
    BY <1>0 DEF FeedOk
  <1> QED
    BY <1>0, <1>1 DEF SeqsOk, EntryOf

\* What the feed is to show of an older state of the database was so then.
LEMMA DueKept ==
  ASSUME DbOk(db), Leads(db, db'), feed' = feed, NEW c \in Due', c.seq <= db.updateSeq
  PROVE  c \in Due
  <1>1. DbOk(db') /\ Follows(db, db')
    BY DEF Leads
  <1>2. c \in db'.changes /\ Shows(c.id, Winner(Nodes(db', c.id)))
    BY DEF Due, Shows
  <1>3. c.seq \in Nat /\ c.id \in Doc /\ Exists(db', c.id) /\ c = EntryOf(db', c.id) /\ db.updateSeq \in Nat
    BY <1>1, <1>2, DueTyped
  <1>4. ~(c.seq > db.updateSeq)
    BY <1>3
  <1>5. c \in db.changes
    BY <1>1, <1>2, <1>4 DEF Follows
  <1>6. db'.docs[c.id].seq = c.seq
    BY <1>3 DEF EntryOf
  <1>7. Nodes(db', c.id) = Nodes(db, c.id)
    BY <1>1, <1>3, <1>4, <1>6 DEF Follows
  <1> QED
    BY <1>2, <1>5, <1>7 DEF Due

\* While the feed does nothing, what it has got is still all there is.
LEMMA FeedKept ==
  ASSUME FeedInv, DbOk(db), DbMoves, feed' = feed
  PROVE  FeedInv'
  <1>1. CASE feed = Closed
    BY <1>1 DEF FeedInv
  <1>2. CASE feed # Closed
    <2>1. FeedTyped /\ FeedOrdered /\ (db.uuid = feed.uuid => FeedCovers)
      BY <1>2 DEF FeedInv
    <2>2. FeedTyped' /\ FeedOrdered'
      BY <2>1 DEF FeedTyped, FeedOrdered, Busy, Gathering
    <2>3. db.uuid \in Nat /\ db.updateSeq \in Nat
      BY DueTyped
    <2>4. CASE Leads(db, db')
      <3>1. DbOk(db') /\ db'.uuid = db.uuid /\ db.updateSeq <= db'.updateSeq
        BY <2>4 DEF Leads, Follows
      <3>2. db'.updateSeq \in Nat /\ \A c \in db'.changes : c.seq \in Nat
        BY <3>1, DueTyped
      <3>3. \A c \in Due' : c.seq \in Nat
        BY <3>2 DEF Due
      <3>4. \A c \in Due' : c.seq <= db.updateSeq => c \in Due
        BY <2>4, DueKept
      <3> SUFFICES ASSUME FeedCovers PROVE FeedCovers'
        BY <2>1, <2>2, <3>1 DEF FeedInv
      <3>5. \A c \in Due' : \A n \in Nat : c.seq <= n /\ n <= db.updateSeq => c \in Due
        BY <2>3, <3>3, <3>4
      <3>6. feed.since \in Nat /\ feed.resume \in Nat /\ feed.lastSeq \in Nat /\ feed.resume <= feed.since
            /\ feed.since <= db.updateSeq
        BY <2>1 DEF FeedTyped, FeedOrdered, FeedCovers
      <3>7. feed.since <= db'.updateSeq /\ feed.resume <= db.updateSeq
        BY <2>3, <3>1, <3>2, <3>6
      <3>8. GotAll(feed.since, Len(feed.got))'
        BY <3>5, <3>6 DEF FeedCovers, GotAll
      <3>9. (Busy => GotAll(feed.resume, feed.base))'
        BY <3>5, <3>6, <3>7 DEF FeedCovers, GotAll, Busy
      <3>10. ASSUME Gathering
             PROVE  feed.lastSeq <= db'.updateSeq /\ Gathered(feed.events, feed.since, feed.lastSeq)'
        <4>1. feed.lastSeq <= db.updateSeq /\ Gathered(feed.events, feed.since, feed.lastSeq)
          BY <3>10 DEF FeedCovers
        <4>2. feed.lastSeq <= db'.updateSeq
          BY <2>3, <3>1, <3>2, <3>6, <4>1
        <4>3. Gathered(feed.events, feed.since, feed.lastSeq)'
          BY <3>5, <3>6, <4>1 DEF Gathered
        <4> QED
          BY <4>2, <4>3
      <3>11. Gathering' <=> Gathering
        BY DEF Gathering
      <3> QED
        BY <3>7, <3>8, <3>9, <3>10, <3>11 DEF FeedCovers
    <2>5. CASE db'.uuid = db.uuid + 1
      <3>1. feed'.uuid = 0 /\ db'.uuid # 0
        BY <2>1, <2>3, <2>5 DEF FeedTyped
      <3> QED
        BY <2>2, <3>1 DEF FeedInv
    <2> QED
      BY <2>4, <2>5 DEF DbMoves
  <1> QED
    BY <1>1, <1>2

----------------------------------------------------------------------------
(* The steps of the feed *)

\* Only these fields of the feed change.
OnlyFeed(F) ==
  DOMAIN feed' = DOMAIN feed /\ \A x \in DOMAIN feed \ F : feed'[x] = feed[x]

\* What is to be shown is the same while the database is.
LEMMA DueSame ==
  ASSUME db' = db, feed'.filter = feed.filter
  PROVE  Due' = Due
  BY DEF Due, Shows

\* The feed fetches events that are what it is to show up to l, and goes on, or
\* fetches more.
LEMMA FetchedKeeps ==
  ASSUME FeedInv, feed.pc = "fetch", DbOk(db), db' = db, OnlyFeed({"pc", "events", "lastSeq"}),
         feed'.pc \in {"fetch", "serve"}, feed'.pc = "fetch" => feed.remaining # NoLimit,
         NEW E, NEW l \in Nat, feed'.events = E, feed'.lastSeq = l,
         feed.since <= l, EventsOk(E, feed.since, l), Len(E) <= feed.remaining,
         db.uuid = feed.uuid => l <= db.updateSeq /\ Gathered(E, feed.since, l)
  PROVE  FeedInv'
  <1>1. FeedTyped /\ FeedOrdered /\ (db.uuid = feed.uuid => FeedCovers)
    BY DEF FeedInv, Closed
  <1>2. FeedFields \subseteq DOMAIN feed
    BY <1>1 DEF FeedTyped
  <1>3. /\ DOMAIN feed' = DOMAIN feed
        /\ feed'.kind = feed.kind /\ feed'.filter = feed.filter /\ feed'.limit = feed.limit
        /\ feed'.remaining = feed.remaining /\ feed'.since = feed.since /\ feed'.got = feed.got
        /\ feed'.base = feed.base /\ feed'.resume = feed.resume /\ feed'.uuid = feed.uuid
        /\ feed'.left = feed.left
    BY <1>2 DEF OnlyFeed, FeedFields
  <1>4. Due' = Due
    BY <1>3, DueSame
  <1>5. FeedTyped'
    BY <1>1, <1>3 DEF FeedTyped
  <1>6. FeedOrdered'
    BY <1>1, <1>3 DEF FeedOrdered, Busy, Gathering
  <1>7. ASSUME FeedCovers, db.uuid = feed.uuid
        PROVE  FeedCovers'
    BY <1>3, <1>4, <1>7 DEF FeedCovers, GotAll, Gathered, Busy, Gathering
  <1> QED
    BY <1>1, <1>3, <1>5, <1>6, <1>7 DEF FeedInv

\* What FetchedKeeps asks of Fetched.
LEMMA FetchedIs ==
  ASSUME FeedTyped, NEW E, NEW l, Fetched(E, l)
  PROVE  /\ OnlyFeed({"pc", "events", "lastSeq"}) /\ feed'.pc = "serve"
         /\ feed'.events = E /\ feed'.lastSeq = l
  <1>1. {"pc", "events", "lastSeq"} \subseteq DOMAIN feed
    BY DEF FeedTyped, FeedFields
  <1>2. feed' = [feed EXCEPT !.pc = "serve", !.events = E, !.lastSeq = l]
    BY DEF Fetched
  <1> QED
    BY <1>1, <1>2 DEF OnlyFeed

\* A listing of the database.
LEMMA FeedListing ==
  ASSUME DbOk(db), NEW since \in Nat, NEW n \in Nat, NEW A, A = Listing(since, n)
  PROVE  /\ EventsOk(A.events, since, A.lastSeq) /\ Len(A.events) <= n /\ Len(A.events) \in Nat
         /\ Covers(db, A.events, since, A.lastSeq)
         /\ A.lastSeq \in Nat /\ since <= A.lastSeq
         /\ since <= db.updateSeq => A.lastSeq <= db.updateSeq
  <1>1. /\ EventsOk(A.events, since, A.lastSeq) /\ Len(A.events) <= n
        /\ Covers(db, A.events, since, A.lastSeq)
        /\ A.lastSeq \in Nat /\ since <= A.lastSeq
        /\ A.lastSeq = since \/ A.lastSeq <= db.updateSeq
    BY ListingIs DEF Listing
  <1>2. Len(A.events) \in Nat
    BY <1>1 DEF EventsOk, IsList
  <1> QED
    BY <1>1, <1>2

\* The three ways to fetch.
LEMMA FetchPlainKeeps ==
  ASSUME FeedInv, DbOk(db), db' = db, FetchPlain
  PROVE  FeedInv'
  <1> DEFINE A == Listing(feed.since, feed.remaining)
  <1>0. feed.pc = "fetch" /\ FeedTyped /\ (db.uuid = feed.uuid => feed.since <= db.updateSeq)
    BY DEF FetchPlain, FeedInv, Closed, FeedCovers
  <1>1. feed.since \in Nat /\ feed.remaining \in Nat
    BY <1>0 DEF FeedTyped
  <1>2. Fetched(A.events, A.lastSeq)
    BY DEF FetchPlain
  <1>3. /\ EventsOk(A.events, feed.since, A.lastSeq) /\ Len(A.events) <= feed.remaining
        /\ Covers(db, A.events, feed.since, A.lastSeq)
        /\ A.lastSeq \in Nat /\ feed.since <= A.lastSeq
        /\ feed.since <= db.updateSeq => A.lastSeq <= db.updateSeq
    BY <1>1, FeedListing
  <1> HIDE DEF A
  <1>4. Gathered(A.events, feed.since, A.lastSeq)
    BY <1>3, CoversGathers
  <1>5. /\ OnlyFeed({"pc", "events", "lastSeq"}) /\ feed'.pc = "serve"
        /\ feed'.events = A.events /\ feed'.lastSeq = A.lastSeq
    BY <1>0, <1>2, FetchedIs
  <1> QED
    BY <1>0, <1>3, <1>4, <1>5, FetchedKeeps

\* Events gathered up to last, cut where the limit is reached.
LEMMA CutGathered ==
  ASSUME DbOk(db), NEW since \in Nat, NEW last \in Nat, NEW E, EventsOk(E, since, last),
         Gathered(E, since, last), NEW n \in Nat, n # 0, n <= Len(E), NEW C, C = SubSeq(E, 1, n)
  PROVE  IsFront(C, E, since, last, n) /\ Gathered(C, since, Last(C).seq)
  <1>0. IsFront(C, E, since, last, n)
    BY FrontIs
  <1>1. /\ Last(C).seq \in Nat
        /\ since < Last(C).seq /\ Last(C).seq <= last
        /\ \A s \in Nat : Lists(E, s) /\ s <= Last(C).seq => Lists(C, s)
    BY <1>0 DEF IsFront
  <1>2. \A c \in Due : c.seq \in Nat
    BY DueTyped DEF Due
  <1>3. \A x \in Nat : x <= Last(C).seq => x <= last
    BY <1>1
  <1>4. Gathered(C, since, Last(C).seq)
    BY <1>1, <1>2, <1>3 DEF Gathered
  <1> QED
    BY <1>0, <1>4

LEMMA FetchDesignKeeps ==
  ASSUME FeedInv, DbOk(db), db' = db, FetchDesign
  PROVE  FeedInv'
  <1> DEFINE A == Listing(feed.since, NoLimit)
             D == AllShown(A.events)
             cut == Len(D) > feed.remaining
             S == SubSeq(D, 1, Smaller(feed.remaining, Len(D)))
             l == IF cut THEN Last(S).seq ELSE A.lastSeq
  <1>0. /\ feed.pc = "fetch" /\ FeedTyped /\ (db.uuid = feed.uuid => feed.since <= db.updateSeq)
        /\ feed.remaining # 0
    BY DEF FetchDesign, FeedInv, Closed, FeedCovers, FeedOrdered, Busy
  <1>1. feed.since \in Nat /\ feed.remaining \in Nat /\ NoLimit \in Nat /\ db.updateSeq \in Nat
    BY <1>0, ReadsAssumption, DueTyped DEF FeedTyped
  <1>2. Fetched(S, l)
    BY DEF FetchDesign
  <1>3. /\ EventsOk(A.events, feed.since, A.lastSeq)
        /\ Covers(db, A.events, feed.since, A.lastSeq)
        /\ A.lastSeq \in Nat /\ feed.since <= A.lastSeq
        /\ feed.since <= db.updateSeq => A.lastSeq <= db.updateSeq
    BY <1>1, FeedListing
  <1>4. D = AllShown(A.events) /\ S = SubSeq(D, 1, Smaller(feed.remaining, Len(D)))
    OBVIOUS
  <1>5. l = IF Len(D) > feed.remaining THEN Last(S).seq ELSE A.lastSeq
    OBVIOUS
  <1> HIDE DEF A, D, S, l
  <1>6. EventsOk(D, feed.since, A.lastSeq) /\ Gathered(D, feed.since, A.lastSeq)
    BY <1>3, <1>4, ShownIs
  <1>7. Len(D) \in Nat
    BY <1>6 DEF EventsOk, IsList
  <1>8. /\ l \in Nat /\ feed.since <= l /\ EventsOk(S, feed.since, l) /\ Len(S) <= feed.remaining
        /\ Gathered(S, feed.since, l) /\ l <= A.lastSeq
    <2>1. CASE Len(D) > feed.remaining
      <3>1. feed.remaining <= Len(D) /\ l = Last(S).seq
        BY <1>0, <1>1, <1>5, <1>7, <2>1
      <3>3. S = SubSeq(D, 1, feed.remaining)
        <4>1. Smaller(feed.remaining, Len(D)) = feed.remaining
          BY <1>1, <1>7, <3>1 DEF Smaller
        <4> QED
          BY <1>4, <4>1
      <3>2. /\ Len(S) = feed.remaining /\ Last(S).seq \in Nat /\ feed.since <= Last(S).seq
            /\ Last(S).seq <= A.lastSeq
            /\ EventsOk(S, feed.since, Last(S).seq) /\ Gathered(S, feed.since, Last(S).seq)
        <4>1. IsFront(S, D, feed.since, A.lastSeq, feed.remaining) /\ Gathered(S, feed.since, Last(S).seq)
          BY <1>0, <1>1, <1>3, <1>6, <3>1, <3>3, CutGathered
        <4> QED
          BY <1>1, <4>1 DEF IsFront
      <3> QED
        BY <1>1, <3>1, <3>2
    <2>2. CASE ~(Len(D) > feed.remaining)
      <3>1. Len(D) <= feed.remaining /\ l = A.lastSeq
        BY <1>1, <1>5, <1>7, <2>2
      <3>2. S = D
        BY <1>1, <1>4, <1>6, <3>1, UncutIs DEF EventsOk
      <3> QED
        BY <1>3, <1>6, <3>1, <3>2
    <2> QED
      BY <2>1, <2>2
  <1>9. /\ OnlyFeed({"pc", "events", "lastSeq"}) /\ feed'.pc = "serve" /\ feed'.events = S /\ feed'.lastSeq = l
    BY <1>0, <1>2, FetchedIs
  <1>10. db.uuid = feed.uuid => l <= db.updateSeq
    BY <1>0, <1>1, <1>3, <1>8
  <1> QED
    BY <1>0, <1>8, <1>9, <1>10, FetchedKeeps

\* J is the events from since to last, as E is to middle, and F from there.
Continues(J, E, F, since, middle, last) ==
  /\ EventsOk(J, since, last) /\ Len(J) = Len(E) + Len(F) /\ Len(J) \in Nat
  /\ Gathered(E, since, middle) /\ Gathered(F, middle, last) => Gathered(J, since, last)

LEMMA JoinedGathered ==
  ASSUME DbOk(db), NEW since \in Nat, NEW middle \in Nat, NEW last \in Nat, since <= middle, middle <= last,
         NEW E, EventsOk(E, since, middle), NEW F, EventsOk(F, middle, last), NEW J, J = E \o F
  PROVE  Continues(J, E, F, since, middle, last)
  <1>1. /\ EventsOk(J, since, last) /\ Len(J) = Len(E) + Len(F)
        /\ \A s : Lists(E, s) \/ Lists(F, s) => Lists(J, s)
    <2>1. EventsOk(J, since, last) /\ Joins(J, E, F)
      BY JoinedIs
    <2> QED
      BY <2>1 DEF Joins
  <1>2. Len(J) \in Nat
    BY <1>1 DEF EventsOk, IsList
  <1>3. \A c \in Due : c.seq \in Nat
    BY DueTyped DEF Due
  <1>4. \A x \in Nat : since < x /\ x <= last => (since < x /\ x <= middle) \/ (middle < x /\ x <= last)
    OBVIOUS
  <1>5. ASSUME Gathered(E, since, middle), Gathered(F, middle, last)
        PROVE  Gathered(J, since, last)
    BY <1>1, <1>3, <1>4, <1>5 DEF Gathered
  <1> QED
    BY <1>1, <1>2, <1>5 DEF Continues

LEMMA FetchBatchKeeps ==
  ASSUME FeedInv, DbOk(db), db' = db, FetchBatch
  PROVE  FeedInv'
  <1> DEFINE limited == feed.remaining # NoLimit
             size == IF limited THEN Larger(feed.remaining, Batch) ELSE NoLimit
             A == Listing(feed.lastSeq, size)
             D == AllShown(A.events)
             M == feed.events \o D
             S == SubSeq(M, 1, Smaller(feed.remaining, Len(M)))
  <1>0. /\ feed.pc = "fetch" /\ FeedTyped /\ FeedOrdered /\ (db.uuid = feed.uuid => FeedCovers)
        /\ Gathering /\ Busy
    BY DEF FetchBatch, FeedInv, Closed, Gathering, Busy
  <1>1. /\ feed.since \in Nat /\ feed.remaining \in Nat /\ feed.lastSeq \in Nat /\ feed.remaining # 0
        /\ feed.since <= feed.lastSeq /\ EventsOk(feed.events, feed.since, feed.lastSeq)
        /\ ~limited => feed.events = <<>>
    BY <1>0 DEF FeedTyped, FeedOrdered
  <1>2. size \in Nat /\ (~limited => size = feed.remaining) /\ db.updateSeq \in Nat
    BY <1>1, ReadsAssumption, FeedAssumption, DueTyped DEF Larger
  <1>3. \/ limited /\ Len(S) = feed.remaining
           /\ Fetched(S, IF S = <<>> THEN feed.since ELSE Last(S).seq)
        \/ limited /\ Len(S) # feed.remaining
           /\ feed' = [feed EXCEPT !.events = S, !.lastSeq = A.lastSeq]
        \/ (~limited \/ Len(S) # feed.remaining) /\ Fetched(S, A.lastSeq)
    BY DEF FetchBatch
  <1>4. A = Listing(feed.lastSeq, size)
    OBVIOUS
  <1> HIDE DEF size, A
  <1>5. /\ EventsOk(A.events, feed.lastSeq, A.lastSeq) /\ Len(A.events) <= size /\ Len(A.events) \in Nat
        /\ Covers(db, A.events, feed.lastSeq, A.lastSeq)
        /\ A.lastSeq \in Nat /\ feed.lastSeq <= A.lastSeq
        /\ feed.lastSeq <= db.updateSeq => A.lastSeq <= db.updateSeq
    BY <1>1, <1>2, <1>4, FeedListing
  <1>6. D = AllShown(A.events)
    OBVIOUS
  <1> HIDE DEF D
  <1>7. /\ EventsOk(D, feed.lastSeq, A.lastSeq) /\ Len(D) <= Len(A.events)
        /\ Gathered(D, feed.lastSeq, A.lastSeq)
    BY <1>5, <1>6, ShownIs
  <1>8. M = feed.events \o D
    OBVIOUS
  <1>9. S = SubSeq(M, 1, Smaller(feed.remaining, Len(M)))
    OBVIOUS
  <1> HIDE DEF M, S
  <1>10. /\ EventsOk(M, feed.since, A.lastSeq) /\ Len(M) = Len(feed.events) + Len(D) /\ Len(M) \in Nat
         /\ Gathered(feed.events, feed.since, feed.lastSeq) => Gathered(M, feed.since, A.lastSeq)
    <2>1. Continues(M, feed.events, D, feed.since, feed.lastSeq, A.lastSeq)
      BY <1>1, <1>5, <1>7, <1>8, JoinedGathered
    <2> QED
      BY <1>7, <2>1 DEF Continues
  <1>11. db.uuid = feed.uuid => feed.lastSeq <= db.updateSeq /\ Gathered(feed.events, feed.since, feed.lastSeq)
    BY <1>0 DEF FeedCovers
  <1>12. feed.since <= A.lastSeq
    BY <1>1, <1>5
  \* All that was gathered, if it is not too much.
  <1>13. ASSUME Len(M) <= feed.remaining, OnlyFeed({"pc", "events", "lastSeq"}), feed'.pc \in {"fetch", "serve"},
                feed'.pc = "fetch" => limited, feed'.events = S, feed'.lastSeq = A.lastSeq
         PROVE  FeedInv'
    <2>1. S = M
      BY <1>1, <1>9, <1>10, <1>13, UncutIs DEF EventsOk
    <2> QED
      BY <1>0, <1>5, <1>10, <1>11, <1>12, <1>13, <2>1, FetchedKeeps
  <1>14. CASE Len(M) > feed.remaining \/ (limited /\ Len(S) = feed.remaining)
    <2>1. feed.remaining <= Len(M)
      <3>1. ASSUME ~(feed.remaining <= Len(M)) PROVE FALSE
        <4>1. Len(M) <= feed.remaining
          BY <1>1, <1>10, <3>1
        <4>2. S = M
          BY <1>1, <1>9, <1>10, <4>1, UncutIs, ZenonT(60) DEF EventsOk
        <4> QED
          BY <1>1, <1>10, <1>14, <3>1, <4>2
      <3> QED
        BY <3>1
    <2>2. S = SubSeq(M, 1, feed.remaining)
      <3>1. Smaller(feed.remaining, Len(M)) = feed.remaining
        BY <1>1, <1>10, <2>1 DEF Smaller
      <3> QED
        BY <1>9, <3>1
    <2>3. IsFront(S, M, feed.since, A.lastSeq, feed.remaining)
      BY <1>1, <1>5, <1>10, <2>1, <2>2, FrontIs
    <2>4. Gathered(M, feed.since, A.lastSeq) => Gathered(S, feed.since, Last(S).seq)
      BY <1>1, <1>5, <1>10, <2>1, <2>2, CutGathered
    <2>5. /\ Len(S) = feed.remaining /\ S # <<>> /\ Last(S).seq \in Nat
          /\ feed.since < Last(S).seq /\ Last(S).seq <= A.lastSeq /\ EventsOk(S, feed.since, Last(S).seq)
      BY <2>3 DEF IsFront
    <2>6. limited
      <3>1. ASSUME ~limited PROVE FALSE
        <4>1. Len(feed.events) = 0 /\ Len(M) <= feed.remaining
          <5>1. Len(D) <= feed.remaining /\ Len(D) \in Nat
            <6>1. Len(D) \in Nat
              BY <1>7 DEF EventsOk, IsList
            <6> QED
              BY <1>1, <1>2, <1>5, <1>7, <3>1, <6>1
          <5>2. Len(feed.events) = 0
            BY <1>1, <3>1
          <5> QED
            BY <1>10, <5>1, <5>2
        <4> QED
          BY <1>1, <1>10, <1>14, <3>1, <4>1
      <3> QED
        BY <3>1
    <2>7. Fetched(S, Last(S).seq)
      BY <1>3, <2>5, <2>6
    <2>8. /\ OnlyFeed({"pc", "events", "lastSeq"}) /\ feed'.pc = "serve"
          /\ feed'.events = S /\ feed'.lastSeq = Last(S).seq
      BY <1>0, <2>7, FetchedIs
    <2>9. db.uuid = feed.uuid => Last(S).seq <= db.updateSeq /\ Gathered(S, feed.since, Last(S).seq)
      BY <1>2, <1>5, <1>10, <1>11, <2>4, <2>5
    <2>10. feed.since <= Last(S).seq /\ Len(S) <= feed.remaining
      BY <1>1, <2>5
    <2> QED
      BY <1>0, <2>5, <2>8, <2>9, <2>10, FetchedKeeps
  <1>15. CASE ~(Len(M) > feed.remaining) /\ ~(limited /\ Len(S) = feed.remaining)
    <2>1. Len(M) <= feed.remaining
      BY <1>1, <1>10, <1>15
    <2>2. CASE limited /\ feed' = [feed EXCEPT !.events = S, !.lastSeq = A.lastSeq]
      <3>1. {"pc", "events", "lastSeq"} \subseteq DOMAIN feed
        BY <1>0 DEF FeedTyped, FeedFields
      <3>2. /\ OnlyFeed({"pc", "events", "lastSeq"}) /\ feed'.pc = feed.pc
            /\ feed'.events = S /\ feed'.lastSeq = A.lastSeq
        BY <2>2, <3>1 DEF OnlyFeed
      <3> QED
        BY <1>0, <1>13, <2>1, <2>2, <3>2
    <2>3. CASE Fetched(S, A.lastSeq)
      <3>1. /\ OnlyFeed({"pc", "events", "lastSeq"}) /\ feed'.pc = "serve"
            /\ feed'.events = S /\ feed'.lastSeq = A.lastSeq
        BY <1>0, <2>3, FetchedIs
      <3> QED
        BY <1>13, <2>1, <3>1
    <2> QED
      BY <1>3, <1>15, <2>2, <2>3
  <1> QED
    BY <1>14, <1>15

\* A list of nothing.
LEMMA NothingListed ==
  ASSUME DbOk(db), NEW s \in Nat
  PROVE  EventsOk(<<>>, s, s) /\ Gathered(<<>>, s, s) /\ Len(<<>>) = 0
  <1>1. <<>> \in Seq({})
    OBVIOUS
  <1>2. IsList(<<>>)
    BY <1>1 DEF IsList
  <1>3. \A c \in Due : c.seq \in Nat
    BY DueTyped DEF Due
  <1>4. \A x \in Nat : ~(s < x /\ x <= s)
    OBVIOUS
  <1> QED
    BY <1>2, <1>3, <1>4 DEF EventsOk, Gathered

\* The list h is the sequences of the events E, after g.
SentAfter(h, g, E) ==
  /\ h \in Seq(Nat) /\ Len(h) = Len(g) + Len(E)
  /\ \A i \in 1 .. Len(g) : h[i] = g[i]
  /\ \A i \in 1 .. Len(h) : i > Len(g) => i - Len(g) \in 1 .. Len(E) /\ h[i] = E[i - Len(g)].seq
  /\ \A i \in 1 .. Len(E) : Len(g) + i \in 1 .. Len(h) /\ h[Len(g) + i] = E[i].seq

LEMMA SentAfterIs ==
  ASSUME NEW g \in Seq(Nat), NEW E, Len(E) \in Nat, \A i \in 1 .. Len(E) : E[i].seq \in Nat,
         NEW q, q = [i \in 1 .. Len(E) |-> E[i].seq], NEW h, h = g \o q
  PROVE  SentAfter(h, g, E)
  <1>1. q \in Seq(Nat) /\ Len(q) = Len(E) /\ \A i \in 1 .. Len(E) : q[i] = E[i].seq
    OBVIOUS
  <1>2. h \in Seq(Nat) /\ Len(h) = Len(g) + Len(E)
    BY <1>1
  <1>3. \A i \in 1 .. Len(g) : h[i] = g[i]
    BY <1>1
  <1>4. \A i \in 1 .. Len(h) : i > Len(g) => i - Len(g) \in 1 .. Len(E) /\ h[i] = q[i - Len(g)]
    BY <1>1, <1>2
  <1>5. \A i \in 1 .. Len(E) : Len(g) + i \in 1 .. Len(h) /\ h[Len(g) + i] = q[i]
    BY <1>1, <1>2
  <1>6. \A i \in 1 .. Len(h) : i > Len(g) => i - Len(g) \in 1 .. Len(E) /\ h[i] = E[i - Len(g)].seq
    BY <1>1, <1>4
  <1>7. \A i \in 1 .. Len(E) : Len(g) + i \in 1 .. Len(h) /\ h[Len(g) + i] = E[i].seq
    BY <1>1, <1>5
  <1> QED
    BY <1>2, <1>3, <1>6, <1>7 DEF SentAfter

\* What was fetched is sent.
LEMMA ServeKeeps ==
  ASSUME FeedInv, DbOk(db), db' = db, Serve
  PROVE  FeedInv'
  <1> DEFINE E == feed.events
             n == Len(E)
             rest == IF feed.remaining = NoLimit THEN NoLimit ELSE feed.remaining - n
             h == feed.got \o [i \in 1 .. n |-> E[i].seq]
             sent == [feed EXCEPT !.since = feed.lastSeq, !.pc = "wait", !.remaining = rest,
                                  !.got = @ \o [i \in 1 .. n |-> feed.events[i].seq], !.events = <<>>]
             ends == n > 0 /\ (feed.kind = "longpoll" \/ rest = 0)
  <1>0. /\ feed.pc = "serve" /\ FeedTyped /\ FeedOrdered /\ (db.uuid = feed.uuid => FeedCovers)
        /\ Gathering /\ Busy
    BY DEF Serve, FeedInv, Closed, Gathering, Busy
  <1>1. /\ feed.since \in Nat /\ feed.remaining \in Nat /\ feed.lastSeq \in Nat /\ feed.remaining # 0
        /\ feed.since <= feed.lastSeq /\ EventsOk(E, feed.since, feed.lastSeq)
        /\ n <= feed.remaining /\ feed.got \in Seq(Nat) /\ feed.base \in 0 .. Len(feed.got)
        /\ feed.resume \in Nat /\ feed.resume <= feed.since
    BY <1>0 DEF FeedTyped, FeedOrdered
  <1>2. feed' = IF ends THEN Ending(sent, feed.lastSeq) ELSE sent
    BY DEF Serve
  <1>3. /\ h \in Seq(Nat) /\ Len(h) = Len(feed.got) + n /\ Len(feed.got) \in Nat /\ n \in Nat
        /\ \A i \in 1 .. Len(feed.got) : h[i] = feed.got[i]
        /\ \A i \in 1 .. Len(h) : i > Len(feed.got) =>
             i - Len(feed.got) \in 1 .. n /\ h[i] = E[i - Len(feed.got)].seq
        /\ \A i \in 1 .. n : Len(feed.got) + i \in 1 .. Len(h) /\ h[Len(feed.got) + i] = E[i].seq
    <2> DEFINE q == [i \in 1 .. n |-> E[i].seq]
    <2>0. h = feed.got \o q /\ q = [i \in 1 .. Len(E) |-> E[i].seq]
      OBVIOUS
    <2>2. Len(feed.got) \in Nat /\ n \in Nat /\ \A i \in 1 .. Len(E) : E[i].seq \in Nat
      BY <1>1 DEF EventsOk, IsList
    <2> HIDE DEF E, h, q
    <2>1. SentAfter(h, feed.got, E)
      BY <1>1, <2>0, <2>2, SentAfterIs
    <2> QED
      BY <2>1, <2>2 DEF SentAfter
  <1> HIDE DEF E, n, rest, h
  <1>4. sent = [feed EXCEPT !.since = feed.lastSeq, !.pc = "wait", !.remaining = rest, !.got = h, !.events = <<>>]
    <2>1. h = feed.got \o [i \in 1 .. n |-> feed.events[i].seq]
      BY DEF h, E
    <2> QED
      BY <2>1
  <1> HIDE DEF sent, ends
  <1>5. {"since", "pc", "remaining", "got", "events", "resume"} \subseteq DOMAIN feed /\ FeedFields \subseteq DOMAIN feed
    BY <1>0 DEF FeedTyped, FeedFields
  <1>6. DOMAIN sent = DOMAIN feed
    BY <1>4
  <1>7. /\ sent.since = feed.lastSeq /\ sent.pc = "wait"
        /\ sent.remaining = rest
    BY <1>4, <1>5
  <1>8. sent.got = h /\ sent.events = <<>>
    BY <1>4, <1>5
  <1>9. \A x \in DOMAIN feed \ {"since", "pc", "remaining", "got", "events"} : sent[x] = feed[x]
    BY <1>4
  <1>10. /\ DOMAIN feed' = DOMAIN feed
         /\ \A x \in DOMAIN feed \ {"pc", "resume"} : feed'[x] = sent[x]
         /\ ends => feed'.pc = "ended" /\ feed'.resume = feed.lastSeq
         /\ ~ends => feed'.pc = "wait" /\ feed'.resume = feed.resume
    <2>1. CASE ends
      <3>1. feed' = [sent EXCEPT !.pc = "ended", !.resume = feed.lastSeq]
        BY <1>2, <2>1 DEF Ending
      <3> QED
        BY <1>5, <1>6, <2>1, <3>1
    <2>2. CASE ~ends
      <3>1. feed' = sent
        BY <1>2, <2>2
      <3> QED
        BY <1>5, <1>6, <1>7, <1>9, <2>2, <3>1
    <2> QED
      BY <2>1, <2>2
  <1>11. /\ feed'.since = feed.lastSeq /\ feed'.remaining = rest /\ feed'.got = h /\ feed'.events = <<>>
         /\ feed'.kind = feed.kind /\ feed'.filter = feed.filter /\ feed'.timeout = feed.timeout
         /\ feed'.limit = feed.limit /\ feed'.lastSeq = feed.lastSeq /\ feed'.base = feed.base
         /\ feed'.uuid = feed.uuid /\ feed'.left = feed.left
    BY <1>5, <1>7, <1>8, <1>9, <1>10 DEF FeedFields
  <1>12. rest \in Nat /\ (~ends => rest # 0)
    <2>1. rest \in Nat /\ (n = 0 => rest # 0)
      BY <1>1, <1>3 DEF rest
    <2>2. n # 0 => n > 0
      BY <1>3
    <2> QED
      BY <2>1, <2>2 DEF ends
  <1>13. Due' = Due
    BY <1>11, DueSame
  <1>14. FeedTyped'
    <2>1. feed'.base \in 0 .. Len(feed'.got)
      BY <1>1, <1>3, <1>11
    <2>2. feed'.pc \in {"fetch", "serve", "wait", "ended", "closed"} /\ feed'.resume \in Nat
      BY <1>1, <1>10
    <2> QED
      BY <1>0, <1>1, <1>3, <1>10, <1>11, <1>12, <2>1, <2>2 DEF FeedTyped
  <1>15. /\ \A i \in 1 .. n : E[i].seq \in Nat /\ feed.since < E[i].seq /\ E[i].seq <= feed.lastSeq
         /\ \A i, j \in 1 .. n : i < j => E[i].seq < E[j].seq
    BY <1>1 DEF EventsOk, n
  <1>16. /\ \A i \in feed.base + 1 .. Len(feed.got) : feed.got[i] <= feed.since
         /\ \A i, j \in feed.base + 1 .. Len(feed.got) : i < j => feed.got[i] < feed.got[j]
    BY <1>0 DEF FeedOrdered
  <1>17. \A i \in feed.base + 1 .. Len(h) :
           \/ i \in feed.base + 1 .. Len(feed.got) /\ h[i] = feed.got[i] /\ feed.got[i] \in Nat
           \/ i > Len(feed.got) /\ i - Len(feed.got) \in 1 .. n /\ h[i] = E[i - Len(feed.got)].seq
    <2> SUFFICES ASSUME NEW i \in feed.base + 1 .. Len(h)
                 PROVE  \/ i \in feed.base + 1 .. Len(feed.got) /\ h[i] = feed.got[i] /\ feed.got[i] \in Nat
                        \/ i > Len(feed.got) /\ i - Len(feed.got) \in 1 .. n /\ h[i] = E[i - Len(feed.got)].seq
      OBVIOUS
    <2>1. i \in 1 .. Len(h) /\ (i > Len(feed.got) \/ i \in feed.base + 1 .. Len(feed.got))
      BY <1>1, <1>3
    <2>2. CASE i > Len(feed.got)
      BY <1>3, <2>1, <2>2
    <2>3. CASE i \in feed.base + 1 .. Len(feed.got)
      <3>1. i \in 1 .. Len(feed.got)
        BY <1>1, <2>3
      <3>2. feed.got[i] \in Nat
        BY <1>1, <3>1, SMTT(30)
      <3> QED
        BY <1>3, <2>3, <3>1, <3>2
    <2> QED
      BY <2>1, <2>2, <2>3
  <1>18. \A i \in feed.base + 1 .. Len(h) : h[i] <= feed.lastSeq
    <2> SUFFICES ASSUME NEW i \in feed.base + 1 .. Len(h) PROVE h[i] <= feed.lastSeq
      OBVIOUS
    <2>1. CASE i \in feed.base + 1 .. Len(feed.got) /\ h[i] = feed.got[i] /\ feed.got[i] \in Nat
      <3>1. h[i] \in Nat /\ h[i] <= feed.since
        BY <1>16, <2>1
      <3> QED
        BY <1>1, <3>1
    <2>2. CASE i > Len(feed.got) /\ i - Len(feed.got) \in 1 .. n /\ h[i] = E[i - Len(feed.got)].seq
      BY <1>15, <2>2
    <2> QED
      BY <1>17, <2>1, <2>2
  <1>19. \A i, j \in feed.base + 1 .. Len(h) : i < j => h[i] < h[j]
    <2> SUFFICES ASSUME NEW i \in feed.base + 1 .. Len(h), NEW j \in feed.base + 1 .. Len(h), i < j
                 PROVE  h[i] < h[j]
      OBVIOUS
    <2>0. i \in Int /\ j \in Int
      OBVIOUS
    <2>1. CASE j \in feed.base + 1 .. Len(feed.got) /\ h[j] = feed.got[j]
      <3>1. i \in feed.base + 1 .. Len(feed.got)
        BY <1>1, <1>3, <2>1
      <3>2. h[i] = feed.got[i]
        BY <1>1, <1>3, <3>1
      <3> QED
        BY <1>16, <2>1, <3>1, <3>2
    <2>2. CASE j > Len(feed.got) /\ j - Len(feed.got) \in 1 .. n /\ h[j] = E[j - Len(feed.got)].seq
      <3>1. CASE i \in feed.base + 1 .. Len(feed.got) /\ h[i] = feed.got[i] /\ feed.got[i] \in Nat
        <4>1. h[i] \in Nat /\ h[i] <= feed.since
          BY <1>16, <3>1
        <4>2. h[j] \in Nat /\ feed.since < h[j]
          BY <1>15, <2>2
        <4> QED
          BY <1>1, <4>1, <4>2
      <3>2. CASE i > Len(feed.got) /\ i - Len(feed.got) \in 1 .. n /\ h[i] = E[i - Len(feed.got)].seq
        <4>1. i - Len(feed.got) < j - Len(feed.got)
          BY <1>3, <2>0
        <4> QED
          BY <1>15, <2>2, <3>2, <4>1
      <3> QED
        BY <1>17, <3>1, <3>2
    <2> QED
      BY <1>17, <2>1, <2>2
  <1>20. feed'.resume <= feed'.since /\ (feed'.pc = "ended" => feed'.resume = feed'.since)
    BY <1>1, <1>10, <1>11
  <1>21. FeedOrdered'
    <2>1. feed'.pc \in {"wait", "ended"} /\ (feed'.pc = "wait" => ~ends)
      BY <1>10
    <2> QED
      BY <1>11, <1>12, <1>18, <1>19, <1>20, <2>1 DEF FeedOrdered, Busy, Gathering
  <1>22. ASSUME FeedCovers, db.uuid = feed.uuid
         PROVE  FeedCovers'
    <2>1. \A c \in Due : c.seq \in Nat
      BY DueTyped DEF Due
    <2>2. feed.lastSeq <= db.updateSeq /\ Gathered(E, feed.since, feed.lastSeq) /\ GotAll(feed.since, Len(feed.got))
          /\ GotAll(feed.resume, feed.base)
      BY <1>0, <1>22 DEF FeedCovers, E
    <2>3. \A c \in Due : c.seq <= feed.lastSeq => \E i \in 1 .. Len(h) : h[i] = c.seq
      <3> SUFFICES ASSUME NEW c \in Due, c.seq <= feed.lastSeq PROVE \E i \in 1 .. Len(h) : h[i] = c.seq
        OBVIOUS
      <3>1. CASE c.seq <= feed.since
        <4>1. PICK i \in 1 .. Len(feed.got) : feed.got[i] = c.seq
          BY <2>2, <3>1 DEF GotAll
        <4>2. i \in 1 .. Len(h) /\ h[i] = c.seq
          BY <1>3, <4>1
        <4> QED
          BY <4>2
      <3>2. CASE ~(c.seq <= feed.since)
        <4>1. feed.since < c.seq
          BY <1>1, <2>1, <3>2
        <4>2. PICK i \in 1 .. n : E[i].seq = c.seq
          BY <2>2, <4>1 DEF Gathered, Lists, n
        <4> QED
          BY <1>3, <4>2
      <3> QED
        BY <3>1, <3>2
    <2>4. GotAll(feed.since, Len(feed.got))'
      BY <1>11, <1>13, <2>3 DEF GotAll
    <2>5. ASSUME Busy'
          PROVE  GotAll(feed.resume, feed.base)'
      <3>1. feed'.resume = feed.resume
        BY <1>10, <2>5 DEF Busy
      <3>2. \A i \in 1 .. feed.base : h[i] = feed.got[i]
        BY <1>1, <1>3
      <3> QED
        BY <1>11, <1>13, <2>2, <3>1, <3>2 DEF GotAll
    <2>6. ~Gathering'
      BY <1>10 DEF Gathering
    <2> QED
      BY <1>11, <2>2, <2>4, <2>5, <2>6 DEF FeedCovers
  <1> QED
    BY <1>0, <1>11, <1>14, <1>21, <1>22 DEF FeedInv

\* The feed ends where it is.
LEMMA EndsKeeps ==
  ASSUME FeedInv, feed.pc # "closed", DbOk(db), db' = db, OnlyFeed({"pc", "resume", "events"}),
         feed'.pc = "ended", feed'.resume = feed.since, feed'.events = <<>>
  PROVE  FeedInv'
  <1>1. FeedTyped /\ FeedOrdered /\ (db.uuid = feed.uuid => FeedCovers)
    BY DEF FeedInv, Closed
  <1>2. FeedFields \subseteq DOMAIN feed
    BY <1>1 DEF FeedTyped
  <1>3. /\ DOMAIN feed' = DOMAIN feed
        /\ feed'.kind = feed.kind /\ feed'.filter = feed.filter /\ feed'.limit = feed.limit
        /\ feed'.remaining = feed.remaining /\ feed'.since = feed.since /\ feed'.got = feed.got
        /\ feed'.base = feed.base /\ feed'.lastSeq = feed.lastSeq /\ feed'.uuid = feed.uuid
        /\ feed'.left = feed.left
    BY <1>2 DEF OnlyFeed, FeedFields
  <1>4. Due' = Due
    BY <1>3, DueSame
  <1>5. FeedTyped'
    BY <1>1, <1>3 DEF FeedTyped
  <1>6. feed.since <= feed.since
    BY <1>1 DEF FeedTyped
  <1>7. FeedOrdered'
    BY <1>1, <1>3, <1>6 DEF FeedOrdered, Busy, Gathering
  <1>8. ASSUME FeedCovers
        PROVE  FeedCovers'
    BY <1>3, <1>4, <1>8 DEF FeedCovers, GotAll, Busy, Gathering
  <1> QED
    BY <1>1, <1>3, <1>5, <1>7, <1>8 DEF FeedInv

\* The feed looks again from where it is.
LEMMA LooksKeeps ==
  ASSUME FeedInv, feed.pc = "wait", DbOk(db), db' = db, OnlyFeed({"pc", "lastSeq"}),
         feed'.pc = "fetch", feed'.lastSeq = feed.since
  PROVE  FeedInv'
  <1>1. FeedTyped /\ FeedOrdered /\ (db.uuid = feed.uuid => FeedCovers) /\ Busy
    BY DEF FeedInv, Closed, Busy
  <1>2. FeedFields \subseteq DOMAIN feed
    BY <1>1 DEF FeedTyped
  <1>3. /\ DOMAIN feed' = DOMAIN feed
        /\ feed'.kind = feed.kind /\ feed'.filter = feed.filter /\ feed'.limit = feed.limit
        /\ feed'.remaining = feed.remaining /\ feed'.since = feed.since /\ feed'.got = feed.got
        /\ feed'.base = feed.base /\ feed'.resume = feed.resume /\ feed'.uuid = feed.uuid
        /\ feed'.left = feed.left /\ feed'.events = <<>>
    BY <1>1, <1>2 DEF OnlyFeed, FeedFields, FeedOrdered
  <1>4. Due' = Due
    BY <1>3, DueSame
  <1>5. FeedTyped'
    BY <1>1, <1>3 DEF FeedTyped
  <1>6. /\ feed.since \in Nat /\ feed.since <= feed.since /\ feed.remaining \in Nat
        /\ EventsOk(<<>>, feed.since, feed.since) /\ Gathered(<<>>, feed.since, feed.since) /\ Len(<<>>) = 0
    BY <1>1, NothingListed DEF FeedTyped
  <1>7. FeedOrdered'
    BY <1>1, <1>3, <1>6 DEF FeedOrdered, Busy, Gathering
  <1>8. ASSUME FeedCovers
        PROVE  FeedCovers'
    BY <1>1, <1>3, <1>4, <1>6, <1>8 DEF FeedCovers, GotAll, Gathered, Busy, Gathering
  <1> QED
    BY <1>1, <1>3, <1>5, <1>7, <1>8 DEF FeedInv

\* What Ending does.
LEMMA EndingIs ==
  ASSUME FeedTyped, NEW s, feed' = Ending(feed, s)
  PROVE  OnlyFeed({"pc", "resume"}) /\ feed'.pc = "ended" /\ feed'.resume = s /\ feed'.events = feed.events
  <1>1. {"pc", "resume", "events"} \subseteq DOMAIN feed
    BY DEF FeedTyped, FeedFields
  <1> QED
    BY <1>1 DEF Ending, OnlyFeed

\* The feed wakes up, times out, fails, is opened again, and loses its connection
\* with some of what was sent.
LEMMA WakeKeeps ==
  ASSUME FeedInv, DbOk(db), db' = db, Wake
  PROVE  FeedInv'
  <1>1. feed.pc = "wait" /\ FeedTyped /\ FeedOrdered
    BY DEF Wake, FeedInv, Closed
  <1>2. CASE deleted
    <2>1. OnlyFeed({"pc", "resume"}) /\ feed'.pc = "ended" /\ feed'.resume = feed.since /\ feed'.events = feed.events
      BY <1>1, <1>2, EndingIs DEF Wake
    <2>2. OnlyFeed({"pc", "resume", "events"})
      BY <2>1 DEF OnlyFeed
    <2>3. feed.events = <<>>
      BY <1>1 DEF FeedOrdered
    <2> QED
      BY <1>1, <2>1, <2>2, <2>3, EndsKeeps
  <1>3. CASE ~deleted
    <2>1. feed' = [feed EXCEPT !.pc = "fetch", !.lastSeq = feed.since]
      BY <1>3 DEF Wake
    <2>2. {"pc", "lastSeq"} \subseteq DOMAIN feed
      BY <1>1 DEF FeedTyped, FeedFields
    <2>3. OnlyFeed({"pc", "lastSeq"}) /\ feed'.pc = "fetch" /\ feed'.lastSeq = feed.since
      BY <2>1, <2>2 DEF OnlyFeed
    <2> QED
      BY <1>1, <2>3, LooksKeeps
  <1> QED
    BY <1>2, <1>3

LEMMA ExpireKeeps ==
  ASSUME FeedInv, DbOk(db), db' = db, Expire
  PROVE  FeedInv'
  <1>1. feed.pc = "wait" /\ FeedTyped /\ FeedOrdered
    BY DEF Expire, FeedInv, Closed
  <1>2. OnlyFeed({"pc", "resume"}) /\ feed'.pc = "ended" /\ feed'.resume = feed.since /\ feed'.events = feed.events
    BY <1>1, EndingIs DEF Expire
  <1>3. OnlyFeed({"pc", "resume", "events"}) /\ feed.events = <<>>
    BY <1>1, <1>2 DEF OnlyFeed, FeedOrdered
  <1> QED
    BY <1>1, <1>2, <1>3, EndsKeeps

LEMMA FetchFailsKeeps ==
  ASSUME FeedInv, DbOk(db), db' = db, FetchFails
  PROVE  FeedInv'
  <1>1. feed.pc = "fetch" /\ FeedTyped
    BY DEF FetchFails, FeedInv, Closed
  <1>2. {"pc", "resume", "events"} \subseteq DOMAIN feed
    BY <1>1 DEF FeedTyped, FeedFields
  <1>3. feed' = [[feed EXCEPT !.pc = "ended", !.resume = feed.since] EXCEPT !.events = <<>>]
    BY DEF FetchFails, Ending
  <1>4. /\ OnlyFeed({"pc", "resume", "events"}) /\ feed'.pc = "ended"
        /\ feed'.resume = feed.since /\ feed'.events = <<>>
    BY <1>2, <1>3 DEF OnlyFeed
  <1> QED
    BY <1>1, <1>4, EndsKeeps

LEMMA ReopenKeeps ==
  ASSUME FeedInv, DbOk(db), db' = db, Reopen
  PROVE  FeedInv'
  <1>1. /\ feed.pc = "ended" /\ FeedTyped /\ FeedOrdered /\ (db.uuid = feed.uuid => FeedCovers)
        /\ FeedFields \subseteq DOMAIN feed
    BY DEF Reopen, FeedInv, Closed, FeedTyped
  <1>2. /\ feed.events = <<>> /\ feed.resume = feed.since /\ feed.since \in Nat /\ feed.limit \in Nat \ {0}
        /\ Len(feed.got) \in Nat /\ feed.left \in Nat
    BY <1>1 DEF FeedOrdered, FeedTyped
  <1>3. CASE feed.left = 0
    <2>1. feed' = [feed EXCEPT !.pc = "closed"]
      BY <1>3 DEF Reopen
    <2>2. /\ DOMAIN feed' = DOMAIN feed /\ feed'.pc = "closed"
          /\ feed'.kind = feed.kind /\ feed'.filter = feed.filter /\ feed'.limit = feed.limit
          /\ feed'.remaining = feed.remaining /\ feed'.since = feed.since /\ feed'.got = feed.got
          /\ feed'.base = feed.base /\ feed'.resume = feed.resume /\ feed'.uuid = feed.uuid
          /\ feed'.left = feed.left /\ feed'.events = feed.events /\ feed'.lastSeq = feed.lastSeq
      BY <1>1, <2>1 DEF FeedFields
    <2>3. Due' = Due
      BY <2>2, DueSame
    <2>4. FeedTyped' /\ FeedOrdered'
      BY <1>1, <2>2 DEF FeedTyped, FeedOrdered, Busy, Gathering
    <2>5. ASSUME FeedCovers
          PROVE  FeedCovers'
      BY <2>2, <2>3, <2>5 DEF FeedCovers, GotAll, Busy, Gathering
    <2> QED
      BY <1>1, <2>2, <2>4, <2>5 DEF FeedInv
  <1>4. CASE feed.left # 0
    <2> DEFINE p == IF deleted THEN "closed" ELSE "fetch"
               f == [feed EXCEPT !.pc = p, !.left = feed.left - 1, !.since = feed.resume]
    <2>1. feed' = [f EXCEPT !.lastSeq = feed.resume, !.base = Len(feed.got), !.remaining = feed.limit]
      BY <1>4 DEF Reopen
    <2>2. p \in {"closed", "fetch"}
      OBVIOUS
    <2> HIDE DEF p
    <2>3. /\ DOMAIN f = DOMAIN feed /\ f.pc = p /\ f.left = feed.left - 1 /\ f.since = feed.resume
          /\ \A x \in DOMAIN feed \ {"pc", "left", "since"} : f[x] = feed[x]
      BY <1>1 DEF FeedFields
    <2> HIDE DEF f
    <2>4. /\ DOMAIN feed' = DOMAIN feed
          /\ feed'.lastSeq = feed.resume /\ feed'.base = Len(feed.got) /\ feed'.remaining = feed.limit
          /\ \A x \in DOMAIN feed \ {"lastSeq", "base", "remaining"} : feed'[x] = f[x]
      BY <1>1, <2>1, <2>3 DEF FeedFields
    <2>5. /\ feed'.pc = p /\ feed'.left = feed.left - 1 /\ feed'.since = feed.since
          /\ feed'.kind = feed.kind /\ feed'.filter = feed.filter /\ feed'.limit = feed.limit
          /\ feed'.got = feed.got /\ feed'.resume = feed.resume /\ feed'.uuid = feed.uuid
          /\ feed'.events = <<>> /\ feed'.lastSeq = feed.since
      BY <1>1, <1>2, <2>3, <2>4 DEF FeedFields
    <2>6. Due' = Due
      BY <2>5, DueSame
    <2>7. feed'.left \in Nat /\ feed'.base \in 0 .. Len(feed'.got)
      BY <1>2, <1>4, <2>4, <2>5
    <2>8. FeedTyped'
      BY <1>1, <1>2, <2>2, <2>4, <2>5, <2>7 DEF FeedTyped
    <2>9. /\ feed.since <= feed.since
          /\ EventsOk(<<>>, feed.since, feed.since) /\ Gathered(<<>>, feed.since, feed.since) /\ Len(<<>>) = 0
      BY <1>2, NothingListed
    <2>10. \A i \in feed'.base + 1 .. Len(feed'.got) : FALSE
      BY <1>2, <2>4, <2>5
    <2>11. FeedOrdered'
      <3>1. feed'.resume <= feed'.since /\ feed'.remaining # 0 /\ feed'.remaining \in Nat
        BY <1>2, <2>4, <2>5, <2>9
      <3>2. feed'.pc \notin {"wait", "ended"}
        BY <2>2, <2>5
      <3>3. /\ \A i \in feed'.base + 1 .. Len(feed'.got) : feed'.got[i] <= feed'.since
            /\ \A i, j \in feed'.base + 1 .. Len(feed'.got) : i < j => feed'.got[i] < feed'.got[j]
        BY <2>10
      <3> QED
        BY <2>4, <2>5, <2>9, <3>1, <3>2, <3>3 DEF FeedOrdered, Busy, Gathering
    <2>12. ASSUME FeedCovers
           PROVE  FeedCovers'
      BY <1>2, <2>4, <2>5, <2>6, <2>9, <2>12 DEF FeedCovers, GotAll, Gathered, Busy, Gathering
    <2> QED
      BY <1>1, <2>5, <2>8, <2>11, <2>12 DEF FeedInv
  <1> QED
    BY <1>3, <1>4

LEMMA DisconnectKeeps ==
  ASSUME FeedInv, DbOk(db), db' = db, Disconnect
  PROVE  FeedInv'
  <1>1. /\ feed.pc \in {"serve", "wait"} /\ FeedTyped /\ FeedOrdered /\ (db.uuid = feed.uuid => FeedCovers)
        /\ FeedFields \subseteq DOMAIN feed /\ Busy
    BY DEF Disconnect, FeedInv, Closed, FeedTyped, Busy
  <1>2. /\ feed.since \in Nat /\ feed.got \in Seq(Nat) /\ feed.base \in 0 .. Len(feed.got) /\ Len(feed.got) \in Nat
        /\ feed.resume \in Nat /\ feed.resume <= feed.since
        /\ \A i \in feed.base + 1 .. Len(feed.got) : feed.got[i] <= feed.since
        /\ \A i, j \in feed.base + 1 .. Len(feed.got) : i < j => feed.got[i] < feed.got[j]
    BY <1>1 DEF FeedTyped, FeedOrdered
  <1>3. PICK n \in feed.base .. Len(feed.got) :
          feed' = [Ending(feed, IF n = feed.base THEN feed.resume ELSE feed.got[n])
                     EXCEPT !.got = SubSeq(@, 1, n), !.events = <<>>,
                            !.since = IF n = feed.base THEN feed.resume ELSE feed.got[n]]
    BY DEF Disconnect
  <1> DEFINE last == IF n = feed.base THEN feed.resume ELSE feed.got[n]
             g == SubSeq(feed.got, 1, n)
             f == Ending(feed, last)
  <1>4. n \in Nat /\ n <= Len(feed.got) /\ feed.base <= n /\ feed.base \in Nat
    BY <1>2
  <1>5. g \in Seq(Nat) /\ Len(g) = n /\ \A i \in 1 .. n : g[i] = feed.got[i] /\ i \in 1 .. Len(feed.got)
    BY <1>2, <1>4, PrefixIs
  <1>6. n # feed.base => n \in feed.base + 1 .. Len(feed.got) /\ n \in 1 .. Len(feed.got)
    BY <1>2, <1>4
  <1>7. last \in Nat /\ last <= feed.since
    BY <1>2, <1>6
  <1>8. \A i \in feed.base + 1 .. n : i \in 1 .. n /\ i \in feed.base + 1 .. Len(feed.got) /\ n # feed.base
    BY <1>4
  <1>9. \A i \in feed.base + 1 .. n : g[i] <= last
    <2> SUFFICES ASSUME NEW i \in feed.base + 1 .. n PROVE g[i] <= last
      OBVIOUS
    <2>1. /\ i \in 1 .. n /\ i \in feed.base + 1 .. Len(feed.got) /\ g[i] = feed.got[i]
          /\ last = feed.got[n] /\ n \in feed.base + 1 .. Len(feed.got)
      BY <1>5, <1>6, <1>8
    <2>2. i = n \/ i < n
      BY <1>4
    <2>3. feed.got[i] \in Nat /\ feed.got[n] \in Nat
      BY <1>2, <1>5, <1>7, <2>1
    <2>4. feed.got[i] = feed.got[n] \/ feed.got[i] < feed.got[n]
      BY <1>2, <2>1, <2>2
    <2>5. \A x, y \in Nat : x = y \/ x < y => x <= y
      OBVIOUS
    <2> HIDE DEF last
    <2> QED
      BY <2>1, <2>3, <2>4, <2>5
  <1>10. \A i, j \in feed.base + 1 .. n : i < j => g[i] < g[j]
    BY <1>2, <1>5, <1>8
  <1>11. feed' = [f EXCEPT !.got = SubSeq(@, 1, n), !.events = <<>>, !.since = last]
    BY <1>3
  <1> HIDE DEF last
  <1>12. /\ DOMAIN f = DOMAIN feed /\ f.pc = "ended" /\ f.resume = last /\ f.got = feed.got
         /\ \A x \in DOMAIN feed \ {"pc", "resume"} : f[x] = feed[x]
    BY <1>1 DEF Ending, FeedFields
  <1> HIDE DEF f
  <1>13. feed' = [f EXCEPT !.got = g, !.events = <<>>, !.since = last]
    BY <1>11, <1>12
  <1> HIDE DEF g
  <1>14. /\ DOMAIN feed' = DOMAIN feed
         /\ feed'.got = g /\ feed'.events = <<>> /\ feed'.since = last
         /\ \A x \in DOMAIN feed \ {"got", "events", "since"} : feed'[x] = f[x]
    BY <1>1, <1>12, <1>13 DEF FeedFields
  <1>15. /\ feed'.pc = "ended" /\ feed'.resume = last
         /\ feed'.kind = feed.kind /\ feed'.filter = feed.filter /\ feed'.limit = feed.limit
         /\ feed'.remaining = feed.remaining /\ feed'.base = feed.base /\ feed'.uuid = feed.uuid
         /\ feed'.left = feed.left /\ feed'.lastSeq = feed.lastSeq
    BY <1>1, <1>12, <1>14 DEF FeedFields
  <1>16. Due' = Due
    BY <1>15, DueSame
  <1>17. FeedTyped'
    <2>1. feed'.base \in 0 .. Len(feed'.got)
      BY <1>4, <1>5, <1>14, <1>15
    <2> QED
      BY <1>1, <1>5, <1>7, <1>14, <1>15, <2>1 DEF FeedTyped
  <1>18. FeedOrdered'
    <2>1. feed'.resume <= feed'.since
      BY <1>7, <1>14, <1>15
    <2> QED
      BY <1>5, <1>9, <1>10, <1>14, <1>15, <2>1 DEF FeedOrdered, Busy, Gathering
  <1>19. ASSUME FeedCovers
         PROVE  FeedCovers'
    <2>1. \A c \in Due : c.seq \in Nat
      BY DueTyped DEF Due
    <2>2. feed.since <= db.updateSeq /\ db.updateSeq \in Nat /\ GotAll(feed.since, Len(feed.got))
          /\ GotAll(feed.resume, feed.base)
      BY <1>1, <1>19, DueTyped DEF FeedCovers
    <2>3. ASSUME NEW c \in Due, c.seq <= last
          PROVE  \E i \in 1 .. n : g[i] = c.seq
      <3>1. CASE n = feed.base
        <4>1. PICK i \in 1 .. feed.base : feed.got[i] = c.seq
          BY <2>2, <2>3, <3>1 DEF GotAll, last
        <4> QED
          BY <1>5, <3>1, <4>1
      <3>2. CASE n # feed.base
        <4>1. last = feed.got[n] /\ n \in feed.base + 1 .. Len(feed.got) /\ n \in 1 .. Len(feed.got)
          BY <1>6, <3>2 DEF last
        <4>2. c.seq <= feed.since
          BY <1>2, <1>7, <2>1, <2>3
        <4>3. PICK i \in 1 .. Len(feed.got) : feed.got[i] = c.seq
          BY <2>2, <4>2 DEF GotAll
        <4>4. ASSUME n < i PROVE FALSE
          <5>1. i \in feed.base + 1 .. Len(feed.got)
            BY <1>4, <4>4
          <5>2. last < c.seq
            BY <1>2, <4>1, <4>3, <4>4, <5>1
          <5> QED
            BY <1>7, <2>1, <2>3, <5>2
        <4>5. i \in 1 .. n
          BY <1>2, <1>4, <4>4
        <4> QED
          BY <1>5, <4>3, <4>5
      <3> QED
        BY <3>1, <3>2
    <2>4. GotAll(feed.since, Len(feed.got))'
      BY <1>5, <1>14, <1>16, <2>3 DEF GotAll
    <2>5. feed'.since <= db.updateSeq
      BY <1>2, <1>7, <1>14, <2>2
    <2> QED
      BY <1>15, <2>4, <2>5 DEF FeedCovers, Busy, Gathering
  <1> QED
    BY <1>1, <1>15, <1>17, <1>18, <1>19 DEF FeedInv

\* A feed starts with nothing to have got; every step keeps what it has got; and
\* that is what FeedSkipsNone says.
LEMMA FeedInit ==
  ASSUME Init
  PROVE  FeedInv
  <1>1. PICK c \in Cases : feed = IF c.feed = Closed THEN Closed ELSE Opened(c.feed, 0)
    BY DEF Init
  <1>2. c.feed = Closed \/ c.feed \in FeedOptions
    BY AdapterAssumption
  <1>3. CASE c.feed = Closed
    BY <1>1, <1>3 DEF FeedInv
  <1>4. CASE c.feed # Closed
    <2> DEFINE o == c.feed
    <2>1. o \in FeedOptions /\ feed = Opened(o, 0)
      BY <1>1, <1>2, <1>4
    <2> HIDE DEF o
    <2>2. /\ o.kind \in {"longpoll", "continuous"} /\ o.filter \in {"none", "design", "selector"}
          /\ o.limit \in Nat \ {0}
      BY <2>1 DEF FeedOptions
    <2>3. FeedFields \subseteq DOMAIN feed
      BY <2>1 DEF Opened, FeedFields
    <2>4. /\ feed.kind = o.kind /\ feed.filter = o.filter /\ feed.limit = o.limit /\ feed.pc = "fetch"
          /\ feed.remaining = o.limit /\ feed.since = 0 /\ feed.events = <<>> /\ feed.lastSeq = 0
          /\ feed.got = <<>> /\ feed.base = 0 /\ feed.resume = 0 /\ feed.uuid = 0 /\ feed.left = Reopens
      BY <2>1 DEF Opened
    <2>5. <<>> \in Seq(Nat) /\ Len(<<>>) = 0 /\ 0 \in 0 .. Len(<<>>) /\ Reopens \in Nat
      BY FeedAssumption
    <2>6. FeedTyped
      BY <2>2, <2>3, <2>4, <2>5 DEF FeedTyped
    <2>7. DbOk(db)
      BY DataInit DEF DataInv
    <2>8. EventsOk(<<>>, 0, 0) /\ Gathered(<<>>, 0, 0)
      BY <2>7, NothingListed
    <2>9. FeedOrdered
      BY <2>2, <2>4, <2>5, <2>8 DEF FeedOrdered, Busy, Gathering
    <2>10. FeedCovers
      <3>1. 0 <= db.updateSeq
        BY <2>7, DueTyped
      <3>2. \A c1 \in Due : ~(c1.seq <= 0)
        BY <2>7, DueTyped DEF Due
      <3> QED
        BY <2>4, <2>5, <2>8, <3>1, <3>2 DEF FeedCovers, GotAll, Busy, Gathering
    <2> QED
      BY <2>6, <2>9, <2>10 DEF FeedInv
  <1> QED
    BY <1>3, <1>4

LEMMA FeedSteps ==
  ASSUME DataInv, FeedInv, DbMoves, [Next]_httpVars
  PROVE  FeedInv'
  <1>0. DbOk(db)
    BY DEF DataInv
  <1>1. CASE feed' = feed
    BY <1>0, <1>1, FeedKept
  <1>2. ASSUME FeedStep
        PROVE  FeedInv'
    <2>1. db' = db
      BY <1>2 DEF FeedStep, FetchStep, Serve, Wake, Expire, Reopen, serverVars
    <2> QED
      BY <1>0, <1>2, <2>1, FetchPlainKeeps, FetchDesignKeeps, FetchBatchKeeps, ServeKeeps, WakeKeeps,
         ExpireKeeps, ReopenKeeps
      DEF FeedStep, FetchStep
  <1>3. ASSUME FetchFails \/ Disconnect
        PROVE  FeedInv'
    <2>1. db' = db
      BY <1>3 DEF FetchFails, Disconnect, serverVars
    <2> QED
      BY <1>0, <1>3, <2>1, FetchFailsKeeps, DisconnectKeeps
  <1>4. ASSUME NEW t \in Task, (Client(t) /\ UNCHANGED <<feed, faults, writes>>) \/ ServerStep(t)
        PROVE  feed' = feed
    BY <1>4 DEF ServerStep
  <1>5. DirectWrite => feed' = feed
    BY DEF DirectWrite
  <1>6. UNCHANGED httpVars => feed' = feed
    BY DEF httpVars
  <1>7. Fault => feed' = feed \/ FetchFails \/ Disconnect
    BY DEF Fault
  <1> QED
    BY <1>1, <1>2, <1>3, <1>4, <1>5, <1>6, <1>7 DEF Next

LEMMA FeedIsTold ==
  ASSUME DataInv, FeedInv
  PROVE  FeedSkipsNone
  <1>1. CASE feed = Closed
    <2>1. feed.since = 0
      BY <1>1 DEF Closed
    <2>2. \A c \in Due : ~(c.seq <= 0)
      BY DueTyped DEF Due, DataInv
    <2> QED
      BY <2>1, <2>2 DEF FeedSkipsNone
  <1>2. CASE feed # Closed
    BY <1>2 DEF FeedInv, FeedCovers, GotAll, FeedSkipsNone, HasGot
  <1> QED
    BY <1>1, <1>2

\* A changes feed skips nothing: whatever is written, deleted, compacted and
\* purged while it waits or fetches in batches, and wherever its connection
\* breaks, its client has every change it is to be shown up to where it is.
THEOREM FeedMissesNothing == Spec => []FeedSkipsNone
  <1>1. Init => SetupInv /\ DataInv /\ FeedInv
    BY SetupInit, DataInit, FeedInit
  <1>2. SetupInv /\ DataInv /\ FeedInv /\ [Next]_httpVars => SetupInv' /\ DataInv' /\ FeedInv'
    BY SetupStep, DataStep, FeedSteps
  <1>3. SetupInv /\ DataInv /\ FeedInv => FeedSkipsNone
    BY FeedIsTold
  <1> QED
    BY <1>1, <1>2, <1>3, PTL DEF Spec

\* What the server's requests and the writes beside them do keeps the database
\* in order: its trees, its sequences and its feed agree, whatever interleaves.
THEOREM ServerKeepsDatabase == Spec => []DbOk(db)
  <1>1. Init => SetupInv /\ DataInv
    BY SetupInit, DataInit
  <1>2. SetupInv /\ DataInv /\ [Next]_httpVars => SetupInv' /\ DataInv'
    BY SetupStep, DataStep
  <1>3. DataInv => DbOk(db)
    BY DEF DataInv
  <1> QED
    BY <1>1, <1>2, <1>3, PTL DEF Spec
=============================================================================
