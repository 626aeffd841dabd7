------------------------- MODULE CallLifecycleProofs -------------------------
(***************************************************************************)
(* Theorems of CallLifecycle: type correctness, the discipline of the      *)
(* database queue, and the accounting of concurrency slots, among them     *)
(* those of the calls being dialled.                                       *)
(***************************************************************************)
EXTENDS CallLifecycle, FiniteSetTheorems, SequenceTheorems, TLAPS

(* What the coroutines are made of *)

\* Every kind of hop a coroutine may make is one the worker knows.
LEMMA HopTypes ==
  ASSUME NEW r \in Requests
  PROVE  /\ \A op \in {"select", "find", "fetch", "close", "found", "decide",
                       "bump", "commit"} : Hop(op, r, "") \in Hops
         /\ \A op \in {"guard", "write", "bind"} : \A s \in Statuses :
              Hop(op, r, s) \in Hops
         /\ \A e \in EventNames : Hop("log", r, e) \in Hops
         /\ \A q \in Requests \union {NoRequest} : Hop("insert", r, q) \in Hops
         /\ \A m \in Statuses \union {"unmapped"} : Hop("route", r, m) \in Hops
BY DEF Hop, Hops, HopSet

Programs == Seq(Hops) \ {<<>>}

\* Running one non-empty list of hops after another is again one.
LEMMA Sequel ==
  ASSUME NEW s \in Programs, NEW t \in Seq(Hops)
  PROVE  s \o t \in Programs
BY ConcatProperties, ConcatEqualIffEmpty DEF Programs

\* A list of two hops is one a coroutine may run.
LEMMA Programs2 ==
  ASSUME NEW a \in Hops, NEW b \in Hops
  PROVE  <<a, b>> \in Programs
BY DEF Programs

\* A list of three hops is one a coroutine may run.
LEMMA Programs3 ==
  ASSUME NEW a \in Hops, NEW b \in Hops, NEW c \in Hops
  PROVE  <<a, b, c>> \in Programs
BY DEF Programs

\* A list of five hops is one a coroutine may run.
LEMMA Programs5 ==
  ASSUME NEW a \in Hops, NEW b \in Hops, NEW c \in Hops, NEW d \in Hops,
         NEW e \in Hops
  PROVE  <<a, b, c, d, e>> \in Programs
BY DEF Programs

\* The functions of db.py that coroutines call are well typed and not empty.
LEMMA StatementTypes ==
  ASSUME NEW r \in Requests
  PROVE  /\ \A w \in {"write", "bind"} : \A s \in Statuses :
              UpdateVia(w, r, s) \in Programs
         /\ \A s \in Statuses : Update(r, s) \in Programs
         /\ \A e \in EventNames : AddEvent(r, e) \in Programs
         /\ ReadParent(r) \in Programs
         /\ IncrementRetry(r) \in Programs
<1>1. \A w \in {"write", "bind"} : \A s \in Statuses :
        UpdateVia(w, r, s) \in Programs
  <2> SUFFICES ASSUME NEW w \in {"write", "bind"}, NEW s \in Statuses
               PROVE  UpdateVia(w, r, s) \in Programs
    OBVIOUS
  <2>1. /\ Hop("select", r, "") \in Hops /\ Hop("fetch", r, "") \in Hops
        /\ Hop("guard", r, s) \in Hops /\ Hop(w, r, s) \in Hops
        /\ Hop("commit", r, "") \in Hops
    BY HopTypes
  <2> QED BY <2>1, Programs5 DEF UpdateVia
<1>2. \A e \in EventNames : AddEvent(r, e) \in Programs
  BY HopTypes, Programs2 DEF AddEvent
<1>3. ReadParent(r) \in Programs
  BY HopTypes, Programs3 DEF ReadParent
<1>4. IncrementRetry(r) \in Programs
  BY HopTypes, Programs5 DEF IncrementRetry
<1> QED BY <1>1, <1>2, <1>3, <1>4 DEF Update

\* The cause and reason tables yield statuses, or say that there is none.
LEMMA StatusTypes ==
  /\ \A cause \in Int : CauseStatus(cause) \in Statuses \union {"unmapped"}
  /\ \A reason \in Int : ReasonStatus(reason) \in Statuses
  /\ \A m \in Statuses \union {"unmapped"}, seen \in Statuses :
       HangupStatus(m, seen) \in Statuses
BY DEF CauseStatus, ReasonStatus, HangupStatus, Statuses, Terminal, Retryable,
       InProgress

\* The coroutines of the service are well typed and not empty.
LEMMA CoroutineTypes ==
  ASSUME NEW r \in Requests
  PROVE  /\ \A p \in Requests \union {NoRequest} :
              CreateRecord(r, p) \in Programs
         /\ \A s \in {"ringing", "answered"} : OnNewState(r, s) \in Programs
         /\ \A m \in Statuses \union {"unmapped"} : OnHangup(r, m) \in Programs
         /\ OnCallStart(r) \in Programs
         /\ OnPlaybackStart(r) \in Programs
         /\ OnPlaybackComplete(r) \in Programs
         /\ \A s \in Statuses : OnOriginateResponse(r, s) \in Programs
         /\ BeforeTry(r) \in Programs
         /\ OnFailed(r) \in Programs
         /\ \A m \in Statuses \union {"unmapped"}, seen \in Statuses :
              HangupBody(r, m, seen) \in Programs
<1> USE StatementTypes, Sequel
<1>0. /\ {"ringing", "answered", "playing", "completed", "originating",
          "failed"} \subseteq Statuses
      /\ {"ringing", "answered", "dialplan_start", "playing",
          "playback_complete", "originate_response", "originating", "failed",
          "hangup", "queued"} \subseteq EventNames
      /\ Programs \subseteq Seq(Hops) /\ <<>> \in Seq(Hops)
  BY DEF Statuses, Terminal, Retryable, InProgress, EventNames, Programs
<1>1. ASSUME NEW p \in Requests \union {NoRequest}
      PROVE  CreateRecord(r, p) \in Programs
  <2>1. <<Hop("insert", r, p), Hop("commit", r, "")>> \in Programs
    BY HopTypes, Programs2
  <2> QED BY <2>1, <1>0 DEF CreateRecord
<1>2. ASSUME NEW last \in {"found"}
      PROVE  FindThen(last, r, "") \in Programs
  BY HopTypes, Programs3 DEF FindThen
<1>3. ASSUME NEW s \in {"ringing", "answered"}
      PROVE  OnNewState(r, s) \in Programs
  <2>1. FindThen("found", r, "") \o Update(r, s) \in Programs
    BY <1>0, <1>2
  <2> QED BY <2>1, <1>0 DEF OnNewState
<1>4. ASSUME NEW m \in Statuses \union {"unmapped"}
      PROVE  OnHangup(r, m) \in Programs
  BY HopTypes, Programs3 DEF OnHangup, FindThen
<1>5. /\ OnCallStart(r) \in Programs /\ OnPlaybackStart(r) \in Programs
      /\ OnPlaybackComplete(r) \in Programs
      /\ BeforeTry(r) \in Programs /\ OnFailed(r) \in Programs
  BY <1>0 DEF OnCallStart, OnPlaybackStart, OnPlaybackComplete, BeforeTry,
              OnFailed
<1>6. ASSUME NEW s \in Statuses
      PROVE  OnOriginateResponse(r, s) \in Programs
  BY <1>0 DEF OnOriginateResponse
<1>7. ASSUME NEW m \in Statuses \union {"unmapped"}, NEW seen \in Statuses
      PROVE  HangupBody(r, m, seen) \in Programs
  <2>1. HangupStatus(m, seen) \in Statuses
    BY StatusTypes
  <2> QED BY <2>1, <1>0 DEF HangupBody
<1> QED BY <1>1, <1>3, <1>4, <1>5, <1>6, <1>7

-----------------------------------------------------------------------------
(* One hop of the worker *)

\* The hop at the head of a coroutine, what it reads, and what is left of the
\* coroutine are well typed; only a route hop has a mapped cause.
LEMMA HopOfTask ==
  ASSUME TypeOK, NEW t \in Tasks, task[t].todo # <<>>
  PROVE  /\ Op(t) \in Hops
         /\ Seen(t) \in Statuses \union {Absent}
         /\ Rest(t) \in Seq(Hops)
<1>1. task[t] \in TaskRecords
  BY DEF TypeOK
<1>2. /\ task[t].todo \in Seq(Hops)
      /\ task[t].seen \in Statuses \union {Absent}
  BY <1>1 DEF TaskRecords
<1>3. Op(t) \in Hops /\ Tail(task[t].todo) \in Seq(Hops)
  BY <1>2, HeadTailProperties DEF Op
<1>4. Op(t).on \in Requests
  BY <1>3 DEF Hops, HopSet
<1>5. db.row[Op(t).on].status \in Statuses \union {Absent}
  BY <1>4 DEF TypeOK, Databases, Rows
<1>6. Seen(t) \in Statuses \union {Absent}
  BY <1>2, <1>5 DEF Seen, ReadBy
<1>7. SubSeq(task[t].todo, 4, Len(task[t].todo)) \in Seq(Hops)
  BY <1>2, ElementOfSeq, LenProperties, SubSeqProperties
<1>8. ASSUME Op(t).op = "route", task[t].seen # Absent
      PROVE  HangupBody(Op(t).on, Op(t).arg, task[t].seen) \in Seq(Hops)
  <2>1. Op(t).arg \in Statuses \union {"unmapped"}
    BY <1>3, <1>8 DEF Hops, HopSet
  <2> QED BY <2>1, <1>2, <1>4, <1>8, CoroutineTypes DEF Programs
<1>9. <<>> \in Seq(Hops)
  OBVIOUS
<1>10. Rest(t) \in Seq(Hops)
  BY <1>3, <1>7, <1>8, <1>9 DEF Rest
<1> QED BY <1>3, <1>6, <1>10

\* Replacing the record of a request keeps the database well typed.
LEMMA SetRowType ==
  ASSUME db \in Databases, NEW r \in Requests, NEW row \in Rows
  PROVE  SetRow(r, row) \in Databases
BY DEF SetRow, Databases

\* A statement leaves well-typed tables, and the disk only ever gets them.
LEMMA ExecuteTypes ==
  ASSUME TypeOK, NEW t \in Tasks, task[t].todo # <<>>, Execute(t)
  PROVE  db' \in Databases /\ disk' \in Databases
<1> DEFINE h == Op(t)
<1>1. h \in Hops
  BY HopOfTask
<1>2. h.on \in Requests
  BY <1>1 DEF Hops, HopSet
<1>3. db \in Databases /\ disk \in Databases
  BY DEF TypeOK
<1>4. db.row[h.on] \in Rows
  BY <1>2, <1>3 DEF Databases
<1>5. CASE h.op = "insert"
  <2>1. h.arg \in Requests \union {NoRequest}
    BY <1>1, <1>5 DEF Hops, HopSet
  <2>2. [NoRow EXCEPT !.status = "queued", !.parent = h.arg] \in Rows
    BY <2>1 DEF NoRow, Rows, Statuses, InProgress
  <2>3. SetRow(h.on, [NoRow EXCEPT !.status = "queued", !.parent = h.arg])
          \in Databases
    BY <2>2, <1>2, <1>3, SetRowType
  <2> QED BY <2>3, <1>3, <1>5 DEF Execute, Effect
<1>6. CASE h.op \in {"write", "bind"}
  <2>1. h.arg \in Statuses
    BY <1>1, <1>6 DEF Hops, HopSet
  <2>2. /\ [db.row[h.on] EXCEPT !.status = h.arg] \in Rows
        /\ [db.row[h.on] EXCEPT !.status = h.arg, !.bound = TRUE] \in Rows
    BY <2>1, <1>4 DEF Rows
  <2>3. /\ SetRow(h.on, [db.row[h.on] EXCEPT !.status = h.arg]) \in Databases
        /\ SetRow(h.on, [db.row[h.on] EXCEPT !.status = h.arg, !.bound = TRUE])
             \in Databases
    BY <2>2, <1>2, <1>3, SetRowType
  <2> QED BY <2>3, <1>3, <1>6 DEF Execute, Effect
<1>7. CASE h.op = "bump"
  <2>1. [db.row[h.on] EXCEPT !.retries = @ + 1] \in Rows
    BY <1>4 DEF Rows
  <2>2. SetRow(h.on, [db.row[h.on] EXCEPT !.retries = @ + 1]) \in Databases
    BY <2>1, <1>2, <1>3, SetRowType
  <2> QED BY <2>2, <1>3, <1>7 DEF Execute, Effect
<1>8. CASE h.op = "log"
  <2>1. h.arg \in EventNames
    BY <1>1, <1>8 DEF Hops, HopSet
  <2>2. [db EXCEPT !.log[h.on] = @ \union {h.arg}] \in Databases
    BY <2>1, <1>2, <1>3 DEF Databases
  <2> QED BY <2>2, <1>3, <1>8 DEF Execute, Effect
<1>9. CASE h.op \notin {"insert", "write", "bind", "bump", "log"}
  BY <1>3, <1>9 DEF Execute, Effect
<1> QED BY <1>5, <1>6, <1>7, <1>8, <1>9

-----------------------------------------------------------------------------
(* The database queue *)

\* What a step does to the coroutines and the queue when it gives task t the
\* record rec and leaves every other coroutine alone.
Sets(t, rec) == task' = [task EXCEPT ![t] = rec]

\* Giving one coroutine a record changes that coroutine alone.
LEMMA SetsTypes ==
  ASSUME TypeOK, NEW t \in Tasks, NEW rec \in TaskRecords, Sets(t, rec)
  PROVE  /\ task' \in [Tasks -> TaskRecords]
         /\ task'[t] = rec
         /\ \A u \in Tasks \ {t} : task'[u] = task[u]
BY DEF TypeOK, Sets

\* A coroutine with a list of requests is well typed.
LEMMA CoroutineRecord ==
  ASSUME NEW st \in TaskStates, NEW part \in Parts, NEW todo \in Seq(Hops)
  PROVE  /\ Coroutine(st, part, todo) \in TaskRecords
         /\ Coroutine(st, part, todo).st = st
         /\ Coroutine(st, part, todo).part = part
         /\ Coroutine(st, part, todo).todo = todo
BY DEF Coroutine, TaskRecords

\* A coroutine without requests is well typed.
LEMMA FreshRecord ==
  ASSUME NEW st \in TaskStates
  PROVE  Fresh(st) \in TaskRecords /\ Fresh(st).st = st
<1>1. "" \in Parts /\ <<>> \in Seq(Hops)
  BY DEF Parts
<1>2. Fresh(st).st = st
  BY DEF Fresh, Coroutine
<1>3. Fresh(st) \in TaskRecords
  BY <1>1 DEF Fresh, Coroutine, TaskRecords
<1> QED BY <1>2, <1>3

\* Putting a waiting coroutine that is not in the queue yet at its tail keeps
\* the discipline, whether the queue is the present one or what is left of it.
LEMMA Enqueue ==
  ASSUME TypeOK, NEW t \in Tasks, NEW rec \in TaskRecords, Sets(t, rec),
         rec.st = "db", rec.todo # <<>>,
         NEW q \in Seq(Tasks), dbq' = Append(q, t),
         \A i \in 1..Len(q) : /\ q[i] # t
                              /\ task[q[i]].st = "db"
                              /\ task[q[i]].todo # <<>>,
         \A i, j \in 1..Len(q) : q[i] = q[j] => i = j
  PROVE  dbq' \in Seq(Tasks) /\ QueueDiscipline'
<1>1. /\ dbq' \in Seq(Tasks)
      /\ Len(dbq') = Len(q) + 1
      /\ \A i \in 1..Len(q) : dbq'[i] = q[i]
      /\ dbq'[Len(q) + 1] = t
      /\ Len(q) \in Nat
  OBVIOUS
<1>2. /\ task'[t] = rec
      /\ \A u \in Tasks \ {t} : task'[u] = task[u]
  BY SetsTypes
<1>3. \A i \in 1..Len(q) : q[i] \in Tasks \ {t}
  BY ElementOfSeq
<1>4. ASSUME NEW i \in 1..Len(dbq')
      PROVE  task'[dbq'[i]].st = "db" /\ task'[dbq'[i]].todo # <<>>
  <2>1. CASE i = Len(q) + 1
    BY <1>1, <1>2, <2>1
  <2>2. CASE i \in 1..Len(q)
    BY <1>1, <1>2, <1>3, <2>2
  <2> QED BY <1>1, <2>1, <2>2
<1>5. ASSUME NEW i \in 1..Len(dbq'), NEW j \in 1..Len(dbq'),
             dbq'[i] = dbq'[j]
      PROVE  i = j
  <2>1. CASE i \in 1..Len(q) /\ j \in 1..Len(q)
    BY <1>1, <1>5, <2>1
  <2>2. CASE i = Len(q) + 1 \/ j = Len(q) + 1
    BY <1>1, <1>3, <1>5, <2>2
  <2> QED BY <1>1, <2>1, <2>2
<1> QED BY <1>1, <1>4, <1>5 DEF QueueDiscipline

\* The head of the queue: a coroutine that waits, and is nowhere else in it.
LEMMA HeadOfQueue ==
  ASSUME TypeOK, QueueDiscipline, NEW t, Serving(t)
  PROVE  /\ t \in Tasks /\ task[t].st = "db" /\ task[t].todo # <<>>
         /\ Tail(dbq) \in Seq(Tasks)
         /\ \A i \in 1..Len(Tail(dbq)) :
              /\ Tail(dbq)[i] \in Tasks /\ Tail(dbq)[i] # t
              /\ task[Tail(dbq)[i]].st = "db"
              /\ task[Tail(dbq)[i]].todo # <<>>
         /\ \A i, j \in 1..Len(Tail(dbq)) : Tail(dbq)[i] = Tail(dbq)[j] => i = j
<1>1. dbq \in Seq(Tasks) /\ dbq # <<>> /\ t = Head(dbq)
  BY DEF TypeOK, Serving
<1>2. /\ t \in Tasks /\ Tail(dbq) \in Seq(Tasks)
      /\ Len(Tail(dbq)) = Len(dbq) - 1 /\ Len(dbq) \in Nat /\ Len(dbq) > 0
      /\ \A i \in 1..Len(Tail(dbq)) : Tail(dbq)[i] = dbq[i + 1]
      /\ t = dbq[1]
  BY <1>1, HeadTailProperties, LenProperties, EmptySeq
<1>3. task[t].st = "db" /\ task[t].todo # <<>>
  BY <1>2 DEF QueueDiscipline
<1>4. ASSUME NEW i \in 1..Len(Tail(dbq))
      PROVE  /\ i + 1 \in 1..Len(dbq) /\ Tail(dbq)[i] = dbq[i + 1]
             /\ i + 1 # 1
  BY <1>2
<1>5. \A i \in 1..Len(Tail(dbq)) : Tail(dbq)[i] \in Tasks
  BY <1>2, ElementOfSeq
<1>6. \A i \in 1..Len(Tail(dbq)) :
        /\ Tail(dbq)[i] # t
        /\ task[Tail(dbq)[i]].st = "db" /\ task[Tail(dbq)[i]].todo # <<>>
  BY <1>2, <1>4 DEF QueueDiscipline
<1>7. ASSUME NEW i \in 1..Len(Tail(dbq)), NEW j \in 1..Len(Tail(dbq)),
             Tail(dbq)[i] = Tail(dbq)[j]
      PROVE  i = j
  <2>1. i + 1 = j + 1
    BY <1>4, <1>7 DEF QueueDiscipline
  <2> QED BY <2>1
<1> QED BY <1>2, <1>3, <1>5, <1>6, <1>7

\* A coroutine that does not wait for the worker is not in the queue.
LEMMA NotQueued ==
  ASSUME TypeOK, QueueDiscipline, NEW t \in Tasks, task[t].st # "db"
  PROVE  /\ dbq \in Seq(Tasks)
         /\ \A i \in 1..Len(dbq) : /\ dbq[i] \in Tasks /\ dbq[i] # t
                                   /\ task[dbq[i]].st = "db"
                                   /\ task[dbq[i]].todo # <<>>
         /\ \A i, j \in 1..Len(dbq) : dbq[i] = dbq[j] => i = j
BY ElementOfSeq DEF TypeOK, QueueDiscipline

\* A coroutine makes its first request.
LEMMA PutNew ==
  ASSUME TypeOK, QueueDiscipline, NEW t \in Tasks, task[t].st # "db",
         NEW part \in Parts, NEW todo \in Programs, Put(t, part, todo, dbq)
  PROVE  /\ task' \in [Tasks -> TaskRecords] /\ dbq' \in Seq(Tasks)
         /\ QueueDiscipline'
         /\ task'[t].st = "db" /\ task'[t].part = part
         /\ \A u \in Tasks \ {t} : task'[u] = task[u]
<1> DEFINE rec == Coroutine("db", part, todo)
<1>1. rec \in TaskRecords /\ rec.st = "db" /\ rec.part = part /\ rec.todo # <<>>
  BY CoroutineRecord DEF Programs, TaskStates
<1>2. Sets(t, rec) /\ dbq' = Append(dbq, t)
  BY DEF Put, Sets
<1> QED BY <1>1, <1>2, SetsTypes, NotQueued, Enqueue

\* The coroutine that is served goes on with another list of requests.
LEMMA PutBack ==
  ASSUME TypeOK, QueueDiscipline, NEW t, Serving(t),
         NEW part \in Parts, NEW todo \in Programs, Put(t, part, todo, Tail(dbq))
  PROVE  /\ task' \in [Tasks -> TaskRecords] /\ dbq' \in Seq(Tasks)
         /\ QueueDiscipline'
         /\ task'[t].st = "db" /\ task'[t].part = part
         /\ \A u \in Tasks \ {t} : task'[u] = task[u]
<1> DEFINE rec == Coroutine("db", part, todo)
<1>1. rec \in TaskRecords /\ rec.st = "db" /\ rec.part = part /\ rec.todo # <<>>
  BY CoroutineRecord DEF Programs, TaskStates
<1>2. Sets(t, rec) /\ dbq' = Append(Tail(dbq), t)
  BY DEF Put, Sets
<1> QED BY <1>1, <1>2, SetsTypes, HeadOfQueue, Enqueue

\* The coroutine that is served leaves the queue, and no other one moves.
LEMMA LeaveQueue ==
  ASSUME TypeOK, QueueDiscipline, NEW t, Serving(t),
         NEW st \in TaskStates, Leave(t, st)
  PROVE  /\ task' \in [Tasks -> TaskRecords] /\ dbq' \in Seq(Tasks)
         /\ QueueDiscipline'
         /\ task'[t].st = st
         /\ \A u \in Tasks \ {t} : task'[u] = task[u]
<1>1. Fresh(st) \in TaskRecords /\ Fresh(st).st = st
  BY FreshRecord
<1>2. Sets(t, Fresh(st)) /\ dbq' = Tail(dbq)
  BY DEF Leave, Sets
<1>3. /\ task' \in [Tasks -> TaskRecords] /\ task'[t].st = st
      /\ \A u \in Tasks \ {t} : task'[u] = task[u]
  BY <1>1, <1>2, SetsTypes, HeadOfQueue
<1>4. QueueDiscipline'
  BY <1>2, <1>3, HeadOfQueue DEF QueueDiscipline
<1> QED BY <1>2, <1>3, <1>4, HeadOfQueue

-----------------------------------------------------------------------------
(* What a step leaves alone *)

\* A coroutine is named by its request and its kind, in one way only.
LEMMA TaskNames ==
  /\ \A r \in Requests : \A k \in Kinds : <<r, k>> \in Tasks
  /\ \A r, q \in Requests : \A k, l \in Kinds :
       <<r, k>> = <<q, l>> => r = q /\ k = l
  /\ "exec" \in Kinds /\ "api" \in Kinds /\ Handlers \subseteq Kinds
  /\ "exec" \notin Handlers /\ "api" \notin Handlers
  /\ \A t \in Tasks : \E r \in Requests, k \in Kinds : t = <<r, k>>
BY DEF Tasks, Kinds, Handlers

\* Only the coroutine of request r and kind k moves.
Moves(r, k) == \A u \in Tasks \ {<<r, k>>} : task'[u] = task[u]

\* If only one coroutine moves, the one of another name does not.
LEMMA OthersStay ==
  ASSUME NEW r \in Requests, NEW k \in Kinds, Moves(r, k)
  PROVE  \A q \in Requests : \A l \in Kinds :
           q # r \/ l # k => task'[<<q, l>>] = task[<<q, l>>]
BY TaskNames DEF Moves

\* The execution coroutines move in no way that concerns their slot.
LEMMA SlotsKept ==
  ASSUME SlotAccounting, active' = active,
         \A r \in Requests : task'[<<r, "exec">>].st \in Holding
                               <=> task[<<r, "exec">>].st \in Holding
  PROVE  SlotAccounting'
<1>1. SlotHolders' = SlotHolders
  BY DEF SlotHolders
<1> QED BY <1>1 DEF SlotAccounting

\* acquire_slot counts the one coroutine that begins to hold a slot.
LEMMA SlotTaken ==
  ASSUME SlotAccounting, active' = active + 1, NEW r \in Requests,
         task[<<r, "exec">>].st \notin Holding,
         task'[<<r, "exec">>].st \in Holding,
         \A q \in Requests \ {r} : task'[<<q, "exec">>] = task[<<q, "exec">>]
  PROVE  SlotAccounting'
<1>1. SlotHolders' = SlotHolders \union {r} /\ r \notin SlotHolders
  BY DEF SlotHolders
<1>2. IsFiniteSet(SlotHolders)
  BY ParametersAssumption, FS_Subset DEF SlotHolders
<1>3. Cardinality(SlotHolders') = Cardinality(SlotHolders) + 1
  BY <1>1, <1>2, FS_AddElement
<1> QED BY <1>3 DEF SlotAccounting

\* A release by a holder finds the counter above zero, so release_slot's guard
\* never hides a release.
LEMMA SlotGivenBack ==
  ASSUME SlotAccounting, ReleaseSlot, NEW r \in Requests,
         task[<<r, "exec">>].st \in Holding,
         task'[<<r, "exec">>].st \notin Holding,
         \A q \in Requests \ {r} : task'[<<q, "exec">>] = task[<<q, "exec">>]
  PROVE  SlotAccounting'
<1>1. SlotHolders' = SlotHolders \ {r} /\ r \in SlotHolders
  BY DEF SlotHolders
<1>2. IsFiniteSet(SlotHolders)
  BY ParametersAssumption, FS_Subset DEF SlotHolders
<1>3. Cardinality(SlotHolders') = Cardinality(SlotHolders) - 1
  BY <1>1, <1>2, FS_RemoveElement
<1>4. Cardinality(SlotHolders) \in Nat /\ Cardinality(SlotHolders) # 0
  BY <1>1, <1>2, FS_CardinalityType, FS_EmptySet
<1> QED BY <1>3, <1>4 DEF SlotAccounting, ReleaseSlot

\* No coroutine is lost, and faults are not forgotten.
LEMMA LeaksKept ==
  ASSUME LeakBounded, used["fault"] \in Nat, used'["fault"] \in Nat,
         used'["fault"] >= used["fault"],
         \A r \in Requests : task'[<<r, "exec">>].st = "lost"
                               => task[<<r, "exec">>].st = "lost"
  PROVE  LeakBounded'
<1>1. Leaked' \subseteq Leaked /\ IsFiniteSet(Leaked)
  BY ParametersAssumption, FS_Subset DEF Leaked
<1>2. /\ Cardinality(Leaked') <= Cardinality(Leaked)
      /\ Cardinality(Leaked') \in Nat /\ Cardinality(Leaked) \in Nat
  BY <1>1, FS_Subset, FS_CardinalityType
<1> QED BY <1>2 DEF LeakBounded

\* The part of the invariant that reads only the kind of wait of each coroutine.
Wiring == ApiFirst /\ DialledOnce /\ HandlersFollowCall /\ OneResponse

\* No coroutine begins, ends or changes its part.
LEMMA WiringKept ==
  ASSUME Inv, UNCHANGED asterisk,
         \A u \in Tasks : task'[u].st = task[u].st /\ task'[u].part = task[u].part
  PROVE  Wiring'
<1>1. \A q \in Requests : \A l \in Kinds :
        /\ task'[<<q, l>>].st = task[<<q, l>>].st
        /\ task'[<<q, l>>].part = task[<<q, l>>].part
  BY TaskNames
<1>2. \A q \in Requests :
        /\ task'[<<q, "api">>].st = task[<<q, "api">>].st
        /\ task'[<<q, "exec">>].st = task[<<q, "exec">>].st
        /\ task'[<<q, "exec">>].part = task[<<q, "exec">>].part
        /\ \A l \in Handlers : task'[<<q, l>>].st = task[<<q, l>>].st
  BY <1>1, TaskNames
<1>3. ApiFirst'
  BY <1>2 DEF Inv, ApiFirst
<1>4. call' = call
  BY DEF asterisk
<1>5. DialledOnce'
  <2> SUFFICES ASSUME NEW q \in Requests, BeforeDialling(<<q, "exec">>)'
               PROVE  call'[q] = "none"
    BY DEF DialledOnce
  <2>1. BeforeDialling(<<q, "exec">>)
    BY <1>2 DEF BeforeDialling
  <2> QED BY <2>1, <1>4 DEF Inv, DialledOnce
<1>6. HandlersFollowCall'
  BY <1>2, <1>4 DEF Inv, HandlersFollowCall
<1>7. OneResponse'
  <2>1. due' = due /\ "response" \in Handlers
    BY DEF asterisk, Handlers
  <2> QED BY <1>2, <1>4, <2>1 DEF Inv, OneResponse
<1> QED BY <1>3, <1>5, <1>6, <1>7 DEF Wiring

\* An event handler runs: it was started already, or it ends.
LEMMA HandlerMoves ==
  ASSUME Inv, UNCHANGED asterisk, NEW r \in Requests, NEW k \in Handlers,
         Moves(r, k), task[<<r, k>>].st = "db" \/ task'[<<r, k>>].st # "db"
  PROVE  Wiring'
<1>1. /\ \A q \in Requests : /\ task'[<<q, "exec">>] = task[<<q, "exec">>]
                             /\ task'[<<q, "api">>] = task[<<q, "api">>]
      /\ \A q \in Requests : \A l \in Handlers :
           task'[<<q, l>>].st = "db" => task[<<q, l>>].st = "db"
  BY TaskNames, OthersStay
<1>2. call' = call /\ due' = due
  BY DEF asterisk
<1>3. ApiFirst'
  BY <1>1 DEF Inv, ApiFirst
<1>4. DialledOnce'
  BY <1>1, <1>2 DEF Inv, DialledOnce, BeforeDialling
<1>5. HandlersFollowCall' /\ OneResponse'
  BY <1>1, <1>2 DEF Inv, HandlersFollowCall, OneResponse, Handlers
<1> QED BY <1>3, <1>4, <1>5 DEF Wiring

\* An execution coroutine that has a slot already moves on.
LEMMA ExecMoves ==
  ASSUME Inv, UNCHANGED asterisk, NEW r \in Requests, Moves(r, "exec"),
         task[<<r, "exec">>].st # "idle",
         \/ call[r] = "none"
         \/ /\ task'[<<r, "exec">>].st \notin {"idle", "ready", "send"}
            /\ task'[<<r, "exec">>].st = "db" =>
                 task'[<<r, "exec">>].part # "pre"
  PROVE  Wiring'
<1>1. /\ \A q \in Requests : /\ task'[<<q, "api">>] = task[<<q, "api">>]
                             /\ q # r => task'[<<q, "exec">>] = task[<<q, "exec">>]
      /\ \A q \in Requests : \A l \in Handlers : task'[<<q, l>>] = task[<<q, l>>]
  BY TaskNames, OthersStay
<1>2. ApiFirst'
  BY <1>1 DEF Inv, ApiFirst
<1>3. DialledOnce'
  BY <1>1 DEF Inv, DialledOnce, BeforeDialling, asterisk
<1>4. call' = call /\ due' = due /\ "response" \in Handlers
  BY DEF asterisk, Handlers
<1>5. HandlersFollowCall'
  BY <1>1, <1>4 DEF Inv, HandlersFollowCall
<1>6. OneResponse'
  BY <1>1, <1>4 DEF Inv, OneResponse
<1> QED BY <1>2, <1>3, <1>5, <1>6 DEF Wiring

\* An HTTP handler runs, begins, or gives up.
LEMMA ApiMoves ==
  ASSUME Inv, UNCHANGED asterisk, NEW r \in Requests, Moves(r, "api"),
         task[<<r, "api">>].st \in {"idle", "db"}
  PROVE  Wiring'
<1>1. /\ \A q \in Requests : /\ task'[<<q, "exec">>] = task[<<q, "exec">>]
                             /\ q # r => task'[<<q, "api">>] = task[<<q, "api">>]
      /\ \A q \in Requests : \A l \in Handlers : task'[<<q, l>>] = task[<<q, l>>]
  BY TaskNames, OthersStay
<1>2. ApiFirst'
  BY <1>1 DEF Inv, ApiFirst
<1>3. DialledOnce'
  BY <1>1 DEF Inv, DialledOnce, BeforeDialling, asterisk
<1>4. call' = call /\ due' = due /\ "response" \in Handlers
  BY DEF asterisk, Handlers
<1>5. HandlersFollowCall'
  BY <1>1, <1>4 DEF Inv, HandlersFollowCall
<1>6. OneResponse'
  BY <1>1, <1>4 DEF Inv, OneResponse
<1> QED BY <1>2, <1>3, <1>5, <1>6 DEF Wiring

-----------------------------------------------------------------------------
(* The steps *)

\* A coroutine that holds no slot and takes none moves; the database may change.
LEMMA SlotFree ==
  ASSUME Inv, UNCHANGED <<active, ami, asterisk>>,
         NEW r \in Requests, NEW k \in Kinds \ {"exec"}, Moves(r, k),
         task' \in [Tasks -> TaskRecords], dbq' \in Seq(Tasks),
         db' \in Databases, disk' \in Databases,
         used' \in [{"drop", "crash", "fault"} -> Nat],
         used'["fault"] >= used["fault"]
  PROVE  TypeOK' /\ SlotAccounting' /\ LeakBounded'
<1>1. \A q \in Requests : task'[<<q, "exec">>] = task[<<q, "exec">>]
  BY TaskNames, OthersStay
<1>2. TypeOK'
  BY DEF Inv, TypeOK, asterisk
<1>3. SlotAccounting'
  BY <1>1, SlotsKept DEF Inv
<1>4. used["fault"] \in Nat /\ used'["fault"] \in Nat
  BY DEF Inv, TypeOK
<1>5. LeakBounded'
  BY <1>1, <1>4, LeaksKept DEF Inv
<1> QED BY <1>2, <1>3, <1>5

\* A step without a mishap leaves the count of faults alone.
LEMMA Unfaulted ==
  ASSUME Inv, UNCHANGED used
  PROVE  /\ used' \in [{"drop", "crash", "fault"} -> Nat]
         /\ used'["fault"] >= used["fault"]
         /\ used["fault"] \in Nat /\ used'["fault"] \in Nat
BY DEF Inv, TypeOK

\* A failed statement is counted.
LEMMA Faulted ==
  ASSUME Inv, NEW t, Faulting(t)
  PROVE  /\ used' \in [{"drop", "crash", "fault"} -> Nat]
         /\ used'["fault"] = used["fault"] + 1
         /\ used["fault"] \in Nat /\ used'["fault"] \in Nat
BY DEF Inv, TypeOK, Faulting

\* Inv is the typing, the queue, the wiring and the two counts.
LEMMA InvFromParts ==
  ASSUME TypeOK', QueueDiscipline', Wiring', SlotAccounting', LeakBounded'
  PROVE  Inv'
BY DEF Inv, Wiring

\* An admitted send_otp_call keeps the invariant.
LEMMA SubmitStep ==
  ASSUME Inv, NEW r \in Requests, Submit(r)
  PROVE  Inv'
<1> DEFINE t == <<r, "api">>
<1>1. t \in Tasks /\ task[t].st = "idle"
  BY TaskNames DEF Submit
<1>2. CreateRecord(r, NoRequest) \in Programs /\ "" \in Parts
  BY CoroutineTypes DEF Parts
<1>3. /\ Put(t, "", CreateRecord(r, NoRequest), dbq)
      /\ UNCHANGED <<store, active, ami, asterisk, used>>
  BY DEF Submit
<1>4. /\ task' \in [Tasks -> TaskRecords] /\ dbq' \in Seq(Tasks)
      /\ QueueDiscipline' /\ Moves(r, "api")
  BY <1>1, <1>2, <1>3, PutNew DEF Inv, Moves
<1>5. db' \in Databases /\ disk' \in Databases
  BY <1>3 DEF Inv, TypeOK, store
<1>6. TypeOK' /\ SlotAccounting' /\ LeakBounded'
  BY <1>3, <1>4, <1>5, SlotFree, Unfaulted, TaskNames
<1>7. Wiring'
  BY <1>1, <1>3, <1>4, ApiMoves
<1> QED BY <1>4, <1>6, <1>7, InvFromParts

\* A retry_call that begins keeps the invariant.
LEMMA SubmitRetryStep ==
  ASSUME Inv, NEW r \in Requests, NEW p \in Requests, SubmitRetry(r, p)
  PROVE  Inv'
<1> DEFINE t == <<r, "api">>
<1>1. t \in Tasks /\ task[t].st = "idle"
  BY TaskNames DEF SubmitRetry
<1>2. ReadParent(p) \in Programs /\ "" \in Parts
  BY StatementTypes DEF Parts
<1>3. /\ Put(t, "", ReadParent(p), dbq)
      /\ UNCHANGED <<store, active, ami, asterisk, used>>
  BY DEF SubmitRetry
<1>4. /\ task' \in [Tasks -> TaskRecords] /\ dbq' \in Seq(Tasks)
      /\ QueueDiscipline' /\ Moves(r, "api")
  BY <1>1, <1>2, <1>3, PutNew DEF Inv, Moves
<1>5. db' \in Databases /\ disk' \in Databases
  BY <1>3 DEF Inv, TypeOK, store
<1>6. TypeOK' /\ SlotAccounting' /\ LeakBounded'
  BY <1>3, <1>4, <1>5, SlotFree, Unfaulted, TaskNames
<1>7. Wiring'
  BY <1>1, <1>3, <1>4, ApiMoves
<1> QED BY <1>4, <1>6, <1>7, InvFromParts

\* The names of the coroutine that is served.
LEMMA Served ==
  ASSUME Inv, NEW t, Serving(t)
  PROVE  /\ t \in Tasks /\ t[1] \in Requests /\ t[2] \in Kinds
         /\ t = <<t[1], t[2]>>
         /\ task[t].st = "db" /\ task[t].todo # <<>>
BY HeadOfQueue DEF Inv, Tasks

\* A refused retry_call keeps the invariant.
LEMMA RefuseRetryStep ==
  ASSUME Inv, NEW t, RefuseRetry(t)
  PROVE  Inv'
<1>1. /\ Serving(t) /\ t[2] = "api" /\ Leave(t, "idle")
      /\ UNCHANGED <<store, active, ami, asterisk, used>>
  BY DEF RefuseRetry, Deciding
<1>2. t[1] \in Requests /\ t = <<t[1], "api">> /\ task[t].st = "db"
  BY <1>1, Served
<1>3. /\ task' \in [Tasks -> TaskRecords] /\ dbq' \in Seq(Tasks)
      /\ QueueDiscipline' /\ Moves(t[1], "api")
  BY <1>1, <1>2, LeaveQueue DEF Inv, Moves, TaskStates
<1>4. db' \in Databases /\ disk' \in Databases
  BY <1>1 DEF Inv, TypeOK, store
<1>5. TypeOK' /\ SlotAccounting' /\ LeakBounded'
  BY <1>1, <1>2, <1>3, <1>4, SlotFree, Unfaulted, TaskNames
<1>6. Wiring'
  BY <1>1, <1>2, <1>3, ApiMoves
<1> QED BY <1>3, <1>5, <1>6, InvFromParts

\* An admitted retry_call keeps the invariant.
LEMMA AdmitRetryStep ==
  ASSUME Inv, NEW t, AdmitRetry(t)
  PROVE  Inv'
<1> DEFINE p == Op(t).on
           todo == CreateRecord(t[1], p) \o IncrementRetry(p)
<1>1. /\ Serving(t) /\ t[2] = "api" /\ Put(t, "", todo, Tail(dbq))
      /\ UNCHANGED <<store, active, ami, asterisk, used>>
  BY DEF AdmitRetry, Deciding
<1>2. t[1] \in Requests /\ t = <<t[1], "api">> /\ task[t].st = "db"
  BY <1>1, Served
<1>3. todo \in Programs /\ "" \in Parts
  <2>1. p \in Requests
    BY <1>1, Served, HopOfTask DEF Inv, Hops, HopSet
  <2>2. /\ CreateRecord(t[1], p) \in Programs
        /\ IncrementRetry(p) \in Seq(Hops)
    BY <1>2, <2>1, CoroutineTypes, StatementTypes DEF Programs
  <2> QED BY <2>2, Sequel DEF Parts
<1>4. /\ task' \in [Tasks -> TaskRecords] /\ dbq' \in Seq(Tasks)
      /\ QueueDiscipline' /\ Moves(t[1], "api")
  BY <1>1, <1>2, <1>3, PutBack DEF Inv, Moves
<1>5. db' \in Databases /\ disk' \in Databases
  BY <1>1 DEF Inv, TypeOK, store
<1>6. TypeOK' /\ SlotAccounting' /\ LeakBounded'
  BY <1>1, <1>2, <1>4, <1>5, SlotFree, Unfaulted, TaskNames
<1>7. Wiring'
  BY <1>1, <1>2, <1>4, ApiMoves
<1> QED BY <1>4, <1>6, <1>7, InvFromParts

\* The execution coroutine of an accepted call was not begun before.
LEMMA AcceptStep ==
  ASSUME Inv, NEW t, Accept(t)
  PROVE  Inv'
<1> DEFINE r == t[1]
           e == <<r, "exec">>
<1>1. /\ Serving(t) /\ t[2] = "api" /\ Execute(t)
      /\ task' = [task EXCEPT ![t] = Fresh("done"), ![e] = Fresh("ready")]
      /\ dbq' = Tail(dbq)
      /\ UNCHANGED <<active, ami, asterisk, used>>
  BY DEF Accept, LastHop
<1>2. /\ r \in Requests /\ t = <<r, "api">> /\ t \in Tasks /\ e \in Tasks /\ e # t
      /\ task[t].st = "db" /\ task[t].todo # <<>>
  BY <1>1, Served, TaskNames
<1>3. task[e].st = "idle"
  BY <1>2 DEF Inv, ApiFirst
<1>4. /\ Fresh("done") \in TaskRecords /\ Fresh("done").st = "done"
      /\ Fresh("ready") \in TaskRecords /\ Fresh("ready").st = "ready"
  BY FreshRecord DEF TaskStates
<1>5. /\ task' \in [Tasks -> TaskRecords]
      /\ task'[t].st = "done" /\ task'[e].st = "ready"
      /\ \A u \in Tasks \ {t, e} : task'[u] = task[u]
  BY <1>1, <1>2, <1>4 DEF Inv, TypeOK
<1>6. dbq' \in Seq(Tasks) /\ QueueDiscipline'
  <2>1. /\ Tail(dbq) \in Seq(Tasks)
        /\ \A i \in 1..Len(Tail(dbq)) :
             /\ Tail(dbq)[i] \in Tasks \ {t, e}
             /\ task[Tail(dbq)[i]].st = "db"
             /\ task[Tail(dbq)[i]].todo # <<>>
        /\ \A i, j \in 1..Len(Tail(dbq)) :
             Tail(dbq)[i] = Tail(dbq)[j] => i = j
    BY <1>1, <1>3, HeadOfQueue DEF Inv
  <2> QED BY <1>1, <1>5, <2>1 DEF QueueDiscipline
<1>7. \A q \in Requests :
        /\ q # r => /\ task'[<<q, "exec">>] = task[<<q, "exec">>]
                    /\ task'[<<q, "api">>] = task[<<q, "api">>]
        /\ \A l \in Handlers : task'[<<q, l>>] = task[<<q, l>>]
  BY <1>2, <1>5, TaskNames
<1>8. db' \in Databases /\ disk' \in Databases
  BY <1>1, <1>2, ExecuteTypes DEF Inv
<1>9. TypeOK'
  BY <1>1, <1>5, <1>6, <1>8 DEF Inv, TypeOK, asterisk
<1>10. SlotAccounting'
  BY <1>1, <1>2, <1>3, <1>5, <1>7, SlotsKept DEF Inv, Holding
<1>11. LeakBounded'
  BY <1>1, <1>2, <1>5, <1>7, Unfaulted, LeaksKept DEF Inv
<1>12. ApiFirst'
  BY <1>2, <1>5, <1>7 DEF Inv, ApiFirst
<1>13. DialledOnce'
  <2>1. call' = call /\ call[r] = "none"
    BY <1>1, <1>2, <1>3 DEF Inv, DialledOnce, BeforeDialling, asterisk
  <2> QED BY <1>7, <2>1 DEF Inv, DialledOnce, BeforeDialling
<1>14. call' = call /\ due' = due /\ "response" \in Handlers
  BY <1>1 DEF asterisk, Handlers
<1>15. HandlersFollowCall'
  BY <1>7, <1>14 DEF Inv, HandlersFollowCall
<1>16. OneResponse'
  BY <1>7, <1>14 DEF Inv, OneResponse
<1> QED BY <1>6, <1>9, <1>10, <1>11, <1>12, <1>13, <1>15, <1>16, InvFromParts
           DEF Wiring

\* An execution coroutine moves and keeps its slot.
LEMMA SlotHeld ==
  ASSUME Inv, UNCHANGED <<active, ami, asterisk>>,
         NEW r \in Requests, Moves(r, "exec"),
         task' \in [Tasks -> TaskRecords], dbq' \in Seq(Tasks),
         db' \in Databases, disk' \in Databases,
         used' \in [{"drop", "crash", "fault"} -> Nat],
         used'["fault"] >= used["fault"],
         task[<<r, "exec">>].st \in Holding,
         task'[<<r, "exec">>].st \in Holding \ {"lost"}
  PROVE  TypeOK' /\ SlotAccounting' /\ LeakBounded'
<1>1. \A q \in Requests \ {r} : task'[<<q, "exec">>] = task[<<q, "exec">>]
  BY TaskNames, OthersStay
<1>2. TypeOK'
  BY DEF Inv, TypeOK, asterisk
<1>3. SlotAccounting'
  BY <1>1, SlotsKept DEF Inv
<1>4. used["fault"] \in Nat /\ used'["fault"] \in Nat
  BY DEF Inv, TypeOK
<1>5. LeakBounded'
  BY <1>1, <1>4, LeaksKept DEF Inv
<1> QED BY <1>2, <1>3, <1>5

\* acquire_slot keeps the invariant: counter and holders both gain one.
LEMMA AcquireStep ==
  ASSUME Inv, NEW r \in Requests, Acquire(r)
  PROVE  Inv'
<1> DEFINE e == <<r, "exec">>
<1>1. /\ task[e].st = "ready" /\ active' = active + 1
      /\ Put(e, "pre", BeforeTry(r), dbq)
      /\ UNCHANGED <<store, ami, asterisk, used>>
  BY DEF Acquire
<1>2. e \in Tasks /\ BeforeTry(r) \in Programs /\ "pre" \in Parts
  BY TaskNames, CoroutineTypes DEF Parts
<1>3. /\ task' \in [Tasks -> TaskRecords] /\ dbq' \in Seq(Tasks)
      /\ QueueDiscipline' /\ Moves(r, "exec") /\ task'[e].st = "db"
  BY <1>1, <1>2, PutNew DEF Inv, Moves
<1>4. \A q \in Requests \ {r} : task'[<<q, "exec">>] = task[<<q, "exec">>]
  BY <1>3, TaskNames, OthersStay
<1>5. TypeOK'
  BY <1>1, <1>3 DEF Inv, TypeOK, store, asterisk
<1>6. SlotAccounting'
  BY <1>1, <1>3, <1>4, SlotTaken DEF Inv, Holding
<1>7. LeakBounded'
  BY <1>1, <1>3, <1>4, Unfaulted, LeaksKept DEF Inv
<1>8. call[r] = "none"
  BY <1>1 DEF Inv, DialledOnce, BeforeDialling
<1>9. Wiring'
  BY <1>1, <1>3, <1>8, ExecMoves
<1> QED BY <1>3, <1>5, <1>6, <1>7, <1>9, InvFromParts

\* Reaching originate() keeps the invariant: the slot stays held.
LEMMA EnterTryStep ==
  ASSUME Inv, NEW t, EnterTry(t)
  PROVE  Inv'
<1>1. /\ Serving(t) /\ t[2] = "exec" /\ task[t].part = "pre"
      /\ Execute(t) /\ Leave(t, "send")
      /\ UNCHANGED <<active, ami, asterisk, used>>
  BY DEF EnterTry, LastHop
<1>2. /\ t[1] \in Requests /\ t = <<t[1], "exec">> /\ t \in Tasks
      /\ task[t].st = "db" /\ task[t].todo # <<>>
  BY <1>1, Served
<1>3. /\ task' \in [Tasks -> TaskRecords] /\ dbq' \in Seq(Tasks)
      /\ QueueDiscipline' /\ Moves(t[1], "exec") /\ task'[t].st = "send"
  BY <1>1, <1>2, LeaveQueue DEF Inv, Moves, TaskStates
<1>4. db' \in Databases /\ disk' \in Databases
  BY <1>1, <1>2, ExecuteTypes DEF Inv
<1>5. call[t[1]] = "none"
  BY <1>1, <1>2 DEF Inv, DialledOnce, BeforeDialling
<1>6. TypeOK' /\ SlotAccounting' /\ LeakBounded'
  BY <1>1, <1>2, <1>3, <1>4, SlotHeld, Unfaulted DEF Holding
<1>7. Wiring'
  BY <1>1, <1>2, <1>3, <1>5, ExecMoves
<1> QED BY <1>3, <1>6, <1>7, InvFromParts

\* A failed or timed out Originate keeps the invariant.
LEMMA NotAcceptedStep ==
  ASSUME Inv, NEW r \in Requests,
         OriginateNotAccepted(r) \/ OriginateTimeout(r)
  PROVE  Inv'
<1> DEFINE e == <<r, "exec">>
<1>1. /\ task[e].st \in {"send", "orphan"}
      /\ Put(e, "rejected", OnFailed(r), dbq)
      /\ UNCHANGED <<store, active, ami, asterisk, used>>
  BY DEF OriginateNotAccepted, OriginateTimeout
<1>2. e \in Tasks /\ OnFailed(r) \in Programs /\ "rejected" \in Parts
  BY TaskNames, CoroutineTypes DEF Parts
<1>3. /\ task' \in [Tasks -> TaskRecords] /\ dbq' \in Seq(Tasks)
      /\ QueueDiscipline' /\ Moves(r, "exec")
      /\ task'[e].st = "db" /\ task'[e].part = "rejected"
  BY <1>1, <1>2, PutNew DEF Inv, Moves
<1>4. db' \in Databases /\ disk' \in Databases
  BY <1>1 DEF Inv, TypeOK, store
<1>5. TypeOK' /\ SlotAccounting' /\ LeakBounded'
  BY <1>1, <1>3, <1>4, SlotHeld, Unfaulted DEF Holding
<1>6. Wiring'
  BY <1>1, <1>3, ExecMoves
<1> QED BY <1>3, <1>5, <1>6, InvFromParts

\* An accepted Originate keeps the invariant: nothing was dialled before.
LEMMA OriginateStep ==
  ASSUME Inv, NEW r \in Requests, Originate(r)
  PROVE  Inv'
<1> DEFINE e == <<r, "exec">>
<1>1. /\ task[e].st = "send"
      /\ task' = [task EXCEPT ![e] = Fresh("wait")]
      /\ call' = [call EXCEPT ![r] = "dialing"]
      /\ UNCHANGED <<store, dbq, active, ami, due, used>>
  BY DEF Originate
<1>2. e \in Tasks /\ call[r] = "none"
  BY <1>1, TaskNames DEF Inv, DialledOnce, BeforeDialling
<1>3. /\ task' \in [Tasks -> TaskRecords] /\ Moves(r, "exec")
      /\ task'[e].st = "wait"
  BY <1>1, <1>2, FreshRecord, SetsTypes DEF Inv, Sets, Moves, TaskStates
<1>4. /\ \A q \in Requests : /\ task'[<<q, "api">>] = task[<<q, "api">>]
                             /\ q # r => task'[<<q, "exec">>] = task[<<q, "exec">>]
      /\ \A q \in Requests : \A l \in Handlers : task'[<<q, l>>] = task[<<q, l>>]
  BY <1>3, TaskNames, OthersStay
<1>5. TypeOK'
  BY <1>1, <1>3 DEF Inv, TypeOK, store, Phases
<1>6. QueueDiscipline'
  <2>1. \A i \in 1..Len(dbq) : dbq[i] \in Tasks \ {e}
    BY <1>1, <1>2, NotQueued DEF Inv
  <2>2. dbq' = dbq /\ \A u \in Tasks \ {e} : task'[u] = task[u]
    BY <1>1, <1>3 DEF Moves
  <2> QED BY <2>1, <2>2 DEF Inv, QueueDiscipline
<1>7. SlotAccounting'
  BY <1>1, <1>3, <1>4, SlotsKept DEF Inv, Holding
<1>8. LeakBounded'
  BY <1>1, <1>3, <1>4, Unfaulted, LeaksKept DEF Inv
<1>9. /\ call'[r] = "dialing"
      /\ \A q \in Requests : q # r => call'[q] = call[q]
      /\ due' = due /\ due[r] = "no"
      /\ Started("dialing") = Started("none")
  BY <1>1, <1>2 DEF Inv, TypeOK, OneResponse, Started
<1>10. ApiFirst'
  BY <1>1, <1>3, <1>4 DEF Inv, ApiFirst
<1>11. DialledOnce'
  BY <1>3, <1>4, <1>9 DEF Inv, DialledOnce, BeforeDialling
<1>12. HandlersFollowCall'
  BY <1>2, <1>4, <1>9 DEF Inv, HandlersFollowCall
<1>13. OneResponse'
  BY <1>4, <1>9 DEF Inv, OneResponse, Handlers
<1> QED BY <1>5, <1>6, <1>7, <1>8, <1>10, <1>11, <1>12, <1>13, InvFromParts
           DEF Wiring

\* The finally clause gives back the slot the coroutine has.
LEMMA ReleaseStep ==
  ASSUME Inv, NEW t, Release(t) \/ FaultThenRelease(t)
  PROVE  Inv'
<1> DEFINE r == t[1]
<1>1. /\ Serving(t) /\ t[2] = "exec" /\ Leave(t, "done") /\ ReleaseSlot
      /\ UNCHANGED <<ami, asterisk>>
  BY DEF Release, FaultThenRelease, LastHop, Faulting
<1>2. /\ r \in Requests /\ t = <<r, "exec">> /\ t \in Tasks
      /\ task[t].st = "db" /\ task[t].todo # <<>>
  BY <1>1, Served
<1>3. /\ task' \in [Tasks -> TaskRecords] /\ dbq' \in Seq(Tasks)
      /\ QueueDiscipline' /\ Moves(r, "exec") /\ task'[t].st = "done"
  BY <1>1, <1>2, LeaveQueue DEF Inv, Moves, TaskStates
<1>4. \A q \in Requests \ {r} : task'[<<q, "exec">>] = task[<<q, "exec">>]
  BY <1>2, <1>3, TaskNames, OthersStay
<1>5. db' \in Databases /\ disk' \in Databases
  <2>1. CASE Release(t)
    BY <1>2, <2>1, ExecuteTypes DEF Inv, Release
  <2>2. CASE FaultThenRelease(t)
    BY <2>2 DEF Inv, TypeOK, FaultThenRelease, store
  <2> QED BY <2>1, <2>2
<1>6. /\ used' \in [{"drop", "crash", "fault"} -> Nat]
      /\ used["fault"] \in Nat /\ used'["fault"] \in Nat
      /\ used'["fault"] >= used["fault"]
  <2>1. CASE Release(t)
    BY <2>1, Unfaulted DEF Release
  <2>2. CASE FaultThenRelease(t)
    BY <2>2, Faulted DEF FaultThenRelease
  <2> QED BY <2>1, <2>2
<1>7. SlotAccounting'
  BY <1>1, <1>2, <1>3, <1>4, SlotGivenBack DEF Inv, Holding
<1>8. active' \in Nat
  BY <1>1 DEF Inv, TypeOK, ReleaseSlot
<1>9. TypeOK'
  BY <1>1, <1>3, <1>5, <1>6, <1>8 DEF Inv, TypeOK, asterisk
<1>10. LeakBounded'
  BY <1>2, <1>3, <1>4, <1>6, LeaksKept DEF Inv
<1>11. Wiring'
  BY <1>1, <1>2, <1>3, ExecMoves
<1> QED BY <1>3, <1>7, <1>9, <1>10, <1>11, InvFromParts

\* A coroutine goes on waiting, for its next request.
LEMMA WorkStep ==
  ASSUME Inv, NEW t, Work(t)
  PROVE  Inv'
<1> DEFINE rec == [task[t] EXCEPT !.todo = Rest(t), !.seen = Seen(t)]
<1>1. /\ Serving(t) /\ Rest(t) # <<>> /\ Execute(t)
      /\ task' = [task EXCEPT ![t].todo = Rest(t), ![t].seen = Seen(t)]
      /\ dbq' = Append(Tail(dbq), t)
      /\ UNCHANGED <<active, ami, asterisk, used>>
  BY DEF Work
<1>2. t \in Tasks /\ task[t].st = "db" /\ task[t].todo # <<>>
  BY <1>1, Served
<1>3. task[t] \in TaskRecords
  BY <1>2 DEF Inv, TypeOK
<1>4. /\ rec \in TaskRecords /\ rec.st = "db" /\ rec.part = task[t].part
      /\ rec.todo # <<>>
  BY <1>1, <1>2, <1>3, HopOfTask DEF Inv, TaskRecords
<1>5. Sets(t, rec)
  BY <1>1, <1>2 DEF Sets, Inv, TypeOK
<1>6. /\ task' \in [Tasks -> TaskRecords] /\ task'[t] = rec
      /\ \A u \in Tasks \ {t} : task'[u] = task[u]
  BY <1>2, <1>4, <1>5, SetsTypes DEF Inv
<1>7. dbq' \in Seq(Tasks) /\ QueueDiscipline'
  BY <1>1, <1>2, <1>4, <1>5, HeadOfQueue, Enqueue DEF Inv
<1>8. \A u \in Tasks : task'[u].st = task[u].st /\ task'[u].part = task[u].part
  BY <1>2, <1>4, <1>6
<1>9. \A q \in Requests : task'[<<q, "exec">>].st = task[<<q, "exec">>].st
  BY <1>8, TaskNames
<1>10. db' \in Databases /\ disk' \in Databases
  BY <1>1, <1>2, ExecuteTypes DEF Inv
<1>11. TypeOK'
  BY <1>1, <1>6, <1>7, <1>10 DEF Inv, TypeOK, asterisk
<1>12. SlotAccounting'
  BY <1>1, <1>9, SlotsKept DEF Inv
<1>13. LeakBounded'
  BY <1>1, <1>9, Unfaulted, LeaksKept DEF Inv
<1>14. Wiring'
  BY <1>1, <1>8, WiringKept
<1> QED BY <1>7, <1>11, <1>12, <1>13, <1>14, InvFromParts

\* The end of an event handler keeps the invariant.
LEMMA EndHandlerStep ==
  ASSUME Inv, NEW t, EndHandler(t)
  PROVE  Inv'
<1>1. /\ Serving(t) /\ t[2] \in Handlers /\ Execute(t) /\ Leave(t, "done")
      /\ UNCHANGED <<active, ami, asterisk, used>>
  BY DEF EndHandler, LastHop
<1>2. /\ t[1] \in Requests /\ t = <<t[1], t[2]>> /\ t \in Tasks
      /\ t[2] \in Kinds \ {"exec"} /\ task[t].todo # <<>>
  BY <1>1, Served, TaskNames
<1>3. /\ task' \in [Tasks -> TaskRecords] /\ dbq' \in Seq(Tasks)
      /\ QueueDiscipline' /\ Moves(t[1], t[2]) /\ task'[t].st = "done"
  BY <1>1, <1>2, LeaveQueue DEF Inv, Moves, TaskStates
<1>4. db' \in Databases /\ disk' \in Databases
  BY <1>1, <1>2, ExecuteTypes DEF Inv
<1>5. TypeOK' /\ SlotAccounting' /\ LeakBounded'
  BY <1>1, <1>2, <1>3, <1>4, SlotFree, Unfaulted
<1>6. Wiring'
  BY <1>1, <1>2, <1>3, HandlerMoves
<1> QED BY <1>3, <1>5, <1>6, InvFromParts

\* A failed statement of a handler keeps the invariant.
LEMMA FaultInHandlerStep ==
  ASSUME Inv, NEW t, FaultInHandler(t)
  PROVE  Inv'
<1>1. /\ Serving(t) /\ Faulting(t) /\ t[2] # "exec" /\ Leave(t, "done")
      /\ UNCHANGED <<store, active, ami, asterisk>>
  BY DEF FaultInHandler, Faulting
<1>2. /\ t[1] \in Requests /\ t = <<t[1], t[2]>> /\ t \in Tasks
      /\ t[2] \in Kinds \ {"exec"} /\ task[t].st = "db"
      /\ t[2] = "api" \/ t[2] \in Handlers
  BY <1>1, Served DEF Kinds
<1>3. /\ task' \in [Tasks -> TaskRecords] /\ dbq' \in Seq(Tasks)
      /\ QueueDiscipline' /\ Moves(t[1], t[2]) /\ task'[t].st = "done"
  BY <1>1, <1>2, LeaveQueue DEF Inv, Moves, TaskStates
<1>4. db' \in Databases /\ disk' \in Databases
  BY <1>1 DEF Inv, TypeOK, store
<1>5. TypeOK' /\ SlotAccounting' /\ LeakBounded'
  BY <1>1, <1>2, <1>3, <1>4, SlotFree, Faulted
<1>6. Wiring'
  <2>1. CASE t[2] = "api"
    BY <1>1, <1>2, <1>3, <2>1, ApiMoves
  <2>2. CASE t[2] \in Handlers
    BY <1>1, <1>2, <1>3, <2>2, HandlerMoves
  <2> QED BY <1>2, <2>1, <2>2
<1> QED BY <1>3, <1>5, <1>6, InvFromParts

\* The slot that is lost is paid for with a fault.
LEMMA FaultBeforeTryStep ==
  ASSUME Inv, NEW t, FaultBeforeTry(t)
  PROVE  Inv'
<1> DEFINE r == t[1]
<1>1. /\ Serving(t) /\ Faulting(t) /\ t[2] = "exec" /\ task[t].part = "pre"
      /\ Leave(t, "lost")
      /\ UNCHANGED <<store, active, ami, asterisk>>
  BY DEF FaultBeforeTry, Faulting
<1>2. /\ r \in Requests /\ t = <<r, "exec">> /\ t \in Tasks
      /\ task[t].st = "db"
  BY <1>1, Served
<1>3. /\ task' \in [Tasks -> TaskRecords] /\ dbq' \in Seq(Tasks)
      /\ QueueDiscipline' /\ Moves(r, "exec") /\ task'[t].st = "lost"
  BY <1>1, <1>2, LeaveQueue DEF Inv, Moves, TaskStates
<1>4. \A q \in Requests \ {r} : task'[<<q, "exec">>] = task[<<q, "exec">>]
  BY <1>2, <1>3, TaskNames, OthersStay
<1>5. TypeOK'
  BY <1>1, <1>3, Faulted DEF Inv, TypeOK, store, asterisk
<1>6. SlotAccounting'
  BY <1>1, <1>2, <1>3, <1>4, SlotsKept DEF Inv, Holding
<1>7. LeakBounded'
  <2>1. Leaked' = Leaked \union {r} /\ r \notin Leaked
    BY <1>2, <1>3, <1>4 DEF Leaked
  <2>2. IsFiniteSet(Leaked)
    BY ParametersAssumption, FS_Subset DEF Leaked
  <2>3. /\ Cardinality(Leaked') = Cardinality(Leaked) + 1
        /\ Cardinality(Leaked) \in Nat
    BY <2>1, <2>2, FS_AddElement, FS_CardinalityType
  <2>4. /\ used'["fault"] = used["fault"] + 1
        /\ used["fault"] \in Nat
    BY <1>1, Faulted
  <2> QED BY <2>3, <2>4 DEF Inv, LeakBounded
<1>8. call[r] = "none"
  BY <1>1, <1>2 DEF Inv, DialledOnce, BeforeDialling
<1>9. Wiring'
  BY <1>1, <1>2, <1>3, <1>8, ExecMoves
<1> QED BY <1>3, <1>5, <1>6, <1>7, <1>9, InvFromParts

\* A failed statement inside the try keeps the invariant: the slot stays held.
LEMMA FaultInTryStep ==
  ASSUME Inv, NEW t, FaultInTry(t)
  PROVE  Inv'
<1> DEFINE r == t[1]
<1>1. /\ Serving(t) /\ Faulting(t) /\ t[2] = "exec"
      /\ Put(t, "except", OnFailed(r), Tail(dbq))
      /\ UNCHANGED <<store, active, ami, asterisk>>
  BY DEF FaultInTry, Faulting
<1>2. /\ r \in Requests /\ t = <<r, "exec">> /\ task[t].st = "db"
      /\ OnFailed(r) \in Programs /\ "except" \in Parts
  BY <1>1, Served, CoroutineTypes DEF Parts
<1>3. /\ task' \in [Tasks -> TaskRecords] /\ dbq' \in Seq(Tasks)
      /\ QueueDiscipline' /\ Moves(r, "exec")
      /\ task'[t].st = "db" /\ task'[t].part = "except"
  BY <1>1, <1>2, PutBack DEF Inv, Moves
<1>4. db' \in Databases /\ disk' \in Databases
  BY <1>1 DEF Inv, TypeOK, store
<1>5. TypeOK' /\ SlotAccounting' /\ LeakBounded'
  BY <1>1, <1>2, <1>3, <1>4, SlotHeld, Faulted DEF Holding
<1>6. Wiring'
  BY <1>1, <1>2, <1>3, ExecMoves
<1> QED BY <1>3, <1>5, <1>6, InvFromParts

-----------------------------------------------------------------------------
(* Asterisk, the link and the process *)

\* An event starts a handler that was never started before, or is lost.
LEMMA EmitStep ==
  ASSUME Inv, NEW r \in Requests, NEW k \in Handlers, NEW todo \in Programs,
         task[<<r, k>>].st # "db", Emit(r, k, todo)
  PROVE  /\ task' \in [Tasks -> TaskRecords] /\ dbq' \in Seq(Tasks)
         /\ QueueDiscipline' /\ Moves(r, k)
<1>1. <<r, k>> \in Tasks /\ "" \in Parts
  BY TaskNames DEF Parts
<1>2. CASE ami = "wired"
  BY <1>1, <1>2, PutNew DEF Inv, Emit, Moves
<1>3. CASE ami # "wired"
  BY <1>3 DEF Inv, TypeOK, QueueDiscipline, Emit, Moves
<1> QED BY <1>2, <1>3

Early == {"none", "dialing", "ringing"}

\* The call of r goes from one phase to a later one and emits event k, which
\* it had not emitted yet.
LEMMA PhaseStep ==
  ASSUME Inv, NEW r \in Requests, NEW k \in Handlers \ {"response"},
         NEW todo \in Programs, NEW phase \in Phases,
         call[r] # "none", k \notin Started(call[r]),
         Started(call[r]) \union {k} \subseteq Started(phase),
         phase \in Early => call[r] \in Early,
         call' = [call EXCEPT ![r] = phase],
         Emit(r, k, todo),
         \/ due' = due
         \/ \E s \in Statuses : /\ due' = [due EXCEPT ![r] = s]
                                /\ phase \notin Early /\ call[r] \in Early,
         UNCHANGED <<store, active, ami, used>>
  PROVE  Inv'
<1>1. task[<<r, k>>].st # "db"
  BY DEF Inv, HandlersFollowCall
<1>2. /\ task' \in [Tasks -> TaskRecords] /\ dbq' \in Seq(Tasks)
      /\ QueueDiscipline' /\ Moves(r, k)
  BY <1>1, EmitStep
<1>3. /\ k \in Kinds \ {"exec", "api"} /\ "response" \in Handlers
      /\ \A q \in Requests : /\ task'[<<q, "exec">>] = task[<<q, "exec">>]
                             /\ task'[<<q, "api">>] = task[<<q, "api">>]
      /\ \A q \in Requests : \A l \in Handlers :
           q # r \/ l # k => task'[<<q, l>>] = task[<<q, l>>]
  BY <1>2, TaskNames, OthersStay DEF Handlers
<1>4. /\ call' \in [Requests -> Phases] /\ call'[r] = phase
      /\ \A q \in Requests : q # r => call'[q] = call[q]
  BY DEF Inv, TypeOK
<1>5. /\ due' \in [Requests -> Statuses \union {"no"}]
      /\ \A q \in Requests : q # r => due'[q] = due[q]
      /\ due'[r] = due[r] \/ (phase \notin Early /\ call[r] \in Early)
  BY DEF Inv, TypeOK
<1>6. TypeOK'
  BY <1>2, <1>4, <1>5 DEF Inv, TypeOK, store
<1>7. SlotAccounting'
  BY <1>3, SlotsKept DEF Inv
<1>8. LeakBounded'
  BY <1>3, Unfaulted, LeaksKept DEF Inv
<1>9. ApiFirst'
  BY <1>3 DEF Inv, ApiFirst
<1>10. DialledOnce'
  BY <1>3, <1>4 DEF Inv, DialledOnce, BeforeDialling
<1>11. HandlersFollowCall'
  <2> SUFFICES ASSUME NEW q \in Requests, NEW l \in Handlers,
                      task'[<<q, l>>].st = "db"
               PROVE  l \in Started(call'[q])
    BY DEF HandlersFollowCall
  <2>1. CASE q # r
    BY <1>3, <1>4, <2>1 DEF Inv, HandlersFollowCall
  <2>2. CASE q = r /\ l = k
    BY <1>4, <2>2
  <2>3. CASE q = r /\ l # k
    <3>1. l \in Started(call[r])
      BY <1>3, <2>3 DEF Inv, HandlersFollowCall
    <3> QED BY <3>1, <1>4, <2>3
  <2> QED BY <2>1, <2>2, <2>3
<1>12. OneResponse'
  <2> SUFFICES ASSUME NEW q \in Requests, due'[q] # "no"
               PROVE  /\ call'[q] \notin Early
                      /\ task'[<<q, "response">>].st # "db"
    BY DEF OneResponse, Early
  <2>1. task'[<<q, "response">>] = task[<<q, "response">>]
    BY <1>3
  <2>2. CASE due'[q] = due[q]
    <3>1. call[q] \notin Early /\ task[<<q, "response">>].st # "db"
      BY <2>2 DEF Inv, OneResponse, Early
    <3> QED BY <3>1, <2>1, <1>4
  <2>3. CASE q = r /\ phase \notin Early /\ call[r] \in Early
    <3>1. "response" \notin Started(call[r])
      BY <2>3 DEF Started, Early
    <3>2. task[<<q, "response">>].st # "db"
      BY <2>3, <3>1, <1>3 DEF Inv, HandlersFollowCall
    <3> QED BY <2>1, <2>3, <3>2, <1>4
  <2> QED BY <1>5, <2>2, <2>3
<1> QED BY <1>2, <1>6, <1>7, <1>8, <1>9, <1>10, <1>11, <1>12, InvFromParts
           DEF Wiring

\* Every event of a call keeps the invariant.
LEMMA ProgressStep ==
  ASSUME Inv, NEW r \in Requests, Progress(r)
  PROVE  Inv'
<1> USE CoroutineTypes
<1>0. /\ {"answered", "ringing", "completed"} \subseteq Statuses
      /\ \A cause \in Causes : OnHangup(r, CauseStatus(cause)) \in Programs
      /\ OnHangup(r, CauseStatus(16)) \in Programs
      /\ \A reason \in Reasons : ReasonStatus(reason) \in Statuses
  <2>1. {"answered", "ringing", "completed"} \subseteq Statuses
    BY DEF Statuses, InProgress, Terminal
  <2>2. /\ \A cause \in Causes \union {16} :
             CauseStatus(cause) \in Statuses \union {"unmapped"}
        /\ \A reason \in Reasons : ReasonStatus(reason) \in Statuses
    BY ParametersAssumption, StatusTypes
  <2> QED BY <2>1, <2>2
<1>1. CASE Ring(r)
  <2>1. "ringing" \notin Started("dialing")
        /\ Started("dialing") \union {"ringing"} \subseteq Started("ringing")
    BY DEF Started
  <2> QED BY <1>1, <2>1, PhaseStep DEF Ring, Handlers, Phases, Early
<1>2. CASE Answer(r)
  <2>1. /\ "up" \notin Started(call[r]) /\ call[r] \in Early
        /\ Started(call[r]) \union {"up"} \subseteq Started("up")
    BY <1>2 DEF Answer, Started, Early
  <2> QED BY <1>0, <1>2, <2>1, PhaseStep DEF Answer, Handlers, Phases, Early
<1>3. CASE StartDialplan(r)
  <2>1. "callstart" \notin Started("up")
        /\ Started("up") \union {"callstart"} \subseteq Started("dialplan")
    BY DEF Started
  <2> QED BY <1>3, <2>1, PhaseStep DEF StartDialplan, Handlers, Phases, Early
<1>4. CASE StartPlayback(r)
  <2>1. "playing" \notin Started("dialplan")
        /\ Started("dialplan") \union {"playing"} \subseteq Started("playing")
    BY DEF Started, Handlers
  <2> QED BY <1>4, <2>1, PhaseStep DEF StartPlayback, Handlers, Phases, Early
<1>5. CASE FinishPlayback(r)
  <2>1. "complete" \notin Started("playing")
        /\ Started("playing") \union {"complete"} \subseteq Started("played")
    BY DEF Started, Handlers
  <2> QED BY <1>5, <2>1, PhaseStep DEF FinishPlayback, Handlers, Phases, Early
<1>6. CASE HangUp(r)
  <2>1. "hangup" \notin Started("played")
        /\ Started("played") \union {"hangup"} \subseteq Started("finished")
    BY DEF Started, Handlers
  <2> QED BY <1>0, <1>6, <2>1, PhaseStep DEF HangUp, Handlers, Phases, Early
<1>7. CASE Drop(r)
  <2>1. /\ "hangup" \notin Started(call[r])
        /\ Started(call[r]) \union {"hangup"} \subseteq Started("dropped")
    BY <1>7 DEF Drop, Started, Handlers
  <2> QED BY <1>0, <1>7, <2>1, PhaseStep DEF Drop, Handlers, Phases, Early
<1>8. CASE Refuse(r)
  <2>1. /\ "hangup" \notin Started(call[r]) /\ call[r] \in Early
        /\ Started(call[r]) \union {"hangup"} \subseteq Started("refused")
    BY <1>8 DEF Refuse, Started, Handlers, Early
  <2> QED BY <1>0, <1>8, <2>1, PhaseStep DEF Refuse, Handlers, Phases, Early
<1> QED BY <1>1, <1>2, <1>3, <1>4, <1>5, <1>6, <1>7, <1>8 DEF Progress

\* The OriginateResponse is processed once: by the coroutine that waits for it,
\* by the event handler, or by nobody.
LEMMA RespondStep ==
  ASSUME Inv, NEW r \in Requests, Respond(r)
  PROVE  Inv'
<1> DEFINE e == <<r, "exec">>
           todo == OnOriginateResponse(r, due[r])
<1>1. /\ due[r] # "no" /\ due' = [due EXCEPT ![r] = "no"]
      /\ UNCHANGED <<store, active, ami, call, used>>
      /\ task[e].st = "wait" => Put(e, "forward", todo, dbq)
      /\ task[e].st # "wait" => Emit(r, "response", todo)
  BY DEF Respond
<1>2. /\ due[r] \in Statuses
      /\ due' \in [Requests -> Statuses \union {"no"}] /\ due'[r] = "no"
      /\ \A q \in Requests : q # r => due'[q] = due[q]
  BY <1>1 DEF Inv, TypeOK
<1>3. todo \in Programs /\ e \in Tasks /\ "forward" \in Parts
  BY <1>2, CoroutineTypes, TaskNames DEF Parts
<1>4. /\ call[r] \notin Early /\ task[<<r, "response">>].st # "db"
      /\ "response" \in Started(call[r])
  BY <1>1 DEF Inv, OneResponse, Early, Started, Handlers, TypeOK, Phases
<1>5. /\ "response" \in Handlers /\ "response" \in Kinds \ {"exec", "api"}
  BY TaskNames DEF Handlers
<1>6. CASE task[e].st = "wait"
  <2>1. /\ task' \in [Tasks -> TaskRecords] /\ dbq' \in Seq(Tasks)
        /\ QueueDiscipline' /\ Moves(r, "exec")
        /\ task'[e].st = "db" /\ task'[e].part = "forward"
    BY <1>1, <1>3, <1>6, PutNew DEF Inv, Moves
  <2>2. /\ \A q \in Requests : /\ task'[<<q, "api">>] = task[<<q, "api">>]
                               /\ q # r => task'[<<q, "exec">>] = task[<<q, "exec">>]
        /\ \A q \in Requests : \A l \in Handlers : task'[<<q, l>>] = task[<<q, l>>]
    BY <2>1, TaskNames, OthersStay
  <2>3. TypeOK'
    BY <1>1, <1>2, <2>1 DEF Inv, TypeOK, store
  <2>4. SlotAccounting'
    BY <1>1, <1>6, <2>1, <2>2, SlotsKept DEF Inv, Holding
  <2>5. LeakBounded'
    BY <1>1, <2>1, <2>2, Unfaulted, LeaksKept DEF Inv
  <2>6. ApiFirst'
    BY <1>6, <2>1, <2>2 DEF Inv, ApiFirst
  <2>7. DialledOnce'
    BY <1>1, <2>1, <2>2 DEF Inv, DialledOnce, BeforeDialling
  <2>8. HandlersFollowCall'
    BY <1>1, <2>2 DEF Inv, HandlersFollowCall
  <2>9. OneResponse'
    BY <1>1, <1>2, <1>5, <2>2 DEF Inv, OneResponse
  <2> QED BY <2>1, <2>3, <2>4, <2>5, <2>6, <2>7, <2>8, <2>9, InvFromParts
             DEF Wiring
<1>7. CASE task[e].st # "wait"
  <2>1. /\ task' \in [Tasks -> TaskRecords] /\ dbq' \in Seq(Tasks)
        /\ QueueDiscipline' /\ Moves(r, "response")
    BY <1>1, <1>3, <1>4, <1>5, <1>7, EmitStep
  <2>2. /\ \A q \in Requests : /\ task'[<<q, "exec">>] = task[<<q, "exec">>]
                               /\ task'[<<q, "api">>] = task[<<q, "api">>]
        /\ \A q \in Requests : \A l \in Handlers :
             q # r \/ l # "response" => task'[<<q, l>>] = task[<<q, l>>]
    BY <1>5, <2>1, TaskNames, OthersStay
  <2>3. TypeOK'
    BY <1>1, <1>2, <2>1 DEF Inv, TypeOK, store
  <2>4. SlotAccounting'
    BY <1>1, <2>2, SlotsKept DEF Inv
  <2>5. LeakBounded'
    BY <1>1, <2>2, Unfaulted, LeaksKept DEF Inv
  <2>6. ApiFirst'
    BY <2>2 DEF Inv, ApiFirst
  <2>7. DialledOnce'
    BY <1>1, <2>2 DEF Inv, DialledOnce, BeforeDialling
  <2>8. HandlersFollowCall'
    <3> SUFFICES ASSUME NEW q \in Requests, NEW l \in Handlers,
                        task'[<<q, l>>].st = "db"
                 PROVE  l \in Started(call[q])
      BY <1>1 DEF HandlersFollowCall
    <3>1. CASE q # r \/ l # "response"
      BY <2>2, <3>1 DEF Inv, HandlersFollowCall
    <3>2. CASE q = r /\ l = "response"
      BY <1>4, <3>2
    <3> QED BY <3>1, <3>2
  <2>9. OneResponse'
    BY <1>1, <1>2, <1>5, <2>2 DEF Inv, OneResponse
  <2> QED BY <2>1, <2>3, <2>4, <2>5, <2>6, <2>7, <2>8, <2>9, InvFromParts
             DEF Wiring
<1> QED BY <1>6, <1>7

\* The link comes up: coroutines and queue are as they were.
LEMMA LinkUpStep ==
  ASSUME Inv, Startup \/ Reconnect
  PROVE  Inv'
<1>1. /\ UNCHANGED <<store, task, dbq, active, asterisk, used>>
      /\ ami' \in {"wired", "unwired"}
  BY ParametersAssumption DEF Startup, Reconnect
<1>2. TypeOK'
  BY <1>1 DEF Inv, TypeOK, store, asterisk
<1>3. QueueDiscipline'
  BY <1>1 DEF Inv, QueueDiscipline
<1>4. Wiring'
  BY <1>1, WiringKept DEF Inv, TypeOK
<1>5. SlotAccounting'
  BY <1>1, SlotsKept DEF Inv
<1>6. LeakBounded'
  BY <1>1, Unfaulted, LeaksKept DEF Inv
<1> QED BY <1>2, <1>3, <1>4, <1>5, <1>6, InvFromParts

\* The coroutines that wait for Asterisk are orphaned; they keep their slots.
LEMMA DisconnectStep ==
  ASSUME Inv, Disconnect
  PROVE  Inv'
<1>1. /\ used' = [used EXCEPT !["drop"] = @ + 1] /\ ami' = "down"
      /\ task' = [t \in Tasks |-> IF task[t].st = "wait" THEN Fresh("orphan")
                                  ELSE task[t]]
      /\ UNCHANGED <<store, dbq, active, asterisk>>
  BY DEF Disconnect
<1>2. Fresh("orphan") \in TaskRecords /\ Fresh("orphan").st = "orphan"
  BY FreshRecord DEF TaskStates
<1>3. /\ task' \in [Tasks -> TaskRecords]
      /\ \A u \in Tasks : \/ task'[u] = task[u]
                          \/ task[u].st = "wait" /\ task'[u].st = "orphan"
  BY <1>1, <1>2 DEF Inv, TypeOK
<1>4. \A r \in Requests : \A k \in Kinds :
        \/ task'[<<r, k>>] = task[<<r, k>>]
        \/ task[<<r, k>>].st = "wait" /\ task'[<<r, k>>].st = "orphan"
  BY <1>3, TaskNames
<1>5. /\ used' \in [{"drop", "crash", "fault"} -> Nat]
      /\ used["fault"] \in Nat /\ used'["fault"] = used["fault"]
  BY <1>1 DEF Inv, TypeOK
<1>6. TypeOK'
  BY <1>1, <1>3, <1>5 DEF Inv, TypeOK, store, asterisk
<1>7. QueueDiscipline'
  <2>1. \A i \in 1..Len(dbq) : dbq[i] \in Tasks /\ task'[dbq[i]] = task[dbq[i]]
    BY <1>3, ElementOfSeq DEF Inv, TypeOK, QueueDiscipline
  <2> QED BY <1>1, <2>1 DEF Inv, QueueDiscipline
<1>8. SlotAccounting'
  BY <1>1, <1>4, TaskNames, SlotsKept DEF Inv, Holding
<1>9. LeakBounded'
  BY <1>4, <1>5, TaskNames, LeaksKept DEF Inv
<1>10. call' = call /\ due' = due
  BY <1>1 DEF asterisk
<1>11. ApiFirst'
  BY <1>4, TaskNames DEF Inv, ApiFirst
<1>12. DialledOnce'
  BY <1>4, <1>10, TaskNames DEF Inv, DialledOnce, BeforeDialling
<1>13. HandlersFollowCall'
  BY <1>4, <1>10, TaskNames DEF Inv, HandlersFollowCall
<1>14. OneResponse'
  <2>1. "response" \in Kinds
    BY DEF Kinds, Handlers
  <2> QED BY <1>4, <1>10, <2>1 DEF Inv, OneResponse
<1> QED BY <1>6, <1>7, <1>8, <1>9, <1>11, <1>12, <1>13, <1>14, InvFromParts
           DEF Wiring

\* A restart has no coroutine, no queue and no slot in use.
LEMMA CrashStep ==
  ASSUME Inv, Crash
  PROVE  Inv'
<1>1. /\ used' = [used EXCEPT !["crash"] = @ + 1] /\ ami' = "starting"
      /\ db' = disk /\ dbq' = <<>> /\ active' = 0
      /\ task' = [t \in Tasks |-> IF task[t].st = "idle" THEN task[t]
                                  ELSE Fresh("done")]
      /\ UNCHANGED <<disk, asterisk>>
  BY DEF Crash
<1>2. Fresh("done") \in TaskRecords /\ Fresh("done").st = "done"
  BY FreshRecord DEF TaskStates
<1>3. /\ task' \in [Tasks -> TaskRecords]
      /\ \A u \in Tasks : \/ task[u].st = "idle" /\ task'[u].st = "idle"
                          \/ task[u].st # "idle" /\ task'[u].st = "done"
  BY <1>1, <1>2 DEF Inv, TypeOK
<1>4. \A r \in Requests : \A k \in Kinds :
        \/ task[<<r, k>>].st = "idle" /\ task'[<<r, k>>].st = "idle"
        \/ task[<<r, k>>].st # "idle" /\ task'[<<r, k>>].st = "done"
  BY <1>3, TaskNames
<1>5. /\ used' \in [{"drop", "crash", "fault"} -> Nat]
      /\ used["fault"] \in Nat /\ used'["fault"] = used["fault"]
  BY <1>1 DEF Inv, TypeOK
<1>6. TypeOK'
  BY <1>1, <1>3, <1>5 DEF Inv, TypeOK, asterisk
<1>7. QueueDiscipline'
  BY <1>1 DEF QueueDiscipline
<1>8. SlotAccounting'
  <2>1. SlotHolders' = {}
    BY <1>4, TaskNames DEF SlotHolders, Holding
  <2> QED BY <1>1, <2>1, FS_EmptySet DEF SlotAccounting
<1>9. LeakBounded'
  BY <1>4, <1>5, TaskNames, LeaksKept DEF Inv
<1>10. call' = call /\ due' = due
  BY <1>1 DEF asterisk
<1>11. ApiFirst'
  BY <1>4, TaskNames DEF Inv, ApiFirst
<1>12. DialledOnce'
  BY <1>4, <1>10, TaskNames DEF Inv, DialledOnce, BeforeDialling
<1>13. HandlersFollowCall'
  BY <1>4, <1>10, TaskNames DEF Inv, HandlersFollowCall
<1>14. OneResponse'
  <2>1. "response" \in Kinds
    BY DEF Kinds, Handlers
  <2> QED BY <1>4, <1>10, <2>1 DEF Inv, OneResponse
<1> QED BY <1>6, <1>7, <1>8, <1>9, <1>11, <1>12, <1>13, <1>14, InvFromParts
           DEF Wiring

-----------------------------------------------------------------------------
(* The invariant *)

\* A step that changes nothing keeps the invariant.
LEMMA StutterStep ==
  ASSUME Inv, UNCHANGED vars
  PROVE  Inv'
<1>1. UNCHANGED <<store, task, dbq, active, ami, asterisk, used>>
  BY DEF vars, store, asterisk
<1>2. TypeOK' /\ QueueDiscipline'
  BY <1>1 DEF Inv, TypeOK, QueueDiscipline, store, asterisk
<1>3. Wiring'
  BY <1>1, WiringKept DEF Inv, TypeOK
<1>4. SlotAccounting'
  BY <1>1, SlotsKept DEF Inv
<1>5. LeakBounded'
  BY <1>1, Unfaulted, LeaksKept DEF Inv
<1> QED BY <1>2, <1>3, <1>4, <1>5, InvFromParts

\* A service that has just been started for the first time is in the invariant.
LEMMA InitInv == Init => Inv
<1> SUFFICES ASSUME Init PROVE Inv
  OBVIOUS
<1>1. /\ db = [row |-> [r \in Requests |-> NoRow],
               log |-> [r \in Requests |-> {}]]
      /\ disk = db /\ dbq = <<>> /\ active = 0 /\ ami = "starting"
      /\ task = [t \in Tasks |-> Fresh("idle")]
      /\ call = [r \in Requests |-> "none"]
      /\ due = [r \in Requests |-> "no"]
      /\ used = [m \in {"drop", "crash", "fault"} |-> 0]
  BY DEF Init
<1>2. Fresh("idle") \in TaskRecords /\ Fresh("idle").st = "idle"
  BY FreshRecord DEF TaskStates
<1>3. \A r \in Requests : \A k \in Kinds : task[<<r, k>>].st = "idle"
  BY <1>1, <1>2, TaskNames
<1>4. TypeOK
  <2>1. NoRow \in Rows
    BY DEF NoRow, Rows
  <2>2. db \in Databases
    BY <1>1, <2>1 DEF Databases
  <2>3. call \in [Requests -> Phases] /\ due \in [Requests -> Statuses \union {"no"}]
    BY <1>1 DEF Phases
  <2> QED BY <1>1, <1>2, <2>2, <2>3 DEF TypeOK
<1>5. QueueDiscipline
  BY <1>1 DEF QueueDiscipline
<1>6. SlotHolders = {} /\ Leaked = {}
  BY <1>3, TaskNames DEF SlotHolders, Leaked, Holding
<1>7. SlotAccounting /\ LeakBounded
  BY <1>1, <1>6, FS_EmptySet DEF SlotAccounting, LeakBounded
<1>8. ApiFirst /\ DialledOnce
  BY <1>1, <1>3, TaskNames DEF ApiFirst, DialledOnce
<1>9. HandlersFollowCall
  BY <1>3, TaskNames DEF HandlersFollowCall
<1>10. OneResponse
  BY <1>1 DEF OneResponse
<1> QED BY <1>4, <1>5, <1>7, <1>8, <1>9, <1>10 DEF Inv

\* Every step of the service, of Asterisk and of the environment keeps it.
LEMMA NextInv == Inv /\ [Next]_vars => Inv'
<1> SUFFICES ASSUME Inv, [Next]_vars PROVE Inv'
  OBVIOUS
<1>1. ASSUME NEW r \in Requests, Http(r) PROVE Inv'
  BY <1>1, SubmitStep, SubmitRetryStep DEF Http
<1>2. ASSUME NEW r \in Requests, Execution(r) PROVE Inv'
  BY <1>2, AcquireStep, OriginateStep, NotAcceptedStep DEF Execution
<1>3. ASSUME NEW r \in Requests, Progress(r) \/ Respond(r) PROVE Inv'
  BY <1>3, ProgressStep, RespondStep
<1>4. ASSUME NEW t \in Tasks, Serve(t) PROVE Inv'
  BY <1>4, WorkStep, RefuseRetryStep, AdmitRetryStep, AcceptStep,
     EnterTryStep, ReleaseStep, EndHandlerStep DEF Serve
<1>5. ASSUME NEW t \in Tasks, Fault(t) PROVE Inv'
  BY <1>5, FaultInHandlerStep, FaultBeforeTryStep, FaultInTryStep,
     ReleaseStep DEF Fault
<1>6. CASE Startup \/ Disconnect \/ Reconnect \/ Crash
  BY <1>6, LinkUpStep, DisconnectStep, CrashStep
<1>7. CASE UNCHANGED vars
  BY <1>7, StutterStep
<1> QED BY <1>1, <1>2, <1>3, <1>4, <1>5, <1>6, <1>7 DEF Next

\* Inv holds in every state of every run, for any number of requests, any
\* limit and any number of drops, crashes and faults.
THEOREM Invariance == Spec => []Inv
BY InitInv, NextInv, PTL DEF Spec

\* Every state has its type.
THEOREM TypeCorrect == Spec => []TypeOK
<1>1. Inv => TypeOK
  BY DEF Inv
<1> QED BY <1>1, Invariance, PTL

\* RateLimiter._active_count is the number of _execute_call coroutines between
\* acquire_slot and release_slot: the finally clause, the guard of
\* release_slot and a restart never make the two differ.
THEOREM SlotsCounted == Spec => []SlotAccounting
<1>1. Inv => SlotAccounting
  BY DEF Inv
<1> QED BY <1>1, Invariance, PTL

\* The statements of _execute_call before its try are the only place where a
\* slot can be lost, and each loss takes a database fault of its own.
THEOREM LeaksBounded == Spec => []LeakBounded
<1>1. Inv => LeakBounded
  BY DEF Inv
<1> QED BY <1>1, Invariance, PTL

\* No coroutine waits for two answers of the database worker at once, and none
\* that waits is resumed, started again or finished by anyone else.
THEOREM OneRequestEach == Spec => []QueueDiscipline
<1>1. Inv => QueueDiscipline
  BY DEF Inv
<1> QED BY <1>1, Invariance, PTL

-----------------------------------------------------------------------------
(* A call that is dialled has its slot *)

Waiting(q) == task[<<q, "exec">>].st \in {"wait", "orphan"}
Dialled(q) == call[q] \in {"dialing", "ringing"}

\* Until it is picked up or refused, its Originate is waited for.
DiallingWaits ==
  \A q \in Requests : Dialled(q) /\ used["crash"] = 0 => Waiting(q)

\* The coroutines whose statements are executed are others than those that
\* wait for an OriginateResponse.
LEMMA WorkerLeavesWaiters ==
  ASSUME Inv, NEW t \in Tasks, Serve(t) \/ Fault(t), NEW q \in Requests,
         Waiting(q)
  PROVE  task'[<<q, "exec">>] = task[<<q, "exec">>] /\ call' = call
<1>1. Serving(t)
  BY DEF Serve, Fault, Work, RefuseRetry, AdmitRetry, Accept, EnterTry, Release,
     EndHandler, FaultInHandler, FaultBeforeTry, FaultInTry, FaultThenRelease,
     Faulting, Deciding, LastHop
<1>2. task[t].st = "db" /\ t[1] \in Requests /\ t = <<t[1], t[2]>>
  BY <1>1, Served
<1>3. t # <<q, "exec">>
  BY <1>2 DEF Waiting
<1>4. <<q, "exec">> \in Tasks
  BY TaskNames
<1>5. CASE Accept(t)
  <2>1. t[2] = "api" /\ task[<<t[1], "api">>].st = "db"
    BY <1>2, <1>5 DEF Accept
  <2>2. task[<<t[1], "exec">>].st = "idle"
    BY <1>2, <2>1 DEF Inv, ApiFirst
  <2>3. <<t[1], "exec">> # <<q, "exec">>
    BY <2>2 DEF Waiting
  <2>4. task' = [task EXCEPT ![t] = Fresh("done"),
                             ![<<t[1], "exec">>] = Fresh("ready")]
    BY <1>5 DEF Accept
  <2>5. task \in [Tasks -> TaskRecords]
    BY DEF Inv, TypeOK
  <2>6. task'[<<q, "exec">>] = task[<<q, "exec">>]
    BY <1>3, <1>4, <2>3, <2>4, <2>5
  <2> QED BY <1>5, <2>6 DEF Accept, asterisk
<1>6. CASE ~Accept(t)
  <2>1. call' = call
    BY <1>6 DEF Serve, Fault, Work, RefuseRetry, AdmitRetry, EnterTry, Release,
       EndHandler, FaultInHandler, FaultBeforeTry, FaultInTry,
       FaultThenRelease, asterisk
  <2>2. \E c \in TaskRecords \union {task'[t]} : task' = [task EXCEPT ![t] = c]
    <3>1. CASE Work(t)
      <4>1. task' = [task EXCEPT ![t] = [task[t] EXCEPT !.todo = Rest(t),
                                                        !.seen = Seen(t)]]
        BY <3>1 DEF Work
      <4>2. task \in [Tasks -> TaskRecords]
        BY DEF Inv, TypeOK
      <4> QED BY <4>1, <4>2
    <3>2. CASE ~Work(t)
      <4>1. \/ \E part, todo, queue : Put(t, part, todo, queue)
            \/ \E st : Leave(t, st)
        BY <1>6, <3>2 DEF Serve, Fault, RefuseRetry, AdmitRetry, EnterTry,
           Release, EndHandler, FaultInHandler, FaultBeforeTry, FaultInTry,
           FaultThenRelease
      <4>2. task \in [Tasks -> TaskRecords]
        BY DEF Inv, TypeOK
      <4>3. ASSUME NEW c, task' = [task EXCEPT ![t] = c]
            PROVE  \E d \in {task'[t]} : task' = [task EXCEPT ![t] = d]
        BY <4>2, <4>3
      <4> QED BY <4>1, <4>3 DEF Put, Leave
    <3> QED BY <3>1, <3>2
  <2>3. task \in [Tasks -> TaskRecords]
    BY DEF Inv, TypeOK
  <2> QED BY <1>3, <1>4, <2>1, <2>2, <2>3
<1> QED BY <1>5, <1>6

\* An event handler is started, or nothing moves.
LEMMA EmitLeavesWaiters ==
  ASSUME Inv, NEW r \in Requests, NEW k \in Handlers, NEW todo,
         Emit(r, k, todo), NEW q \in Requests
  PROVE  task'[<<q, "exec">>] = task[<<q, "exec">>]
<1>1. <<r, k>> # <<q, "exec">> /\ <<q, "exec">> \in Tasks
  BY TaskNames
<1>2. task \in [Tasks -> TaskRecords]
  BY DEF Inv, TypeOK
<1> QED BY <1>1, <1>2 DEF Emit, Put

\* An event of a call moves no background task, and no call back to dialling.
LEMMA ProgressLeavesWaiters ==
  ASSUME Inv, NEW r \in Requests, Progress(r), NEW q \in Requests
  PROVE  /\ task'[<<q, "exec">>] = task[<<q, "exec">>]
         /\ Dialled(q)' => Dialled(q)
<1>1. \E k \in Handlers : \E todo : Emit(r, k, todo)
  BY DEF Progress, Ring, Answer, StartDialplan, StartPlayback, FinishPlayback,
     HangUp, Drop, Refuse, Handlers
<1>2. task'[<<q, "exec">>] = task[<<q, "exec">>]
  BY <1>1, EmitLeavesWaiters
<1>3. call \in [Requests -> Phases]
  BY DEF Inv, TypeOK
<1>4. PICK phase : call' = [call EXCEPT ![r] = phase]
                   /\ (phase \in {"dialing", "ringing"} => Dialled(r))
  BY DEF Progress, Ring, Answer, StartDialplan, StartPlayback, FinishPlayback,
     HangUp, Drop, Refuse, Dialled
<1>5. Dialled(q)' => Dialled(q)
  BY <1>3, <1>4 DEF Dialled
<1> QED BY <1>2, <1>5

\* Only a coroutine at another step is started, resumed or timed out.
LEMMA ExecutionKeepsWaiters ==
  ASSUME Inv, DiallingWaits, NEW r \in Requests,
         Http(r) \/ Execution(r) \/ Respond(r)
  PROVE  DiallingWaits'
<1> SUFFICES ASSUME NEW q \in Requests, Dialled(q)', used'["crash"] = 0
             PROVE  Waiting(q)'
  BY DEF DiallingWaits
<1>1. task \in [Tasks -> TaskRecords] /\ call \in [Requests -> Phases]
  BY DEF Inv, TypeOK
<1>2. /\ <<q, "exec">> \in Tasks /\ <<r, "exec">> \in Tasks
      /\ <<r, "api">> # <<q, "exec">>
      /\ q # r => <<r, "exec">> # <<q, "exec">>
      /\ \A k \in Handlers : <<r, k>> # <<q, "exec">>
  BY TaskNames
<1>3. CASE Originate(r)
  <2>1. /\ task' = [task EXCEPT ![<<r, "exec">>] = Fresh("wait")]
        /\ call' = [call EXCEPT ![r] = "dialing"] /\ used' = used
    BY <1>3 DEF Originate
  <2>2. CASE q = r
    BY <1>1, <1>2, <2>1, <2>2 DEF Waiting, Fresh, Coroutine
  <2>3. CASE q # r
    BY <1>1, <1>2, <2>1, <2>3 DEF Waiting, Dialled, DiallingWaits
  <2> QED BY <2>2, <2>3
<1>4. CASE ~Originate(r)
  <2>1. call' = call /\ used' = used
    BY <1>4 DEF Http, Execution, Respond, Submit, SubmitRetry, Acquire,
       OriginateNotAccepted, OriginateTimeout, asterisk
  <2>2. Dialled(q) /\ Waiting(q)
    BY <2>1 DEF Dialled, DiallingWaits
  <2>3. CASE Http(r)
    <3>1. PICK part, todo, queue : Put(<<r, "api">>, part, todo, queue)
      BY <2>3 DEF Http, Submit, SubmitRetry
    <3> QED BY <1>1, <1>2, <2>2, <3>1 DEF Waiting, Put
  <2>4. CASE Acquire(r) \/ OriginateNotAccepted(r)
    <3>1. q # r
      BY <2>2, <2>4 DEF Acquire, OriginateNotAccepted, Waiting
    <3>2. PICK part, todo, queue : Put(<<r, "exec">>, part, todo, queue)
      BY <2>4 DEF Acquire, OriginateNotAccepted
    <3> QED BY <1>1, <1>2, <2>2, <3>1, <3>2 DEF Waiting, Put
  <2>5. CASE OriginateTimeout(r)
    <3>1. CallEnded(r) \/ call[r] \in {"playing", "played"}
      BY <2>5 DEF OriginateTimeout, LongAgo
    <3>2. q # r
      BY <2>2, <3>1 DEF CallEnded, Dialled
    <3>3. PICK part, todo, queue : Put(<<r, "exec">>, part, todo, queue)
      BY <2>5 DEF OriginateTimeout
    <3> QED BY <1>1, <1>2, <2>2, <3>2, <3>3 DEF Waiting, Put
  <2>6. CASE Respond(r)
    <3>1. q # r
      BY <2>2, <2>6 DEF Respond, Dialled, Inv, OneResponse
    <3>2. \/ \E part, todo, queue : Put(<<r, "exec">>, part, todo, queue)
          \/ \E todo : Emit(r, "response", todo)
      BY <2>6 DEF Respond
    <3>3. CASE \E part, todo, queue : Put(<<r, "exec">>, part, todo, queue)
      BY <1>1, <1>2, <2>2, <3>1, <3>3 DEF Waiting, Put
    <3>4. CASE \E todo : Emit(r, "response", todo)
      BY <2>2, <3>4, EmitLeavesWaiters DEF Waiting, Handlers
    <3> QED BY <3>2, <3>3, <3>4
  <2> QED BY <1>4, <2>3, <2>4, <2>5, <2>6 DEF Execution
<1> QED BY <1>3, <1>4

\* A task whose connection is lost still waits, for its timeout.
LEMMA DisconnectKeepsWaiters ==
  ASSUME Inv, DiallingWaits, Disconnect
  PROVE  DiallingWaits'
<1>1. used \in [{"drop", "crash", "fault"} -> Nat]
  BY DEF Inv, TypeOK
<1>2. used'["crash"] = used["crash"] /\ call' = call
  BY <1>1 DEF Disconnect, asterisk
<1>3. ASSUME NEW q \in Requests, Waiting(q) PROVE Waiting(q)'
  <2>1. <<q, "exec">> \in Tasks
    BY TaskNames
  <2>2. task'[<<q, "exec">>] \in {Fresh("orphan"), task[<<q, "exec">>]}
    BY <2>1 DEF Disconnect
  <2>3. Fresh("orphan").st = "orphan"
    BY DEF Fresh, Coroutine
  <2>4. task'[<<q, "exec">>].st \in {"orphan", task[<<q, "exec">>].st}
    BY <2>2, <2>3
  <2> QED BY <1>3, <2>4 DEF Waiting
<1> QED BY <1>2, <1>3 DEF DiallingWaits, Dialled

\* Every step keeps the tasks of dialled calls waiting.
LEMMA NextWaits ==
  ASSUME Inv, DiallingWaits, [Next]_vars
  PROVE  DiallingWaits'
<1>1. used \in [{"drop", "crash", "fault"} -> Nat]
  BY DEF Inv, TypeOK
<1>2. ASSUME NEW t \in Tasks, Serve(t) \/ Fault(t) PROVE DiallingWaits'
  <2>1. used'["crash"] = used["crash"]
    BY <1>1, <1>2 DEF Serve, Fault, Work, RefuseRetry, AdmitRetry, Accept,
       EnterTry, Release, EndHandler, FaultInHandler, FaultBeforeTry,
       FaultInTry, FaultThenRelease, Faulting
  <2>2. call' = call
    BY <1>2 DEF Serve, Fault, Work, RefuseRetry, AdmitRetry, Accept, EnterTry,
       Release, EndHandler, FaultInHandler, FaultBeforeTry, FaultInTry,
       FaultThenRelease, asterisk
  <2>3. ASSUME NEW q \in Requests, Waiting(q) PROVE Waiting(q)'
    BY <1>2, <2>3, WorkerLeavesWaiters DEF Waiting
  <2> QED BY <2>1, <2>2, <2>3 DEF DiallingWaits, Dialled
<1>3. ASSUME NEW r \in Requests, Progress(r) PROVE DiallingWaits'
  <2>1. used' = used
    BY <1>3 DEF Progress, Ring, Answer, StartDialplan, StartPlayback,
       FinishPlayback, HangUp, Drop, Refuse
  <2> QED BY <1>3, <2>1, ProgressLeavesWaiters DEF DiallingWaits, Waiting
<1>4. CASE Startup \/ Reconnect
  BY <1>4 DEF Startup, Reconnect, asterisk, DiallingWaits, Dialled, Waiting
<1>5. CASE Crash
  <2>1. used'["crash"] # 0
    BY <1>1, <1>5 DEF Crash
  <2> QED BY <2>1 DEF DiallingWaits
<1>6. CASE UNCHANGED vars
  BY <1>6 DEF vars, asterisk, DiallingWaits, Dialled, Waiting
<1> QED
  BY <1>2, <1>3, <1>4, <1>5, <1>6, ExecutionKeepsWaiters, DisconnectKeepsWaiters
  DEF Next

\* rate_limiter.acquire_slot's count holds every call that is being dialled,
\* whatever happens to the link or the database, up to a restart.
THEOREM DialledCallsCounted == Spec => []DiallingHoldsSlot
<1>1. Init => DiallingWaits
  BY DEF Init, DiallingWaits, Dialled
<1>2. Inv /\ DiallingWaits /\ [Next]_vars => DiallingWaits'
  BY NextWaits
<1>3. DiallingWaits => DiallingHoldsSlot
  BY DEF DiallingWaits, Dialled, Waiting, DiallingHoldsSlot, SlotHolders,
     Holding
<1> QED BY <1>1, <1>2, <1>3, Invariance, PTL DEF Spec
=============================================================================
