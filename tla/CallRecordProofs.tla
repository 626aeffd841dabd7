--------------------------- MODULE CallRecordProofs ---------------------------
(***************************************************************************)
(* What is recorded of a call, for any number of calls and mishaps: the    *)
(* record never claims an answer that did not happen, lets a client retry  *)
(* only a call that is over, and so never has two attempts ring at once.   *)
(*                                                                         *)
(* The argument: a coroutine only carries statements that are true when it *)
(* begins, and what they claim stays true, however long they wait in the   *)
(* queue, whatever is committed with them, and whatever a crash undoes.    *)
(***************************************************************************)
EXTENDS CallLifecycleProofs

AnswerStatuses == {"answered", "playing", "completed"}
AnswerEvents == {"answered", "dialplan_start", "playing", "playback_complete"}

\* The call is over, or was given up before it was dialled, or plays on after
\* a lost link.
Over(r) == \/ CallEnded(r) \/ PlaysOn(r)
           \/ call[r] = "none" /\ ~BeforeDialling(<<r, "exec">>)

\* What is known of the calls for good.
Known == [picked |-> {r \in Requests : call[r] \in PickedUp},
          ended  |-> {r \in Requests : CallEnded(r)},
          over   |-> {r \in Requests : Over(r)},
          final  |-> {r \in Requests : Over(r) \/ call[r] = "played"}]

KnowsMore(f, g) == /\ f.picked \subseteq g.picked /\ f.ended \subseteq g.ended
                   /\ f.over \subseteq g.over /\ f.final \subseteq g.final

\* What a status claims of a call.
TrueStatus(r, s, f) == /\ s \in AnswerStatuses => r \in f.picked
                       /\ s \in Retryable => r \in f.over
                       /\ s \in Terminal => r \in f.final

\* What a record and its timeline claim.
TrueRow(r, row, log, f) ==
  /\ TrueStatus(r, row.status, f)
  /\ row.bound => r \in f.picked
  /\ log \intersect AnswerEvents # {} => r \in f.picked
  /\ row.parent # NoRequest => row.parent \in f.over

TrueTables(tables, f) ==
  \A r \in Requests : TrueRow(r, tables.row[r], tables.log[r], f)

\* Statements that claim nothing but what is known, made by task t.
Ready(t, f) ==
  {h \in Hops :
     /\ h.op \notin {"route", "decide"}
     /\ h.op \in {"write", "bind"} => TrueStatus(h.on, h.arg, f)
     /\ h.op = "bind" => h.on \in f.picked
     /\ h.op = "log" /\ h.arg \in AnswerEvents => h.on \in f.picked
     /\ h.op = "insert" /\ h.arg # NoRequest => h.arg \in f.over
     /\ t[2] = "api" => h.op \notin {"write", "bind"}
     /\ t[2] # "api" => h.op \notin {"insert", "bump"} /\ h.on = t[1]}

\* A lookup of the call of a hangup, and the reading of the call to be retried.
Lookups(r) == {h \in Hops : h.op \in {"find", "fetch", "route"} /\ h.on = r}
Reads(p) == {h \in Hops : h.op \in {"select", "fetch", "decide"} /\ h.on = p}

\* A coroutine carries such statements; or it reads, and what it has read is
\* true: only a call that was picked up is found by its channel, and only one
\* that is over is found retryable.
Truthful(t, rec, f) ==
  /\ t[2] = "exec" /\ rec.part = "rejected" => t[1] \in f.over
  /\ \/ rec.todo \in Seq(Ready(t, f))
     \/ /\ t[2] = "hangup" /\ t[1] \in f.ended
        /\ rec.todo \in Seq(Lookups(t[1]))
        /\ rec.seen # Absent => t[1] \in f.picked
     \/ /\ t[2] = "api"
        /\ \E p \in Requests : /\ rec.todo \in Seq(Reads(p))
                               /\ rec.seen \in Retryable => p \in f.over

TrueTasks(tasks, f) ==
  \A t \in Tasks : tasks[t].st = "db" => Truthful(t, tasks[t], f)

\* A failed Originate is reported with a status that is true.
TrueReports(reports, f) ==
  \A r \in Requests : reports[r] \notin {"no", "answered"} =>
                        TrueStatus(r, reports[r], f)

RecordInv == /\ TrueTables(db, Known) /\ TrueTables(disk, Known)
             /\ TrueTasks(task, Known) /\ TrueReports(due, Known)

-----------------------------------------------------------------------------
(* What is known stays true *)

\* A list of members of a set is a list of members of every larger one.
LEMMA SeqGrows ==
  ASSUME NEW S, NEW T, S \subseteq T, NEW s \in Seq(S)
  PROVE  s \in Seq(T)
OBVIOUS

\* Statements that are true stay true when more is known.
LEMMA ReadyGrows ==
  ASSUME NEW t, NEW f, NEW g, KnowsMore(f, g)
  PROVE  Ready(t, f) \subseteq Ready(t, g)
BY DEF KnowsMore, Ready, TrueStatus

\* A true record stays true when more is known.
LEMMA TablesGrow ==
  ASSUME NEW tables, NEW f, NEW g, KnowsMore(f, g), TrueTables(tables, f)
  PROVE  TrueTables(tables, g)
BY DEF KnowsMore, TrueTables, TrueRow, TrueStatus

\* A truthful coroutine stays so when more is known.
LEMMA TruthfulGrows ==
  ASSUME NEW t, NEW rec, NEW f, NEW g, KnowsMore(f, g), Truthful(t, rec, f)
  PROVE  Truthful(t, rec, g)
<1>1. /\ f.picked \subseteq g.picked /\ f.ended \subseteq g.ended
      /\ f.over \subseteq g.over
  BY DEF KnowsMore
<1>2. t[2] = "exec" /\ rec.part = "rejected" => t[1] \in g.over
  BY <1>1 DEF Truthful
<1>3. CASE rec.todo \in Seq(Ready(t, f))
  <2>1. rec.todo \in Seq(Ready(t, g))
    BY <1>3, ReadyGrows, SeqGrows
  <2> QED BY <1>2, <2>1 DEF Truthful
<1>4. CASE /\ t[2] = "hangup" /\ t[1] \in f.ended
           /\ rec.todo \in Seq(Lookups(t[1]))
           /\ rec.seen # Absent => t[1] \in f.picked
  BY <1>1, <1>2, <1>4 DEF Truthful
<1>5. CASE /\ t[2] = "api"
           /\ \E p \in Requests : /\ rec.todo \in Seq(Reads(p))
                                  /\ rec.seen \in Retryable => p \in f.over
  <2>1. PICK p \in Requests : /\ rec.todo \in Seq(Reads(p))
                              /\ rec.seen \in Retryable => p \in f.over
    BY <1>5
  <2>2. rec.seen \in Retryable => p \in g.over
    BY <1>1, <2>1
  <2> QED BY <1>2, <1>5, <2>1, <2>2 DEF Truthful
<1> QED BY <1>3, <1>4, <1>5 DEF Truthful

\* One coroutine gets another record, the others stay what they are.
LEMMA TasksGrow ==
  ASSUME TypeOK, NEW f, NEW g, KnowsMore(f, g), TrueTasks(task, f),
         NEW t \in Tasks, \A u \in Tasks \ {t} : task'[u] = task[u],
         task'[t].st = "db" => Truthful(t, task'[t], g)
  PROVE  TrueTasks(task', g)
<1> SUFFICES ASSUME NEW u \in Tasks, task'[u].st = "db"
             PROVE  Truthful(u, task'[u], g)
  BY DEF TrueTasks
<1>1. CASE u = t
  BY <1>1
<1>2. CASE u # t
  <2>1. task'[u] = task[u]
    BY <1>2
  <2> QED BY <2>1, TruthfulGrows DEF TrueTasks
<1> QED BY <1>1, <1>2

\* The invariant from its parts.
LEMMA RecordFromParts ==
  ASSUME TrueTables(db', Known'), TrueTables(disk', Known'),
         TrueTasks(task', Known'), TrueReports(due', Known')
  PROVE  RecordInv'
BY DEF RecordInv

-----------------------------------------------------------------------------
(* What a step does to one coroutine *)

\* A coroutine is given a list of statements, the others stay what they are.
LEMMA PutGives ==
  ASSUME Inv, NEW t \in Tasks, NEW part, NEW todo, NEW queue,
         Put(t, part, todo, queue)
  PROVE  /\ task'[t].st = "db" /\ task'[t].part = part
         /\ task'[t].todo = todo /\ task'[t].seen = Absent
         /\ \A u \in Tasks \ {t} : task'[u] = task[u]
<1>1. task \in [Tasks -> TaskRecords]
  BY DEF Inv, TypeOK
<1> QED BY <1>1 DEF Put, Coroutine

\* A coroutine leaves the queue, the others stay what they are.
LEMMA LeaveGives ==
  ASSUME Inv, NEW t \in Tasks, NEW st, Leave(t, st)
  PROVE  /\ task'[t].st = st
         /\ \A u \in Tasks \ {t} : task'[u] = task[u]
<1>1. task \in [Tasks -> TaskRecords]
  BY DEF Inv, TypeOK
<1> QED BY <1>1 DEF Leave, Fresh, Coroutine

\* The worker goes on with a coroutine, the others stay what they are.
LEMMA WorkGives ==
  ASSUME Inv, NEW t, Work(t)
  PROVE  /\ t \in Tasks /\ task[t].st = "db"
         /\ task'[t].st = "db" /\ task'[t].part = task[t].part
         /\ task'[t].todo = Rest(t) /\ task'[t].seen = Seen(t)
         /\ \A u \in Tasks \ {t} : task'[u] = task[u]
<1>1. t \in Tasks /\ task[t].st = "db"
  BY Served DEF Work
<1>2. task \in [Tasks -> TaskRecords] /\ task[t] \in TaskRecords
  BY <1>1 DEF Inv, TypeOK
<1>3. task' = [task EXCEPT ![t] = [task[t] EXCEPT !.todo = Rest(t),
                                                  !.seen = Seen(t)]]
  BY <1>2 DEF Work
<1>4. /\ task'[t] = [task[t] EXCEPT !.todo = Rest(t), !.seen = Seen(t)]
      /\ \A u \in Tasks \ {t} : task'[u] = task[u]
  BY <1>1, <1>2, <1>3
<1> QED BY <1>1, <1>2, <1>4 DEF TaskRecords

\* The 202 ends the HTTP handler and schedules the background task.
LEMMA AcceptGives ==
  ASSUME Inv, NEW t, Accept(t)
  PROVE  /\ t[1] \in Requests /\ t = <<t[1], "api">>
         /\ task[t].st = "db" /\ task[<<t[1], "exec">>].st = "idle"
         /\ task'[t].st = "done" /\ task'[<<t[1], "exec">>].st = "ready"
         /\ \A u \in Tasks : u # t /\ u # <<t[1], "exec">> =>
                               task'[u] = task[u]
<1>1. /\ t[1] \in Requests /\ t = <<t[1], "api">> /\ task[t].st = "db"
      /\ t \in Tasks
  BY Served DEF Accept, LastHop
<1>2. task[<<t[1], "exec">>].st = "idle"
  BY <1>1 DEF Inv, ApiFirst
<1>3. task' = [task EXCEPT ![t] = Fresh("done"),
                           ![<<t[1], "exec">>] = Fresh("ready")]
  BY DEF Accept
<1>4. task \in [Tasks -> TaskRecords] /\ <<t[1], "exec">> \in Tasks
      /\ t # <<t[1], "exec">>
  BY <1>1, TaskNames DEF Inv, TypeOK
<1>5. /\ task'[t] = Fresh("done") /\ task'[<<t[1], "exec">>] = Fresh("ready")
      /\ \A u \in Tasks : u # t /\ u # <<t[1], "exec">> => task'[u] = task[u]
  BY <1>1, <1>3, <1>4
<1>6. Fresh("done").st = "done" /\ Fresh("ready").st = "ready"
  BY DEF Fresh, Coroutine
<1> QED BY <1>1, <1>2, <1>5, <1>6

-----------------------------------------------------------------------------
(* What is known is known for good *)

\* A call that was given up before it was dialled is never dialled.
GivenUp(q) == ~BeforeDialling(<<q, "exec">>)

\* A statement is executed or fails: the background task goes on, never back.
LEMMA WorkerGoesOn ==
  ASSUME Inv, NEW t \in Tasks, Serve(t) \/ Fault(t), NEW q \in Requests,
         GivenUp(q)
  PROVE  GivenUp(q)'
<1> DEFINE e == <<q, "exec">>
<1>1. /\ task[e].st \notin {"idle", "ready", "send"}
      /\ task[e].st = "db" => task[e].part # "pre"
      /\ e \in Tasks /\ e[2] = "exec"
  BY TaskNames DEF GivenUp, BeforeDialling
<1>2. SUFFICES /\ task'[e].st \notin {"idle", "ready", "send"}
               /\ task'[e].st = "db" => task'[e].part # "pre"
  BY DEF GivenUp, BeforeDialling
<1>3. CASE Work(t)
  BY <1>1, <1>3, WorkGives
<1>4. CASE Accept(t)
  BY <1>1, <1>4, AcceptGives
<1>5. CASE \/ RefuseRetry(t) \/ EnterTry(t) \/ Release(t) \/ EndHandler(t)
           \/ FaultInHandler(t) \/ FaultBeforeTry(t) \/ FaultThenRelease(t)
  <2>1. \E st \in {"idle", "send", "done", "lost"} :
          /\ Leave(t, st)
          /\ st = "idle" => t[2] = "api"
          /\ st = "send" => task[t].st = "db" /\ task[t].part = "pre"
    <3>1. EnterTry(t) => task[t].st = "db"
      BY Served DEF EnterTry, LastHop
    <3> QED
      BY <1>5, <3>1 DEF RefuseRetry, EnterTry, Release, EndHandler,
         FaultInHandler, FaultBeforeTry, FaultThenRelease, Deciding
  <2>2. PICK st \in {"idle", "send", "done", "lost"} :
          /\ Leave(t, st)
          /\ st = "idle" => t[2] = "api"
          /\ st = "send" => task[t].st = "db" /\ task[t].part = "pre"
    BY <2>1
  <2>3. CASE t = e
    BY <1>1, <2>2, <2>3, LeaveGives
  <2>4. CASE t # e
    BY <1>1, <2>2, <2>4, LeaveGives
  <2> QED BY <2>3, <2>4
<1>6. CASE AdmitRetry(t) \/ FaultInTry(t)
  <2>1. PICK part, todo, queue : Put(t, part, todo, queue) /\ part # "pre"
    <3>1. CASE AdmitRetry(t)
      <4>1. Put(t, "", CreateRecord(t[1], Op(t).on)
                         \o IncrementRetry(Op(t).on), Tail(dbq))
        BY <3>1 DEF AdmitRetry
      <4>2. "" # "pre"
        OBVIOUS
      <4> QED BY <4>1, <4>2
    <3>2. CASE FaultInTry(t)
      <4>1. Put(t, "except", OnFailed(t[1]), Tail(dbq)) /\ "except" # "pre"
        BY <3>2 DEF FaultInTry
      <4> QED BY <4>1
    <3> QED BY <1>6, <3>1, <3>2
  <2>2. CASE t = e
    BY <1>1, <2>1, <2>2, PutGives
  <2>3. CASE t # e
    BY <1>1, <2>1, <2>3, PutGives
  <2> QED BY <2>2, <2>3
<1> QED BY <1>3, <1>4, <1>5, <1>6 DEF Serve, Fault

\* Whatever happens, a call that was given up stays given up.
LEMMA GivenUpStays ==
  ASSUME Inv, [Next]_vars, NEW q \in Requests, GivenUp(q)
  PROVE  GivenUp(q)'
<1> DEFINE e == <<q, "exec">>
<1>1. /\ task[e].st \notin {"idle", "ready", "send"}
      /\ task[e].st = "db" => task[e].part # "pre"
      /\ e \in Tasks
  BY TaskNames DEF GivenUp, BeforeDialling
<1>2. SUFFICES ASSUME \/ \E r \in Requests : Http(r) \/ Execution(r)
                                           \/ Progress(r) \/ Respond(r)
                      \/ Startup \/ Disconnect \/ Reconnect \/ Crash
                      \/ UNCHANGED vars
               PROVE  /\ task'[e].st \notin {"idle", "ready", "send"}
                      /\ task'[e].st = "db" => task'[e].part # "pre"
  BY WorkerGoesOn DEF Next, GivenUp, BeforeDialling
<1>3. ASSUME NEW r \in Requests, Http(r)
      PROVE  task'[e] = task[e]
  <2>1. PICK part, todo, queue : Put(<<r, "api">>, part, todo, queue)
    BY <1>3 DEF Http, Submit, SubmitRetry
  <2>2. <<r, "api">> \in Tasks /\ <<r, "api">> # e
    BY TaskNames
  <2> QED BY <1>1, <2>1, <2>2, PutGives
<1>4. ASSUME NEW r \in Requests, Execution(r)
      PROVE  \/ task'[e] = task[e]
             \/ task'[e].st = "db" /\ task'[e].part = "rejected"
  <2>1. <<r, "exec">> \in Tasks /\ (r # q => <<r, "exec">> # e)
    BY TaskNames
  <2>2. CASE Acquire(r) \/ Originate(r)
    <3>1. task[<<r, "exec">>].st \in {"ready", "send"}
      BY <2>2 DEF Acquire, Originate
    <3>2. r # q
      BY <1>1, <3>1
    <3>3. \/ \E part, todo, queue : Put(<<r, "exec">>, part, todo, queue)
          \/ task' = [task EXCEPT ![<<r, "exec">>] = Fresh("wait")]
      BY <2>2 DEF Acquire, Originate
    <3>4. task \in [Tasks -> TaskRecords]
      BY DEF Inv, TypeOK
    <3> QED BY <1>1, <2>1, <3>2, <3>3, <3>4, PutGives
  <2>3. CASE OriginateNotAccepted(r) \/ OriginateTimeout(r)
    <3>1. PICK todo, queue : Put(<<r, "exec">>, "rejected", todo, queue)
      BY <2>3 DEF OriginateNotAccepted, OriginateTimeout
    <3> QED BY <1>1, <2>1, <3>1, PutGives
  <2> QED BY <1>4, <2>2, <2>3 DEF Execution
<1>5. ASSUME NEW r \in Requests, Progress(r)
      PROVE  task'[e] = task[e]
  BY <1>5, ProgressLeavesWaiters
<1>6. ASSUME NEW r \in Requests, Respond(r)
      PROVE  \/ task'[e] = task[e]
             \/ task'[e].st = "db" /\ task'[e].part = "forward"
  <2>1. <<r, "exec">> \in Tasks /\ "response" \in Handlers
    BY TaskNames DEF Handlers
  <2>2. CASE \E todo : Emit(r, "response", todo)
    BY <2>1, <2>2, EmitLeavesWaiters
  <2>3. CASE \E todo, queue : Put(<<r, "exec">>, "forward", todo, queue)
    BY <1>1, <2>1, <2>3, PutGives
  <2> QED BY <1>6, <2>2, <2>3 DEF Respond
<1>7. CASE Startup \/ Reconnect \/ UNCHANGED vars
  BY <1>1, <1>7 DEF Startup, Reconnect, vars
<1>8. CASE Disconnect
  BY <1>1, <1>8 DEF Disconnect, Fresh, Coroutine
<1>9. CASE Crash
  BY <1>1, <1>9 DEF Crash, Fresh, Coroutine
<1> QED BY <1>1, <1>2, <1>3, <1>4, <1>5, <1>6, <1>7, <1>8, <1>9

\* A call is dialled by its background task and is then Asterisk's: picked up
\* once and for all, played to its end or not, and over once and for all.
LEMMA CallMoves ==
  ASSUME Inv, [Next]_vars, NEW q \in Requests
  PROVE  \/ call'[q] = call[q]
         \/ call[q] = "none" /\ task[<<q, "exec">>].st = "send"
         \/ /\ call[q] # "none" /\ ~CallEnded(q)
            /\ call[q] \in PickedUp => call'[q] \in PickedUp
            /\ call[q] = "playing" => call'[q] \in {"played", "dropped"}
            /\ call[q] = "played" => call'[q] = "finished"
<1>0. call \in [Requests -> Phases]
  BY DEF Inv, TypeOK
<1>1. CASE UNCHANGED vars \/ Startup \/ Disconnect \/ Reconnect \/ Crash
  <2>1. UNCHANGED call
    BY <1>1 DEF vars, asterisk, Startup, Disconnect, Reconnect, Crash
  <2> QED BY <2>1
<1>2. ASSUME NEW t \in Tasks, Serve(t) \/ Fault(t)
      PROVE  UNCHANGED call
  BY <1>2 DEF Serve, Fault, Work, RefuseRetry, AdmitRetry, Accept, EnterTry,
     Release, EndHandler, FaultInHandler, FaultBeforeTry, FaultInTry,
     FaultThenRelease, asterisk
<1>3. ASSUME NEW r \in Requests, Http(r) \/ Respond(r)
      PROVE  UNCHANGED call
  BY <1>3 DEF Http, Submit, SubmitRetry, Respond, asterisk
<1>4. ASSUME NEW r \in Requests, Execution(r)
      PROVE  \/ UNCHANGED call
             \/ task[<<r, "exec">>].st = "send"
                /\ call' = [call EXCEPT ![r] = "dialing"]
  BY <1>4 DEF Execution, Acquire, Originate, OriginateNotAccepted,
     OriginateTimeout, asterisk
<1>5. ASSUME NEW r \in Requests, Execution(r)
      PROVE  \/ call'[q] = call[q]
             \/ call[q] = "none" /\ task[<<q, "exec">>].st = "send"
  <2>1. task[<<q, "exec">>].st = "send" => call[q] = "none"
    BY DEF Inv, DialledOnce, BeforeDialling
  <2> QED BY <1>0, <1>4, <1>5, <2>1
<1>6. ASSUME NEW r \in Requests, Progress(r)
      PROVE  \E phase \in Phases :
               /\ call' = [call EXCEPT ![r] = phase]
               /\ call[r] # "none" /\ ~CallEnded(r)
               /\ call[r] \in PickedUp => phase \in PickedUp
               /\ call[r] = "playing" => phase \in {"played", "dropped"}
               /\ call[r] = "played" => phase = "finished"
  BY <1>6 DEF Progress, Ring, Answer, StartDialplan, StartPlayback,
     FinishPlayback, HangUp, Drop, Refuse, Phases, PickedUp, CallEnded
<1>7. ASSUME NEW r \in Requests, Progress(r)
      PROVE  \/ call'[q] = call[q]
             \/ /\ call[q] # "none" /\ ~CallEnded(q)
                /\ call[q] \in PickedUp => call'[q] \in PickedUp
                /\ call[q] = "playing" => call'[q] \in {"played", "dropped"}
                /\ call[q] = "played" => call'[q] = "finished"
  <2>1. PICK phase \in Phases :
               /\ call' = [call EXCEPT ![r] = phase]
               /\ call[r] # "none" /\ ~CallEnded(r)
               /\ call[r] \in PickedUp => phase \in PickedUp
               /\ call[r] = "playing" => phase \in {"played", "dropped"}
               /\ call[r] = "played" => phase = "finished"
    BY <1>6, <1>7
  <2> QED BY <1>0, <2>1 DEF CallEnded
<1> QED BY <1>1, <1>2, <1>3, <1>5, <1>7 DEF Next

\* A mishap is never forgotten.
LEMMA DropsCounted ==
  ASSUME Inv, [Next]_vars, used["drop"] > 0
  PROVE  used'["drop"] > 0
<1>1. used \in [{"drop", "crash", "fault"} -> Nat]
  BY DEF Inv, TypeOK
<1>2. \/ UNCHANGED used
      \/ \E m \in {"drop", "crash", "fault"} : used' = [used EXCEPT ![m] = @ + 1]
  BY DEF Next, Http, Submit, SubmitRetry, Execution, Acquire, Originate,
     OriginateNotAccepted, OriginateTimeout, Progress, Ring, Answer,
     StartDialplan, StartPlayback, FinishPlayback, HangUp, Drop, Refuse,
     Respond, Serve, Work, RefuseRetry, AdmitRetry, Accept, EnterTry, Release,
     EndHandler, Fault, FaultInHandler, FaultBeforeTry, FaultInTry,
     FaultThenRelease, Faulting, Startup, Disconnect, Reconnect, Crash, vars
<1> QED BY <1>1, <1>2

\* Only a lost connection orphans the wait for an OriginateResponse.
OrphansDropped ==
  \A q \in Requests : task[<<q, "exec">>].st = "orphan" => used["drop"] > 0

\* A coroutine that is given another state than that is no orphan.
LEMMA NoNewOrphan ==
  ASSUME Inv, [Next]_vars, OrphansDropped, NEW t \in Tasks,
         task'[t].st # "orphan", \A u \in Tasks \ {t} : task'[u] = task[u]
  PROVE  OrphansDropped'
<1> SUFFICES ASSUME NEW q \in Requests, task'[<<q, "exec">>].st = "orphan"
             PROVE  used'["drop"] > 0
  BY DEF OrphansDropped
<1>1. <<q, "exec">> \in Tasks
  BY TaskNames
<1>2. task[<<q, "exec">>].st = "orphan"
  BY <1>1
<1> QED BY <1>2, DropsCounted DEF OrphansDropped

\* Every step leaves a wait orphaned only when the link was lost.
LEMMA OrphansKept == Inv /\ OrphansDropped /\ [Next]_vars => OrphansDropped'
<1> SUFFICES ASSUME Inv, OrphansDropped, [Next]_vars PROVE OrphansDropped'
  OBVIOUS
<1>1. task \in [Tasks -> TaskRecords]
  BY DEF Inv, TypeOK
<1>2. ASSUME UNCHANGED task PROVE OrphansDropped'
  BY <1>2, DropsCounted DEF OrphansDropped
<1>3. ASSUME NEW t \in Tasks, NEW part, NEW todo, NEW queue,
             Put(t, part, todo, queue)
      PROVE  OrphansDropped'
  BY <1>3, PutGives, NoNewOrphan
<1>4. ASSUME NEW r \in Requests, Http(r) \/ Respond(r) \/ Progress(r)
      PROVE  OrphansDropped'
  <2>1. ASSUME NEW k \in Handlers, NEW todo, Emit(r, k, todo)
        PROVE  OrphansDropped'
    BY <1>2, <1>3, <2>1, TaskNames DEF Emit
  <2>2. CASE Http(r)
    BY <1>3, <2>2, TaskNames DEF Http, Submit, SubmitRetry
  <2>3. CASE Respond(r)
    BY <1>3, <2>1, <2>3, TaskNames DEF Respond, Handlers
  <2>4. CASE Progress(r)
    <3>1. \E k \in Handlers : \E todo : Emit(r, k, todo)
      BY <2>4 DEF Progress, Ring, Answer, StartDialplan, StartPlayback,
         FinishPlayback, HangUp, Drop, Refuse, Handlers
    <3> QED BY <2>1, <3>1
  <2> QED BY <1>4, <2>2, <2>3, <2>4
<1>5. ASSUME NEW r \in Requests, Execution(r) PROVE OrphansDropped'
  <2>1. CASE Originate(r)
    <3>1. /\ task' = [task EXCEPT ![<<r, "exec">>] = Fresh("wait")]
          /\ <<r, "exec">> \in Tasks /\ Fresh("wait").st = "wait"
      BY <2>1, TaskNames DEF Originate, Fresh, Coroutine
    <3>2. task'[<<r, "exec">>].st # "orphan"
      BY <1>1, <3>1
    <3>3. \A u \in Tasks \ {<<r, "exec">>} : task'[u] = task[u]
      BY <1>1, <3>1
    <3> QED BY <3>1, <3>2, <3>3, NoNewOrphan
  <2>2. CASE ~Originate(r)
    BY <1>3, <1>5, <2>2, TaskNames DEF Execution, Acquire, OriginateNotAccepted,
       OriginateTimeout
  <2> QED BY <2>1, <2>2
<1>6. ASSUME NEW t \in Tasks, Serve(t) \/ Fault(t) PROVE OrphansDropped'
  <2>1. CASE Work(t)
    <3>1. task'[t].st = "db" /\ \A u \in Tasks \ {t} : task'[u] = task[u]
      BY <2>1, Served, WorkGives DEF Work
    <3> QED BY <3>1, NoNewOrphan
  <2>2. CASE Accept(t)
    <3>1. /\ t[1] \in Requests /\ <<t[1], "exec">> \in Tasks
          /\ t # <<t[1], "exec">>
          /\ task' = [task EXCEPT ![t] = Fresh("done"),
                                  ![<<t[1], "exec">>] = Fresh("ready")]
      BY <2>2, TaskNames, Served DEF Accept, LastHop
    <3>2. /\ Fresh("done").st = "done" /\ Fresh("ready").st = "ready"
      BY DEF Fresh, Coroutine
    <3>3. \A u \in Tasks : task'[u].st = "orphan" => task[u].st = "orphan"
      BY <1>1, <3>1, <3>2
    <3> QED BY <3>3, DropsCounted, TaskNames DEF OrphansDropped
  <2>3. CASE AdmitRetry(t) \/ FaultInTry(t)
    BY <1>3, <2>3 DEF AdmitRetry, FaultInTry
  <2>4. CASE \/ RefuseRetry(t) \/ EnterTry(t) \/ Release(t) \/ EndHandler(t)
             \/ FaultInHandler(t) \/ FaultBeforeTry(t) \/ FaultThenRelease(t)
    <3>1. \E st \in {"idle", "send", "done", "lost"} : Leave(t, st)
      BY <2>4 DEF RefuseRetry, EnterTry, Release, EndHandler, FaultInHandler,
         FaultBeforeTry, FaultThenRelease
    <3>2. PICK st \in {"idle", "send", "done", "lost"} : Leave(t, st)
      BY <3>1
    <3>3. task'[t].st = st /\ \A u \in Tasks \ {t} : task'[u] = task[u]
      BY <3>2, LeaveGives
    <3> QED BY <3>3, NoNewOrphan
  <2> QED BY <1>6, <2>1, <2>2, <2>3, <2>4 DEF Serve, Fault
<1>7. CASE Disconnect
  <2>1. used'["drop"] > 0
    <3>1. /\ used \in [{"drop", "crash", "fault"} -> Nat]
          /\ used' = [used EXCEPT !["drop"] = @ + 1]
      BY <1>7 DEF Disconnect, Inv, TypeOK
    <3> QED BY <3>1
  <2> QED BY <2>1 DEF OrphansDropped
<1>8. CASE Crash
  <2>1. \A u \in Tasks : task'[u].st # "orphan"
    BY <1>8 DEF Crash, Fresh, Coroutine
  <2> QED BY <2>1, TaskNames DEF OrphansDropped
<1>9. CASE Startup \/ Reconnect \/ UNCHANGED vars
  BY <1>2, <1>9 DEF Startup, Reconnect, vars
<1> QED BY <1>4, <1>5, <1>6, <1>7, <1>8, <1>9 DEF Next

\* Nothing that is known of a call ever stops being true.
LEMMA KnownGrows ==
  ASSUME Inv, [Next]_vars
  PROVE  KnowsMore(Known, Known')
<1> SUFFICES ASSUME NEW q \in Requests
             PROVE  /\ call[q] \in PickedUp => call'[q] \in PickedUp
                    /\ CallEnded(q) => CallEnded(q)'
                    /\ Over(q) => Over(q)'
                    /\ call[q] = "played" => Over(q)' \/ call'[q] = "played"
  BY DEF KnowsMore, Known
<1>1. GivenUp(q) => GivenUp(q)' /\ task[<<q, "exec">>].st # "send"
  BY GivenUpStays DEF GivenUp, BeforeDialling
<1>2. \/ call'[q] = call[q]
      \/ call[q] = "none" /\ task[<<q, "exec">>].st = "send"
      \/ /\ call[q] # "none" /\ ~CallEnded(q)
         /\ call[q] \in PickedUp => call'[q] \in PickedUp
         /\ call[q] = "playing" => call'[q] \in {"played", "dropped"}
         /\ call[q] = "played" => call'[q] = "finished"
  BY CallMoves
<1>3. /\ call[q] \in PickedUp => call'[q] \in PickedUp
      /\ CallEnded(q) => CallEnded(q)'
      /\ call[q] = "played" => CallEnded(q)' \/ call'[q] = "played"
  BY <1>2 DEF PickedUp, CallEnded
<1>4. PlaysOn(q) => PlaysOn(q)' \/ CallEnded(q)'
  BY <1>2, DropsCounted DEF PlaysOn, CallEnded
<1>5. Over(q) => Over(q)'
  BY <1>1, <1>2, <1>3, <1>4 DEF Over, GivenUp
<1> QED BY <1>3, <1>5 DEF Over

-----------------------------------------------------------------------------
(* The lists of statements a coroutine is given claim nothing untrue *)

\* A call that ended is over, and what is over is final.
LEMMA KnownOrder ==
  /\ Known.ended \subseteq Known.over /\ Known.over \subseteq Known.final
  /\ Known'.ended \subseteq Known'.over /\ Known'.over \subseteq Known'.final
BY DEF Known, Over

\* Lists of two and of three members, and lists put together.
LEMMA Lists ==
  ASSUME NEW S
  PROVE  /\ \A a, b \in S : <<a, b>> \in Seq(S)
         /\ \A a, b, c \in S : <<a, b, c>> \in Seq(S)
         /\ \A a, b, c, d \in S : <<a, b, c, d>> \in Seq(S)
         /\ \A a, b, c, d, e \in S : <<a, b, c, d, e>> \in Seq(S)
         /\ \A s, u \in Seq(S) : s \o u \in Seq(S)
OBVIOUS

\* add_event, of the call the coroutine is about.
LEMMA ReadyEvent ==
  ASSUME NEW t, NEW f, t[1] \in Requests, NEW e \in EventNames,
         e \in AnswerEvents => t[1] \in f.picked
  PROVE  AddEvent(t[1], e) \in Seq(Ready(t, f))
<1>1. /\ Hop("log", t[1], e) \in Hops /\ Hop("commit", t[1], "") \in Hops
  BY HopTypes
<1>2. /\ Hop("log", t[1], e) \in Ready(t, f)
      /\ Hop("commit", t[1], "") \in Ready(t, f)
  BY <1>1 DEF Ready, Hop
<1> QED BY <1>2, Lists DEF AddEvent

\* update_call_status, with a status that is true.
LEMMA ReadyUpdate ==
  ASSUME NEW t, NEW f, t[1] \in Requests, t[2] # "api", NEW s \in Statuses,
         TrueStatus(t[1], s, f), NEW w \in {"write", "bind"},
         w = "bind" => t[1] \in f.picked
  PROVE  UpdateVia(w, t[1], s) \in Seq(Ready(t, f))
<1> DEFINE r == t[1]
<1>1. /\ Hop("select", r, "") \in Hops /\ Hop("fetch", r, "") \in Hops
      /\ Hop("guard", r, s) \in Hops /\ Hop(w, r, s) \in Hops
      /\ Hop("commit", r, "") \in Hops
  BY HopTypes
<1>2. /\ Hop("select", r, "") \in Ready(t, f)
      /\ Hop("fetch", r, "") \in Ready(t, f)
      /\ Hop("guard", r, s) \in Ready(t, f)
      /\ Hop("commit", r, "") \in Ready(t, f)
  BY <1>1 DEF Ready, Hop
<1>3. Hop(w, r, s) \in Ready(t, f)
  BY <1>1 DEF Ready, Hop
<1> QED BY <1>2, <1>3, Lists DEF UpdateVia

\* create_call_record and its first event, and increment_retry, of a call that
\* replaces none, or one that is over.
LEMMA ReadyRecord ==
  ASSUME NEW r \in Requests, NEW f, NEW p \in Requests \union {NoRequest},
         p # NoRequest => p \in f.over
  PROVE  CreateRecord(r, p) \in Seq(Ready(<<r, "api">>, f))
<1> DEFINE t == <<r, "api">>
<1>1. Hop("insert", r, p) \in Hops /\ Hop("commit", r, "") \in Hops
  BY HopTypes DEF Hops, HopSet, Hop
<1>2. Hop("insert", r, p) \in Ready(t, f) /\ Hop("commit", r, "") \in Ready(t, f)
  BY <1>1 DEF Ready, Hop
<1>3. AddEvent(r, "queued") \in Seq(Ready(t, f))
  BY ReadyEvent DEF EventNames, AnswerEvents
<1> QED BY <1>2, <1>3, Lists DEF CreateRecord

\* increment_retry makes no claim.
LEMMA ReadyIncrement ==
  ASSUME NEW t, t[2] = "api", NEW f, NEW p \in Requests
  PROVE  IncrementRetry(p) \in Seq(Ready(t, f))
<1>1. /\ Hop("bump", p, "") \in Hops /\ Hop("commit", p, "") \in Hops
      /\ Hop("select", p, "") \in Hops /\ Hop("fetch", p, "") \in Hops
      /\ Hop("close", p, "") \in Hops
  BY HopTypes
<1>2. /\ Hop("bump", p, "") \in Ready(t, f) /\ Hop("commit", p, "") \in Ready(t, f)
      /\ Hop("select", p, "") \in Ready(t, f)
      /\ Hop("fetch", p, "") \in Ready(t, f) /\ Hop("close", p, "") \in Ready(t, f)
  BY <1>1 DEF Ready, Hop
<1> QED BY <1>2, Lists DEF IncrementRetry

\* Looking a call up by its channel, before a Newstate is handled.
LEMMA ReadyFind ==
  ASSUME NEW t, NEW f, t[1] \in Requests, t[2] # "api"
  PROVE  FindThen("found", t[1], "") \in Seq(Ready(t, f))
<1>1. /\ Hop("find", t[1], "") \in Hops /\ Hop("fetch", t[1], "") \in Hops
      /\ Hop("found", t[1], "") \in Hops
  BY HopTypes
<1>2. /\ Hop("find", t[1], "") \in Ready(t, f)
      /\ Hop("fetch", t[1], "") \in Ready(t, f)
      /\ Hop("found", t[1], "") \in Ready(t, f)
  BY <1>1 DEF Ready, Hop
<1> QED BY <1>2, Lists DEF FindThen

\* The statuses that claim nothing.
LEMMA PlainStatus ==
  ASSUME NEW r, NEW f, NEW s \in {"queued", "originating", "ringing"}
  PROVE  TrueStatus(r, s, f) /\ s \in Statuses
BY DEF TrueStatus, AnswerStatuses, Retryable, Terminal, Statuses, InProgress

\* The statuses that claim an answer, and "completed" the end of the prompts.
LEMMA AnswerStatus ==
  ASSUME NEW r, NEW f, NEW s \in AnswerStatuses, r \in f.picked,
         s = "completed" => r \in f.final
  PROVE  TrueStatus(r, s, f) /\ s \in Statuses
BY DEF TrueStatus, AnswerStatuses, Retryable, Terminal, Statuses, InProgress

\* The statuses that claim that a call is over.
LEMMA OverStatus ==
  ASSUME NEW r, NEW f, f.over \subseteq f.final, NEW s \in Retryable,
         r \in f.over
  PROVE  TrueStatus(r, s, f) /\ s \in Statuses
BY DEF TrueStatus, AnswerStatuses, Retryable, Terminal, Statuses

\* Of a call that was found by its channel and is over, _on_hangup claims
\* nothing untrue: whatever it is mapped to or guessed.
LEMMA ReadyHangup ==
  ASSUME NEW t, NEW f, t[1] \in Requests, t[2] # "api",
         f.ended \subseteq f.over, f.over \subseteq f.final,
         t[1] \in f.ended, t[1] \in f.picked,
         NEW m \in Statuses \union {"unmapped"}, NEW seen \in Statuses
  PROVE  HangupBody(t[1], m, seen) \in Seq(Ready(t, f))
<1>1. AddEvent(t[1], "hangup") \in Seq(Ready(t, f))
  BY ReadyEvent DEF EventNames, AnswerEvents
<1>2. HangupStatus(m, seen) \in Statuses
  BY StatusTypes
<1>3. TrueStatus(t[1], HangupStatus(m, seen), f)
  BY <1>2 DEF TrueStatus
<1>4. Update(t[1], HangupStatus(m, seen)) \in Seq(Ready(t, f))
  BY <1>2, <1>3, ReadyUpdate DEF Update
<1>5. <<>> \in Seq(Ready(t, f))
  OBVIOUS
<1>6. CASE seen \in Terminal
  BY <1>1, <1>5, <1>6, Lists DEF HangupBody
<1>7. CASE seen \notin Terminal
  BY <1>1, <1>4, <1>7, Lists DEF HangupBody
<1> QED BY <1>6, <1>7

-----------------------------------------------------------------------------
(* The worker *)

\* A statement that claims nothing untrue leaves true tables.
LEMMA EffectTrue ==
  ASSUME TypeOK, NEW f, TrueTables(db, f), NEW t, NEW h \in Ready(t, f)
  PROVE  TrueTables(Effect(h), f)
<1> DEFINE q == h.on
<1>0. /\ h \in Hops /\ q \in Requests /\ db \in Databases
      /\ db.row \in [Requests -> Rows]
  BY DEF TypeOK, Databases, Ready, Hops, HopSet
<1>1. ASSUME NEW row \in Rows, TrueRow(q, row, db.log[q], f)
      PROVE  TrueTables(SetRow(q, row), f)
  <2>1. /\ SetRow(q, row).log = db.log
        /\ SetRow(q, row).row = [db.row EXCEPT ![q] = row]
    BY <1>0 DEF SetRow, Databases
  <2>2. ASSUME NEW r \in Requests
        PROVE  TrueRow(r, SetRow(q, row).row[r], SetRow(q, row).log[r], f)
    <3>1. CASE r = q
      BY <1>0, <1>1, <2>1, <3>1
    <3>2. CASE r # q
      BY <1>0, <2>1, <3>2 DEF TrueTables
    <3> QED BY <3>1, <3>2
  <2> QED BY <2>2 DEF TrueTables
<1>2. TrueRow(q, db.row[q], db.log[q], f) /\ db.row[q] \in Rows
  BY <1>0 DEF TrueTables
<1>3. CASE h.op = "insert"
  <2> DEFINE row == [NoRow EXCEPT !.status = "queued", !.parent = h.arg]
  <2>1. h.arg \in Requests \union {NoRequest}
    BY <1>0, <1>3 DEF Hops, HopSet
  <2>2. /\ row.status = "queued" /\ row.parent = h.arg /\ ~row.bound
        /\ row \in Rows
    BY <2>1, PlainStatus DEF NoRow, Rows
  <2>3. h.arg # NoRequest => h.arg \in f.over
    BY <1>3 DEF Ready
  <2>4. TrueRow(q, row, db.log[q], f)
    BY <1>2, <2>2, <2>3, PlainStatus DEF TrueRow
  <2> QED BY <1>1, <1>3, <2>2, <2>4 DEF Effect
<1>4. CASE h.op = "write"
  <2> DEFINE row == [db.row[q] EXCEPT !.status = h.arg]
  <2>1. h.arg \in Statuses
    BY <1>0, <1>4 DEF Hops, HopSet
  <2>2. /\ row.status = h.arg /\ row.parent = db.row[q].parent
        /\ row.bound = db.row[q].bound /\ row \in Rows
    BY <1>2, <2>1 DEF Rows
  <2>3. TrueStatus(q, h.arg, f)
    BY <1>4 DEF Ready
  <2>4. TrueRow(q, row, db.log[q], f)
    BY <1>2, <2>2, <2>3 DEF TrueRow
  <2> QED BY <1>1, <1>4, <2>2, <2>4 DEF Effect
<1>5. CASE h.op = "bind"
  <2> DEFINE row == [db.row[q] EXCEPT !.status = h.arg, !.bound = TRUE]
  <2>1. h.arg \in Statuses
    BY <1>0, <1>5 DEF Hops, HopSet
  <2>2. /\ row.status = h.arg /\ row.parent = db.row[q].parent /\ row \in Rows
    BY <1>2, <2>1 DEF Rows
  <2>3. TrueStatus(q, h.arg, f) /\ q \in f.picked
    BY <1>5 DEF Ready
  <2>4. TrueRow(q, row, db.log[q], f)
    BY <1>2, <2>2, <2>3 DEF TrueRow
  <2> QED BY <1>1, <1>5, <2>2, <2>4 DEF Effect
<1>6. CASE h.op = "bump"
  <2> DEFINE row == [db.row[q] EXCEPT !.retries = @ + 1]
  <2>1. /\ row.status = db.row[q].status /\ row.parent = db.row[q].parent
        /\ row.bound = db.row[q].bound /\ row \in Rows
    BY <1>2 DEF Rows
  <2>2. TrueRow(q, row, db.log[q], f)
    BY <1>2, <2>1 DEF TrueRow
  <2> QED BY <1>1, <1>6, <2>1, <2>2 DEF Effect
<1>7. CASE h.op = "log"
  <2> DEFINE tables == [db EXCEPT !.log[q] = @ \union {h.arg}]
  <2>1. h.arg \in AnswerEvents => q \in f.picked
    BY <1>7 DEF Ready
  <2>2. /\ tables.row = db.row
        /\ tables.log = [db.log EXCEPT ![q] = @ \union {h.arg}]
        /\ db.log \in [Requests -> SUBSET EventNames]
    BY <1>0 DEF Databases
  <2>3. ASSUME NEW r \in Requests
        PROVE  TrueRow(r, tables.row[r], tables.log[r], f)
    <3>1. TrueRow(r, db.row[r], db.log[r], f)
      BY DEF TrueTables
    <3>2. CASE r = q
      <4>1. tables.log[r] = db.log[r] \union {h.arg}
        BY <1>0, <2>2, <3>2
      <4>2. tables.log[r] \intersect AnswerEvents # {} => r \in f.picked
        BY <2>1, <3>1, <3>2, <4>1 DEF TrueRow
      <4> QED BY <2>2, <3>1, <4>2 DEF TrueRow
    <3>3. CASE r # q
      BY <1>0, <2>2, <3>1, <3>3
    <3> QED BY <3>2, <3>3
  <2>4. Effect(h) = tables
    BY <1>7 DEF Effect
  <2> QED BY <2>3, <2>4 DEF TrueTables
<1>8. CASE h.op \notin Writes
  BY <1>8 DEF Effect, Writes
<1> QED BY <1>3, <1>4, <1>5, <1>6, <1>7, <1>8 DEF Writes

\* Whatever a truthful coroutine does next, the tables stay true.
LEMMA ExecuteTrue ==
  ASSUME Inv, [Next]_vars, RecordInv, NEW t, Serving(t), Execute(t)
  PROVE  TrueTables(db', Known') /\ TrueTables(disk', Known')
<1> DEFINE h == Op(t)
<1>1. /\ KnowsMore(Known, Known') /\ TrueTables(db, Known)
      /\ TrueTables(disk, Known) /\ TypeOK
  BY KnownGrows DEF RecordInv, Inv
<1>2. /\ t \in Tasks /\ task[t].st = "db" /\ task[t].todo # <<>>
      /\ t[1] \in Requests
  BY Served
<1>3. Truthful(t, task[t], Known)
  BY <1>2 DEF RecordInv, TrueTasks
<1>4. h \in Ready(t, Known) \/ h.op \notin Writes
  <2>1. ASSUME NEW S, task[t].todo \in Seq(S)
        PROVE  h \in S
    BY <1>2, <2>1 DEF Op
  <2>2. CASE task[t].todo \in Seq(Ready(t, Known))
    BY <2>1, <2>2
  <2>3. CASE task[t].todo \in Seq(Lookups(t[1]))
    BY <2>1, <2>3 DEF Lookups, Writes
  <2>4. CASE \E p \in Requests : task[t].todo \in Seq(Reads(p))
    BY <2>1, <2>4 DEF Reads, Writes
  <2> QED BY <1>3, <2>2, <2>3, <2>4 DEF Truthful
<1>5. TrueTables(Effect(h), Known)
  <2>1. CASE h.op \notin Writes
    BY <1>1, <2>1 DEF Effect, Writes
  <2> QED BY <1>1, <1>4, <2>1, EffectTrue
<1>6. db' = Effect(h) /\ disk' \in {db, disk}
  BY DEF Execute
<1> QED BY <1>1, <1>5, <1>6, TablesGrow

\* A coroutine that goes on stays truthful.
LEMMA WorkTrue ==
  ASSUME Inv, [Next]_vars, RecordInv, NEW t, Work(t)
  PROVE  Truthful(t, task'[t], Known')
<1> DEFINE h == Op(t)
           todo == task[t].todo
<1>1. /\ t \in Tasks /\ task[t].st = "db"
      /\ task'[t].part = task[t].part
      /\ task'[t].todo = Rest(t) /\ task'[t].seen = Seen(t)
  BY WorkGives
<1>2. /\ todo # <<>> /\ t[1] \in Requests /\ h.op # "decide"
      /\ todo \in Seq(Hops) /\ task[t].seen \in Statuses \union {Absent}
  BY <1>1, Served DEF Work, Inv, TypeOK, TaskRecords
<1>3. Truthful(t, task[t], Known) /\ KnowsMore(Known, Known')
  BY <1>1, KnownGrows DEF RecordInv, TrueTasks
<1>4. Truthful(t, task[t], Known')
  BY <1>3, TruthfulGrows
<1>5. ASSUME NEW S, todo \in Seq(S)
      PROVE  /\ h \in S /\ Tail(todo) \in Seq(S)
             /\ SubSeq(todo, 4, Len(todo)) \in Seq(S) /\ <<>> \in Seq(S)
  BY <1>2, <1>5 DEF Op
<1>6. t[2] = "exec" /\ task'[t].part = "rejected" => t[1] \in Known'.over
  BY <1>1, <1>4 DEF Truthful
<1>7. CASE todo \in Seq(Ready(t, Known'))
  <2>1. h.op # "route"
    BY <1>5, <1>7 DEF Ready
  <2>2. Rest(t) \in Seq(Ready(t, Known'))
    BY <1>5, <1>7, <2>1 DEF Rest
  <2> QED BY <1>1, <1>6, <2>2 DEF Truthful
<1>8. CASE /\ t[2] = "hangup" /\ t[1] \in Known'.ended
           /\ todo \in Seq(Lookups(t[1]))
           /\ task[t].seen # Absent => t[1] \in Known'.picked
  <2>1. h \in Lookups(t[1]) /\ Tail(todo) \in Seq(Lookups(t[1]))
    BY <1>5, <1>8
  <2>2. h.on = t[1] /\ h \in Hops /\ h.op \in {"find", "fetch", "route"}
    BY <2>1 DEF Lookups
  <2>3. CASE h.op # "route"
    <3>1. Rest(t) = Tail(todo)
      BY <2>2, <2>3 DEF Rest
    <3>2. db.row[t[1]].bound => t[1] \in Known'.picked
      BY <1>2, ExecuteTrue, <1>3 DEF RecordInv, TrueTables, TrueRow, KnowsMore
    <3>3. Seen(t) # Absent => t[1] \in Known'.picked
      BY <1>8, <2>2, <3>2 DEF Seen, ReadBy
    <3> QED BY <1>1, <1>6, <1>8, <2>1, <3>1, <3>3 DEF Truthful
  <2>4. CASE h.op = "route"
    <3>1. h.arg \in Statuses \union {"unmapped"}
      BY <2>2, <2>4 DEF Hops, HopSet
    <3>2. CASE task[t].seen = Absent
      <4>1. Rest(t) = <<>>
        BY <2>4, <3>2 DEF Rest
      <4> QED BY <1>1, <1>6, <4>1 DEF Truthful
    <3>3. CASE task[t].seen # Absent
      <4>1. Rest(t) = HangupBody(t[1], h.arg, task[t].seen)
        BY <2>2, <2>4, <3>3 DEF Rest
      <4>2. HangupBody(t[1], h.arg, task[t].seen) \in Seq(Ready(t, Known'))
        BY <1>2, <1>8, <3>1, <3>3, KnownOrder, ReadyHangup
      <4> QED BY <1>1, <1>6, <4>1, <4>2 DEF Truthful
    <3> QED BY <3>2, <3>3
  <2> QED BY <2>3, <2>4
<1>9. CASE /\ t[2] = "api"
           /\ \E p \in Requests : /\ todo \in Seq(Reads(p))
                                  /\ task[t].seen \in Retryable =>
                                       p \in Known'.over
  <2>1. PICK p \in Requests : /\ todo \in Seq(Reads(p))
                              /\ task[t].seen \in Retryable => p \in Known'.over
    BY <1>9
  <2>2. h \in Reads(p) /\ Tail(todo) \in Seq(Reads(p))
    BY <1>5, <2>1
  <2>3. h.on = p /\ h.op \in {"select", "fetch"}
    BY <1>2, <2>2 DEF Reads
  <2>4. Rest(t) = Tail(todo)
    BY <2>3 DEF Rest
  <2>5. db.row[p].status \in Retryable => p \in Known'.over
    BY <1>3 DEF RecordInv, TrueTables, TrueRow, TrueStatus, KnowsMore
  <2>6. Seen(t) \in Retryable => p \in Known'.over
    BY <2>1, <2>3, <2>5 DEF Seen, ReadBy
  <2> QED BY <1>1, <1>6, <1>9, <2>2, <2>4, <2>6 DEF Truthful
<1> QED BY <1>4, <1>7, <1>8, <1>9 DEF Truthful

-----------------------------------------------------------------------------
(* The steps *)

\* Tables that are not touched stay true.
LEMMA StoreKept ==
  ASSUME Inv, [Next]_vars, RecordInv, UNCHANGED store
  PROVE  TrueTables(db', Known') /\ TrueTables(disk', Known')
<1>1. db' = db /\ disk' = disk
  BY DEF store
<1> QED BY <1>1, KnownGrows, TablesGrow DEF RecordInv

\* A report is true if it is no other, or says nothing of a failure.
LEMMA ReportsKept ==
  ASSUME Inv, [Next]_vars, RecordInv,
         \A q \in Requests : due'[q] \in {due[q], "no", "answered"}
  PROVE  TrueReports(due', Known')
<1> SUFFICES ASSUME NEW q \in Requests, due'[q] \notin {"no", "answered"}
             PROVE  TrueStatus(q, due'[q], Known')
  BY DEF TrueReports
<1>1. due'[q] = due[q] /\ TrueStatus(q, due[q], Known)
  BY DEF RecordInv, TrueReports
<1> QED BY <1>1, KnownGrows DEF KnowsMore, TrueStatus

\* Statements that claim nothing untrue make a coroutine truthful.
LEMMA StatementsTrue ==
  ASSUME NEW t, NEW f, NEW part, NEW todo \in Seq(Ready(t, f)),
         t[2] = "exec" /\ part = "rejected" => t[1] \in f.over
  PROVE  Truthful(t, Coroutine("db", part, todo), f)
<1>1. /\ Coroutine("db", part, todo).part = part
      /\ Coroutine("db", part, todo).todo = todo
  BY DEF Coroutine
<1> QED BY <1>1 DEF Truthful

\* A coroutine that is given a truthful list leaves all of them truthful.
LEMMA PutTrue ==
  ASSUME Inv, [Next]_vars, RecordInv, NEW t \in Tasks, NEW part, NEW todo,
         NEW queue, Put(t, part, todo, queue),
         Truthful(t, Coroutine("db", part, todo), Known')
  PROVE  TrueTasks(task', Known')
<1>1. task \in [Tasks -> TaskRecords] /\ TypeOK
  BY DEF Inv, TypeOK
<1>2. task'[t] = Coroutine("db", part, todo)
      /\ \A u \in Tasks \ {t} : task'[u] = task[u]
  BY <1>1 DEF Put
<1> QED BY <1>1, <1>2, KnownGrows, TasksGrow DEF RecordInv

\* So does an event that starts a handler, or nothing.
LEMMA EmitTrue ==
  ASSUME Inv, [Next]_vars, RecordInv, NEW r \in Requests, NEW k \in Handlers,
         NEW todo, Emit(r, k, todo),
         Truthful(<<r, k>>, Coroutine("db", "", todo), Known')
  PROVE  TrueTasks(task', Known')
<1>1. <<r, k>> \in Tasks
  BY TaskNames
<1>2. CASE Put(<<r, k>>, "", todo, dbq)
  BY <1>1, <1>2, PutTrue
<1>3. CASE UNCHANGED task
  BY <1>3, KnownGrows, TruthfulGrows DEF RecordInv, TrueTasks
<1> QED BY <1>2, <1>3 DEF Emit

\* A coroutine that is no longer in the queue makes no claim.
LEMMA LeaveTrue ==
  ASSUME Inv, [Next]_vars, RecordInv, NEW t \in Tasks, NEW st, Leave(t, st),
         st # "db"
  PROVE  TrueTasks(task', Known')
<1>1. task'[t].st # "db" /\ \A u \in Tasks \ {t} : task'[u] = task[u]
  BY LeaveGives
<1> QED BY <1>1, KnownGrows, TasksGrow DEF RecordInv, Inv

\* send_otp_call and retry_call claim nothing.
LEMMA HttpTrue ==
  ASSUME Inv, [Next]_vars, RecordInv, NEW r \in Requests, Http(r)
  PROVE  RecordInv'
<1> DEFINE t == <<r, "api">>
<1>1. t \in Tasks /\ t[2] = "api"
  BY TaskNames
<1>2. UNCHANGED <<store, due>>
  BY DEF Http, Submit, SubmitRetry, asterisk
<1>3. CASE Submit(r)
  <2>1. CreateRecord(r, NoRequest) \in Seq(Ready(t, Known'))
    BY ReadyRecord
  <2>2. Truthful(t, Coroutine("db", "", CreateRecord(r, NoRequest)), Known')
    BY <2>1, StatementsTrue
  <2>3. Put(t, "", CreateRecord(r, NoRequest), dbq)
    BY <1>3 DEF Submit
  <2>4. TrueTasks(task', Known')
    BY <1>1, <2>2, <2>3, PutTrue
  <2> QED BY <1>2, <2>4, StoreKept, ReportsKept, RecordFromParts
<1>4. ASSUME NEW p \in Requests, SubmitRetry(r, p)
      PROVE  RecordInv'
  <2>1. ReadParent(p) \in Seq(Reads(p))
    <3>1. /\ Hop("select", p, "") \in Reads(p) /\ Hop("fetch", p, "") \in Reads(p)
          /\ Hop("decide", p, "") \in Reads(p)
      BY HopTypes DEF Reads, Hop
    <3> QED BY <3>1, Lists DEF ReadParent
  <2>2. Truthful(t, Coroutine("db", "", ReadParent(p)), Known')
    <3>1. /\ Coroutine("db", "", ReadParent(p)).todo = ReadParent(p)
          /\ Coroutine("db", "", ReadParent(p)).seen \notin Retryable
      BY DEF Coroutine, Absent, Retryable
    <3> QED BY <2>1, <3>1 DEF Truthful
  <2>3. Put(t, "", ReadParent(p), dbq)
    BY <1>4 DEF SubmitRetry
  <2>4. TrueTasks(task', Known')
    BY <1>1, <2>2, <2>3, PutTrue
  <2> QED BY <1>2, <2>4, StoreKept, ReportsKept, RecordFromParts
<1> QED BY <1>3, <1>4 DEF Http

\* A retry is admitted only of a call that is over.
LEMMA AdmitTrue ==
  ASSUME Inv, [Next]_vars, RecordInv, NEW t, AdmitRetry(t)
  PROVE  RecordInv'
<1> DEFINE h == Op(t)
           todo == CreateRecord(t[1], h.on) \o IncrementRetry(h.on)
<1>1. /\ Serving(t) /\ t[2] = "api" /\ h.op = "decide"
      /\ task[t].seen \in Retryable
      /\ Put(t, "", todo, Tail(dbq))
      /\ UNCHANGED <<store, due>>
  BY DEF AdmitRetry, Deciding, asterisk
<1>2. /\ t \in Tasks /\ t[1] \in Requests /\ t = <<t[1], "api">>
      /\ task[t].st = "db" /\ task[t].todo # <<>>
  BY <1>1, Served
<1>3. Truthful(t, task[t], Known')
  BY <1>2, KnownGrows, TruthfulGrows DEF RecordInv, TrueTasks
<1>4. ASSUME NEW S, task[t].todo \in Seq(S)
      PROVE  h \in S
  BY <1>2, <1>4 DEF Op
<1>5. task[t].todo \notin Seq(Ready(t, Known'))
  BY <1>1, <1>4 DEF Ready
<1>6. PICK p \in Requests : /\ task[t].todo \in Seq(Reads(p))
                            /\ task[t].seen \in Retryable => p \in Known'.over
  BY <1>1, <1>3, <1>5 DEF Truthful
<1>7. h.on = p /\ p \in Known'.over
  BY <1>1, <1>4, <1>6 DEF Reads
<1>8. todo \in Seq(Ready(t, Known'))
  <2>1. CreateRecord(t[1], p) \in Seq(Ready(t, Known'))
    BY <1>2, <1>7, ReadyRecord
  <2>2. IncrementRetry(p) \in Seq(Ready(t, Known'))
    BY <1>1, ReadyIncrement
  <2> QED BY <1>7, <2>1, <2>2, Lists
<1>9. Truthful(t, Coroutine("db", "", todo), Known')
  BY <1>1, <1>8, StatementsTrue
<1>10. TrueTasks(task', Known')
  BY <1>1, <1>2, <1>9, PutTrue
<1> QED BY <1>1, <1>10, StoreKept, ReportsKept, RecordFromParts

\* Whatever the worker executes, nothing untrue is recorded.
LEMMA ServeTrue ==
  ASSUME Inv, [Next]_vars, RecordInv, NEW t \in Tasks, Serve(t)
  PROVE  RecordInv'
<1>1. UNCHANGED due
  BY DEF Serve, Work, RefuseRetry, AdmitRetry, Accept, EnterTry, Release,
     EndHandler, asterisk
<1>2. CASE Work(t)
  <2>1. Serving(t) /\ Execute(t)
    BY <1>2 DEF Work
  <2>2. \A u \in Tasks \ {t} : task'[u] = task[u]
    BY <1>2, WorkGives
  <2>3. Truthful(t, task'[t], Known')
    BY <1>2, WorkTrue
  <2>4. TrueTasks(task', Known')
    BY <2>2, <2>3, KnownGrows, TasksGrow DEF RecordInv, Inv
  <2> QED BY <1>1, <2>1, <2>4, ExecuteTrue, ReportsKept, RecordFromParts
<1>3. CASE RefuseRetry(t)
  <2>1. Leave(t, "idle") /\ UNCHANGED store
    BY <1>3 DEF RefuseRetry
  <2>2. TrueTasks(task', Known')
    BY <2>1, LeaveTrue
  <2> QED BY <1>1, <2>1, <2>2, StoreKept, ReportsKept, RecordFromParts
<1>4. CASE EnterTry(t) \/ Release(t) \/ EndHandler(t)
  <2>1. Serving(t) /\ Execute(t)
    BY <1>4 DEF EnterTry, Release, EndHandler, LastHop
  <2>2. Leave(t, "send") \/ Leave(t, "done")
    BY <1>4 DEF EnterTry, Release, EndHandler
  <2>3. TrueTasks(task', Known')
    BY <2>2, LeaveTrue
  <2> QED BY <1>1, <2>1, <2>3, ExecuteTrue, ReportsKept, RecordFromParts
<1>5. CASE Accept(t)
  <2>1. Serving(t) /\ Execute(t)
    BY <1>5 DEF Accept, LastHop
  <2>2. /\ task'[t].st = "done" /\ task'[<<t[1], "exec">>].st = "ready"
        /\ \A u \in Tasks : u # t /\ u # <<t[1], "exec">> => task'[u] = task[u]
    BY <1>5, AcceptGives
  <2>3. ASSUME NEW u \in Tasks, task'[u].st = "db"
        PROVE  Truthful(u, task'[u], Known')
    <3>1. task'[u] = task[u]
      BY <2>2, <2>3
    <3> QED BY <2>3, <3>1, KnownGrows, TruthfulGrows DEF RecordInv, TrueTasks
  <2>4. TrueTasks(task', Known')
    BY <2>3 DEF TrueTasks
  <2> QED BY <1>1, <2>1, <2>4, ExecuteTrue, ReportsKept, RecordFromParts
<1> QED BY <1>2, <1>3, <1>4, <1>5, AdmitTrue DEF Serve

\* A failed statement ends a coroutine, or makes _execute_call report a call
\* that is over as failed.
LEMMA FaultTrue ==
  ASSUME Inv, [Next]_vars, RecordInv, NEW t \in Tasks, Fault(t)
  PROVE  RecordInv'
<1>1. UNCHANGED <<store, due>>
  BY DEF Fault, FaultInHandler, FaultBeforeTry, FaultInTry, FaultThenRelease,
     asterisk
<1>2. CASE FaultInTry(t)
  <2>1. /\ Serving(t) /\ t[2] = "exec" /\ task[t].part = "rejected"
        /\ Put(t, "except", OnFailed(t[1]), Tail(dbq))
    BY <1>2 DEF FaultInTry, Faulting
  <2>2. task[t].st = "db" /\ t[1] \in Requests
    BY <2>1, Served
  <2>3. t[1] \in Known'.over
    BY <2>1, <2>2, KnownGrows DEF RecordInv, TrueTasks, Truthful, KnowsMore
  <2>4. OnFailed(t[1]) \in Seq(Ready(t, Known'))
    <3>1. /\ TrueStatus(t[1], "failed", Known') /\ "failed" \in Statuses
      BY <2>3, KnownOrder, OverStatus DEF Retryable
    <3>2. Update(t[1], "failed") \in Seq(Ready(t, Known'))
      BY <2>1, <2>2, <3>1, ReadyUpdate DEF Update
    <3>3. AddEvent(t[1], "failed") \in Seq(Ready(t, Known'))
      BY <2>2, ReadyEvent DEF EventNames, AnswerEvents
    <3> QED BY <3>2, <3>3, Lists DEF OnFailed
  <2>5. TrueTasks(task', Known')
    BY <2>1, <2>4, StatementsTrue, PutTrue
  <2> QED BY <1>1, <2>5, StoreKept, ReportsKept, RecordFromParts
<1>3. CASE FaultInHandler(t) \/ FaultBeforeTry(t) \/ FaultThenRelease(t)
  <2>1. Leave(t, "done") \/ Leave(t, "lost")
    BY <1>3 DEF FaultInHandler, FaultBeforeTry, FaultThenRelease
  <2>2. TrueTasks(task', Known')
    BY <2>1, LeaveTrue
  <2> QED BY <1>1, <2>2, StoreKept, ReportsKept, RecordFromParts
<1> QED BY <1>2, <1>3 DEF Fault

\* _execute_call reports a call as failed only if it was never dialled or its
\* OriginateResponse is awaited no more.
LEMMA FailedTrue ==
  ASSUME Inv, OrphansDropped, [Next]_vars, RecordInv, NEW r \in Requests,
         OriginateNotAccepted(r) \/ OriginateTimeout(r)
  PROVE  RecordInv'
<1> DEFINE t == <<r, "exec">>
<1>1. /\ t \in Tasks /\ t[1] = r /\ t[2] = "exec"
      /\ Put(t, "rejected", OnFailed(r), dbq)
      /\ UNCHANGED <<store, due, call>>
  BY TaskNames DEF OriginateNotAccepted, OriginateTimeout, asterisk
<1>2. task'[t].st = "db" /\ task'[t].part = "rejected"
  BY <1>1, PutGives
<1>3. r \in Known'.over
  <2>1. CASE OriginateNotAccepted(r)
    <3>1. call[r] = "none"
      BY <2>1 DEF OriginateNotAccepted, Inv, DialledOnce, BeforeDialling
    <3>2. Over(r)'
      BY <1>1, <1>2, <3>1 DEF Over, BeforeDialling
    <3> QED BY <3>2 DEF Known
  <2>2. CASE OriginateTimeout(r)
    <3>1. CallEnded(r) \/ PlaysOn(r)
      BY <2>2 DEF OriginateTimeout, LongAgo, OrphansDropped, PlaysOn
    <3>2. used'["drop"] = used["drop"]
      BY <2>2 DEF OriginateTimeout
    <3>3. Over(r)'
      BY <1>1, <3>1, <3>2 DEF Over, CallEnded, PlaysOn
    <3> QED BY <3>3 DEF Known
  <2> QED BY <2>1, <2>2
<1>4. OnFailed(r) \in Seq(Ready(t, Known'))
  <2>1. /\ TrueStatus(r, "failed", Known') /\ "failed" \in Statuses
    BY <1>3, KnownOrder, OverStatus DEF Retryable
  <2>2. Update(r, "failed") \in Seq(Ready(t, Known'))
    BY <1>1, <2>1, ReadyUpdate DEF Update
  <2>3. AddEvent(r, "failed") \in Seq(Ready(t, Known'))
    BY <1>1, ReadyEvent DEF EventNames, AnswerEvents
  <2> QED BY <2>2, <2>3, Lists DEF OnFailed
<1>5. TrueTasks(task', Known')
  BY <1>1, <1>3, <1>4, StatementsTrue, PutTrue
<1> QED BY <1>1, <1>5, StoreKept, ReportsKept, RecordFromParts

\* Nothing that _execute_call begins to record is untrue.
LEMMA ExecutionTrue ==
  ASSUME Inv, OrphansDropped, [Next]_vars, RecordInv, NEW r \in Requests,
         Execution(r)
  PROVE  RecordInv'
<1> DEFINE t == <<r, "exec">>
<1>1. t \in Tasks /\ t[1] = r /\ t[2] = "exec"
  BY TaskNames
<1>2. CASE Acquire(r)
  <2>1. Put(t, "pre", BeforeTry(r), dbq) /\ UNCHANGED <<store, due>>
    BY <1>2 DEF Acquire, asterisk
  <2>2. Update(r, "originating") \in Seq(Ready(t, Known'))
    BY <1>1, PlainStatus, ReadyUpdate DEF Update
  <2>3. AddEvent(r, "originating") \in Seq(Ready(t, Known'))
    BY <1>1, ReadyEvent DEF EventNames, AnswerEvents
  <2>4. BeforeTry(r) \in Seq(Ready(t, Known'))
    BY <2>2, <2>3, Lists DEF BeforeTry
  <2>5. TrueTasks(task', Known')
    BY <1>1, <2>1, <2>4, StatementsTrue, PutTrue
  <2> QED BY <2>1, <2>5, StoreKept, ReportsKept, RecordFromParts
<1>3. CASE Originate(r)
  <2>1. /\ task' = [task EXCEPT ![t] = Fresh("wait")] /\ UNCHANGED <<store, due>>
    BY <1>3 DEF Originate
  <2>2. /\ task \in [Tasks -> TaskRecords] /\ TypeOK
    BY DEF Inv, TypeOK
  <2>3. /\ task'[t].st # "db" /\ \A u \in Tasks \ {t} : task'[u] = task[u]
    BY <1>1, <2>1, <2>2 DEF Fresh, Coroutine
  <2>4. TrueTasks(task', Known')
    BY <1>1, <2>2, <2>3, KnownGrows, TasksGrow DEF RecordInv
  <2> QED BY <2>1, <2>4, StoreKept, ReportsKept, RecordFromParts
<1> QED BY <1>2, <1>3, FailedTrue DEF Execution

\* A handler that is started by an event claims no more than the event says.
LEMMA HandlerTrue ==
  ASSUME Inv, [Next]_vars, RecordInv, NEW r \in Requests, NEW k \in Handlers,
         NEW todo \in Seq(Ready(<<r, k>>, Known')), Emit(r, k, todo),
         UNCHANGED store, TrueReports(due', Known')
  PROVE  RecordInv'
<1>1. Truthful(<<r, k>>, Coroutine("db", "", todo), Known')
  BY StatementsTrue
<1>2. TrueTasks(task', Known')
  BY <1>1, EmitTrue
<1> QED BY <1>2, StoreKept, RecordFromParts

\* A Hangup starts by reading, of a call that is over.
LEMMA HangupTrue ==
  ASSUME Inv, [Next]_vars, RecordInv, NEW r \in Requests, CallEnded(r)',
         NEW m \in Statuses \union {"unmapped"},
         Emit(r, "hangup", OnHangup(r, m)),
         UNCHANGED store, TrueReports(due', Known')
  PROVE  RecordInv'
<1> DEFINE todo == OnHangup(r, m)
<1>1. r \in Known'.ended
  BY DEF Known
<1>2. todo \in Seq(Lookups(r))
  <2>1. Hop("route", r, m) \in Hops
    BY DEF Hops, HopSet, Hop
  <2>2. /\ Hop("find", r, "") \in Lookups(r) /\ Hop("fetch", r, "") \in Lookups(r)
        /\ Hop("route", r, m) \in Lookups(r)
    BY <2>1, HopTypes DEF Lookups, Hop
  <2> QED BY <2>2, Lists DEF OnHangup, FindThen
<1>3. Truthful(<<r, "hangup">>, Coroutine("db", "", todo), Known')
  <2>1. /\ Coroutine("db", "", todo).todo = todo
        /\ Coroutine("db", "", todo).seen = Absent
    BY DEF Coroutine
  <2> QED BY <1>1, <1>2, <2>1 DEF Truthful
<1>4. TrueTasks(task', Known')
  BY <1>3, EmitTrue DEF Handlers
<1> QED BY <1>4, StoreKept, RecordFromParts

\* What the event handlers begin to record is true when the event is sent.
LEMMA ProgressTrue ==
  ASSUME Inv, [Next]_vars, RecordInv, NEW r \in Requests, Progress(r)
  PROVE  RecordInv'
<1>1. UNCHANGED store /\ call \in [Requests -> Phases]
      /\ due \in [Requests -> Statuses \union {"no"}]
  BY DEF Progress, Ring, Answer, StartDialplan, StartPlayback, FinishPlayback,
     HangUp, Drop, Refuse, Inv, TypeOK
<1>2. Handlers = {"ringing", "up", "callstart", "playing", "complete", "hangup",
                  "response"}
  BY DEF Handlers
<1>3. CASE ~Refuse(r)
  <2>1. TrueReports(due', Known')
    <3>1. due' = due \/ due' = [due EXCEPT ![r] = "answered"]
      BY <1>3 DEF Progress, Ring, Answer, StartDialplan, StartPlayback,
         FinishPlayback, HangUp, Drop
    <3>2. \A q \in Requests : due'[q] \in {due[q], "no", "answered"}
      BY <1>1, <3>1
    <3> QED BY <3>2, ReportsKept
  <2>2. CASE Ring(r)
    <3> DEFINE t == <<r, "ringing">>
    <3>1. Emit(r, "ringing", OnNewState(r, "ringing"))
      BY <2>2 DEF Ring
    <3>2. Update(r, "ringing") \in Seq(Ready(t, Known'))
      BY PlainStatus, ReadyUpdate DEF Update
    <3>3. AddEvent(r, "ringing") \in Seq(Ready(t, Known'))
      BY ReadyEvent DEF EventNames, AnswerEvents
    <3>4. FindThen("found", r, "") \in Seq(Ready(t, Known'))
      BY ReadyFind
    <3>5. OnNewState(r, "ringing") \in Seq(Ready(t, Known'))
      BY <3>2, <3>3, <3>4, Lists DEF OnNewState
    <3> QED BY <1>1, <1>2, <2>1, <3>1, <3>5, HandlerTrue
  <2>3. ASSUME r \in Known'.picked, Answer(r)
        PROVE  RecordInv'
    <3> DEFINE t == <<r, "up">>
    <3>1. Emit(r, "up", OnNewState(r, "answered"))
      BY <2>3 DEF Answer
    <3>2. Update(r, "answered") \in Seq(Ready(t, Known'))
      BY <2>3, AnswerStatus, ReadyUpdate DEF Update, AnswerStatuses
    <3>3. AddEvent(r, "answered") \in Seq(Ready(t, Known'))
      BY <2>3, ReadyEvent DEF EventNames
    <3>4. FindThen("found", r, "") \in Seq(Ready(t, Known'))
      BY ReadyFind
    <3>5. OnNewState(r, "answered") \in Seq(Ready(t, Known'))
      BY <3>2, <3>3, <3>4, Lists DEF OnNewState
    <3> QED BY <1>1, <1>2, <2>1, <3>1, <3>5, HandlerTrue
  <2>4. ASSUME r \in Known'.picked, StartDialplan(r)
        PROVE  RecordInv'
    <3> DEFINE t == <<r, "callstart">>
    <3>1. Emit(r, "callstart", OnCallStart(r))
      BY <2>4 DEF StartDialplan
    <3>2. UpdateVia("bind", r, "answered") \in Seq(Ready(t, Known'))
      BY <2>4, AnswerStatus, ReadyUpdate DEF AnswerStatuses
    <3>3. AddEvent(r, "dialplan_start") \in Seq(Ready(t, Known'))
      BY <2>4, ReadyEvent DEF EventNames
    <3>4. OnCallStart(r) \in Seq(Ready(t, Known'))
      BY <3>2, <3>3, Lists DEF OnCallStart
    <3> QED BY <1>1, <1>2, <2>1, <3>1, <3>4, HandlerTrue
  <2>5. ASSUME r \in Known'.picked, StartPlayback(r)
        PROVE  RecordInv'
    <3> DEFINE t == <<r, "playing">>
    <3>1. Emit(r, "playing", OnPlaybackStart(r))
      BY <2>5 DEF StartPlayback
    <3>2. Update(r, "playing") \in Seq(Ready(t, Known'))
      BY <2>5, AnswerStatus, ReadyUpdate DEF Update, AnswerStatuses
    <3>3. AddEvent(r, "playing") \in Seq(Ready(t, Known'))
      BY <2>5, ReadyEvent DEF EventNames
    <3>4. OnPlaybackStart(r) \in Seq(Ready(t, Known'))
      BY <3>2, <3>3, Lists DEF OnPlaybackStart
    <3> QED BY <1>1, <1>2, <2>1, <3>1, <3>4, HandlerTrue
  <2>6. ASSUME r \in Known'.picked, FinishPlayback(r)
        PROVE  RecordInv'
    <3> DEFINE t == <<r, "complete">>
    <3>1. Emit(r, "complete", OnPlaybackComplete(r)) /\ call'[r] = "played"
      BY <1>1, <2>6 DEF FinishPlayback
    <3>2. r \in Known'.final
      BY <3>1 DEF Known
    <3>3. Update(r, "completed") \in Seq(Ready(t, Known'))
      BY <2>6, <3>2, AnswerStatus, ReadyUpdate DEF Update, AnswerStatuses
    <3>4. AddEvent(r, "playback_complete") \in Seq(Ready(t, Known'))
      BY <2>6, ReadyEvent DEF EventNames
    <3>5. OnPlaybackComplete(r) \in Seq(Ready(t, Known'))
      BY <3>3, <3>4, Lists DEF OnPlaybackComplete
    <3> QED BY <1>1, <1>2, <2>1, <3>1, <3>5, HandlerTrue
  <2>7. CASE HangUp(r) \/ Drop(r)
    <3>1. CallEnded(r)'
      BY <1>1, <2>7 DEF HangUp, Drop, CallEnded
    <3>2. \E cause \in Int : Emit(r, "hangup", OnHangup(r, CauseStatus(cause)))
      BY <2>7, ParametersAssumption DEF HangUp, Drop
    <3> QED BY <1>1, <2>1, <3>1, <3>2, StatusTypes, HangupTrue
  <2>8. Answer(r) \/ StartDialplan(r) \/ StartPlayback(r) \/ FinishPlayback(r)
          => r \in Known'.picked
    <3>1. Answer(r) \/ StartDialplan(r) \/ StartPlayback(r) \/ FinishPlayback(r)
            => call'[r] \in PickedUp
      BY <1>1 DEF Answer, StartDialplan, StartPlayback, FinishPlayback, PickedUp
    <3> QED BY <3>1 DEF Known
  <2> QED BY <1>3, <2>2, <2>3, <2>4, <2>5, <2>6, <2>7, <2>8 DEF Progress
<1>4. CASE Refuse(r)
  <2>1. CallEnded(r)' /\ r \in Known'.over
    <3>1. CallEnded(r)'
      BY <1>1, <1>4 DEF Refuse, CallEnded
    <3> QED BY <3>1 DEF Known, Over
  <2>2. TrueReports(due', Known')
    <3>1. PICK reason \in Reasons : due' = [due EXCEPT ![r] = ReasonStatus(reason)]
      BY <1>4 DEF Refuse
    <3>2. ReasonStatus(reason) \in Retryable \union {"answered"}
      BY DEF ReasonStatus, Retryable
    <3>3. ASSUME NEW q \in Requests, due'[q] \notin {"no", "answered"}
          PROVE  TrueStatus(q, due'[q], Known')
      <4>1. CASE q = r
        <5>1. due'[r] = ReasonStatus(reason)
          BY <1>1, <3>1
        <5> QED BY <2>1, <3>2, <3>3, <4>1, <5>1, KnownOrder, OverStatus
      <4>2. CASE q # r
        <5>1. due'[q] = due[q]
          BY <1>1, <3>1, <4>2
        <5> QED BY <3>3, <5>1, KnownGrows
            DEF RecordInv, TrueReports, KnowsMore, TrueStatus
      <4> QED BY <4>1, <4>2
    <3> QED BY <3>3 DEF TrueReports
  <2>3. \E cause \in Int : Emit(r, "hangup", OnHangup(r, CauseStatus(cause)))
    BY <1>4, ParametersAssumption DEF Refuse
  <2> QED BY <1>1, <2>1, <2>2, <2>3, StatusTypes, HangupTrue
<1> QED BY <1>3, <1>4

\* An OriginateResponse is recorded as what it says.
LEMMA RespondTrue ==
  ASSUME Inv, [Next]_vars, RecordInv, NEW r \in Requests, Respond(r)
  PROVE  RecordInv'
<1> DEFINE todo == OnOriginateResponse(r, due[r])
<1>1. /\ due[r] # "no" /\ due' = [due EXCEPT ![r] = "no"] /\ UNCHANGED store
      /\ due \in [Requests -> Statuses \union {"no"}]
  BY DEF Respond, Inv, TypeOK
<1>2. TrueReports(due', Known')
  <2>1. \A q \in Requests : due'[q] \in {due[q], "no", "answered"}
    BY <1>1
  <2> QED BY <2>1, ReportsKept
<1>3. ASSUME NEW t, t[1] = r, t[2] # "api"
      PROVE  todo \in Seq(Ready(t, Known'))
  <2>1. AddEvent(r, "originate_response") \in Seq(Ready(t, Known'))
    BY <1>3, ReadyEvent DEF EventNames, AnswerEvents
  <2>2. CASE due[r] = "answered"
    <3>1. <<>> \in Seq(Ready(t, Known'))
      OBVIOUS
    <3> QED BY <2>1, <2>2, <3>1, Lists DEF OnOriginateResponse
  <2>3. CASE due[r] # "answered"
    <3>1. TrueStatus(r, due[r], Known') /\ due[r] \in Statuses
      BY <1>1, <2>3, KnownGrows
      DEF RecordInv, TrueReports, KnowsMore, TrueStatus
    <3>2. Update(r, due[r]) \in Seq(Ready(t, Known'))
      BY <1>3, <3>1, ReadyUpdate DEF Update
    <3> QED BY <2>1, <2>3, <3>2, Lists DEF OnOriginateResponse
  <2> QED BY <2>2, <2>3
<1>4. CASE Put(<<r, "exec">>, "forward", todo, dbq)
  <2>1. <<r, "exec">> \in Tasks
    BY TaskNames
  <2>2. todo \in Seq(Ready(<<r, "exec">>, Known'))
    BY <1>3
  <2>3. TrueTasks(task', Known')
    BY <1>4, <2>1, <2>2, StatementsTrue, PutTrue
  <2> QED BY <1>1, <1>2, <2>3, StoreKept, RecordFromParts
<1>5. CASE Emit(r, "response", todo)
  <2>1. todo \in Seq(Ready(<<r, "response">>, Known'))
    BY <1>3
  <2> QED BY <1>1, <1>2, <1>5, <2>1, HandlerTrue DEF Handlers
<1> QED BY <1>4, <1>5 DEF Respond

\* A mishap records nothing; a crash goes back to what was committed, which is
\* true.
LEMMA MishapTrue ==
  ASSUME Inv, [Next]_vars, RecordInv,
         Startup \/ Disconnect \/ Reconnect \/ Crash \/ UNCHANGED vars
  PROVE  RecordInv'
<1>1. disk' = disk /\ due' = due /\ db' \in {db, disk}
  BY DEF Startup, Disconnect, Reconnect, Crash, vars, store, asterisk
<1>2. TrueTables(db', Known') /\ TrueTables(disk', Known')
  BY <1>1, KnownGrows, TablesGrow DEF RecordInv
<1>3. ASSUME NEW t \in Tasks, task'[t].st = "db"
      PROVE  task'[t] = task[t]
  <2>1. CASE Startup \/ Reconnect \/ UNCHANGED vars
    BY <2>1 DEF Startup, Reconnect, vars
  <2>2. \A st \in {"orphan", "done"} : Fresh(st).st # "db"
    BY DEF Fresh, Coroutine
  <2>3. CASE Disconnect
    BY <1>3, <2>2, <2>3 DEF Disconnect
  <2>4. CASE Crash
    BY <1>3, <2>2, <2>4 DEF Crash
  <2> QED BY <2>1, <2>3, <2>4
<1>4. TrueTasks(task', Known')
  BY <1>3, KnownGrows, TruthfulGrows DEF RecordInv, TrueTasks
<1>5. TrueReports(due', Known')
  BY <1>1, ReportsKept
<1> QED BY <1>2, <1>4, <1>5, RecordFromParts

\* Nothing is recorded of a call that was never asked for.
LEMMA InitRecord == Init => RecordInv
<1> SUFFICES ASSUME Init PROVE RecordInv
  OBVIOUS
<1>1. /\ db = [row |-> [r \in Requests |-> NoRow],
               log |-> [r \in Requests |-> {}]]
      /\ disk = db /\ task = [t \in Tasks |-> Fresh("idle")]
      /\ due = [r \in Requests |-> "no"]
  BY DEF Init
<1>2. ASSUME NEW r \in Requests
      PROVE  TrueRow(r, NoRow, {}, Known)
  BY DEF TrueRow, TrueStatus, NoRow, Absent, AnswerStatuses, Retryable, Terminal
<1>3. TrueTables(db, Known)
  BY <1>1, <1>2 DEF TrueTables
<1>4. TrueTasks(task, Known)
  BY <1>1 DEF TrueTasks, Fresh, Coroutine
<1>5. TrueReports(due, Known)
  BY <1>1 DEF TrueReports
<1> QED BY <1>1, <1>3, <1>4, <1>5 DEF RecordInv

\* No step makes the record untrue.
LEMMA NextRecord ==
  Inv /\ OrphansDropped /\ RecordInv /\ [Next]_vars => RecordInv'
<1> SUFFICES ASSUME Inv, OrphansDropped, RecordInv, [Next]_vars
             PROVE  RecordInv'
  OBVIOUS
<1> QED BY HttpTrue, ServeTrue, FaultTrue, ExecutionTrue, ProgressTrue,
           RespondTrue, MishapTrue DEF Next

-----------------------------------------------------------------------------
(* The theorems *)

\* Nothing untrue is recorded, claimed by a statement that is still to be
\* executed, or found on disk after a restart.
THEOREM RecordsTrue == Spec => []RecordInv
<1>1. Init => OrphansDropped
  <2>1. SUFFICES ASSUME Init PROVE OrphansDropped
    OBVIOUS
  <2>2. \A t \in Tasks : task[t].st = "idle"
    BY <2>1 DEF Init, Fresh, Coroutine
  <2> QED BY <2>2, TaskNames DEF OrphansDropped
<1> QED BY <1>1, OrphansKept, InitRecord, NextRecord, Invariance, PTL DEF Spec

\* is_answered never claims an answer that did not happen: neither a Hangup
\* with normal clearing of a call that nobody picked up nor a stale read makes
\* update_call_status or add_event write one.
THEOREM AnswersTrue == Spec => []AnsweredIsTrue
<1>1. RecordInv => AnsweredIsTrue
  BY DEF RecordInv, TrueTables, TrueRow, TrueStatus, AnsweredIsTrue, IsAnswered,
     AnswerStatuses, AnswerEvents, Known
<1> QED BY <1>1, RecordsTrue, PTL

\* A status that lets the client retry is only ever recorded of a call that is
\* over, whatever timed out or failed, or of one that plays on after its link
\* was lost: never of one whose phone may still ring or be picked up.
THEOREM RetriesSafe == Spec => []RetryableMeansOver
<1>1. RecordInv => RetryableMeansOver
  <2>1. ASSUME NEW r \in Requests, r \in Known.over
        PROVE  ~Live(r) \/ PlaysOn(r)
    BY <2>1 DEF Known, Over, CallEnded, Live
  <2> QED BY <2>1 DEF RecordInv, TrueTables, TrueRow, TrueStatus,
          RetryableMeansOver
<1> QED BY <1>1, RecordsTrue, PTL

\* No phone rings for a retry while it may still ring for the call it replaces,
\* nor, while the link holds, while that call plays: retry_call's check of what
\* it read is as good as a check of the call.
THEOREM OneAttemptAtATime == Spec => []NoParallelAttempts
<1>1. RecordInv => NoParallelAttempts
  <2>1. ASSUME NEW p \in Requests, p \in Known.over
        PROVE  ~Live(p) \/ PlaysOn(p)
    BY <2>1 DEF Known, Over, CallEnded, Live
  <2>2. ASSUME RecordInv, NEW r \in Requests, NEW p \in Requests,
               db.row[r].parent = p
        PROVE  p \in Known.over
    BY <2>2, ParametersAssumption DEF RecordInv, TrueTables, TrueRow
  <2> QED BY <2>1, <2>2 DEF NoParallelAttempts
<1> QED BY <1>1, RecordsTrue, PTL

-----------------------------------------------------------------------------
(***************************************************************************)
(* What the 202 of send_otp_call and retry_call promises: the record and   *)
(* its first event are on disk before the background task exists, and      *)
(* retry_count counts the retries.                                         *)
(*                                                                         *)
(* The argument: how far an HTTP handler has come says what it has already *)
(* inserted, logged, counted and committed, and no other coroutine adds or *)
(* removes a record, whatever is served between two of its statements.     *)
(***************************************************************************)


\* What is left of the list P from its n-th statement on.
Left(P, n) == SubSeq(P, n, Len(P))

\* The statements of an admitted call, which may be a retry of call p.
Creation(r, p) ==
  CreateRecord(r, p) \o (IF p = NoRequest THEN <<>> ELSE IncrementRetry(p))

Busy(r) == task[<<r, "api">>].st = "db"
Todo(r) == task[<<r, "api">>].todo
Begun(r) == task[<<r, "exec">>].st # "idle"

\* The n-th statement of an admitted call is next: what the ones before it did.
Created(r, p, n) ==
  /\ n = 1 => db.row[r].status = Absent
  /\ n > 1 => db.row[r].status # Absent /\ db.row[r].parent = p
  /\ n > 2 => disk.row[r].status # Absent
  /\ n > 3 => "queued" \in db.log[r]
  /\ n > 4 => "queued" \in disk.log[r]

ReadingParent(r) ==
  \E p \in Requests : \E n \in 1..3 :
    /\ Todo(r) = Left(ReadParent(p), n)
    /\ db.row[r].status = Absent /\ Begun(p)

CreatingRecord(r) ==
  \E p \in Requests \union {NoRequest} : \E n \in 1..Len(Creation(r, p)) :
    /\ Todo(r) = Left(Creation(r, p), n)
    /\ Created(r, p, n) /\ (p # NoRequest => Begun(p))

Handled == \A r \in Requests : Busy(r) => ReadingParent(r) \/ CreatingRecord(r)

\* No record is on disk that the connection does not see.
DiskBehind ==
  \A r \in Requests :
    /\ disk.row[r].status # Absent => db.row[r].status # Absent
    /\ disk.log[r] \subseteq db.log[r]
    /\ db.row[r].status = Absent => db.row[r].parent = NoRequest
    /\ disk.row[r].status = Absent => disk.row[r].parent = NoRequest

CreationInv == Handled /\ DiskBehind /\ AckedIsDurable

NoMishap == \A m \in DOMAIN used : used[m] = 0

\* The retries of call p that have not yet been counted, and may never be.
Counts(todo, p) == \E i \in DOMAIN todo : todo[i] = Hop("bump", p, "")
Counting(r, p) == Busy(r) /\ Counts(Todo(r), p)
Counted(p) == {r \in Children(p) : ~Counting(r, p)}
ChildrenOnDisk(p) == {r \in Requests : disk.row[r].parent = p}

\* retry_count is the number of retries counted, except that a retry whose
\* handler died before it counted may be among them.
CountedUp(p) ==
  /\ db.row[p].retries <= Cardinality(Counted(p))
  /\ NoMishap => db.row[p].retries = Cardinality(Counted(p))
  /\ disk.row[p].retries <= Cardinality(ChildrenOnDisk(p))
  /\ db.row[p].status = Absent => db.row[p].retries = 0
  /\ disk.row[p].status = Absent => disk.row[p].retries = 0
CountInv == \A p \in Requests : CountedUp(p)

-----------------------------------------------------------------------------
(* Lists of statements *)

\* The argument of a statement that needs none.
NoArg == ""

\* Executing the first statement of what is left.
LEMMA LeftStep ==
  ASSUME NEW S, NEW P \in Seq(S), NEW n \in 1..Len(P)
  PROVE  /\ Left(P, n) # <<>> /\ Head(Left(P, n)) = P[n]
         /\ Tail(Left(P, n)) = Left(P, n + 1)
         /\ Len(Left(P, n)) = Len(P) - n + 1
         /\ \A i \in 1..Len(P) - n + 1 : Left(P, n)[i] = P[n + i - 1]
<1>1. /\ Left(P, n) \in Seq(S) /\ Len(Left(P, n)) = Len(P) - n + 1
      /\ \A i \in 1..Len(P) - n + 1 : Left(P, n)[i] = P[n + i - 1]
  BY DEF Left
<1>2. Head(Left(P, n)) = P[n] /\ Left(P, n) # <<>>
  BY <1>1
<1>3. Tail(Left(P, n)) = Left(P, n + 1)
  BY <1>1 DEF Left
<1> QED BY <1>1, <1>2, <1>3

\* Nothing is left of a list that is done, all of it of one not begun.
LEMMA LeftEnds ==
  ASSUME NEW S, NEW P \in Seq(S)
  PROVE  Left(P, 1) = P /\ Left(P, Len(P) + 1) = <<>>
BY DEF Left

\* retry_call reads its parent with three requests.
LEMMA ReadLayout ==
  ASSUME NEW p \in Requests
  PROVE  /\ ReadParent(p) \in Seq(Hops) /\ Len(ReadParent(p)) = 3
         /\ ReadParent(p)[1] = Hop("select", p, "")
         /\ ReadParent(p)[2] = Hop("fetch", p, "")
         /\ ReadParent(p)[3] = Hop("decide", p, "")
<1>1. ReadParent(p) \in Seq(Hops)
  BY CoroutineTypes, StatementTypes DEF Programs
<1> QED BY <1>1 DEF ReadParent

\* Two lists of two members, one after the other.
LEMMA TwoAndTwo ==
  ASSUME NEW S, NEW s \in Seq(S), NEW u \in Seq(S), Len(s) = 2, Len(u) = 2
  PROVE  /\ s \o u \in Seq(S) /\ Len(s \o u) = 4
         /\ (s \o u)[1] = s[1] /\ (s \o u)[2] = s[2]
         /\ (s \o u)[3] = u[1] /\ (s \o u)[4] = u[2]
<1> DEFINE w == s \o u
<1>1. /\ w \in Seq(S) /\ Len(w) = Len(s) + Len(u)
      /\ \A i \in 1..Len(s) + Len(u) :
           w[i] = IF i <= Len(s) THEN s[i] ELSE u[i - Len(s)]
  BY ConcatProperties
<1> HIDE DEF w
<1>2. Len(w) = 4 /\ \A i \in 1..4 : w[i] = IF i <= 2 THEN s[i] ELSE u[i - 2]
  BY <1>1
<1>3. w[1] = s[1] /\ w[2] = s[2] /\ w[3] = u[1] /\ w[4] = u[2]
  BY <1>2
<1> QED BY <1>1, <1>2, <1>3 DEF w

\* Four members and the list that follows them.
LEMMA FourAndMore ==
  ASSUME NEW S, NEW s \in Seq(S), NEW u \in Seq(S), Len(s) = 4
  PROVE  /\ s \o u \in Seq(S) /\ Len(s \o u) = 4 + Len(u)
         /\ (s \o u)[1] = s[1] /\ (s \o u)[2] = s[2]
         /\ (s \o u)[3] = s[3] /\ (s \o u)[4] = s[4]
         /\ Len(u) = 5 =>
              /\ (s \o u)[5] = u[1] /\ (s \o u)[6] = u[2] /\ (s \o u)[7] = u[3]
              /\ (s \o u)[8] = u[4] /\ (s \o u)[9] = u[5]
<1> DEFINE w == s \o u
<1>1. /\ w \in Seq(S) /\ Len(w) = Len(s) + Len(u)
      /\ \A i \in 1..Len(s) + Len(u) :
           w[i] = IF i <= Len(s) THEN s[i] ELSE u[i - Len(s)]
  BY ConcatProperties
<1>2. Len(u) \in Nat
  OBVIOUS
<1> HIDE DEF w
<1>3. /\ w \in Seq(S) /\ Len(w) = 4 + Len(u)
      /\ \A i \in 1..4 + Len(u) : w[i] = IF i <= 4 THEN s[i] ELSE u[i - 4]
  BY <1>1, <1>2
<1>4. w[1] = s[1] /\ w[2] = s[2] /\ w[3] = s[3] /\ w[4] = s[4]
  BY <1>2, <1>3
<1>5. CASE Len(u) = 5
  <2>1. \A i \in 5..9 : w[i] = u[i - 4]
    BY <1>3, <1>5
  <2>2. w[5] = u[1] /\ w[6] = u[2] /\ w[7] = u[3] /\ w[8] = u[4] /\ w[9] = u[5]
    BY <2>1
  <2> QED BY <1>3, <1>4, <2>2 DEF w
<1>6. CASE Len(u) # 5
  BY <1>3, <1>4, <1>6 DEF w
<1> QED BY <1>5, <1>6

\* An admitted call inserts its record, commits, logs its first event, commits.
LEMMA RecordLayout ==
  ASSUME NEW r \in Requests, NEW p \in Requests \union {NoRequest}
  PROVE  /\ CreateRecord(r, p) \in Seq(Hops) /\ Len(CreateRecord(r, p)) = 4
         /\ CreateRecord(r, p)[1] = Hop("insert", r, p)
         /\ CreateRecord(r, p)[2] = Hop("commit", r, "")
         /\ CreateRecord(r, p)[3] = Hop("log", r, "queued")
         /\ CreateRecord(r, p)[4] = Hop("commit", r, "")
<1> DEFINE A == <<Hop("insert", r, p), Hop("commit", r, "")>>
<1>1. Hop("insert", r, p) \in Hops
  BY DEF Hops, HopSet, Hop
<1>2. Hop("commit", r, "") \in Hops /\ Hop("log", r, "queued") \in Hops
  BY HopTypes DEF EventNames
<1>3. A \in Seq(Hops)
  BY <1>1, <1>2, Lists
<1>4. /\ Len(A) = 2
      /\ A[1] = Hop("insert", r, p) /\ A[2] = Hop("commit", r, "")
  OBVIOUS
<1>5. AddEvent(r, "queued") \in Seq(Hops)
  BY <1>2, Lists DEF AddEvent
<1>6. /\ Len(AddEvent(r, "queued")) = 2
      /\ AddEvent(r, "queued")[1] = Hop("log", r, "queued")
      /\ AddEvent(r, "queued")[2] = Hop("commit", r, "")
  BY DEF AddEvent
<1>7. CreateRecord(r, p) = A \o AddEvent(r, "queued")
  BY DEF CreateRecord
<1> DEFINE B == AddEvent(r, "queued")
<1> HIDE DEF A, B
<1>8. /\ A \o B \in Seq(Hops) /\ Len(A \o B) = 4
      /\ (A \o B)[1] = A[1] /\ (A \o B)[2] = A[2]
      /\ (A \o B)[3] = B[1] /\ (A \o B)[4] = B[2]
  <2>1. A \in Seq(Hops) /\ B \in Seq(Hops) /\ Len(A) = 2 /\ Len(B) = 2
    BY <1>3, <1>4, <1>5, <1>6 DEF B
  <2> QED BY <2>1, TwoAndTwo
<1> QED BY <1>4, <1>6, <1>7, <1>8 DEF B

\* increment_retry counts, commits and reads the record it has changed.
LEMMA IncrementLayout ==
  ASSUME NEW p \in Requests
  PROVE  /\ IncrementRetry(p) \in Seq(Hops) /\ Len(IncrementRetry(p)) = 5
         /\ IncrementRetry(p)[1] = Hop("bump", p, "")
         /\ IncrementRetry(p)[2] = Hop("commit", p, "")
         /\ IncrementRetry(p)[3] = Hop("select", p, "")
         /\ IncrementRetry(p)[4] = Hop("fetch", p, "")
         /\ IncrementRetry(p)[5] = Hop("close", p, "")
<1>1. IncrementRetry(p) \in Seq(Hops)
  BY HopTypes, Lists DEF IncrementRetry
<1> QED BY <1>1 DEF IncrementRetry

\* An admitted call creates its record; a retry then counts itself.
LEMMA CreationLayout ==
  ASSUME NEW r \in Requests, NEW p \in Requests \union {NoRequest}
  PROVE  /\ Creation(r, p) \in Seq(Hops)
         /\ Len(Creation(r, p)) = IF p = NoRequest THEN 4 ELSE 9
         /\ Creation(r, p)[1] = Hop("insert", r, p)
         /\ Creation(r, p)[2] = Hop("commit", r, "")
         /\ Creation(r, p)[3] = Hop("log", r, "queued")
         /\ Creation(r, p)[4] = Hop("commit", r, "")
         /\ p # NoRequest =>
              /\ Creation(r, p)[5] = Hop("bump", p, "")
              /\ Creation(r, p)[6] = Hop("commit", p, "")
              /\ Creation(r, p)[7] = Hop("select", p, "")
              /\ Creation(r, p)[8] = Hop("fetch", p, "")
              /\ Creation(r, p)[9] = Hop("close", p, "")
<1> DEFINE A == CreateRecord(r, p)
           B == IF p = NoRequest THEN <<>> ELSE IncrementRetry(p)
<1>1. /\ A \in Seq(Hops) /\ Len(A) = 4 /\ A[1] = Hop("insert", r, p)
      /\ A[2] = Hop("commit", r, "") /\ A[3] = Hop("log", r, "queued")
      /\ A[4] = Hop("commit", r, "")
  BY RecordLayout
<1>2. B \in Seq(Hops) /\ Len(B) = IF p = NoRequest THEN 0 ELSE 5
  <2>1. CASE p = NoRequest
    BY <2>1
  <2>2. CASE p # NoRequest
    BY <2>2, IncrementLayout
  <2> QED BY <2>1, <2>2
<1>3. p # NoRequest =>
        /\ B[1] = Hop("bump", p, "") /\ B[2] = Hop("commit", p, "")
        /\ B[3] = Hop("select", p, "") /\ B[4] = Hop("fetch", p, "")
        /\ B[5] = Hop("close", p, "")
  BY IncrementLayout
<1>4. Creation(r, p) = A \o B
  BY DEF Creation
<1> HIDE DEF A, B
<1>5. /\ A \o B \in Seq(Hops) /\ Len(A \o B) = 4 + Len(B)
      /\ (A \o B)[1] = A[1] /\ (A \o B)[2] = A[2]
      /\ (A \o B)[3] = A[3] /\ (A \o B)[4] = A[4]
      /\ Len(B) = 5 =>
           /\ (A \o B)[5] = B[1] /\ (A \o B)[6] = B[2] /\ (A \o B)[7] = B[3]
           /\ (A \o B)[8] = B[4] /\ (A \o B)[9] = B[5]
  <2>1. A \in Seq(Hops) /\ B \in Seq(Hops) /\ Len(A) = 4
    BY <1>1, <1>2
  <2> QED BY <2>1, FourAndMore
<1>6. Len(A \o B) = IF p = NoRequest THEN 4 ELSE 9
  BY <1>2, <1>5
<1>7. p # NoRequest =>
        /\ (A \o B)[5] = Hop("bump", p, "") /\ (A \o B)[6] = Hop("commit", p, "")
        /\ (A \o B)[7] = Hop("select", p, "") /\ (A \o B)[8] = Hop("fetch", p, "")
        /\ (A \o B)[9] = Hop("close", p, "")
  BY <1>2, <1>3, <1>5
<1> QED BY <1>1, <1>4, <1>5, <1>6, <1>7

\* What a statement does, to which record and with what.
LEMMA HopFields ==
  ASSUME NEW op, NEW r, NEW arg
  PROVE  /\ Hop(op, r, arg).op = op /\ Hop(op, r, arg).on = r
         /\ Hop(op, r, arg).arg = arg
BY DEF Hop

\* The n-th statement of retry_call's reading of its parent.
LEMMA ReadStep ==
  ASSUME NEW p \in Requests, NEW n \in 1..3
  PROVE  /\ Head(Left(ReadParent(p), n)) = ReadParent(p)[n]
         /\ Left(ReadParent(p), n) # <<>>
         /\ Tail(Left(ReadParent(p), n)) = Left(ReadParent(p), n + 1)
         /\ ReadParent(p)[n].op = "decide" <=> n = 3
         /\ ReadParent(p)[n].op \in {"select", "fetch", "decide"}
         /\ ReadParent(p)[n].on = p
<1> DEFINE P == ReadParent(p)
<1>1. P \in Seq(Hops) /\ n \in 1..Len(P)
  BY ReadLayout
<1>2. /\ Head(Left(P, n)) = P[n] /\ Left(P, n) # <<>>
      /\ Tail(Left(P, n)) = Left(P, n + 1)
  <2> HIDE DEF P
  <2> QED BY <1>1, LeftStep
<1>3. /\ P[1] = Hop("select", p, NoArg) /\ P[2] = Hop("fetch", p, NoArg)
      /\ P[3] = Hop("decide", p, NoArg)
  BY ReadLayout DEF NoArg
<1> DEFINE h == P[n]
<1> HIDE DEF P
<1>4. /\ n = 1 => h = Hop("select", p, NoArg)
      /\ n = 2 => h = Hop("fetch", p, NoArg)
      /\ n = 3 => h = Hop("decide", p, NoArg)
  BY <1>3
<1> HIDE DEF h
<1>5a. n = 1 => h.op = "select" /\ h.on = p
  BY <1>4, HopFields
<1>5b. n = 2 => h.op = "fetch" /\ h.on = p
  BY <1>4, HopFields
<1>5c. n = 3 => h.op = "decide" /\ h.on = p
  BY <1>4, HopFields
<1>6. n = 1 \/ n = 2 \/ n = 3
  OBVIOUS
<1>7. /\ h.op = "decide" <=> n = 3
      /\ h.op \in {"select", "fetch", "decide"} /\ h.on = p
  BY <1>5a, <1>5b, <1>5c, <1>6
<1> QED BY <1>2, <1>7 DEF h, P

\* The n-th statement of an admitted call.
LEMMA CreationStep ==
  ASSUME NEW r \in Requests, NEW p \in Requests \union {NoRequest},
         NEW n \in 1..Len(Creation(r, p))
  PROVE  /\ Head(Left(Creation(r, p), n)) = Creation(r, p)[n]
         /\ Left(Creation(r, p), n) # <<>>
         /\ Tail(Left(Creation(r, p), n)) = Left(Creation(r, p), n + 1)
         /\ n \in {1, 2, 3, 4, 5, 6, 7, 8, 9}
         /\ p = NoRequest => n \in {1, 2, 3, 4}
<1> DEFINE P == Creation(r, p)
<1>1. P \in Seq(Hops) /\ n \in 1..Len(P) /\ Len(P) = IF p = NoRequest THEN 4 ELSE 9
  BY CreationLayout
<1> HIDE DEF P
<1>2. /\ Head(Left(P, n)) = P[n] /\ Left(P, n) # <<>>
      /\ Tail(Left(P, n)) = Left(P, n + 1)
  BY <1>1, LeftStep
<1>3. /\ n \in {1, 2, 3, 4, 5, 6, 7, 8, 9}
      /\ p = NoRequest => n \in {1, 2, 3, 4}
  BY <1>1
<1> QED BY <1>2, <1>3 DEF P

\* What an admitted call does, and to which record.
LEMMA CreationOps ==
  ASSUME NEW r \in Requests, NEW p \in Requests \union {NoRequest},
         NEW n \in 1..Len(Creation(r, p))
  PROVE  /\ Creation(r, p)[n].op \in {"insert", "commit", "log", "bump",
                                      "select", "fetch", "close"}
         /\ Creation(r, p)[n].op = "insert" <=> n = 1
         /\ n = 1 => Creation(r, p)[n].on = r /\ Creation(r, p)[n].arg = p
         /\ Creation(r, p)[n].op = "commit" <=> n \in {2, 4, 6}
         /\ Creation(r, p)[n].op = "log" <=> n = 3
         /\ n = 3 => Creation(r, p)[n].on = r /\ Creation(r, p)[n].arg = "queued"
         /\ Creation(r, p)[n].op = "bump" <=> n = 5
         /\ n = 5 => Creation(r, p)[n].on = p
<1> DEFINE P == Creation(r, p)
<1>1. /\ n \in {1, 2, 3, 4, 5, 6, 7, 8, 9}
      /\ p = NoRequest => n \in {1, 2, 3, 4}
  BY CreationStep
<1>2. /\ P[1] = Hop("insert", r, p) /\ P[2] = Hop("commit", r, NoArg)
      /\ P[3] = Hop("log", r, "queued") /\ P[4] = Hop("commit", r, NoArg)
  BY CreationLayout DEF NoArg
<1>3. p # NoRequest =>
        /\ P[5] = Hop("bump", p, NoArg) /\ P[6] = Hop("commit", p, NoArg)
        /\ P[7] = Hop("select", p, NoArg) /\ P[8] = Hop("fetch", p, NoArg)
        /\ P[9] = Hop("close", p, NoArg)
  BY CreationLayout DEF NoArg
<1> DEFINE h == P[n]
<1> HIDE DEF P
<1>4. /\ n = 1 => h = Hop("insert", r, p)
      /\ n = 2 => h = Hop("commit", r, NoArg)
      /\ n = 3 => h = Hop("log", r, "queued")
      /\ n = 4 => h = Hop("commit", r, NoArg)
  BY <1>2
<1>5. ASSUME p # NoRequest
      PROVE  /\ n = 5 => h = Hop("bump", p, NoArg)
             /\ n = 6 => h = Hop("commit", p, NoArg)
             /\ n = 7 => h = Hop("select", p, NoArg)
             /\ n = 8 => h = Hop("fetch", p, NoArg)
             /\ n = 9 => h = Hop("close", p, NoArg)
  BY <1>3, <1>5
<1> HIDE DEF h
<1>6a. n = 1 => h.op = "insert" /\ h.on = r /\ h.arg = p
  BY <1>4, HopFields
<1>6b. n \in {2, 4} => h.op = "commit"
  BY <1>4, HopFields
<1>6c. n = 3 => h.op = "log" /\ h.on = r /\ h.arg = "queued"
  BY <1>4, HopFields
<1>6. ASSUME p # NoRequest
      PROVE  /\ n = 5 => h.op = "bump" /\ h.on = p
             /\ n = 6 => h.op = "commit"
             /\ n \in {7, 8, 9} => h.op \in {"select", "fetch", "close"}
  <2>1. n = 5 => h.op = "bump" /\ h.on = p
    BY <1>5, <1>6, HopFields
  <2>2. n = 6 => h.op = "commit"
    BY <1>5, <1>6, HopFields
  <2>3. n = 7 => h.op = "select"
    BY <1>5, <1>6, HopFields
  <2>4. n = 8 => h.op = "fetch"
    BY <1>5, <1>6, HopFields
  <2>5. n = 9 => h.op = "close"
    BY <1>5, <1>6, HopFields
  <2> QED BY <2>1, <2>2, <2>3, <2>4, <2>5
<1> QED BY <1>1, <1>6a, <1>6b, <1>6c, <1>6 DEF h, P

\* The list send_otp_call and retry_call are given is the whole of it.
LEMMA CreationWhole ==
  ASSUME NEW r \in Requests
  PROVE  /\ CreateRecord(r, NoRequest) = Left(Creation(r, NoRequest), 1)
         /\ \A p \in Requests : CreateRecord(r, p) \o IncrementRetry(p)
                                  = Left(Creation(r, p), 1)
         /\ \A p \in Requests : ReadParent(p) = Left(ReadParent(p), 1)
<1>1. CreateRecord(r, NoRequest) \in Seq(Hops)
  BY CoroutineTypes DEF Programs
<1>2. CreateRecord(r, NoRequest) = Creation(r, NoRequest)
  BY <1>1 DEF Creation
<1>3. \A p \in Requests : CreateRecord(r, p) \o IncrementRetry(p) = Creation(r, p)
  BY ParametersAssumption DEF Creation
<1>4. \A p \in Requests \union {NoRequest} :
         Creation(r, p) \in Seq(Hops) /\ Left(Creation(r, p), 1) = Creation(r, p)
  BY CreationLayout, LeftEnds
<1>5. \A p \in Requests : Left(ReadParent(p), 1) = ReadParent(p)
  BY ReadLayout, LeftEnds
<1> QED BY <1>2, <1>3, <1>4, <1>5

-----------------------------------------------------------------------------
(* Who does what *)

\* A coroutine ends, or goes on after the try, with its last statement.
Leaves(t) == EnterTry(t) \/ Release(t) \/ EndHandler(t)

\* The tables are left alone, no background task begins or is forgotten, an
\* HTTP handler begins its work, or gives it up after a failed statement.
Quiet ==
  /\ UNCHANGED store
  /\ \A q \in Requests : Begun(q)' = Begun(q)
  /\ \A q \in Requests :
       Busy(q)' => \/ Busy(q) /\ Todo(q)' = Todo(q)
                   \/ Submit(q) \/ (\E p \in Requests : SubmitRetry(q, p))
                   \/ AdmitRetry(<<q, "api">>)
  /\ \A q \in Requests :
       Busy(q) /\ ~Busy(q)' => RefuseRetry(<<q, "api">>) \/ used'["fault"] > 0

\* A background task or an event handler moves.
LEMMA QuietMove ==
  ASSUME Inv, UNCHANGED store, NEW t \in Tasks, t[2] # "api",
         \A u \in Tasks \ {t} : task'[u] = task[u],
         t[2] = "exec" => task[t].st # "idle" /\ task'[t].st # "idle"
  PROVE  Quiet
<1>1. ASSUME NEW q \in Requests
      PROVE  Begun(q)' = Begun(q)
  <2>1. <<q, "exec">> \in Tasks
    BY TaskNames
  <2>2. CASE t = <<q, "exec">>
    BY <2>2 DEF Begun
  <2>3. CASE t # <<q, "exec">>
    <3>1. task'[<<q, "exec">>] = task[<<q, "exec">>]
      BY <2>1, <2>3
    <3> QED BY <3>1 DEF Begun
  <2> QED BY <2>2, <2>3
<1>2. ASSUME NEW q \in Requests
      PROVE  task'[<<q, "api">>] = task[<<q, "api">>]
  <2>1. <<q, "api">> \in Tasks /\ <<q, "api">> # t
    BY TaskNames
  <2> QED BY <2>1
<1> QED BY <1>1, <1>2 DEF Quiet, Busy, Todo

\* An HTTP handler moves, and executes nothing.
LEMMA QuietHandler ==
  ASSUME Inv, UNCHANGED store, NEW r \in Requests,
         \A u \in Tasks \ {<<r, "api">>} : task'[u] = task[u],
         \/ Submit(r) \/ (\E p \in Requests : SubmitRetry(r, p))
         \/ AdmitRetry(<<r, "api">>)
         \/ ~Busy(r)' /\ (RefuseRetry(<<r, "api">>) \/ used'["fault"] > 0),
         Busy(r)' \/ RefuseRetry(<<r, "api">>) \/ used'["fault"] > 0
  PROVE  Quiet
<1>1. ASSUME NEW q \in Requests
      PROVE  Begun(q)' = Begun(q)
  <2>1. <<q, "exec">> \in Tasks \ {<<r, "api">>}
    BY TaskNames
  <2>2. task'[<<q, "exec">>] = task[<<q, "exec">>]
    BY <2>1
  <2> QED BY <2>2 DEF Begun
<1>2. ASSUME NEW q \in Requests, q # r
      PROVE  task'[<<q, "api">>] = task[<<q, "api">>]
  <2>1. <<q, "api">> \in Tasks \ {<<r, "api">>}
    BY <1>2, TaskNames
  <2> QED BY <2>1
<1> QED BY <1>1, <1>2 DEF Quiet, Busy, Todo

\* Nothing but the worker and a crash touches the tables.
LEMMA FaultIsQuiet ==
  ASSUME Inv, NEW t \in Tasks, Fault(t)
  PROVE  Quiet
<1>1. /\ Serving(t) /\ UNCHANGED store /\ Faulting(t)
      /\ used \in [{"drop", "crash", "fault"} -> Nat]
  BY DEF Fault, FaultInHandler, FaultBeforeTry, FaultInTry, FaultThenRelease,
     Faulting, Inv, TypeOK
<1>2. used'["fault"] > 0
  BY <1>1 DEF Faulting
<1>3. task[t].st = "db" /\ t[1] \in Requests /\ t = <<t[1], t[2]>>
  BY <1>1, Served
<1>4. PICK st \in {"db", "done", "lost"} :
        /\ task'[t].st = st /\ (t[2] = "api" => st = "done")
        /\ \A u \in Tasks \ {t} : task'[u] = task[u]
  <2>1. CASE FaultInTry(t)
    <3>1. Put(t, "except", OnFailed(t[1]), Tail(dbq)) /\ t[2] = "exec"
      BY <2>1 DEF FaultInTry
    <3> QED BY <3>1, PutGives
  <2>2. CASE FaultInHandler(t) \/ FaultBeforeTry(t) \/ FaultThenRelease(t)
    <3>1. /\ Leave(t, "done") \/ Leave(t, "lost")
          /\ t[2] = "api" => Leave(t, "done")
      BY <2>2 DEF FaultInHandler, FaultBeforeTry, FaultThenRelease
    <3> QED BY <3>1, LeaveGives
  <2> QED BY <2>1, <2>2 DEF Fault
<1>5. CASE t[2] # "api"
  BY <1>1, <1>3, <1>4, <1>5, QuietMove
<1>6. CASE t[2] = "api"
  <2>1. ~Busy(t[1])' /\ t = <<t[1], "api">>
    BY <1>3, <1>4, <1>6 DEF Busy
  <2> QED BY <1>1, <1>2, <1>3, <1>4, <2>1, QuietHandler
<1> QED BY <1>5, <1>6

\* Requests, timers and events do not touch the tables.
LEMMA EventIsQuiet ==
  ASSUME Inv, NEW r \in Requests,
         Http(r) \/ Execution(r) \/ Progress(r) \/ Respond(r)
  PROVE  Quiet
<1>0. /\ <<r, "api">> \in Tasks /\ <<r, "exec">> \in Tasks
      /\ \A k \in Handlers : <<r, k>> \in Tasks /\ k # "exec" /\ k # "api"
      /\ task \in [Tasks -> TaskRecords]
  BY TaskNames DEF Inv, TypeOK
<1>1. UNCHANGED store
  BY DEF Http, Submit, SubmitRetry, Execution, Acquire, Originate,
     OriginateNotAccepted, OriginateTimeout, Progress, Ring, Answer,
     StartDialplan, StartPlayback, FinishPlayback, HangUp, Drop, Refuse, Respond
<1>2. CASE Http(r)
  <2>1. /\ Submit(r) \/ \E p \in Requests : SubmitRetry(r, p)
        /\ \E part, todo, queue : Put(<<r, "api">>, part, todo, queue)
    BY <1>2 DEF Http, Submit, SubmitRetry
  <2>2. /\ \A u \in Tasks \ {<<r, "api">>} : task'[u] = task[u]
        /\ Busy(r)'
    BY <1>0, <2>1, PutGives DEF Busy
  <2> QED BY <1>1, <2>1, <2>2, QuietHandler
<1>3. ASSUME NEW part, NEW todo, NEW queue,
             Put(<<r, "exec">>, part, todo, queue), task[<<r, "exec">>].st # "idle"
      PROVE  Quiet
  <2>1. /\ task'[<<r, "exec">>].st = "db"
        /\ \A u \in Tasks \ {<<r, "exec">>} : task'[u] = task[u]
    BY <1>0, <1>3, PutGives
  <2> QED BY <1>0, <1>1, <1>3, <2>1, QuietMove
<1>4. ASSUME NEW k \in Handlers, NEW todo, Emit(r, k, todo)
      PROVE  Quiet
  <2>1. \A u \in Tasks \ {<<r, k>>} : task'[u] = task[u]
    BY <1>0, <1>4, PutGives DEF Emit
  <2> QED BY <1>0, <1>1, <2>1, QuietMove
<1>5. CASE Originate(r)
  <2>1. /\ task[<<r, "exec">>].st = "send"
        /\ task' = [task EXCEPT ![<<r, "exec">>] = Fresh("wait")]
        /\ Fresh("wait").st = "wait"
    BY <1>5 DEF Originate, Fresh, Coroutine
  <2>2. /\ task'[<<r, "exec">>].st = "wait"
        /\ \A u \in Tasks \ {<<r, "exec">>} : task'[u] = task[u]
    BY <1>0, <2>1
  <2> QED BY <1>0, <1>1, <2>1, <2>2, QuietMove
<1>6. CASE Acquire(r) \/ OriginateNotAccepted(r) \/ OriginateTimeout(r)
  <2>1. /\ task[<<r, "exec">>].st # "idle"
        /\ \E part, todo, queue : Put(<<r, "exec">>, part, todo, queue)
    BY <1>6 DEF Acquire, OriginateNotAccepted, OriginateTimeout
  <2> QED BY <1>3, <2>1
<1>7. CASE Progress(r)
  <2>1. \E k \in Handlers : \E todo : Emit(r, k, todo)
    BY <1>7 DEF Progress, Ring, Answer, StartDialplan, StartPlayback,
       FinishPlayback, HangUp, Drop, Refuse, Handlers
  <2> QED BY <1>4, <2>1
<1>8. CASE Respond(r)
  <2>1. \/ /\ task[<<r, "exec">>].st = "wait"
           /\ \E part, todo, queue : Put(<<r, "exec">>, part, todo, queue)
        \/ \E todo : Emit(r, "response", todo)
    BY <1>8 DEF Respond
  <2>2. "response" \in Handlers
    BY DEF Handlers
  <2> QED BY <1>3, <1>4, <2>1, <2>2
<1> QED BY <1>2, <1>5, <1>6, <1>7, <1>8 DEF Execution

\* Every step is quiet, a statement of one coroutine, or a crash.
LEMMA Steps ==
  ASSUME Inv, [Next]_vars
  PROVE  \/ Quiet \/ Crash
         \/ \E t \in Tasks : Work(t) \/ Accept(t) \/ Leaves(t)
<1>1. ASSUME NEW t \in Tasks, Serve(t), ~Work(t), ~Accept(t), ~Leaves(t)
      PROVE  Quiet
  <2>1. /\ RefuseRetry(t) \/ AdmitRetry(t)
        /\ Serving(t) /\ t[2] = "api" /\ UNCHANGED store
    BY <1>1 DEF Serve, Leaves, RefuseRetry, AdmitRetry, Deciding
  <2>2. t[1] \in Requests /\ t = <<t[1], "api">>
    BY <2>1, Served
  <2>3. CASE RefuseRetry(t)
    <3>1. Leave(t, "idle")
      BY <2>3 DEF RefuseRetry
    <3>2. ~Busy(t[1])' /\ \A u \in Tasks \ {t} : task'[u] = task[u]
      BY <2>2, <3>1, LeaveGives DEF Busy
    <3> QED BY <2>1, <2>2, <2>3, <3>2, QuietHandler
  <2>4. CASE AdmitRetry(t)
    <3>1. Put(t, "", CreateRecord(t[1], Op(t).on) \o IncrementRetry(Op(t).on),
              Tail(dbq))
      BY <2>4 DEF AdmitRetry
    <3>2. Busy(t[1])' /\ \A u \in Tasks \ {t} : task'[u] = task[u]
      BY <2>2, <3>1, PutGives DEF Busy
    <3> QED BY <2>1, <2>2, <2>4, <3>2, QuietHandler
  <2> QED BY <2>1, <2>3, <2>4
<1>2. CASE Startup \/ Disconnect \/ Reconnect \/ UNCHANGED vars
  <2>1. UNCHANGED store
    BY <1>2 DEF Startup, Disconnect, Reconnect, vars, store
  <2>2. ASSUME NEW t \in Tasks
        PROVE  \/ task'[t] = task[t]
               \/ task[t].st = "wait" /\ task'[t].st = "orphan"
    <3>1. Fresh("orphan").st = "orphan"
      BY DEF Fresh, Coroutine
    <3>2. CASE Disconnect
      BY <3>1, <3>2 DEF Disconnect
    <3>3. CASE Startup \/ Reconnect \/ UNCHANGED vars
      BY <3>3 DEF Startup, Reconnect, vars
    <3> QED BY <1>2, <3>2, <3>3
  <2>3. \A q \in Requests : <<q, "exec">> \in Tasks /\ <<q, "api">> \in Tasks
    BY TaskNames
  <2>4. ASSUME NEW q \in Requests
        PROVE  Begun(q)' = Begun(q)
    BY <2>2, <2>3 DEF Begun
  <2>5. ASSUME NEW q \in Requests
        PROVE  Busy(q)' = Busy(q) /\ (Busy(q) => Todo(q)' = Todo(q))
    BY <2>2, <2>3 DEF Busy, Todo
  <2> QED BY <2>1, <2>4, <2>5 DEF Quiet
<1> QED BY <1>1, <1>2, EventIsQuiet, FaultIsQuiet DEF Next

-----------------------------------------------------------------------------
(* What a statement does to a record *)

\* A statement changes what it is about, and a commit makes the rest durable.
LEMMA EffectOn ==
  ASSUME Inv, NEW t, Serving(t), Execute(t), NEW r \in Requests
  PROVE  LET h == Op(t)
         IN /\ ~(h.op = "insert" /\ h.on = r) =>
                 /\ db'.row[r].parent = db.row[r].parent
                 /\ ~(h.op \in {"write", "bind"} /\ h.on = r) =>
                      db'.row[r].status = db.row[r].status
                 /\ h.op \in {"write", "bind"} /\ h.on = r =>
                      db'.row[r].status \in Statuses
                 /\ ~(h.op = "bump" /\ h.on = r) =>
                      db'.row[r].retries = db.row[r].retries
                 /\ h.op = "bump" /\ h.on = r =>
                      db'.row[r].retries = db.row[r].retries + 1
            /\ h.op = "insert" /\ h.on = r =>
                 /\ db'.row[r].parent = h.arg /\ db'.row[r].status = "queued"
                 /\ db'.row[r].retries = 0
            /\ db.log[r] \subseteq db'.log[r]
            /\ h.op = "log" /\ h.on = r => h.arg \in db'.log[r]
            /\ h.op = "commit" => disk' = db
            /\ h.op # "commit" => disk' = disk
<1> DEFINE h == Op(t)
<1>1. t \in Tasks /\ task[t].todo # <<>>
  BY Served
<1>2. /\ h \in Hops /\ h.on \in Requests /\ db \in Databases
      /\ db.row \in [Requests -> Rows] /\ db.log \in [Requests -> SUBSET EventNames]
  BY <1>1, HopOfTask DEF Inv, TypeOK, Databases, Hops, HopSet
<1>3. db' = Effect(h) /\ disk' = IF h.op = "commit" THEN db ELSE disk
  BY DEF Execute
<1>4. ASSUME NEW row, db' = SetRow(h.on, row)
      PROVE  /\ db'.log = db.log
             /\ db'.row[r] = IF r = h.on THEN row ELSE db.row[r]
  BY <1>2, <1>4 DEF SetRow, Databases
<1>5. CASE h.op = "insert"
  <2> DEFINE row == [NoRow EXCEPT !.status = "queued", !.parent = h.arg]
  <2>0. row.status = "queued" /\ row.parent = h.arg /\ row.retries = 0
    BY DEF NoRow
  <2>1. db' = SetRow(h.on, row)
    BY <1>3, <1>5 DEF Effect
  <2> HIDE DEF row
  <2>2. /\ db'.log = db.log
        /\ r # h.on => db'.row[r] = db.row[r]
        /\ r = h.on =>
             /\ db'.row[r].parent = h.arg /\ db'.row[r].status = "queued"
             /\ db'.row[r].retries = 0
    BY <1>4, <2>0, <2>1
  <2> QED BY <1>3, <1>5, <2>2
<1>6. CASE h.op \in {"write", "bind"}
  <2>1. h.arg \in Statuses
    BY <1>2, <1>6 DEF Hops, HopSet
  <2>2. PICK row \in Rows :
          /\ db' = SetRow(h.on, row) /\ row.parent = db.row[h.on].parent
          /\ row.status = h.arg /\ row.retries = db.row[h.on].retries
    <3>1. CASE h.op = "write"
      <4> DEFINE row == [db.row[h.on] EXCEPT !.status = h.arg]
      <4>1. db' = SetRow(h.on, row)
        BY <1>3, <3>1 DEF Effect
      <4>2. /\ row \in Rows /\ row.parent = db.row[h.on].parent
            /\ row.status = h.arg /\ row.retries = db.row[h.on].retries
        BY <1>2, <2>1 DEF Rows
      <4> QED BY <4>1, <4>2
    <3>2. CASE h.op = "bind"
      <4> DEFINE row == [db.row[h.on] EXCEPT !.status = h.arg, !.bound = TRUE]
      <4>0. Effect(h) = SetRow(h.on, row)
        BY ONLY <3>2 DEF Effect
      <4>1. db' = SetRow(h.on, row)
        BY ONLY <1>3, <4>0
      <4>2. /\ row \in Rows /\ row.parent = db.row[h.on].parent
            /\ row.status = h.arg /\ row.retries = db.row[h.on].retries
        <5> DEFINE old == db.row[h.on]
                   s == h.arg
        <5>1. old \in Rows /\ s \in Statuses
          BY <1>2, <2>1
        <5> HIDE DEF old, s
        <5>2. LET new == [old EXCEPT !.status = s, !.bound = TRUE]
              IN /\ new \in Rows /\ new.parent = old.parent
                 /\ new.status = s /\ new.retries = old.retries
          BY ONLY <5>1 DEF Rows
        <5> QED BY <5>2 DEF old, s
      <4> QED BY <4>1, <4>2
    <3> QED BY <1>6, <3>1, <3>2
  <2>3. db'.log = db.log /\ db'.row[r] = IF r = h.on THEN row ELSE db.row[r]
    BY <1>4, <2>2
  <2> QED BY <1>3, <1>6, <2>1, <2>2, <2>3
<1>7. CASE h.op = "bump"
  <2>1. db' = SetRow(h.on, [db.row[h.on] EXCEPT !.retries = @ + 1])
    BY <1>3, <1>7 DEF Effect
  <2> DEFINE row == [db.row[h.on] EXCEPT !.retries = @ + 1]
  <2>3. db.row[h.on] \in Rows
    BY <1>2
  <2>4. /\ row.parent = db.row[h.on].parent /\ row.status = db.row[h.on].status
        /\ row.retries = db.row[h.on].retries + 1
    BY <2>3 DEF Rows
  <2>5. db' = SetRow(h.on, row)
    BY <2>1
  <2> HIDE DEF row, h
  <2>2. /\ db'.log = db.log
        /\ r # h.on => db'.row[r] = db.row[r]
        /\ r = h.on =>
             /\ db'.row[r].parent = db.row[r].parent
             /\ db'.row[r].status = db.row[r].status
             /\ db'.row[r].retries = db.row[r].retries + 1
    BY <1>4, <2>4, <2>5
  <2> QED BY <1>3, <1>7, <2>2 DEF h
<1>8. CASE h.op = "log"
  <2>1. db' = [db EXCEPT !.log[h.on] = @ \union {h.arg}]
    BY <1>3, <1>8 DEF Effect
  <2>2. db'.row = db.row /\ db'.log = [db.log EXCEPT ![h.on] = @ \union {h.arg}]
    BY <1>2, <2>1 DEF Databases
  <2>3. db.log[r] \subseteq db'.log[r] /\ (r = h.on => h.arg \in db'.log[r])
    BY <1>2, <2>2
  <2> QED BY <1>3, <1>8, <2>2, <2>3
<1>9. CASE h.op \notin {"insert", "write", "bind", "bump", "log"}
  <2>1. db' = db
    BY <1>3, <1>9 DEF Effect
  <2> QED BY <1>3, <1>9, <2>1
<1> QED BY <1>5, <1>6, <1>7, <1>8, <1>9

\* No statement removes a record, and the disk stays behind.
LEMMA TablesGo ==
  ASSUME Inv, DiskBehind, NEW t, Serving(t), Execute(t), NEW r \in Requests
  PROVE  /\ db.row[r].status # Absent => db'.row[r].status # Absent
         /\ db.log[r] \subseteq db'.log[r]
         /\ disk.row[r].status # Absent => disk'.row[r].status # Absent
         /\ disk.log[r] \subseteq disk'.log[r]
         /\ disk'.row[r].status # Absent => db'.row[r].status # Absent
         /\ disk'.log[r] \subseteq db'.log[r]
         /\ db'.row[r].status = Absent => db'.row[r].parent = NoRequest
         /\ disk'.row[r].status = Absent => disk'.row[r].parent = NoRequest
<1>1. Absent \notin Statuses /\ "queued" # Absent
  BY DEF Absent, Statuses, InProgress, Terminal, Retryable
<1>2. /\ db.row[r].status # Absent => db'.row[r].status # Absent
      /\ db.log[r] \subseteq db'.log[r]
      /\ db'.row[r].status = Absent =>
           db.row[r].status = Absent /\ db'.row[r].parent = db.row[r].parent
      /\ disk' = db \/ disk' = disk
  BY <1>1, EffectOn
<1> QED BY <1>2 DEF DiskBehind

\* A background task or an event handler changes only what its own call has.
LEMMA OpOfOthers ==
  ASSUME Inv, RecordInv, NEW t, Serving(t), t[2] # "api"
  PROVE  /\ Op(t).on = t[1] /\ Op(t).op \notin {"insert", "bump"}
         /\ Begun(t[1])
<1>1. /\ t \in Tasks /\ t[1] \in Requests /\ t[2] \in Kinds
      /\ t = <<t[1], t[2]>> /\ task[t].st = "db" /\ task[t].todo # <<>>
  BY Served
<1>2. Truthful(t, task[t], Known)
  BY <1>1 DEF RecordInv, TrueTasks
<1>3. ASSUME NEW S, task[t].todo \in Seq(S)
      PROVE  Op(t) \in S
  BY <1>1, <1>3 DEF Op
<1>4. ASSUME task[t].todo \in Seq(Ready(t, Known))
      PROVE  Op(t).on = t[1] /\ Op(t).op \notin {"insert", "bump"}
  <2>1. Op(t) \in Ready(t, Known)
    BY <1>3, <1>4
  <2> QED BY <2>1 DEF Ready
<1>5. ASSUME task[t].todo \in Seq(Lookups(t[1]))
      PROVE  Op(t).on = t[1] /\ Op(t).op \notin {"insert", "bump"}
  <2>1. Op(t) \in Lookups(t[1])
    BY <1>3, <1>5
  <2> QED BY <2>1 DEF Lookups
<1>6. Begun(t[1])
  <2>1. CASE t[2] = "exec"
    BY <1>1, <2>1 DEF Begun
  <2>2. CASE t[2] \in Handlers
    <3>1. t[2] \in Started(call[t[1]])
      BY <1>1, <2>2 DEF Inv, HandlersFollowCall
    <3>2. call[t[1]] # "none"
      BY <3>1 DEF Started
    <3> QED BY <1>1, <3>2 DEF Inv, DialledOnce, BeforeDialling, Begun
  <2> QED BY <1>1, <2>1, <2>2 DEF Kinds
<1> QED BY <1>2, <1>4, <1>5, <1>6 DEF Truthful

\* An HTTP handler creates the record of its own call only.
LEMMA OpOfHandlers ==
  ASSUME Inv, Handled, NEW r \in Requests, Serving(<<r, "api">>)
  PROVE  /\ Op(<<r, "api">>).op \notin {"write", "bind"}
         /\ Op(<<r, "api">>).op = "insert" => Op(<<r, "api">>).on = r
<1>1. Busy(r) /\ Op(<<r, "api">>) = Head(Todo(r))
  BY Served DEF Busy, Op, Todo
<1>2. CASE ReadingParent(r)
  <2>1. PICK p \in Requests, n \in 1..3 : Todo(r) = Left(ReadParent(p), n)
    BY <1>2 DEF ReadingParent
  <2>2. Op(<<r, "api">>) = ReadParent(p)[n]
    BY <1>1, <2>1, ReadStep
  <2>3. ReadParent(p)[n].op \in {"select", "fetch", "decide"}
    BY ReadStep
  <2> QED BY <2>2, <2>3
<1>3. CASE CreatingRecord(r)
  <2>1. PICK p \in Requests \union {NoRequest} :
          \E n \in 1..Len(Creation(r, p)) : Todo(r) = Left(Creation(r, p), n)
    BY <1>3 DEF CreatingRecord
  <2>2. PICK n \in 1..Len(Creation(r, p)) : Todo(r) = Left(Creation(r, p), n)
    BY <2>1
  <2>3. /\ Op(<<r, "api">>) = Creation(r, p)[n]
        /\ n \in {1, 2, 3, 4, 5, 6, 7, 8, 9}
        /\ p = NoRequest => n \in {1, 2, 3, 4}
    BY <1>1, <2>2, CreationStep
  <2>4. /\ Creation(r, p)[n].op \notin {"write", "bind"}
        /\ Creation(r, p)[n].op = "insert" => Creation(r, p)[n].on = r
    BY <2>2, CreationOps
  <2> QED BY <2>3, <2>4
<1> QED BY <1>1, <1>2, <1>3 DEF Handled

\* To the record of a call whose HTTP handler is not served, nothing is done
\* that this handler could have noticed.
LEMMA RecordKept ==
  ASSUME Inv, RecordInv, CreationInv, NEW t, Serving(t), Execute(t),
         NEW r \in Requests, t # <<r, "api">>
  PROVE  /\ db'.row[r].status = Absent <=> db.row[r].status = Absent
         /\ db'.row[r].parent = db.row[r].parent
<1>1. t[1] \in Requests /\ t = <<t[1], t[2]>>
  BY Served
<1>2. ~(Op(t).op = "insert" /\ Op(t).on = r)
  <2>1. CASE t[2] = "api"
    BY <1>1, <2>1, OpOfHandlers DEF CreationInv
  <2>2. CASE t[2] # "api"
    BY <2>2, OpOfOthers
  <2> QED BY <2>1, <2>2
<1>3. Op(t).op \in {"write", "bind"} /\ Op(t).on = r =>
        db.row[r].status # Absent
  <2>1. CASE t[2] = "api"
    BY <1>1, <2>1, OpOfHandlers DEF CreationInv
  <2>2. CASE t[2] # "api"
    BY <2>2, OpOfOthers DEF CreationInv, AckedIsDurable, DiskBehind, Begun
  <2> QED BY <2>1, <2>2
<1>4. Absent \notin Statuses
  BY DEF Absent, Statuses, InProgress, Terminal, Retryable
<1>5. /\ db'.row[r].parent = db.row[r].parent
      /\ ~(Op(t).op \in {"write", "bind"} /\ Op(t).on = r) =>
           db'.row[r].status = db.row[r].status
      /\ Op(t).op \in {"write", "bind"} /\ Op(t).on = r =>
           db'.row[r].status \in Statuses
  BY <1>2, EffectOn
<1> QED BY <1>3, <1>4, <1>5

-----------------------------------------------------------------------------
(* Every step *)

\* The tables change only when a statement is executed, or in a crash.
LEMMA TablesMove ==
  ASSUME Inv, [Next]_vars
  PROVE  UNCHANGED store \/ Crash \/ \E t : Serving(t) /\ Execute(t)
BY Steps DEF Quiet, Work, Accept, Leaves, EnterTry, Release, EndHandler, LastHop

\* A background task begins with its handler's 202, and is not forgotten.
LEMMA BegunMoves ==
  ASSUME Inv, [Next]_vars, NEW q \in Requests
  PROVE  /\ Begun(q) => Begun(q)'
         /\ ~Begun(q) /\ Begun(q)' => Accept(<<q, "api">>)
<1>0. <<q, "exec">> \in Tasks
  BY TaskNames
<1>1. CASE Quiet
  BY <1>1 DEF Quiet
<1>2. CASE Crash
  <2>1. task'[<<q, "exec">>] = IF task[<<q, "exec">>].st = "idle"
                               THEN task[<<q, "exec">>] ELSE Fresh("done")
    BY <1>0, <1>2 DEF Crash
  <2>2. Fresh("done").st = "done"
    BY DEF Fresh, Coroutine
  <2> QED BY <2>1, <2>2 DEF Begun
<1>3. ASSUME NEW t \in Tasks, Work(t)
      PROVE  Begun(q)' = Begun(q)
  <2>1. /\ task[t].st = "db" /\ task'[t].st = "db"
        /\ \A u \in Tasks \ {t} : task'[u] = task[u]
    BY <1>3, WorkGives
  <2>2. CASE t = <<q, "exec">>
    BY <2>1, <2>2 DEF Begun
  <2>3. CASE t # <<q, "exec">>
    <3>1. task'[<<q, "exec">>] = task[<<q, "exec">>]
      BY <1>0, <2>1, <2>3
    <3> QED BY <3>1 DEF Begun
  <2> QED BY <2>2, <2>3
<1>4. ASSUME NEW t \in Tasks, Leaves(t)
      PROVE  Begun(q)' = Begun(q)
  <2>1. /\ Serving(t)
        /\ Leave(t, "send") \/ Leave(t, "done")
    BY <1>4 DEF Leaves, EnterTry, Release, EndHandler, LastHop
  <2>2. task[t].st = "db"
    BY <2>1, Served
  <2>3. /\ task'[t].st \in {"send", "done"}
        /\ \A u \in Tasks \ {t} : task'[u] = task[u]
    BY <2>1, LeaveGives
  <2>4. CASE t = <<q, "exec">>
    BY <2>2, <2>3, <2>4 DEF Begun
  <2>5. CASE t # <<q, "exec">>
    <3>1. task'[<<q, "exec">>] = task[<<q, "exec">>]
      BY <1>0, <2>3, <2>5
    <3> QED BY <3>1 DEF Begun
  <2> QED BY <2>4, <2>5
<1>5. ASSUME NEW t \in Tasks, Accept(t)
      PROVE  /\ Begun(q) => Begun(q)'
             /\ ~Begun(q) /\ Begun(q)' => Accept(<<q, "api">>)
  <2>1. /\ t[1] \in Requests /\ t = <<t[1], "api">>
        /\ task'[<<t[1], "exec">>].st = "ready"
        /\ \A u \in Tasks : u # t /\ u # <<t[1], "exec">> => task'[u] = task[u]
    BY <1>5, AcceptGives
  <2>2. CASE t[1] = q
    BY <1>5, <2>1, <2>2 DEF Begun
  <2>3. CASE t[1] # q
    <3>1. <<q, "exec">> # t /\ <<q, "exec">> # <<t[1], "exec">>
      BY <2>1, <2>3, TaskNames
    <3>2. task'[<<q, "exec">>] = task[<<q, "exec">>]
      BY <1>0, <2>1, <3>1
    <3> QED BY <3>2 DEF Begun
  <2> QED BY <2>2, <2>3
<1> QED BY <1>1, <1>2, <1>3, <1>4, <1>5, Steps

\* The HTTP handler of call q waits while another coroutine is served, or none.
Waits(q) ==
  /\ Busy(q) /\ Todo(q)' = Todo(q)
  /\ \/ UNCHANGED store
     \/ \E t : Serving(t) /\ Execute(t) /\ t # <<q, "api">>

\* The HTTP handler of call q is given a new list of statements.
Begins(q) ==
  /\ UNCHANGED store
  /\ \/ Submit(q) \/ (\E p \in Requests : SubmitRetry(q, p))
     \/ AdmitRetry(<<q, "api">>)

\* What a busy HTTP handler has done in the step, if anything.
LEMMA ServiceMoves ==
  ASSUME Inv, [Next]_vars, NEW q \in Requests, task'[<<q, "api">>].st = "db"
  PROVE  Waits(q) \/ Begins(q) \/ Work(<<q, "api">>)
<1>0. <<q, "api">> \in Tasks
  BY TaskNames
<1>1. CASE Quiet
  BY <1>1 DEF Quiet, Waits, Begins, Busy
<1>2. CASE Crash
  <2>1. task'[<<q, "api">>] = IF task[<<q, "api">>].st = "idle"
                              THEN task[<<q, "api">>] ELSE Fresh("done")
    BY <1>0, <1>2 DEF Crash
  <2>2. Fresh("done").st = "done"
    BY DEF Fresh, Coroutine
  <2> QED BY <2>1, <2>2 DEF Busy
<1>3. ASSUME NEW t \in Tasks, Serving(t), Execute(t), t # <<q, "api">>,
             task'[<<q, "api">>] = task[<<q, "api">>]
      PROVE  Waits(q)
  BY <1>3 DEF Waits, Busy, Todo
<1>4. ASSUME NEW t \in Tasks, Work(t)
      PROVE  Waits(q) \/ Work(<<q, "api">>)
  <2>1. \A u \in Tasks \ {t} : task'[u] = task[u]
    BY <1>4, WorkGives
  <2>2. Serving(t) /\ Execute(t)
    BY <1>4 DEF Work
  <2> QED BY <1>0, <1>3, <1>4, <2>1, <2>2
<1>5. ASSUME NEW t \in Tasks, Leaves(t)
      PROVE  Waits(q)
  <2>1. /\ Serving(t) /\ Execute(t) /\ t[2] # "api"
        /\ Leave(t, "send") \/ Leave(t, "done")
    BY <1>5, TaskNames DEF Leaves, EnterTry, Release, EndHandler, LastHop
  <2>2. \A u \in Tasks \ {t} : task'[u] = task[u]
    BY <2>1, LeaveGives
  <2> QED BY <1>0, <1>3, <2>1, <2>2
<1>6. ASSUME NEW t \in Tasks, Accept(t)
      PROVE  Waits(q)
  <2>1. /\ t[1] \in Requests /\ t = <<t[1], "api">> /\ task'[t].st = "done"
        /\ \A u \in Tasks : u # t /\ u # <<t[1], "exec">> => task'[u] = task[u]
    BY <1>6, AcceptGives
  <2>2. t # <<q, "api">> /\ <<q, "api">> # <<t[1], "exec">>
    BY <2>1, TaskNames DEF Busy
  <2>3. Serving(t) /\ Execute(t)
    BY <1>6 DEF Accept, LastHop
  <2> QED BY <1>0, <1>3, <2>1, <2>2, <2>3
<1> QED BY <1>1, <1>2, <1>4, <1>5, <1>6, Steps

\* One statement of the creation is executed: what it adds.
LEMMA CreatedStep ==
  ASSUME Inv, CreationInv, NEW r \in Requests,
         NEW p \in Requests \union {NoRequest}, NEW n \in 1..Len(Creation(r, p)),
         Todo(r) = Left(Creation(r, p), n), Created(r, p, n),
         Serving(<<r, "api">>), Execute(<<r, "api">>)
  PROVE  Created(r, p, n + 1)'
<1> DEFINE t == <<r, "api">>
           h == Op(t)
<1>1. n \in {1, 2, 3, 4, 5, 6, 7, 8, 9} /\ h = Creation(r, p)[n]
  BY CreationStep DEF Op, Todo
<1>2. /\ h.op \in {"insert", "commit", "log", "bump", "select", "fetch", "close"}
      /\ h.op = "insert" <=> n = 1
      /\ n = 1 => h.on = r /\ h.arg = p
      /\ h.op = "commit" <=> n \in {2, 4, 6}
      /\ n = 3 => h.op = "log" /\ h.on = r /\ h.arg = "queued"
  BY <1>1, CreationOps
<1>3. /\ n # 1 => /\ db'.row[r].parent = db.row[r].parent
                  /\ db'.row[r].status = db.row[r].status
      /\ n = 1 => db'.row[r].parent = p /\ db'.row[r].status = "queued"
      /\ db.log[r] \subseteq db'.log[r]
      /\ n = 3 => "queued" \in db'.log[r]
      /\ n \in {2, 4, 6} => disk' = db
      /\ n \notin {2, 4, 6} => disk' = disk
  <2> HIDE DEF t, h
  <2>1. Serving(t) /\ Execute(t)
    BY DEF t
  <2> QED BY <1>2, <2>1, EffectOn DEF h
<1>4. /\ disk.row[r].status # Absent => disk'.row[r].status # Absent
      /\ disk.log[r] \subseteq disk'.log[r]
  BY TablesGo DEF CreationInv
<1>5. "queued" # Absent
  BY DEF Absent
<1> HIDE DEF h, t
<1>6. /\ n + 1 # 1
      /\ db'.row[r].status # Absent /\ db'.row[r].parent = p
      /\ n + 1 > 2 => disk'.row[r].status # Absent
  BY <1>1, <1>3, <1>4, <1>5 DEF Created
<1>7. n + 1 > 3 => "queued" \in db'.log[r]
  BY <1>1, <1>3 DEF Created
<1>8. n + 1 > 4 => "queued" \in disk'.log[r]
  BY <1>1, <1>3, <1>4 DEF Created
<1> QED BY <1>6, <1>7, <1>8 DEF Created

\* Reading the parent ends with the decision, so a handler that goes on, or
\* ends, after another statement has read less, or creates its record.
LEMMA ReadingGoesOn ==
  ASSUME NEW r \in Requests, NEW p \in Requests, NEW n \in 1..3,
         Todo(r) = Left(ReadParent(p), n), Op(<<r, "api">>).op # "decide"
  PROVE  /\ n + 1 \in 1..3
         /\ Op(<<r, "api">>).op \in {"select", "fetch"}
         /\ Rest(<<r, "api">>) = Left(ReadParent(p), n + 1)
         /\ Rest(<<r, "api">>) # <<>>
<1> DEFINE t == <<r, "api">>
           h == Op(t)
<1>1. h = ReadParent(p)[n]
  BY ReadStep DEF Op, Todo
<1>2. h.op \in {"select", "fetch"} /\ n # 3
  BY <1>1, ReadStep
<1>3. task[t].todo = Left(ReadParent(p), n)
  BY DEF Todo
<1> HIDE DEF h, t
<1>4. Rest(t) = Tail(task[t].todo)
  BY <1>2 DEF Rest, h
<1>5. Rest(t) = Left(ReadParent(p), n + 1)
  <2>1. Tail(Left(ReadParent(p), n)) = Left(ReadParent(p), n + 1)
    BY ReadStep
  <2> QED BY <1>3, <1>4, <2>1
<1>6. n + 1 \in 1..3
  BY <1>2
<1>7. Left(ReadParent(p), n + 1) # <<>>
  BY <1>6, ReadStep
<1> QED BY <1>2, <1>5, <1>6, <1>7 DEF h, t

\* Creating a record goes on with its next statement, if there is one.
LEMMA CreatingGoesOn ==
  ASSUME NEW r \in Requests, NEW p \in Requests \union {NoRequest},
         NEW n \in 1..Len(Creation(r, p)), Todo(r) = Left(Creation(r, p), n)
  PROVE  /\ Op(<<r, "api">>).op # "decide"
         /\ Rest(<<r, "api">>) = Left(Creation(r, p), n + 1)
         /\ Rest(<<r, "api">>) # <<>> => n + 1 \in 1..Len(Creation(r, p))
         /\ Rest(<<r, "api">>) = <<>> =>
              n = IF p = NoRequest THEN 4 ELSE 9
<1> DEFINE t == <<r, "api">>
           h == Op(t)
           P == Creation(r, p)
<1>1. h = P[n] /\ n \in 1..9
  BY CreationStep DEF Op, Todo
<1>2. h.op \in {"insert", "commit", "log", "bump", "select", "fetch", "close"}
  BY <1>1, CreationOps
<1>3. task[t].todo = Left(P, n) /\ Tail(Left(P, n)) = Left(P, n + 1)
  BY CreationStep DEF Todo
<1>4. P \in Seq(Hops) /\ Len(P) = IF p = NoRequest THEN 4 ELSE 9
  BY CreationLayout
<1>5. n + 1 \in 1..Len(P) => Left(P, n + 1) # <<>>
  BY CreationStep
<1>6. Left(P, Len(P) + 1) = <<>>
  BY <1>4, LeftEnds
<1>7. n \in 1..Len(P)
  OBVIOUS
<1> HIDE DEF h, t, P
<1>8. Rest(t) = Tail(task[t].todo)
  BY <1>2 DEF Rest, h
<1>9. n + 1 \in 1..Len(P) \/ n = Len(P)
  BY <1>4, <1>7
<1> QED BY <1>2, <1>3, <1>4, <1>5, <1>6, <1>8, <1>9 DEF h, t, P

\* An HTTP handler that waits finds its record as it left it.
LEMMA HandlerWaits ==
  ASSUME Inv, RecordInv, CreationInv, [Next]_vars, NEW q \in Requests, Waits(q)
  PROVE  ReadingParent(q)' \/ CreatingRecord(q)'
<1>1. Busy(q) /\ Todo(q)' = Todo(q)
  BY DEF Waits
<1>2. /\ db'.row[q].status = Absent <=> db.row[q].status = Absent
      /\ db'.row[q].parent = db.row[q].parent
      /\ db.log[q] \subseteq db'.log[q]
      /\ disk.row[q].status # Absent => disk'.row[q].status # Absent
      /\ disk.log[q] \subseteq disk'.log[q]
  <2>1. CASE UNCHANGED store
    BY <2>1 DEF store
  <2>2. CASE \E t : Serving(t) /\ Execute(t) /\ t # <<q, "api">>
    <3>1. PICK t : Serving(t) /\ Execute(t) /\ t # <<q, "api">>
      BY <2>2
    <3>2. /\ db'.row[q].status = Absent <=> db.row[q].status = Absent
          /\ db'.row[q].parent = db.row[q].parent
      BY <3>1, RecordKept
    <3>3. /\ db.log[q] \subseteq db'.log[q]
          /\ disk.row[q].status # Absent => disk'.row[q].status # Absent
          /\ disk.log[q] \subseteq disk'.log[q]
      BY <3>1, TablesGo DEF CreationInv
    <3> QED BY <3>2, <3>3
  <2> QED BY <2>1, <2>2 DEF Waits
<1>3. \A p \in Requests : Begun(p) => Begun(p)'
  BY BegunMoves
<1>4. CASE ReadingParent(q)
  BY <1>1, <1>2, <1>3, <1>4 DEF ReadingParent
<1>5. CASE CreatingRecord(q)
  <2>1. PICK p \in Requests \union {NoRequest} :
          \E n \in 1..Len(Creation(q, p)) :
            /\ Todo(q) = Left(Creation(q, p), n)
            /\ Created(q, p, n) /\ (p # NoRequest => Begun(p))
    BY <1>5 DEF CreatingRecord
  <2>2. PICK n \in 1..Len(Creation(q, p)) :
            /\ Todo(q) = Left(Creation(q, p), n)
            /\ Created(q, p, n) /\ (p # NoRequest => Begun(p))
    BY <2>1
  <2>3. Created(q, p, n)'
    BY <1>2, <2>2 DEF Created
  <2>4. Todo(q)' = Left(Creation(q, p), n) /\ (p # NoRequest => Begun(p)')
    BY <1>1, <1>3, <2>2
  <2> QED BY <2>3, <2>4 DEF CreatingRecord
<1> QED BY <1>1, <1>4, <1>5 DEF CreationInv, Handled

\* An HTTP handler begins with an identifier nobody has used, and a retry with
\* a call whose 202 has been sent.
LEMMA HandlerBegins ==
  ASSUME Inv, RecordInv, CreationInv, [Next]_vars, NEW q \in Requests, Begins(q)
  PROVE  ReadingParent(q)' \/ CreatingRecord(q)'
<1>0. db' = db /\ disk' = disk /\ <<q, "api">> \in Tasks
  BY TaskNames DEF Begins, store
<1>1. ASSUME db.row[q].status = Absent, NEW p \in Requests \union {NoRequest},
             Todo(q)' = Left(Creation(q, p), 1), p # NoRequest => Begun(p)'
      PROVE  CreatingRecord(q)'
  <2>1. 1 \in 1..Len(Creation(q, p))
    <3>1. Len(Creation(q, p)) = IF p = NoRequest THEN 4 ELSE 9
      BY CreationLayout
    <3> DEFINE n == Len(Creation(q, p))
    <3>2. n = 4 \/ n = 9
      BY <3>1
    <3> HIDE DEF n
    <3>3. 1 \in 1..n
      BY <3>2
    <3> QED BY <3>3 DEF n
  <2>2. Created(q, p, 1)'
    BY <1>0, <1>1 DEF Created
  <2> QED BY <1>1, <2>1, <2>2 DEF CreatingRecord
<1>2. \A p \in Requests : Begun(p) => Begun(p)'
  BY BegunMoves
<1>3. CASE Submit(q)
  <2>1. /\ db.row[q].status = Absent
        /\ Put(<<q, "api">>, "", CreateRecord(q, NoRequest), dbq)
    BY <1>3 DEF Submit
  <2>2. Todo(q)' = Left(Creation(q, NoRequest), 1)
    <3>1. Todo(q)' = CreateRecord(q, NoRequest)
      BY <1>0, <2>1, PutGives DEF Todo
    <3>2. CreateRecord(q, NoRequest) = Left(Creation(q, NoRequest), 1)
      BY CreationWhole
    <3> QED BY ONLY <3>1, <3>2, Zenon
  <2> QED BY <1>1, <2>1, <2>2
<1>4. ASSUME NEW p \in Requests, SubmitRetry(q, p)
      PROVE  ReadingParent(q)'
  <2>1. /\ db.row[q].status = Absent /\ Begun(p)
        /\ Put(<<q, "api">>, "", ReadParent(p), dbq)
    BY <1>4 DEF SubmitRetry, Begun
  <2>2. Todo(q)' = Left(ReadParent(p), 1)
    <3>1. Todo(q)' = ReadParent(p)
      BY <1>0, <2>1, PutGives DEF Todo
    <3>2. ReadParent(p) = Left(ReadParent(p), 1)
      BY CreationWhole
    <3> QED BY ONLY <3>1, <3>2, Zenon
  <2>3. db'.row[q].status = Absent
    BY <1>0, <2>1
  <2>4. Begun(p)'
    BY <1>2, <2>1
  <2>5. 1 \in 1..3
    OBVIOUS
  <2> QED BY <2>2, <2>3, <2>4, <2>5 DEF ReadingParent
<1>5. CASE AdmitRetry(<<q, "api">>)
  <2> DEFINE t == <<q, "api">>
             parent == Op(t).on
  <2>1. /\ Serving(t) /\ Op(t).op = "decide"
        /\ Put(t, "", CreateRecord(q, parent) \o IncrementRetry(parent), Tail(dbq))
    BY <1>5 DEF AdmitRetry, Deciding
  <2>2. Busy(q)
    BY <2>1, Served DEF Busy
  <2>3. ~CreatingRecord(q)
    BY <2>1, CreatingGoesOn DEF CreatingRecord
  <2>4. PICK p \in Requests, n \in 1..3 :
          /\ Todo(q) = Left(ReadParent(p), n)
          /\ db.row[q].status = Absent /\ Begun(p)
    BY <2>2, <2>3 DEF CreationInv, Handled, ReadingParent
  <2>5. parent = p
    <3>1. Op(t) = ReadParent(p)[n]
      BY <2>4, ReadStep DEF Op, Todo
    <3> QED BY <3>1, ReadStep
  <2>6. Todo(q)' = Left(Creation(q, p), 1)
    <3>1. Todo(q)' = CreateRecord(q, p) \o IncrementRetry(p)
      BY <1>0, <2>1, <2>5, PutGives DEF Todo
    <3>2. CreateRecord(q, p) \o IncrementRetry(p) = Left(Creation(q, p), 1)
      BY CreationWhole
    <3> QED BY ONLY <3>1, <3>2, Zenon
  <2> QED BY <1>1, <1>2, <2>4, <2>6
<1> QED BY <1>3, <1>4, <1>5 DEF Begins

\* An HTTP handler is served, and goes on.
LEMMA HandlerWorks ==
  ASSUME Inv, RecordInv, CreationInv, [Next]_vars, NEW q \in Requests,
         Work(<<q, "api">>)
  PROVE  ReadingParent(q)' \/ CreatingRecord(q)'
<1> DEFINE t == <<q, "api">>
<1>1. /\ Serving(t) /\ Execute(t) /\ Op(t).op # "decide" /\ Rest(t) # <<>>
      /\ Busy(q) /\ Todo(q)' = Rest(t)
  BY WorkGives DEF Work, Busy, Todo
<1>2. \A p \in Requests : Begun(p) => Begun(p)'
  BY BegunMoves
<1>3. CASE ReadingParent(q)
  <2>1. PICK p \in Requests, n \in 1..3 :
          /\ Todo(q) = Left(ReadParent(p), n)
          /\ db.row[q].status = Absent /\ Begun(p)
    BY <1>3 DEF ReadingParent
  <2>2. /\ n + 1 \in 1..3 /\ Op(t).op \in {"select", "fetch"}
        /\ Rest(t) = Left(ReadParent(p), n + 1)
    BY <1>1, <2>1, ReadingGoesOn
  <2> HIDE DEF t
  <2>3. db'.row[q].status = db.row[q].status
    BY <1>1, <2>2, EffectOn
  <2> QED BY <1>1, <1>2, <2>1, <2>2, <2>3 DEF ReadingParent
<1>4. CASE CreatingRecord(q)
  <2>1. PICK p \in Requests \union {NoRequest} :
          \E n \in 1..Len(Creation(q, p)) :
            /\ Todo(q) = Left(Creation(q, p), n)
            /\ Created(q, p, n) /\ (p # NoRequest => Begun(p))
    BY <1>4 DEF CreatingRecord
  <2>2. PICK n \in 1..Len(Creation(q, p)) :
            /\ Todo(q) = Left(Creation(q, p), n)
            /\ Created(q, p, n) /\ (p # NoRequest => Begun(p))
    BY <2>1
  <2>3. Created(q, p, n + 1)'
    BY <1>1, <2>2, CreatedStep
  <2>4. /\ n + 1 \in 1..Len(Creation(q, p))
        /\ Todo(q)' = Left(Creation(q, p), n + 1)
    BY <1>1, <2>2, CreatingGoesOn
  <2>5. p # NoRequest => Begun(p)'
    BY <1>2, <2>2
  <2> QED BY <2>3, <2>4, <2>5 DEF CreatingRecord
<1> QED BY <1>1, <1>3, <1>4 DEF CreationInv, Handled

\* A 202 is sent after the record and its first event are on disk.
LEMMA Acknowledged ==
  ASSUME Inv, RecordInv, CreationInv, NEW q \in Requests, Accept(<<q, "api">>)
  PROVE  disk'.row[q].status # Absent /\ "queued" \in disk'.log[q]
<1> DEFINE t == <<q, "api">>
<1>1. /\ Serving(t) /\ Execute(t) /\ Op(t).op # "decide" /\ Rest(t) = <<>>
      /\ Busy(q)
  BY Served DEF Accept, LastHop, Busy
<1>2. ~ReadingParent(q)
  BY <1>1, ReadingGoesOn DEF ReadingParent
<1>3. PICK p \in Requests \union {NoRequest} :
        \E n \in 1..Len(Creation(q, p)) :
          Todo(q) = Left(Creation(q, p), n) /\ Created(q, p, n)
  BY <1>1, <1>2 DEF CreationInv, Handled, CreatingRecord
<1>4. PICK n \in 1..Len(Creation(q, p)) :
          Todo(q) = Left(Creation(q, p), n) /\ Created(q, p, n)
  BY <1>3
<1>5. Created(q, p, n + 1)' /\ n \in {4, 9}
  BY <1>1, <1>4, CreatedStep, CreatingGoesOn
<1> QED BY <1>5 DEF Created

\* No creation is under way at first.
LEMMA InitCreation == Init => CreationInv
<1> SUFFICES ASSUME Init PROVE CreationInv
  OBVIOUS
<1>1. /\ db = [row |-> [r \in Requests |-> NoRow],
               log |-> [r \in Requests |-> {}]]
      /\ disk = db /\ task = [t \in Tasks |-> Fresh("idle")]
  BY DEF Init
<1>2. \A r \in Requests : ~Busy(r) /\ ~Begun(r)
  <2>1. Fresh("idle").st = "idle"
    BY DEF Fresh, Coroutine
  <2> QED BY <1>1, <2>1, TaskNames DEF Busy, Begun
<1>3. DiskBehind
  BY <1>1 DEF DiskBehind, NoRow
<1> QED BY <1>2, <1>3 DEF CreationInv, Handled, AckedIsDurable, Begun

\* The connection never loses a record it has, nor the disk.
LEMMA DiskStaysBehind ==
  ASSUME Inv, CreationInv, [Next]_vars
  PROVE  DiskBehind'
<1>1. CASE UNCHANGED store
  BY <1>1 DEF CreationInv, DiskBehind, store
<1>2. CASE Crash
  <2>1. db' = disk /\ disk' = disk
    BY <1>2 DEF Crash
  <2> QED BY <2>1 DEF CreationInv, DiskBehind
<1>3. ASSUME NEW t, Serving(t), Execute(t)
      PROVE  DiskBehind'
  BY <1>3, TablesGo DEF CreationInv, DiskBehind
<1> QED BY <1>1, <1>2, <1>3, TablesMove

\* Every step keeps what creations have done and found.
LEMMA NextCreation == Inv /\ RecordInv /\ CreationInv /\ [Next]_vars => CreationInv'
<1> SUFFICES ASSUME Inv, RecordInv, CreationInv, [Next]_vars PROVE CreationInv'
  OBVIOUS
<1>1. Handled'
  <2>1. ASSUME NEW q \in Requests, task'[<<q, "api">>].st = "db"
        PROVE  ReadingParent(q)' \/ CreatingRecord(q)'
    BY <2>1, ServiceMoves, HandlerWaits, HandlerBegins, HandlerWorks
  <2> QED BY <2>1 DEF Handled, Busy
<1>2. DiskBehind'
  BY DiskStaysBehind
<1>3. AckedIsDurable'
  <2>1. ASSUME NEW q \in Requests, task'[<<q, "exec">>].st # "idle"
        PROVE  disk'.row[q].status # Absent /\ "queued" \in disk'.log[q]
    <3>1. CASE Begun(q)
      <4>1. disk.row[q].status # Absent /\ "queued" \in disk.log[q]
        BY <3>1 DEF Begun, CreationInv, AckedIsDurable
      <4>2. \/ disk' = disk
            \/ \E t : Serving(t) /\ Execute(t)
        BY TablesMove DEF store, Crash
      <4> QED BY <4>1, <4>2, TablesGo DEF CreationInv
    <3>2. CASE ~Begun(q)
      <4>1. Accept(<<q, "api">>)
        BY <2>1, <3>2, BegunMoves DEF Begun
      <4> QED BY <4>1, Acknowledged
    <3> QED BY <3>1, <3>2
  <2> QED BY <2>1 DEF AckedIsDurable
<1> QED BY <1>1, <1>2, <1>3 DEF CreationInv

-----------------------------------------------------------------------------
(* Counting retries *)

\* A step counts one mishap or none.
LEMMA UsedMoves ==
  ASSUME [Next]_vars
  PROVE  \/ UNCHANGED used
         \/ \E m \in {"drop", "crash", "fault"} :
              used' = [used EXCEPT ![m] = @ + 1]
<1>1. ASSUME NEW t \in Tasks, Serve(t)
      PROVE  UNCHANGED used
  BY <1>1 DEF Serve, Work, RefuseRetry, AdmitRetry, Accept, EnterTry, Release,
     EndHandler
<1>2. ASSUME NEW t \in Tasks, Fault(t)
      PROVE  used' = [used EXCEPT !["fault"] = @ + 1]
  BY <1>2 DEF Fault, FaultInHandler, FaultBeforeTry, FaultInTry,
     FaultThenRelease, Faulting
<1>3. ASSUME NEW r \in Requests, Http(r) \/ Execution(r) \/ Respond(r)
      PROVE  UNCHANGED used
  BY <1>3 DEF Http, Submit, SubmitRetry, Execution, Acquire, Originate,
     OriginateNotAccepted, OriginateTimeout, Respond
<1>4. ASSUME NEW r \in Requests, Progress(r)
      PROVE  UNCHANGED used
  BY <1>4 DEF Progress, Ring, Answer, StartDialplan, StartPlayback,
     FinishPlayback, HangUp, Drop, Refuse
<1>5. CASE Startup \/ Reconnect \/ UNCHANGED vars
  BY <1>5 DEF Startup, Reconnect, vars
<1>6. CASE Disconnect \/ Crash
  BY <1>6 DEF Disconnect, Crash
<1> QED BY <1>1, <1>2, <1>3, <1>4, <1>5, <1>6 DEF Next

\* A mishap is never forgotten.
LEMMA MishapsStay ==
  ASSUME Inv, [Next]_vars
  PROVE  /\ NoMishap' => NoMishap
         /\ Crash => ~NoMishap'
         /\ used'["fault"] > 0 => ~NoMishap'
<1>0. used \in [{"drop", "crash", "fault"} -> Nat]
  BY DEF Inv, TypeOK
<1>1. ASSUME NEW m \in {"drop", "crash", "fault"},
             used' = [used EXCEPT ![m] = @ + 1]
      PROVE  /\ used'[m] = used[m] + 1 /\ used[m] \in Nat
             /\ DOMAIN used' = {"drop", "crash", "fault"}
             /\ ~NoMishap'
  <2>1. /\ used'[m] = used[m] + 1 /\ used[m] \in Nat
        /\ DOMAIN used' = {"drop", "crash", "fault"}
    BY <1>0, <1>1
  <2> QED BY <2>1 DEF NoMishap
<1>2. CASE UNCHANGED used
  <2>1. ~Crash
    BY <1>0, <1>2 DEF Crash
  <2> QED BY <1>0, <1>2, <2>1 DEF NoMishap
<1>3. \/ UNCHANGED used
      \/ \E m \in {"drop", "crash", "fault"} : used' = [used EXCEPT ![m] = @ + 1]
  BY UsedMoves
<1> QED BY <1>1, <1>2, <1>3

\* Among the statements of an admitted call only the fifth counts a retry, and
\* it counts it for the parent.
LEMMA CountingIs ==
  ASSUME NEW r \in Requests, NEW q \in Requests \union {NoRequest},
         NEW n \in 1..Len(Creation(r, q)), NEW p \in Requests
  PROVE  Counts(Left(Creation(r, q), n), p) <=> p = q /\ n <= 5
<1> DEFINE P == Creation(r, q)
           w == Left(P, n)
           b == Hop("bump", p, NoArg)
<1>1. /\ P \in Seq(Hops) /\ n \in 1..Len(P)
      /\ Len(P) = IF q = NoRequest THEN 4 ELSE 9
      /\ q # NoRequest => P[5] = Hop("bump", q, NoArg)
  BY CreationLayout DEF NoArg
<1>2. \A i \in 1..Len(P) : /\ P[i].op = "bump" <=> i = 5
                           /\ i = 5 => P[i].on = q
  BY CreationOps
<1>3. Counts(w, p) <=> \E i \in DOMAIN w : w[i] = b
  BY DEF Counts, NoArg
<1>4. b.op = "bump" /\ b.on = p /\ (p = q => b = Hop("bump", q, NoArg))
  BY HopFields
<1>5. p # NoRequest
  BY ParametersAssumption
<1> HIDE DEF P, b
<1>6. /\ DOMAIN w = 1..Len(P) - n + 1
      /\ \A i \in 1..Len(P) - n + 1 : w[i] = P[n + i - 1]
  BY <1>1 DEF Left
<1> HIDE DEF w
<1>7. ASSUME NEW i \in DOMAIN w, w[i] = b
      PROVE  p = q /\ n <= 5
  <2>1. n + i - 1 \in 1..Len(P) /\ w[i] = P[n + i - 1]
    BY <1>1, <1>6
  <2>2. n + i - 1 = 5 /\ p = q
    BY <1>2, <1>4, <1>7, <2>1
  <2> QED BY <1>1, <1>6, <2>2
<1>8. ASSUME p = q, n <= 5
      PROVE  \E i \in DOMAIN w : w[i] = b
  <2>1. 6 - n \in DOMAIN w /\ n + (6 - n) - 1 = 5
    BY <1>1, <1>5, <1>6, <1>8
  <2>2. w[6 - n] = P[5]
    BY <1>6, <2>1
  <2> QED BY <1>1, <1>4, <1>5, <1>8, <2>1, <2>2
<1> QED BY <1>3, <1>7, <1>8 DEF w, P

\* Nobody is counted while the parent is read.
LEMMA ReadingCountsNobody ==
  ASSUME NEW r \in Requests, ReadingParent(r), NEW p \in Requests
  PROVE  ~Counting(r, p)
<1>1. PICK q \in Requests, n \in 1..3 : Todo(r) = Left(ReadParent(q), n)
  BY DEF ReadingParent
<1> DEFINE P == ReadParent(q)
           w == Todo(r)
           b == Hop("bump", p, NoArg)
<1>2. P \in Seq(Hops) /\ Len(P) = 3 /\ w = Left(P, n)
  BY <1>1, ReadLayout
<1>3. \A i \in 1..3 : P[i].op \in {"select", "fetch", "decide"}
  BY ReadStep
<1>4. Counting(r, p) => \E i \in DOMAIN w : w[i] = b
  BY DEF Counting, Counts, NoArg
<1>5. b.op = "bump"
  BY HopFields
<1> HIDE DEF P, w, b
<1>6. /\ DOMAIN w = 1..3 - n + 1
      /\ \A i \in 1..3 - n + 1 : w[i] = P[n + i - 1]
  BY <1>2 DEF Left
<1>7. \A i \in DOMAIN w : w[i].op # "bump"
  BY <1>3, <1>6
<1> QED BY <1>4, <1>5, <1>7

\* A handler that is given a new list has no record yet.
LEMMA BeginsNew ==
  ASSUME Inv, CreationInv, NEW q \in Requests, Begins(q)
  PROVE  db.row[q].status = Absent
<1>1. CASE Submit(q) \/ \E p \in Requests : SubmitRetry(q, p)
  BY <1>1 DEF Submit, SubmitRetry
<1>2. CASE AdmitRetry(<<q, "api">>)
  <2>1. Serving(<<q, "api">>) /\ Op(<<q, "api">>).op = "decide"
    BY <1>2 DEF AdmitRetry, Deciding
  <2>2. Busy(q) /\ ~CreatingRecord(q)
    BY <2>1, Served, CreatingGoesOn DEF Busy, CreatingRecord
  <2> QED BY <2>2 DEF CreationInv, Handled, ReadingParent
<1> QED BY <1>1, <1>2 DEF Begins

\* Where a busy handler is that has its record.
LEMMA CreatingIs ==
  ASSUME CreationInv, NEW r \in Requests, Busy(r), db.row[r].status # Absent
  PROVE  \E q \in Requests \union {NoRequest} :
           \E n \in 1..Len(Creation(r, q)) :
             Todo(r) = Left(Creation(r, q), n) /\ n # 1 /\ Created(r, q, n)
<1>1. ~ReadingParent(r)
  BY DEF ReadingParent
<1>2. PICK q \in Requests \union {NoRequest} :
        \E n \in 1..Len(Creation(r, q)) :
          Todo(r) = Left(Creation(r, q), n) /\ Created(r, q, n)
  BY <1>1 DEF CreationInv, Handled, CreatingRecord
<1>3. PICK n \in 1..Len(Creation(r, q)) :
        Todo(r) = Left(Creation(r, q), n) /\ Created(r, q, n)
  BY <1>2
<1>4. n # 1
  BY <1>3 DEF Created
<1> QED BY <1>3, <1>4

\* Once written, a record keeps its parent.
LEMMA ParentKept ==
  ASSUME Inv, RecordInv, CreationInv, [Next]_vars, ~Crash, NEW r \in Requests,
         db.row[r].status # Absent
  PROVE  db'.row[r].status # Absent /\ db'.row[r].parent = db.row[r].parent
<1>1. CASE UNCHANGED store
  BY <1>1 DEF store
<1>2. ASSUME NEW t, Serving(t), Execute(t), t # <<r, "api">>
      PROVE  db'.row[r].status # Absent /\ db'.row[r].parent = db.row[r].parent
  BY <1>2, RecordKept
<1>3. CASE Serving(<<r, "api">>) /\ Execute(<<r, "api">>)
  <2> DEFINE t == <<r, "api">>
  <2>1. Busy(r) /\ Op(t) = Head(Todo(r))
    BY <1>3, Served DEF Busy, Op, Todo
  <2>2. PICK q \in Requests \union {NoRequest} :
          \E n \in 1..Len(Creation(r, q)) :
            Todo(r) = Left(Creation(r, q), n) /\ n # 1
    BY <2>1, CreatingIs
  <2>3. PICK n \in 1..Len(Creation(r, q)) :
          Todo(r) = Left(Creation(r, q), n) /\ n # 1
    BY <2>2
  <2>4. Op(t) = Creation(r, q)[n]
    BY <2>1, <2>3, CreationStep
  <2>5. Op(t).op # "insert"
    BY <2>3, <2>4, CreationOps
  <2> HIDE DEF t
  <2>6. db'.row[r].parent = db.row[r].parent
    BY <1>3, <2>5, EffectOn DEF t
  <2>7. db'.row[r].status # Absent
    BY <1>3, TablesGo DEF CreationInv
  <2> QED BY <2>6, <2>7
<1> QED BY <1>1, <1>2, <1>3, TablesMove

\* A retry that is counted stays counted.
LEMMA CountedStay ==
  ASSUME Inv, RecordInv, CreationInv, [Next]_vars, ~Crash, NEW p \in Requests,
         NEW r \in Counted(p)
  PROVE  r \in Counted(p)'
<1>1. r \in Requests /\ db.row[r].parent = p /\ ~Counting(r, p)
  BY DEF Counted, Children
<1>2. p # NoRequest /\ db.row[r].status # Absent
  BY <1>1, ParametersAssumption DEF CreationInv, DiskBehind
<1>3. db'.row[r].parent = p
  BY <1>1, <1>2, ParentKept
<1>4. ASSUME task'[<<r, "api">>].st = "db", Counts(task'[<<r, "api">>].todo, p)
      PROVE  FALSE
  <2>1. CASE Waits(r)
    BY <1>1, <1>4, <2>1 DEF Waits, Counting, Busy, Todo
  <2>2. CASE Begins(r)
    BY <1>1, <1>2, <2>2, BeginsNew
  <2>3. CASE Work(<<r, "api">>)
    <3>1. /\ Busy(r) /\ Todo(r)' = Rest(<<r, "api">>)
          /\ Rest(<<r, "api">>) # <<>>
      BY <1>1, <2>3, WorkGives DEF Busy, Todo, Work
    <3>2. PICK q \in Requests \union {NoRequest} :
            \E n \in 1..Len(Creation(r, q)) : Todo(r) = Left(Creation(r, q), n)
      BY <1>1, <1>2, <3>1, CreatingIs
    <3>3. PICK n \in 1..Len(Creation(r, q)) : Todo(r) = Left(Creation(r, q), n)
      BY <3>2
    <3>4. /\ Rest(<<r, "api">>) = Left(Creation(r, q), n + 1)
          /\ n + 1 \in 1..Len(Creation(r, q))
      BY <1>1, <3>1, <3>3, CreatingGoesOn
    <3>5. p = q /\ n + 1 <= 5
      BY <1>1, <1>4, <3>1, <3>4, CountingIs DEF Todo
    <3>6. Counting(r, p)
      BY <1>1, <3>1, <3>3, <3>5, CountingIs DEF Counting
    <3> QED BY <1>1, <3>6
  <2> QED BY <1>1, <1>4, <2>1, <2>2, <2>3, ServiceMoves
<1> QED BY <1>1, <1>3, <1>4 DEF Counted, Children, Counting, Busy, Todo

\* The fifth statement of the creation of r counts it as a retry of p.
BumpOf(r, p) ==
  /\ Work(<<r, "api">>) /\ 5 \in 1..Len(Creation(r, p))
  /\ Todo(r) = Left(Creation(r, p), 5)

\* A handler that has its record, and ends without a mishap, is not counting.
LEMMA CountingEnds ==
  ASSUME Inv, RecordInv, CreationInv, [Next]_vars, NoMishap',
         NEW p \in Requests, NEW r \in Requests, db.row[r].status # Absent,
         Counting(r, p)
  PROVE  task'[<<r, "api">>].st = "db"
<1> DEFINE a == <<r, "api">>
<1>0. a \in Tasks /\ Busy(r) /\ task[a].st = "db"
  BY TaskNames DEF Counting, Busy
<1>1. PICK q \in Requests \union {NoRequest} :
        \E n \in 1..Len(Creation(r, q)) : Todo(r) = Left(Creation(r, q), n)
  BY <1>0, CreatingIs
<1>2. PICK n \in 1..Len(Creation(r, q)) : Todo(r) = Left(Creation(r, q), n)
  BY <1>1
<1>3. p = q /\ n <= 5 /\ q # NoRequest
  BY <1>2, CountingIs, ParametersAssumption DEF Counting
<1>4. Op(a).op # "decide" /\ Rest(a) # <<>>
  BY <1>2, <1>3, CreatingGoesOn
<1>5. CASE Quiet
  BY <1>0, <1>4, <1>5, MishapsStay DEF Quiet, Busy, RefuseRetry, Deciding
<1>6. ASSUME NEW t \in Tasks, task'[t].st = "db" \/ t # a,
             \A u \in Tasks \ {t} : task'[u] = task[u]
      PROVE  task'[a].st = "db"
  BY <1>0, <1>6
<1>7. ASSUME NEW t \in Tasks, Work(t)
      PROVE  task'[a].st = "db"
  BY <1>6, <1>7, WorkGives
<1>8. ASSUME NEW t \in Tasks, Leaves(t)
      PROVE  task'[a].st = "db"
  <2>1. /\ Leave(t, "send") \/ Leave(t, "done")
        /\ t[2] # "api"
    BY <1>8, TaskNames DEF Leaves, EnterTry, Release, EndHandler, LastHop
  <2>2. \A u \in Tasks \ {t} : task'[u] = task[u]
    BY <2>1, LeaveGives
  <2> QED BY <1>6, <2>1, <2>2
<1>9. ASSUME NEW t \in Tasks, Accept(t)
      PROVE  task'[a].st = "db"
  <2>1. /\ t[1] \in Requests /\ t = <<t[1], "api">>
        /\ \A u \in Tasks : u # t /\ u # <<t[1], "exec">> => task'[u] = task[u]
    BY <1>9, AcceptGives
  <2>2. t # a
    BY <1>4, <1>9 DEF Accept, LastHop
  <2>3. a # <<t[1], "exec">>
    BY <2>1, TaskNames
  <2> QED BY <1>0, <2>1, <2>2, <2>3
<1> QED BY <1>5, <1>7, <1>8, <1>9, Steps, MishapsStay

\* A handler that has no record yet, and then has one, is still to count it.
LEMMA NewIsCounting ==
  ASSUME Inv, RecordInv, CreationInv, [Next]_vars, ~Crash, NEW r \in Requests,
         db.row[r].status = Absent, db'.row[r].parent # NoRequest
  PROVE  /\ task'[<<r, "api">>].st = "db"
         /\ Counts(task'[<<r, "api">>].todo, db'.row[r].parent)
<1> DEFINE a == <<r, "api">>
<1>1. db.row[r].parent = NoRequest
  BY DEF CreationInv, DiskBehind
<1>2. PICK t : Serving(t) /\ Execute(t)
  BY <1>1, TablesMove DEF store
<1>3. t = a
  BY <1>1, <1>2, RecordKept
<1>4. Work(a) \/ Accept(a)
  <2>1. a[2] = "api" /\ dbq # <<>> /\ a = Head(dbq)
    BY <1>2, <1>3 DEF Serving
  <2>2. db' # db
    BY <1>1
  <2>3. \A u : Serving(u) => u = a
    BY <2>1 DEF Serving
  <2>4. ASSUME NEW u \in Tasks, Leaves(u)
        PROVE  FALSE
    <3>1. Serving(u) /\ u[2] # "api"
      BY <2>4, TaskNames DEF Leaves, EnterTry, Release, EndHandler, LastHop
    <3> QED BY <2>1, <2>3, <3>1
  <2>5. ~Quiet
    BY <2>2 DEF Quiet, store
  <2>6. \A u \in Tasks : Work(u) \/ Accept(u) => u = a
    BY <2>3 DEF Work, Accept, LastHop
  <2> QED BY <2>4, <2>5, <2>6, Steps
<1>5. Serving(a) /\ Execute(a) /\ Op(a).op # "decide" /\ Busy(r)
  BY <1>2, <1>3, <1>4, Served DEF Work, Accept, LastHop, Busy
<1>6. ~ReadingParent(r)
  <2>1. ASSUME ReadingParent(r)
        PROVE  FALSE
    <3>1. Op(a).op \in {"select", "fetch"}
      BY <1>5, <2>1, ReadingGoesOn DEF ReadingParent
    <3> HIDE DEF a
    <3>2. db'.row[r].parent = db.row[r].parent
      BY <1>5, <3>1, EffectOn
    <3> QED BY <1>1, <3>2
  <2> QED BY <2>1
<1>7. PICK q \in Requests \union {NoRequest} :
        \E n \in 1..Len(Creation(r, q)) :
          Todo(r) = Left(Creation(r, q), n) /\ Created(r, q, n)
  BY <1>5, <1>6 DEF CreationInv, Handled, CreatingRecord
<1>8. PICK n \in 1..Len(Creation(r, q)) :
        Todo(r) = Left(Creation(r, q), n) /\ Created(r, q, n)
  BY <1>7
<1>9. n = 1 /\ db'.row[r].parent = q
  <2>1. n = 1
    BY <1>8 DEF Created
  <2>2. Created(r, q, 2)'
    BY <1>5, <1>8, <2>1, CreatedStep
  <2> QED BY <2>1, <2>2 DEF Created
<1>10. Rest(a) # <<>> /\ Rest(a) = Left(Creation(r, q), 2)
  BY <1>8, <1>9, CreatingGoesOn
<1>11. Work(a)
  BY <1>4, <1>10 DEF Accept, LastHop
<1>12. task'[a].st = "db" /\ task'[a].todo = Left(Creation(r, q), 2)
  BY <1>10, <1>11, WorkGives
<1>13. 2 \in 1..Len(Creation(r, q)) /\ q \in Requests
  BY <1>8, <1>9, <1>10, CreatingGoesOn
<1> QED BY <1>9, <1>12, <1>13, CountingIs

\* A retry is counted by its own handler only, or given up in a mishap.
LEMMA CountedCome ==
  ASSUME Inv, RecordInv, CreationInv, [Next]_vars, NoMishap', NEW p \in Requests,
         NEW r \in Requests, r \in Counted(p)'
  PROVE  r \in Counted(p) \/ BumpOf(r, p)
<1>0. ~Crash /\ p # NoRequest
  BY MishapsStay, ParametersAssumption
<1>1. /\ db'.row[r].parent = p
      /\ ~(task'[<<r, "api">>].st = "db" /\ Counts(task'[<<r, "api">>].todo, p))
  BY DEF Counted, Children, Counting, Busy, Todo
<1>2. db.row[r].status # Absent
  BY <1>0, <1>1, NewIsCounting
<1>3. db.row[r].parent = p
  BY <1>0, <1>1, <1>2, ParentKept
<1>4. ASSUME Counting(r, p)
      PROVE  BumpOf(r, p)
  <2>1. task'[<<r, "api">>].st = "db"
    BY <1>2, <1>4, CountingEnds
  <2>2. ~Waits(r)
    BY <1>1, <1>4, <2>1 DEF Waits, Counting, Todo
  <2>3. Work(<<r, "api">>)
    BY <1>2, <2>1, <2>2, BeginsNew, ServiceMoves
  <2>4. /\ Busy(r) /\ task'[<<r, "api">>].todo = Rest(<<r, "api">>)
        /\ Rest(<<r, "api">>) # <<>>
    BY <2>3, WorkGives DEF Busy, Work
  <2>5. PICK q \in Requests \union {NoRequest} :
          \E n \in 1..Len(Creation(r, q)) : Todo(r) = Left(Creation(r, q), n)
    BY <1>2, <2>4, CreatingIs
  <2>6. PICK n \in 1..Len(Creation(r, q)) : Todo(r) = Left(Creation(r, q), n)
    BY <2>5
  <2>7. p = q /\ n <= 5
    BY <1>4, <2>6, CountingIs DEF Counting
  <2>8. /\ Rest(<<r, "api">>) = Left(Creation(r, q), n + 1)
        /\ n + 1 \in 1..Len(Creation(r, q))
    BY <2>4, <2>6, CreatingGoesOn
  <2>9. ~(n + 1 <= 5)
    BY <1>1, <2>1, <2>4, <2>7, <2>8, CountingIs
  <2>10. n = 5
    BY <2>7, <2>9
  <2> QED BY <2>3, <2>6, <2>7, <2>10 DEF BumpOf
<1> QED BY <1>3, <1>4 DEF Counted, Children

\* Counting a retry is what BumpOf says, and adds it to those counted.
LEMMA BumpDoes ==
  ASSUME Inv, RecordInv, CreationInv, [Next]_vars, ~Crash, NEW p \in Requests,
         NEW r \in Requests, BumpOf(r, p)
  PROVE  /\ db'.row[p].retries = db.row[p].retries + 1
         /\ r \notin Counted(p) /\ r \in Counted(p)'
         /\ db.row[p].status # Absent
<1> DEFINE a == <<r, "api">>
<1>1. /\ Serving(a) /\ Execute(a) /\ Busy(r) /\ Op(a).op # "decide"
      /\ Op(a) = Head(Todo(r)) /\ Todo(r) = Left(Creation(r, p), 5)
      /\ 5 \in 1..Len(Creation(r, p)) /\ Rest(a) # <<>>
  BY WorkGives DEF BumpOf, Work, Busy, Todo, Op
<1>2. Op(a).op = "bump" /\ Op(a).on = p
  <2>1. Op(a) = Creation(r, p)[5]
    BY <1>1, CreationStep
  <2>2. Creation(r, p)[5].op = "bump" /\ Creation(r, p)[5].on = p
    BY <1>1, CreationOps
  <2> QED BY <2>1, <2>2
<1>3. db'.row[p].retries = db.row[p].retries + 1
  <2> HIDE DEF a
  <2> QED BY <1>1, <1>2, EffectOn
<1>4. Counting(r, p)
  BY <1>1, CountingIs DEF Counting
<1>5. PICK q \in Requests \union {NoRequest} :
        \E n \in 1..Len(Creation(r, q)) :
          /\ Todo(r) = Left(Creation(r, q), n)
          /\ Created(r, q, n) /\ (q # NoRequest => Begun(q))
  <2>1. ~ReadingParent(r)
    BY <1>4, ReadingCountsNobody
  <2> QED BY <1>1, <2>1 DEF CreationInv, Handled, CreatingRecord
<1>6. PICK n \in 1..Len(Creation(r, q)) :
          /\ Todo(r) = Left(Creation(r, q), n)
          /\ Created(r, q, n) /\ (q # NoRequest => Begun(q))
  BY <1>5
<1>7. p = q /\ p # NoRequest
  BY <1>4, <1>6, CountingIs, ParametersAssumption DEF Counting
<1>8. n = 5
  <2>1. Op(a) = Creation(r, q)[n]
    BY <1>1, <1>6, CreationStep
  <2> QED BY <1>2, <2>1, CreationOps
<1>9. /\ db.row[r].status # Absent /\ db.row[r].parent = p /\ Begun(p)
  BY <1>6, <1>7, <1>8 DEF Created
<1>10. db.row[p].status # Absent
  BY <1>9 DEF CreationInv, AckedIsDurable, DiskBehind, Begun
<1>11. r \notin Counted(p)
  BY <1>4 DEF Counted
<1>12. r \in Counted(p)'
  <2>1. db'.row[r].parent = p
    BY <1>9, ParentKept
  <2>2. task'[a].todo = Rest(a)
    BY WorkGives DEF BumpOf
  <2>3. Rest(a) = Left(Creation(r, p), 6) /\ 6 \in 1..Len(Creation(r, p))
    BY <1>1, CreatingGoesOn
  <2>4. ~Counts(Rest(a), p)
    BY <2>3, CountingIs
  <2> QED BY <2>1, <2>2, <2>4 DEF Counted, Children, Counting, Todo
<1> QED BY <1>3, <1>10, <1>11, <1>12

\* Nothing else changes retry_count.
LEMMA RetriesKept ==
  ASSUME Inv, RecordInv, CreationInv, CountInv, [Next]_vars, ~Crash,
         NEW p \in Requests, \A r \in Requests : ~BumpOf(r, p)
  PROVE  db'.row[p].retries = db.row[p].retries
<1>1. CASE Quiet
  BY <1>1 DEF Quiet, store
<1>2. ASSUME NEW t \in Tasks, Work(t) \/ Accept(t) \/ Leaves(t)
      PROVE  db'.row[p].retries = db.row[p].retries
  <2>1. /\ Serving(t) /\ Execute(t) /\ Op(t).op # "decide"
        /\ t[1] \in Requests /\ t = <<t[1], t[2]>> /\ task[t].st = "db"
    BY <1>2, Served DEF Work, Accept, Leaves, EnterTry, Release, EndHandler, LastHop
  <2>2. ASSUME Op(t).op \in {"insert", "bump"}, Op(t).on = p
        PROVE  Op(t).op = "insert" /\ db.row[p].status = Absent
    <3>1. t[2] = "api"
      BY <2>1, <2>2, OpOfOthers
    <3> DEFINE r == t[1]
    <3>2. Busy(r) /\ Op(t) = Head(Todo(r)) /\ t = <<r, "api">>
      BY <2>1, <3>1 DEF Busy, Op, Todo
    <3>3. ~ReadingParent(r)
      BY <2>1, <2>2, <3>2, ReadingGoesOn DEF ReadingParent
    <3>4. PICK q \in Requests \union {NoRequest} :
            \E n \in 1..Len(Creation(r, q)) :
              Todo(r) = Left(Creation(r, q), n) /\ Created(r, q, n)
      BY <2>1, <3>2, <3>3 DEF CreationInv, Handled, CreatingRecord
    <3>5. PICK n \in 1..Len(Creation(r, q)) :
              Todo(r) = Left(Creation(r, q), n) /\ Created(r, q, n)
      BY <3>4
    <3>6. Op(t) = Creation(r, q)[n]
      BY <2>1, <3>2, <3>5, CreationStep
    <3>7. /\ Op(t).op = "insert" => n = 1 /\ Op(t).on = r
          /\ Op(t).op = "bump" => n = 5 /\ Op(t).on = q
      BY <2>1, <3>6, CreationOps
    <3>8. Op(t).op # "bump"
      <4>1. ASSUME Op(t).op = "bump"
            PROVE  FALSE
        <5>1. n = 5 /\ q = p
          BY <2>2, <3>7, <4>1
        <5>2. p # NoRequest
          BY ParametersAssumption
        <5>3. Rest(t) # <<>>
          <6>1. r \in Requests /\ t = <<r, "api">>
            BY <2>1, <3>2
          <6> HIDE DEF r
          <6>2. Rest(<<r, "api">>) = <<>> => n = IF q = NoRequest THEN 4 ELSE 9
            BY <3>5, <6>1, CreatingGoesOn
          <6> QED BY <5>1, <5>2, <6>1, <6>2
        <5>4. Work(t)
          BY <1>2, <3>1, <5>3, TaskNames
             DEF Accept, Leaves, EnterTry, Release, EndHandler, LastHop
        <5>5. BumpOf(r, p)
          BY <3>2, <3>5, <5>1, <5>4 DEF BumpOf
        <5> QED BY <2>1, <5>5
      <4> QED BY <4>1
    <3>9. Op(t).op = "insert" /\ n = 1 /\ r = p
      BY <2>2, <3>7, <3>8
    <3> QED BY <3>5, <3>9 DEF Created
  <2>3. Op(t).op \in {"insert", "bump"} /\ Op(t).on = p => db.row[p].retries = 0
    BY <2>2 DEF CountInv, CountedUp
  <2>4. CASE Op(t).op = "insert" /\ Op(t).on = p
    BY <2>1, <2>3, <2>4, EffectOn
  <2>5. CASE ~(Op(t).op = "insert" /\ Op(t).on = p)
    <3>1. ~(Op(t).op = "bump" /\ Op(t).on = p)
      BY <2>2
    <3> QED BY <2>1, <2>5, <3>1, EffectOn
  <2> QED BY <2>4, <2>5
<1> QED BY <1>1, <1>2, Steps

\* The sets of retries are finite.
LEMMA RetriesFinite ==
  ASSUME NEW S \in SUBSET Requests
  PROVE  IsFiniteSet(S) /\ Cardinality(S) \in Nat
BY ParametersAssumption, FS_Subset, FS_CardinalityType

\* No retry is recorded or counted at first.
LEMMA InitCount == Init => CountInv
<1> SUFFICES ASSUME Init, NEW p \in Requests PROVE CountedUp(p)
  BY DEF CountInv
<1>1. \A r \in Requests : db.row[r] = NoRow /\ disk.row[r] = NoRow
  BY DEF Init
<1>2. NoRow.retries = 0 /\ NoRow.parent = NoRequest /\ p # NoRequest
  BY ParametersAssumption DEF NoRow
<1>3. Counted(p) = {} /\ ChildrenOnDisk(p) = {}
  BY <1>1, <1>2 DEF Counted, Children, ChildrenOnDisk
<1> QED BY <1>1, <1>2, <1>3, FS_EmptySet DEF CountedUp

\* What the invariant says of counters is what the property says.
LEMMA CountIsEnough == Inv /\ CountInv => RetriesCounted
<1> SUFFICES ASSUME Inv, CountInv, NEW p \in Requests
             PROVE  /\ db.row[p].retries <= Cardinality(Children(p))
                    /\ NoMishap /\ ~Retrying(p) =>
                         db.row[p].retries = Cardinality(Children(p))
  BY DEF RetriesCounted, NoMishap
<1>1. Children(p) \in SUBSET Requests /\ Counted(p) \in SUBSET Children(p)
  BY DEF Children, Counted
<1>2. /\ Cardinality(Counted(p)) <= Cardinality(Children(p))
      /\ Cardinality(Counted(p)) \in Nat /\ Cardinality(Children(p)) \in Nat
  BY <1>1, RetriesFinite, FS_Subset
<1>3. ~Retrying(p) => Counted(p) = Children(p)
  <2>1. ASSUME ~Retrying(p), NEW r \in Requests
        PROVE  ~Counting(r, p)
    BY <2>1 DEF Retrying, Counting, Counts, Busy, Todo
  <2> QED BY <2>1 DEF Counted, Children
<1>4. /\ db.row[p].retries <= Cardinality(Counted(p))
      /\ db.row[p].retries \in Nat
  BY DEF CountInv, CountedUp, Inv, TypeOK, Databases, Rows
<1>5. NoMishap => db.row[p].retries = Cardinality(Counted(p))
  BY DEF CountInv, CountedUp
<1>6. db.row[p].retries <= Cardinality(Children(p))
  BY <1>2, <1>4
<1> QED BY <1>3, <1>5, <1>6

\* Every step keeps the counters within the retries recorded.
LEMMA NextCount ==
  Inv /\ RecordInv /\ CreationInv /\ CountInv /\ [Next]_vars => CountInv'
<1> SUFFICES ASSUME Inv, RecordInv, CreationInv, CountInv, [Next]_vars,
                    NEW p \in Requests
             PROVE  CountedUp(p)'
  BY DEF CountInv
<1> DEFINE C == Counted(p)
           D == Counted(p)'
<1>1. /\ db.row[p].retries <= Cardinality(C)
      /\ NoMishap => db.row[p].retries = Cardinality(C)
      /\ disk.row[p].retries <= Cardinality(ChildrenOnDisk(p))
      /\ db.row[p].status = Absent => db.row[p].retries = 0
      /\ disk.row[p].status = Absent => disk.row[p].retries = 0
  BY DEF CountInv, CountedUp
<1>2. /\ C \in SUBSET Requests /\ D \in SUBSET Requests
      /\ IsFiniteSet(C) /\ Cardinality(C) \in Nat
      /\ IsFiniteSet(D) /\ Cardinality(D) \in Nat
  BY RetriesFinite DEF Counted, Children
<1>3. db.row[p].retries \in Nat
  BY DEF Inv, TypeOK, Databases, Rows
<1>4. CASE Crash
  <2>1. db' = disk /\ disk' = disk /\ ~NoMishap'
    BY <1>4, MishapsStay DEF Crash
  <2>2. \A r \in Requests : task'[<<r, "api">>].st # "db"
    <3>1. \A r \in Requests : <<r, "api">> \in Tasks
      BY TaskNames
    <3>2. ASSUME NEW r \in Requests
          PROVE  task'[<<r, "api">>].st # "db"
      <4>1. task'[<<r, "api">>] = IF task[<<r, "api">>].st = "idle"
                                  THEN task[<<r, "api">>] ELSE Fresh("done")
        BY <1>4, <3>1 DEF Crash
      <4>2. Fresh("done").st = "done"
        BY DEF Fresh, Coroutine
      <4> QED BY <4>1, <4>2
    <3> QED BY <3>2
  <2>3. D = ChildrenOnDisk(p) /\ ChildrenOnDisk(p)' = ChildrenOnDisk(p)
    BY <2>1, <2>2 DEF Counted, Children, Counting, Busy, ChildrenOnDisk
  <2> HIDE DEF C, D
  <2>4. Counted(p)' = ChildrenOnDisk(p)
    BY <2>3 DEF D
  <2> QED BY <1>1, <2>1, <2>3, <2>4 DEF CountedUp
<1>5. CASE ~Crash
  <2>1. C \subseteq D
    BY <1>5, CountedStay
  <2>2. NoMishap' => NoMishap /\ \A r \in D : r \in C \/ BumpOf(r, p)
    BY <1>2, CountedCome, MishapsStay
  <2>3. /\ db'.row[p].status = Absent => db.row[p].status = Absent
        /\ \/ disk' = disk
           \/ disk' = db
    <3>1. CASE UNCHANGED store
      BY <3>1 DEF store
    <3>2. ASSUME NEW t, Serving(t), Execute(t)
          PROVE  /\ db'.row[p].status = Absent => db.row[p].status = Absent
                 /\ disk' = disk \/ disk' = db
      BY <3>2, TablesGo, EffectOn DEF CreationInv
    <3> QED BY <1>5, <3>1, <3>2, TablesMove
  <2>4. /\ db'.row[p].retries <= Cardinality(D)
        /\ NoMishap' => db'.row[p].retries = Cardinality(D)
        /\ db'.row[p].status = Absent => db'.row[p].retries = 0
    <3>1. ASSUME NEW r \in Requests, BumpOf(r, p)
          PROVE  /\ db'.row[p].retries <= Cardinality(D)
                 /\ NoMishap' => db'.row[p].retries = Cardinality(D)
                 /\ db'.row[p].status = Absent => db'.row[p].retries = 0
      <4>1. /\ db'.row[p].retries = db.row[p].retries + 1
            /\ r \notin C /\ r \in D /\ db.row[p].status # Absent
        BY <1>5, <3>1, BumpDoes
      <4>2. \A q \in Requests : BumpOf(q, p) => q = r
        <5>1. \A q \in Requests : BumpOf(q, p) => Serving(<<q, "api">>)
          BY DEF BumpOf, Work
        <5>2. Serving(<<r, "api">>)
          BY <3>1, <5>1
        <5> QED BY <5>1, <5>2, TaskNames DEF Serving
      <4> HIDE DEF C, D
      <4>3. NoMishap' => D = C \union {r}
        BY <1>2, <2>1, <2>2, <4>1, <4>2
      <4>4. /\ IsFiniteSet(C \union {r})
            /\ Cardinality(C \union {r}) = Cardinality(C) + 1
        BY <1>2, <4>1, FS_AddElement
      <4>5. C \union {r} \in SUBSET D
        BY <2>1, <4>1
      <4>6. Cardinality(C \union {r}) <= Cardinality(D)
        BY <1>2, <4>5, FS_Subset
      <4>7. db'.row[p].retries <= Cardinality(D)
        BY <1>1, <1>2, <1>3, <4>1, <4>4, <4>6
      <4>8. NoMishap' => db'.row[p].retries = Cardinality(D)
        BY <1>1, <2>2, <4>1, <4>3, <4>4
      <4>9. db'.row[p].status # Absent
        BY <2>3, <4>1
      <4> QED BY <4>7, <4>8, <4>9
    <3>2. CASE \A r \in Requests : ~BumpOf(r, p)
      <4>1. db'.row[p].retries = db.row[p].retries
        BY <1>5, <3>2, RetriesKept
      <4> HIDE DEF C, D
      <4>2. NoMishap' => D = C
        BY <1>2, <2>1, <2>2, <3>2
      <4>3. Cardinality(C) <= Cardinality(D)
        BY <1>2, <2>1, FS_Subset
      <4>4. db'.row[p].retries <= Cardinality(D)
        BY <1>1, <1>2, <1>3, <4>1, <4>3
      <4>5. NoMishap' => db'.row[p].retries = Cardinality(D)
        BY <1>1, <2>2, <4>1, <4>2
      <4>6. db'.row[p].status = Absent => db'.row[p].retries = 0
        BY <1>1, <2>3, <4>1
      <4> QED BY <4>4, <4>5, <4>6
    <3> QED BY <3>1, <3>2
  <2>5. /\ disk'.row[p].retries <= Cardinality(ChildrenOnDisk(p)')
        /\ disk'.row[p].status = Absent => disk'.row[p].retries = 0
    <3>1. CASE disk' = disk
      BY <1>1, <3>1 DEF ChildrenOnDisk
    <3>2. CASE disk' = db
      <4>1. ChildrenOnDisk(p)' = Children(p)
        BY <3>2 DEF ChildrenOnDisk, Children
      <4>2. C \in SUBSET Children(p) /\ Children(p) \in SUBSET Requests
        BY DEF Counted, Children
      <4> HIDE DEF C
      <4>3. /\ Cardinality(C) <= Cardinality(Children(p))
            /\ Cardinality(Children(p)) \in Nat
        BY <4>2, RetriesFinite, FS_Subset
      <4> QED BY <1>1, <1>2, <1>3, <3>2, <4>1, <4>3
    <3> QED BY <2>3, <3>1, <3>2
  <2> QED BY <2>4, <2>5 DEF CountedUp
<1> QED BY <1>4, <1>5

-----------------------------------------------------------------------------
(* The theorems *)

\* How far each HTTP handler has come is what is in the tables and on disk.
THEOREM CreationsSafe == Spec => []CreationInv
BY InitCreation, NextCreation, Invariance, RecordsTrue, PTL DEF Spec

\* Once the client has its 202 no crash makes the status endpoint answer 404:
\* the record and its first event are on disk before the task exists.
THEOREM AcksDurable == Spec => []AckedIsDurable
<1>1. CreationInv => AckedIsDurable
  BY DEF CreationInv
<1> QED BY <1>1, CreationsSafe, PTL

\* How many of the retries are counted is retry_count, less the mishaps.
THEOREM CountsSafe == Spec => []CountInv
BY InitCount, NextCount, Invariance, RecordsTrue, CreationsSafe, PTL DEF Spec

\* retry_count never exceeds the retries that are recorded, and equals them
\* when no retry is under way and nothing has failed.
THEOREM RetriesAddUp == Spec => []RetriesCounted
BY CountIsEnough, Invariance, CountsSafe, PTL

=============================================================================
