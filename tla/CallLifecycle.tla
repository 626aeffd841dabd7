---------------------------- MODULE CallLifecycle ----------------------------
(***************************************************************************)
(* The life of a voice call: the HTTP handlers that admit it, the          *)
(* background task that dials it, the AMI event handlers that drive its    *)
(* status, and the one SQLite connection they all share.                   *)
(*                                                                         *)
(* The service is one asyncio loop.  Every statement on the aiosqlite      *)
(* connection is a request to a single worker thread that serves requests  *)
(* in order; the coroutine that made it resumes when it is served and puts *)
(* its next request at the tail.  A coroutine is therefore a sequence of   *)
(* hops through the queue dbq, and hops of different coroutines alternate. *)
(* That order decides which of two racing status updates wins, so it is    *)
(* modelled hop by hop.                                                    *)
(***************************************************************************)
EXTENDS CallStatus, Sequences

CONSTANTS
  Requests,        \* request identifiers (uuid4 in the code)
  NoRequest,       \* parent of a call that is not a retry
  MaxConcurrent,   \* rate_limit.max_concurrent_calls
  Causes,          \* Q.850 causes Asterisk may report for a lost call
  Reasons,         \* failure reasons of OriginateResponse
  AfterReconnect,  \* are event handlers attached after a reconnect?
  MaxBacklog,      \* bound: new work arrives only while dbq is shorter
  MaxDrops, MaxCrashes, MaxFaults \* bounds on AMI drops, crashes, DB faults

ASSUME ParametersAssumption ==
  /\ IsFiniteSet(Requests)
  /\ NoRequest \notin Requests
  /\ MaxConcurrent \in Nat \ {0}
  /\ Causes \subseteq Int /\ Reasons \subseteq Int
  /\ AfterReconnect \subseteq {"wired", "unwired"}
  /\ MaxBacklog \in Nat \ {0}
  /\ MaxDrops \in Nat /\ MaxCrashes \in Nat /\ MaxFaults \in Nat

VARIABLES
  db,      \* rows and timelines as the connection sees them
  disk,    \* the committed part, what a restart finds
  task,    \* the coroutines, by request and kind
  dbq,     \* requests waiting for the database worker, one per coroutine
  active,  \* RateLimiter._active_count
  ami,     \* the AMI link, and whether event handlers hang on it
  call,    \* what Asterisk is doing with the call
  due,     \* OriginateResponse not sent yet
  used     \* mishaps so far: drops, crashes, faults

store == <<db, disk>>
asterisk == <<call, due>>
vars == <<db, disk, task, dbq, active, ami, call, due, used>>

-----------------------------------------------------------------------------
Handlers == {"ringing", "up", "callstart", "playing", "complete", "hangup",
             "response"}
Kinds == {"api", "exec"} \union Handlers
Tasks == Requests \X Kinds

Rows == [status : Statuses \union {Absent}, bound : BOOLEAN, retries : Nat,
         parent : Requests \union {NoRequest}]
NoRow == [status |-> Absent, bound |-> FALSE, retries |-> 0,
          parent |-> NoRequest]
Databases == [row : [Requests -> Rows], log : [Requests -> SUBSET EventNames]]

Writes == {"insert", "write", "bind", "log", "bump"}

\* One request to the database worker: what it does, to which record, and the
\* status, event, parent or mapped cause it does it with.
HopSet(ops, args) == [op : ops, on : Requests, arg : args]
Hops ==
  HopSet({"select", "find", "fetch", "close", "found", "decide", "bump",
          "commit"}, {""})
  \union HopSet({"guard", "write", "bind"}, Statuses)
  \union HopSet({"log"}, EventNames)
  \union HopSet({"insert"}, Requests \union {NoRequest})
  \union HopSet({"route"}, Statuses \union {"unmapped"})

\* st: idle, ready (a background task not begun), db (in dbq), send (about to
\* originate), wait (for OriginateResponse), orphan (waiting on a connection
\* that is gone), lost (died holding its slot), done.
TaskStates == {"idle", "ready", "db", "send", "wait", "orphan", "lost", "done"}
Parts == {"", "pre", "rejected", "except", "forward"}
TaskRecords == [st : TaskStates, part : Parts, todo : Seq(Hops),
                seen : Statuses \union {Absent}]
Coroutine(st, part, todo) ==
  [st |-> st, part |-> part, todo |-> todo, seen |-> Absent]
Fresh(st) == Coroutine(st, "", <<>>)

Phases == {"none", "dialing", "ringing", "up", "dialplan", "playing", "played",
           "refused", "dropped", "finished"}

TypeOK ==
  /\ db \in Databases /\ disk \in Databases
  /\ task \in [Tasks -> TaskRecords]
  /\ dbq \in Seq(Tasks)
  /\ active \in Nat
  /\ ami \in {"starting", "wired", "unwired", "down"}
  /\ call \in [Requests -> Phases]
  /\ due \in [Requests -> Statuses \union {"no"}]
  /\ used \in [{"drop", "crash", "fault"} -> Nat]

-----------------------------------------------------------------------------
\* The coroutines, as the hops they make.
Hop(op, r, arg) == [op |-> op, on |-> r, arg |-> arg]

\* update_call_status: read the record (execute, fetchone, close the cursor),
\* decide on what was read, write, commit.
UpdateVia(w, r, s) ==
  <<Hop("select", r, ""), Hop("fetch", r, ""), Hop("guard", r, s),
    Hop(w, r, s), Hop("commit", r, "")>>
Update(r, s) == UpdateVia("write", r, s)

\* Mutant: add_event forgets its commit.
AddEventUncommitted(r, e) == <<Hop("log", r, e)>>

AddEvent(r, e) == <<Hop("log", r, e), Hop("commit", r, "")>>

\* get_call_by_channel; `last` says what the caller does with the record.
FindThen(last, r, arg) ==
  <<Hop("find", r, ""), Hop("fetch", r, ""), Hop(last, r, arg)>>

CreateRecord(r, parent) ==
  <<Hop("insert", r, parent), Hop("commit", r, "")>> \o AddEvent(r, "queued")

ReadParent(p) ==
  <<Hop("select", p, ""), Hop("fetch", p, ""), Hop("decide", p, "")>>

IncrementRetry(p) ==
  <<Hop("bump", p, ""), Hop("commit", p, ""), Hop("select", p, ""),
    Hop("fetch", p, ""), Hop("close", p, "")>>

OnNewState(r, s) == FindThen("found", r, "") \o Update(r, s) \o AddEvent(r, s)

OnHangup(r, mapped) == FindThen("route", r, mapped)

OnCallStart(r) ==
  UpdateVia("bind", r, "answered") \o AddEvent(r, "dialplan_start")
\* Mutant: the event is logged before the status is updated.
OnPlaybackStartLogFirst(r) == AddEvent(r, "playing") \o Update(r, "playing")

OnPlaybackStart(r) == Update(r, "playing") \o AddEvent(r, "playing")
OnPlaybackComplete(r) ==
  Update(r, "completed") \o AddEvent(r, "playback_complete")

\* Mutant: a failure is logged and the status left alone.
OnOriginateResponseLogged(r, s) == AddEvent(r, "originate_response")

\* s is the status of the reason; "answered" is the reason of a success.
OnOriginateResponse(r, s) ==
  AddEvent(r, "originate_response")
    \o (IF s = "answered" THEN <<>> ELSE Update(r, s))

\* _execute_call before the try, and its two failure paths.
BeforeTry(r) == Update(r, "originating") \o AddEvent(r, "originating")
OnFailed(r) == Update(r, "failed") \o AddEvent(r, "failed")

\* The rest of _on_hangup once the record is read.
HangupBody(r, mapped, seen) ==
  AddEvent(r, "hangup")
    \o (IF seen \in Terminal THEN <<>>
        ELSE Update(r, HangupStatus(mapped, seen)))

-----------------------------------------------------------------------------
\* One hop of the worker thread.
Op(t) == Head(task[t].todo)

\* Mutant: every call is found by its channel, bound or not.
ReadByAnyChannel(h) == db.row[h.on].status

\* Channels are unique to a call, so a lookup by channel finds the call's own
\* row once the channel is stored in it, and nothing before.
ReadBy(h) ==
  IF h.op = "find" /\ ~db.row[h.on].bound THEN Absent ELSE db.row[h.on].status

Seen(t) ==
  IF Op(t).op \in {"select", "find"} THEN ReadBy(Op(t)) ELSE task[t].seen

\* What is left of the coroutine after the hop, given what it has read.
Rest(t) ==
  LET h == Op(t)
      seen == task[t].seen
  IN CASE h.op = "guard" /\ Refuses(seen, h.arg) ->
            SubSeq(task[t].todo, 4, Len(task[t].todo))
       [] h.op = "found" /\ seen = Absent -> <<>>
       [] h.op = "route" ->
            IF seen = Absent THEN <<>> ELSE HangupBody(h.on, h.arg, seen)
       [] OTHER -> Tail(task[t].todo)

\* The statement's effect on the rows and the timelines.
SetRow(r, row) == [db EXCEPT !.row[r] = row]
Effect(h) ==
  CASE h.op = "insert" ->
         SetRow(h.on, [NoRow EXCEPT !.status = "queued", !.parent = h.arg])
    [] h.op = "write" -> SetRow(h.on, [db.row[h.on] EXCEPT !.status = h.arg])
    [] h.op = "bind" ->
         SetRow(h.on, [db.row[h.on] EXCEPT !.status = h.arg, !.bound = TRUE])
    [] h.op = "bump" -> SetRow(h.on, [db.row[h.on] EXCEPT !.retries = @ + 1])
    [] h.op = "log" -> [db EXCEPT !.log[h.on] = @ \union {h.arg}]
    [] OTHER -> db

\* The connection is shared: a commit makes every earlier statement durable,
\* whichever coroutine made it.
Execute(t) ==
  /\ db' = Effect(Op(t))
  /\ disk' = IF Op(t).op = "commit" THEN db ELSE disk

\* Give task t a new list of hops and put its first one in the queue.
Put(t, part, todo, queue) ==
  /\ task' = [task EXCEPT ![t] = Coroutine("db", part, todo)]
  /\ dbq' = Append(queue, t)

\* Task t, at the head of the queue, leaves it in state st.
Leave(t, st) ==
  /\ task' = [task EXCEPT ![t] = Fresh(st)]
  /\ dbq' = Tail(dbq)

Serving(t) == dbq # <<>> /\ t = Head(dbq)
LastHop(t) == Serving(t) /\ Op(t).op # "decide" /\ Rest(t) = <<>>

-----------------------------------------------------------------------------
\* HTTP handlers.  Capacity is checked in send_otp_call; the hourly and
\* per-number limits only refuse more and are left to RateLimiter.  A refused
\* send_otp_call changes nothing, so only the admitted one is an action.
Submit(r) ==
  LET t == <<r, "api">>
  IN /\ ami # "starting"
     /\ task[t].st = "idle" /\ db.row[r].status = Absent
     /\ active < MaxConcurrent
     /\ Put(t, "", CreateRecord(r, NoRequest), dbq)
     /\ UNCHANGED <<store, active, ami, asterisk, used>>

\* retry_call(p): the client knows p, r is the identifier of the new call.
SubmitRetry(r, p) ==
  LET t == <<r, "api">>
  IN /\ ami # "starting"
     /\ task[t].st = "idle" /\ db.row[r].status = Absent
     /\ task[<<p, "exec">>].st # "idle"
     /\ Put(t, "", ReadParent(p), dbq)
     /\ UNCHANGED <<store, active, ami, asterisk, used>>

Deciding(t) == Serving(t) /\ t[2] = "api" /\ Op(t).op = "decide"

\* 404, 409, 503, and the rate limits' 429, which may happen at any time.
RefuseRetry(t) ==
  /\ Deciding(t)
  /\ Leave(t, "idle")
  /\ UNCHANGED <<store, active, ami, asterisk, used>>

\* Mutant: the parent's status is not checked (no 409).
AdmitRetryOfAny(t) ==
  LET parent == Op(t).on
  IN /\ Deciding(t)
     /\ active < MaxConcurrent
     /\ Put(t, "", CreateRecord(t[1], parent) \o IncrementRetry(parent),
            Tail(dbq))
     /\ UNCHANGED <<store, active, ami, asterisk, used>>

\* Mutant: the parent is counted before the retry exists.
AdmitRetryBumpFirst(t) ==
  LET parent == Op(t).on
  IN /\ Deciding(t)
     /\ task[t].seen \in Retryable
     /\ active < MaxConcurrent
     /\ Put(t, "", IncrementRetry(parent) \o CreateRecord(t[1], parent),
            Tail(dbq))
     /\ UNCHANGED <<store, active, ami, asterisk, used>>

AdmitRetry(t) ==
  LET parent == Op(t).on
  IN /\ Deciding(t)
     /\ task[t].seen \in Retryable
     /\ active < MaxConcurrent
     /\ Put(t, "", CreateRecord(t[1], parent) \o IncrementRetry(parent),
            Tail(dbq))
     /\ UNCHANGED <<store, active, ami, asterisk, used>>

\* The 202 is sent and the background task is scheduled.
Accept(t) ==
  /\ LastHop(t) /\ t[2] = "api"
  /\ Execute(t)
  /\ task' = [task EXCEPT ![t] = Fresh("done"),
                          ![<<t[1], "exec">>] = Fresh("ready")]
  /\ dbq' = Tail(dbq)
  /\ UNCHANGED <<active, ami, asterisk, used>>

-----------------------------------------------------------------------------
\* _execute_call.
Acquire(r) ==
  /\ task[<<r, "exec">>].st = "ready"
  /\ active' = active + 1
  /\ Put(<<r, "exec">>, "pre", BeforeTry(r), dbq)
  /\ UNCHANGED <<store, ami, asterisk, used>>

\* The statements before the try are done; originate() is next.
EnterTry(t) ==
  /\ LastHop(t) /\ t[2] = "exec" /\ task[t].part = "pre"
  /\ Execute(t)
  /\ Leave(t, "send")
  /\ UNCHANGED <<active, ami, asterisk, used>>

Connected == ami \in {"wired", "unwired"}

\* Asterisk acknowledges the Originate and dials.
Originate(r) ==
  LET t == <<r, "exec">>
  IN /\ task[t].st = "send" /\ Connected
     /\ task' = [task EXCEPT ![t] = Fresh("wait")]
     /\ call' = [call EXCEPT ![r] = "dialing"]
     /\ UNCHANGED <<store, dbq, active, ami, due, used>>

\* Not connected, or an acknowledgement that is not Success.
OriginateNotAccepted(r) ==
  LET t == <<r, "exec">>
  IN /\ task[t].st = "send"
     /\ Put(t, "rejected", OnFailed(r), dbq)
     /\ UNCHANGED <<store, active, ami, asterisk, used>>

CallEnded(r) == call[r] \in {"refused", "dropped", "finished"}

\* What is true of a call 120 s after its Originate.  It rang at most the 30 s
\* of the action's Timeout, and Wait(1) is all that the dialplan does before
\* OTPPlaybackStart: what was sent up to there is almost 90 s old and handled.
\* How long it plays depends on the code, which a retry may bring at any
\* length, so its end may be as recent as one likes.
LongAgo(r) ==
  /\ call[r] \in {"playing", "played"} \/ CallEnded(r)
  /\ due[r] = "no"
  /\ \A k \in Handlers \ {"complete", "hangup"} : task[<<r, k>>].st # "db"

\* Mutant: the wait has no timeout.
OriginateTimeoutNever(r) == r \notin Requests /\ UNCHANGED vars

\* Mutant: the wait is shorter than a call.
OriginateTimeoutEarly(r) ==
  LET t == <<r, "exec">>
  IN /\ task[t].st \in {"wait", "orphan"}
     /\ Put(t, "rejected", OnFailed(r), dbq)
     /\ UNCHANGED <<store, active, ami, asterisk, used>>

\* Mutant: the timeout is not caught, and the try has no finally clause.
OriginateTimeoutUncaught(r) ==
  LET t == <<r, "exec">>
  IN /\ task[t].st = "orphan" /\ LongAgo(r)
     /\ task' = [task EXCEPT ![t] = Fresh("lost")]
     /\ UNCHANGED <<store, dbq, active, ami, asterisk, used>>

\* wait_for(..., timeout + 90) expires on a response that cannot come any more,
\* whether the call is over or still playing.
OriginateTimeout(r) ==
  LET t == <<r, "exec">>
  IN /\ task[t].st = "orphan" /\ LongAgo(r)
     /\ Put(t, "rejected", OnFailed(r), dbq)
     /\ UNCHANGED <<store, active, ami, asterisk, used>>

\* The finally clause, and release_slot's guard on the counter.
ReleaseSlot == active' = IF active > 0 THEN active - 1 ELSE active

Release(t) ==
  /\ LastHop(t) /\ t[2] = "exec" /\ task[t].part # "pre"
  /\ Execute(t)
  /\ Leave(t, "done")
  /\ ReleaseSlot
  /\ UNCHANGED <<ami, asterisk, used>>

-----------------------------------------------------------------------------
\* The database worker serves a request and the coroutine, resumed, makes its
\* next one.  Whatever enters the queue between the two might as well have
\* entered it just before, so one step is enough.
Work(t) ==
  /\ Serving(t) /\ Op(t).op # "decide" /\ Rest(t) # <<>>
  /\ Execute(t)
  /\ task' = [task EXCEPT ![t].todo = Rest(t), ![t].seen = Seen(t)]
  /\ dbq' = Append(Tail(dbq), t)
  /\ UNCHANGED <<active, ami, asterisk, used>>

EndHandler(t) ==
  /\ LastHop(t) /\ t[2] \in Handlers
  /\ Execute(t)
  /\ Leave(t, "done")
  /\ UNCHANGED <<active, ami, asterisk, used>>

\* A write fails ("database is locked"): the statement raises in the coroutine.
Faulting(t) ==
  /\ Serving(t) /\ Op(t).op \in Writes
  /\ used["fault"] < MaxFaults
  /\ used' = [used EXCEPT !["fault"] = @ + 1]

\* In an event handler it ends the handler; in an HTTP handler it is a 500.
FaultInHandler(t) ==
  /\ Faulting(t) /\ t[2] # "exec"
  /\ Leave(t, "done")
  /\ UNCHANGED <<store, active, ami, asterisk>>

\* Before the try nothing catches it and nothing releases the slot.
FaultBeforeTry(t) ==
  /\ Faulting(t) /\ t[2] = "exec" /\ task[t].part = "pre"
  /\ Leave(t, "lost")
  /\ UNCHANGED <<store, active, ami, asterisk>>

\* Inside the try the except clause writes INTERNAL_ERROR.
FaultInTry(t) ==
  /\ Faulting(t) /\ t[2] = "exec" /\ task[t].part = "rejected"
  /\ Put(t, "except", OnFailed(t[1]), Tail(dbq))
  /\ UNCHANGED <<store, active, ami, asterisk>>

\* Mutant: release_slot is the last statement instead of a finally clause.
FaultThenLeak(t) ==
  /\ Faulting(t) /\ t[2] = "exec" /\ task[t].part \in {"forward", "except"}
  /\ Leave(t, "done")
  /\ UNCHANGED <<store, active, ami, asterisk>>

\* originate() swallows it when it forwards the OriginateResponse; in the
\* except clause it propagates; the finally clause runs in both.
FaultThenRelease(t) ==
  /\ Faulting(t) /\ t[2] = "exec" /\ task[t].part \in {"forward", "except"}
  /\ Leave(t, "done")
  /\ ReleaseSlot
  /\ UNCHANGED <<store, ami, asterisk>>

-----------------------------------------------------------------------------
\* Asterisk.  An event starts its handler if the handlers are attached to the
\* live connection, and is lost otherwise.
Emit(r, kind, todo) ==
  IF ami = "wired" THEN Put(<<r, kind>>, "", todo, dbq)
  ELSE UNCHANGED <<task, dbq>>

Ring(r) ==
  /\ call[r] = "dialing"
  /\ call' = [call EXCEPT ![r] = "ringing"]
  /\ Emit(r, "ringing", OnNewState(r, "ringing"))
  /\ UNCHANGED <<store, active, ami, due, used>>

Answer(r) ==
  /\ call[r] \in {"dialing", "ringing"}
  /\ call' = [call EXCEPT ![r] = "up"]
  /\ due' = [due EXCEPT ![r] = "answered"]
  /\ Emit(r, "up", OnNewState(r, "answered"))
  /\ UNCHANGED <<store, active, ami, used>>

StartDialplan(r) ==
  /\ call[r] = "up"
  /\ call' = [call EXCEPT ![r] = "dialplan"]
  /\ Emit(r, "callstart", OnCallStart(r))
  /\ UNCHANGED <<store, active, ami, due, used>>

StartPlayback(r) ==
  /\ call[r] = "dialplan"
  /\ call' = [call EXCEPT ![r] = "playing"]
  /\ Emit(r, "playing", OnPlaybackStart(r))
  /\ UNCHANGED <<store, active, ami, due, used>>

FinishPlayback(r) ==
  /\ call[r] = "playing"
  /\ call' = [call EXCEPT ![r] = "played"]
  /\ Emit(r, "complete", OnPlaybackComplete(r))
  /\ UNCHANGED <<store, active, ami, due, used>>

\* The dialplan's own Hangup() after the goodbye: normal clearing.
HangUp(r) ==
  /\ call[r] = "played"
  /\ call' = [call EXCEPT ![r] = "finished"]
  /\ Emit(r, "hangup", OnHangup(r, CauseStatus(16)))
  /\ UNCHANGED <<store, active, ami, due, used>>

\* The callee hangs up, or the trunk fails, before the playback is complete.
Drop(r) ==
  /\ call[r] \in {"up", "dialplan", "playing"}
  /\ call' = [call EXCEPT ![r] = "dropped"]
  /\ \E cause \in Causes : Emit(r, "hangup", OnHangup(r, CauseStatus(cause)))
  /\ UNCHANGED <<store, active, ami, due, used>>

\* Busy, no answer, congestion: the call was never picked up.
Refuse(r) ==
  /\ call[r] \in {"dialing", "ringing"}
  /\ call' = [call EXCEPT ![r] = "refused"]
  /\ \E reason \in Reasons : due' = [due EXCEPT ![r] = ReasonStatus(reason)]
  /\ \E cause \in Causes : Emit(r, "hangup", OnHangup(r, CauseStatus(cause)))
  /\ UNCHANGED <<store, active, ami, used>>

\* OriginateResponse: to the coroutine that awaits it on this connection, else
\* to the event handler, else to nobody.
Respond(r) ==
  LET t == <<r, "exec">>
      todo == OnOriginateResponse(r, due[r])
  IN /\ due[r] # "no"
     /\ due' = [due EXCEPT ![r] = "no"]
     /\ IF task[t].st = "wait" THEN Put(t, "forward", todo, dbq)
        ELSE Emit(r, "response", todo)
     /\ UNCHANGED <<store, active, ami, call, used>>

-----------------------------------------------------------------------------
\* The AMI link and the process.
Startup ==
  /\ ami = "starting"
  /\ ami' = "wired"
  /\ UNCHANGED <<store, task, dbq, active, asterisk, used>>

\* The futures of the lost connection are never resolved.
Disconnect ==
  /\ Connected /\ used["drop"] < MaxDrops
  /\ used' = [used EXCEPT !["drop"] = @ + 1]
  /\ ami' = "down"
  /\ task' = [t \in Tasks |-> IF task[t].st = "wait" THEN Fresh("orphan")
                              ELSE task[t]]
  /\ UNCHANGED <<store, dbq, active, asterisk>>

\* _do_connect builds a new Manager and init_event_handler is not run again;
\* whether handlers are attached afterwards is up to panoramisk.
Reconnect ==
  /\ ami = "down"
  /\ ami' \in AfterReconnect
  /\ UNCHANGED <<store, task, dbq, active, asterisk, used>>

\* The process dies and is restarted: coroutines, queue, counter and whatever
\* was not committed are gone.  Asterisk and its calls are not affected.
Crash ==
  /\ ami # "starting" /\ used["crash"] < MaxCrashes
  /\ used' = [used EXCEPT !["crash"] = @ + 1]
  /\ ami' = "starting"
  /\ db' = disk
  /\ task' = [t \in Tasks |-> IF task[t].st = "idle" THEN task[t]
                              ELSE Fresh("done")]
  /\ dbq' = <<>>
  /\ active' = 0
  /\ UNCHANGED <<disk, asterisk>>

-----------------------------------------------------------------------------
Init ==
  /\ db = [row |-> [r \in Requests |-> NoRow],
           log |-> [r \in Requests |-> {}]]
  /\ disk = db
  /\ task = [t \in Tasks |-> Fresh("idle")]
  /\ dbq = <<>>
  /\ active = 0
  /\ ami = "starting"
  /\ call = [r \in Requests |-> "none"]
  /\ due = [r \in Requests |-> "no"]
  /\ used = [m \in {"drop", "crash", "fault"} |-> 0]

Http(r) == Submit(r) \/ \E p \in Requests \ {r} : SubmitRetry(r, p)

Execution(r) == \/ Acquire(r) \/ Originate(r) \/ OriginateNotAccepted(r)
                \/ OriginateTimeout(r)

Serve(t) == \/ Work(t) \/ RefuseRetry(t) \/ AdmitRetry(t) \/ Accept(t)
            \/ EnterTry(t) \/ Release(t) \/ EndHandler(t)

Fault(t) == \/ FaultInHandler(t) \/ FaultBeforeTry(t) \/ FaultInTry(t)
            \/ FaultThenRelease(t)

Progress(r) == \/ Ring(r) \/ Answer(r) \/ StartDialplan(r) \/ StartPlayback(r)
               \/ FinishPlayback(r) \/ HangUp(r) \/ Drop(r) \/ Refuse(r)

Room == Len(dbq) < MaxBacklog

Next ==
  \/ \E r \in Requests :
       Room /\ (Http(r) \/ Execution(r) \/ Progress(r) \/ Respond(r))
  \/ \E t \in Tasks : Serve(t) \/ Fault(t)
  \/ Startup \/ Disconnect \/ Reconnect \/ Crash

Spec == Init /\ [][Next]_vars

\* The loop and the worker keep running, background tasks are started, timers
\* fire, Asterisk ends every call and reports on it, the client reconnects and
\* systemd restarts the service.  Nothing forces a client to call, a call to be
\* answered, or a mishap to happen.
Fairness ==
  /\ WF_vars(\E t \in Tasks : Serve(t))
  /\ \A r \in Requests : /\ WF_vars(Room /\ Execution(r))
                         /\ WF_vars(Room /\ Progress(r))
                         /\ WF_vars(Room /\ Respond(r))
  /\ WF_vars(Startup) /\ WF_vars(Reconnect)

FairSpec == Spec /\ Fairness

-----------------------------------------------------------------------------
(* Properties *)

Holding == {"db", "send", "wait", "orphan", "lost"}
SlotHolders == {r \in Requests : task[<<r, "exec">>].st \in Holding}
Leaked == {r \in Requests : task[<<r, "exec">>].st = "lost"}

\* The counter the capacity check and /health read is the number of
\* _execute_call coroutines between acquire_slot and release_slot, leaked ones
\* included: no path releases twice, none forgets to, a restart resets it.
SlotAccounting == active = Cardinality(SlotHolders)

\* A slot is lost for good only by a failed statement before the try of
\* _execute_call: never more leaked slots than database faults.
LeakBounded == Cardinality(Leaked) <= used["fault"]

PickedUp == {"up", "dialplan", "playing", "played", "dropped", "finished"}

\* is_answered of the status response: "True if the user picked up at any
\* point".  Whatever is recorded of a call never claims an answer that did not
\* happen, although a Hangup with cause 16 alone is recorded as "completed".
AnsweredIsTrue ==
  \A r \in Requests :
    IsAnswered(db.row[r].status, db.log[r]) => call[r] \in PickedUp

\* Once the client has its 202 the record and the first line of its timeline
\* are on disk, so no crash makes the status endpoint answer 404.
AckedIsDurable ==
  \A r \in Requests :
    task[<<r, "exec">>].st # "idle" =>
      disk.row[r].status # Absent /\ "queued" \in disk.log[r]

Children(p) == {c \in Requests : db.row[c].parent = p}
Retrying(p) ==
  \E r \in Requests :
    LET t == task[<<r, "api">>]
    IN t.st = "db" /\ \E i \in DOMAIN t.todo : t.todo[i] = Hop("bump", p, "")

\* retry_count of a call never exceeds its recorded retries, and without a
\* mishap it equals them whenever no retry_call for it is under way.
RetriesCounted ==
  \A p \in Requests :
    /\ db.row[p].retries <= Cardinality(Children(p))
    /\ (\A m \in DOMAIN used : used[m] = 0) /\ ~Retrying(p) =>
         db.row[p].retries = Cardinality(Children(p))

Live(r) == call[r] \in {"dialing", "ringing", "up", "dialplan", "playing",
                        "played"}

\* A call whose Originate was given up after the link was lost may play on.
PlaysOn(r) == used["drop"] > 0 /\ call[r] \in {"playing", "played"}

\* can_retry: a status that lets the client retry is never recorded of a call
\* that may still ring, be picked up or begin to play, whatever was lost, timed
\* out or failed on the way; nor, while the link holds, of one that plays.
RetryableMeansOver ==
  \A r \in Requests :
    db.row[r].status \in Retryable => ~Live(r) \/ PlaysOn(r)

\* The callee's phone never rings for a retry while it may still ring for the
\* call it replaces; nor while that call plays, unless the link was lost and
\* the wait for its OriginateResponse expired before a long code was read out.
NoParallelAttempts ==
  \A r, p \in Requests :
    db.row[r].parent = p /\ Live(r) => ~Live(p) \/ PlaysOn(p)

\* "don't go back from terminal": short of a crash, no interleaving of the
\* stale read in update_call_status with another update takes a call from a
\* terminal status to one that is not.
NoRegression ==
  [][used'["crash"] = used["crash"] =>
       \A r \in Requests : db.row[r].status \in Terminal =>
                             db'.row[r].status \in Terminal]_vars

\* is_terminal: what a client that has stopped polling was told stays true.
\* Only a lost link, whose timeout may come after the truth, or a crash makes a
\* terminal status another one: the events of a call never disagree by
\* themselves, as long as no channel is known before its call is answered.
TerminalHolds ==
  [][used'["drop"] > 0 \/ used'["crash"] > 0 \/
       \A r \in Requests : db.row[r].status \in Terminal =>
                             db'.row[r].status = db.row[r].status]_vars

\* The capacity check counts every call that is being dialled: its slot is not
\* given back while its phone may still begin to ring or be picked up, whatever
\* happens to the link or the database.  A restart forgets it.
DiallingHoldsSlot ==
  \A r \in Requests :
    call[r] \in {"dialing", "ringing"} /\ used["crash"] = 0 =>
      r \in SlotHolders

\* Every slot is given back, however the Originate ends: accepted, refused,
\* timed out, or its connection lost.
SlotReleased ==
  \A r \in Requests : r \in SlotHolders ~> r \notin SlotHolders

\* A call that nobody picked up becomes retryable, even when the AMI link drops
\* and its OriginateResponse is lost.
RefusedIsRetryable ==
  \A r \in Requests :
    call[r] = "refused" ~> db.row[r].status \in Retryable

\* A call played to its end is reported completed, as long as the AMI link
\* stays up.
PlayedIsCompleted ==
  \A r \in Requests :
    call[r] = "finished" ~>
      db.row[r].status = "completed" \/ used["drop"] > 0

-----------------------------------------------------------------------------
(* The inductive strengthening of SlotAccounting *)

\* A coroutine has at most one request in the queue, and is waiting for it:
\* no handler of a call is started twice, no coroutine is resumed twice.
QueueDiscipline ==
  /\ \A i \in 1..Len(dbq) : task[dbq[i]].st = "db" /\ task[dbq[i]].todo # <<>>
  /\ \A i, j \in 1..Len(dbq) : dbq[i] = dbq[j] => i = j

\* The background task exists only after its HTTP handler has ended.
ApiFirst ==
  \A r \in Requests : task[<<r, "api">>].st \in {"idle", "db"} =>
                        task[<<r, "exec">>].st = "idle"

\* Nothing is dialled before originate().
BeforeDialling(t) == \/ task[t].st \in {"idle", "ready", "send"}
                     \/ task[t].st = "db" /\ task[t].part = "pre"
DialledOnce ==
  \A r \in Requests : BeforeDialling(<<r, "exec">>) => call[r] = "none"

\* The event handlers that may have been started in each phase of a call.
Started(phase) ==
  CASE phase \in {"none", "dialing"} -> {}
    [] phase = "ringing"  -> {"ringing"}
    [] phase = "up"       -> {"ringing", "up", "response"}
    [] phase = "dialplan" -> {"ringing", "up", "response", "callstart"}
    [] phase = "playing"  -> Handlers \ {"complete", "hangup"}
    [] phase = "played"   -> Handlers \ {"hangup"}
    [] OTHER              -> Handlers

HandlersFollowCall ==
  \A r \in Requests : \A k \in Handlers :
    task[<<r, k>>].st = "db" => k \in Started(call[r])

OneResponse ==
  \A r \in Requests :
    due[r] # "no" => /\ call[r] \notin {"none", "dialing", "ringing"}
                     /\ task[<<r, "response">>].st # "db"

Inv == /\ TypeOK /\ QueueDiscipline /\ ApiFirst /\ DialledOnce
       /\ HandlersFollowCall /\ OneResponse
       /\ SlotAccounting /\ LeakBounded

-----------------------------------------------------------------------------
(* What the documents say and the code does not do *)

\* "at most 20 concurrent calls in the whole system".
ActiveWithinLimit == active <= MaxConcurrent

\* completed: "OTP fully played and hung up, complete success".
CompletedMeansPlayed ==
  \A r \in Requests :
    db.row[r].status = "completed" => call[r] \in {"played", "finished"}


\* "Final status is set asynchronously by the AMI EventHandler".
FinalStatusReached ==
  \A r \in Requests : CallEnded(r) ~> db.row[r].status \in Terminal
=============================================================================
