-------------------------------- MODULE Expiry --------------------------------
(***************************************************************************)
(* How long a call is kept: records with a time to live, the periodic      *)
(* cleanup that deletes them and sweeps the events left behind, and the    *)
(* coroutines whose statements fall between the cleanup's on the one       *)
(* connection: creation, retry and event handlers.                         *)
(*                                                                         *)
(* A coroutine makes one statement after another; whichever is waiting may *)
(* make the next one.  Statements take no time compared with a tick of the *)
(* clock.  Times are relative: ttl counts down to expires_at and below.    *)
(***************************************************************************)
EXTENDS Integers

CONSTANTS
  Requests,  \* request identifiers
  NoRequest, \* parent of a call that is not a retry
  TTL,       \* ttl_seconds of create_call_record, in ticks
  Period,    \* the sleep of _periodic_cleanup, in ticks
  CallLife,  \* the longest a call normally lasts, in ticks
  MaxMishaps, \* bound on faults, crashes and overlong calls together
  MaxLate    \* bound: ttl is not counted further down

ASSUME TimesAssumption ==
  /\ NoRequest \notin Requests
  /\ TTL \in Nat /\ Period \in Nat \ {0} /\ CallLife \in Nat
  /\ MaxMishaps \in Nat /\ MaxLate \in Nat

VARIABLES
  row,     \* otp_calls as the connection sees it: absent, or the status
  log,     \* otp_events as the connection sees it
  disk,    \* both, as committed
  ttl,     \* ticks until expires_at of the record
  call,    \* what became of the request
  age,     \* ticks since the call was dialled
  api,     \* the HTTP handler that creates a call: its next statement
  handler, \* the event handler at work on a call: its next statement
  cleaner, \* where _periodic_cleanup is
  wake,    \* ticks until its sleep ends
  clean,   \* has a cleanup been completed since the last mishap?
  used     \* mishaps so far

tables == <<row, log, disk>>
calls == <<ttl, call, age>>
jobs == <<api, handler>>
cleaning == <<cleaner, wake, clean>>
vars == <<tables, calls, jobs, cleaning, used>>

\* The statuses as far as expiry and retry tell them apart: failed can be
\* retried, live stands for all others but queued.
Statuses == {"queued", "live", "failed"}
Absent == "absent"
Lines == {"queued", "event"}
Rows == [Requests -> Statuses \union {Absent}]
Logs == [Requests -> SUBSET Lines]

ApiSteps == {"idle", "parent", "insert", "commit record", "log",
             "commit log", "bump", "commit bump"}
HandlerSteps == {"idle", "find", "update", "commit update", "log",
                 "commit log"}
NoApi == [at |-> "idle", of |-> NoRequest]
NoHandler == [at |-> "idle", to |-> "live"]

\* none; acked: 202 sent, background task scheduled; up; slow: up for longer
\* than a call normally is; over; lost: acked and never dialled; refused: no
\* 202 was sent.
CallStates == {"none", "acked", "up", "slow", "over", "lost", "refused"}

TypeOK ==
  /\ row \in Rows /\ log \in Logs
  /\ disk \in [row : Rows, log : Logs]
  /\ ttl \in [Requests -> Int]
  /\ call \in [Requests -> CallStates]
  /\ age \in [Requests -> Nat]
  /\ api \in [Requests -> [at : ApiSteps, of : Requests \union {NoRequest}]]
  /\ handler \in [Requests -> [at : HandlerSteps, to : {"live", "failed"}]]
  /\ cleaner \in {"sleep", "calls", "events", "commit"}
  /\ wake \in 0..Period
  /\ clean \in BOOLEAN
  /\ used \in [{"fault", "crash", "slow"} -> Nat]

-----------------------------------------------------------------------------
Mishap(kind) ==
  /\ used["fault"] + used["crash"] + used["slow"] < MaxMishaps
  /\ used' = [used EXCEPT ![kind] = @ + 1]

\* A commit is everybody's.
CommitAll == disk' = [row |-> row, log |-> log]

Go(r, step) == api' = [api EXCEPT ![r].at = step]
ApiGoes(r, from, to) == api[r].at = from /\ Go(r, to)

\* retry_call reads the call to be retried: 404, 409, or the checks pass.
ReadParent(r) ==
  /\ api[r].at = "parent"
  /\ IF row[api[r].of] = "failed" THEN Go(r, "insert")
     ELSE api' = [api EXCEPT ![r] = NoApi]
  /\ UNCHANGED <<tables, calls, handler, cleaning, used>>

\* Mutant: a retry's record keeps the expiry of the call it replaces.
InsertInherited(r) ==
  /\ ApiGoes(r, "insert", "commit record")
  /\ row' = [row EXCEPT ![r] = "queued"]
  /\ ttl' = [ttl EXCEPT ![r] = IF api[r].of = NoRequest THEN TTL
                               ELSE ttl[api[r].of]]
  /\ UNCHANGED <<log, disk, call, age, handler, cleaning, used>>

\* create_call_record: a record with a full time to live, also for a retry.
Insert(r) ==
  /\ ApiGoes(r, "insert", "commit record")
  /\ row' = [row EXCEPT ![r] = "queued"]
  /\ ttl' = [ttl EXCEPT ![r] = TTL]
  /\ UNCHANGED <<log, disk, call, age, handler, cleaning, used>>

CommitRecord(r) ==
  /\ ApiGoes(r, "commit record", "log")
  /\ CommitAll
  /\ UNCHANGED <<row, log, calls, handler, cleaning, used>>

LogQueued(r) ==
  /\ ApiGoes(r, "log", "commit log")
  /\ log' = [log EXCEPT ![r] = @ \union {"queued"}]
  /\ UNCHANGED <<row, disk, calls, handler, cleaning, used>>

\* The 202 of send_otp_call; retry_call still has to count itself.
CommitQueued(r) ==
  /\ api[r].at = "commit log"
  /\ CommitAll
  /\ IF api[r].of = NoRequest
     THEN /\ call' = [call EXCEPT ![r] = "acked"]
          /\ api' = [api EXCEPT ![r] = NoApi]
     ELSE Go(r, "bump") /\ UNCHANGED call
  /\ UNCHANGED <<row, log, ttl, age, handler, cleaning, used>>

\* increment_retry of a parent that may be gone by now: no row, no error.
Bump(r) ==
  /\ ApiGoes(r, "bump", "commit bump")
  /\ UNCHANGED <<tables, calls, handler, cleaning, used>>

CommitBump(r) ==
  /\ api[r].at = "commit bump"
  /\ CommitAll
  /\ call' = [call EXCEPT ![r] = "acked"]
  /\ api' = [api EXCEPT ![r] = NoApi]
  /\ UNCHANGED <<row, log, ttl, age, handler, cleaning, used>>

Create(r) == \/ ReadParent(r) \/ Insert(r) \/ CommitRecord(r) \/ LogQueued(r)
             \/ CommitQueued(r) \/ Bump(r) \/ CommitBump(r)

HandlerGoes(r, from, to) ==
  handler[r].at = from /\ handler' = [handler EXCEPT ![r].at = to]

\* update_call_status of a record that is gone returns, and add_event follows
\* all the same.
Find(r) ==
  /\ HandlerGoes(r, "find", IF row[r] = Absent THEN "log" ELSE "update")
  /\ UNCHANGED <<tables, calls, api, cleaning, used>>

\* An UPDATE of a row that is gone by now changes nothing.
UpdateStatus(r) ==
  /\ HandlerGoes(r, "update", "commit update")
  /\ row' = IF row[r] = Absent THEN row
            ELSE [row EXCEPT ![r] = handler[r].to]
  /\ UNCHANGED <<log, disk, calls, api, cleaning, used>>

CommitUpdate(r) ==
  /\ HandlerGoes(r, "commit update", "log")
  /\ CommitAll
  /\ UNCHANGED <<row, log, calls, api, cleaning, used>>

LogEvent(r) ==
  /\ HandlerGoes(r, "log", "commit log")
  /\ log' = [log EXCEPT ![r] = @ \union {"event"}]
  /\ UNCHANGED <<row, disk, calls, api, cleaning, used>>

CommitEvent(r) ==
  /\ handler[r].at = "commit log"
  /\ handler' = [handler EXCEPT ![r] = NoHandler]
  /\ CommitAll
  /\ UNCHANGED <<row, log, calls, api, cleaning, used>>

Handle(r) == \/ Find(r) \/ UpdateStatus(r) \/ CommitUpdate(r)
             \/ LogEvent(r) \/ CommitEvent(r)

\* A write fails: a 500 for an HTTP handler, the end of an event handler.
CreateFails(r) ==
  /\ api[r].at \notin {"idle", "parent"} /\ Mishap("fault")
  /\ api' = [api EXCEPT ![r] = NoApi]
  /\ call' = [call EXCEPT ![r] = "refused"]
  /\ UNCHANGED <<tables, ttl, age, handler, cleaning>>

HandleFails(r) ==
  /\ handler[r].at \notin {"idle", "find"} /\ Mishap("fault")
  /\ handler' = [handler EXCEPT ![r] = NoHandler]
  /\ UNCHANGED <<tables, calls, api, cleaning>>

-----------------------------------------------------------------------------
\* uuid4: an identifier that was never used.
Unused(r) == call[r] = "none" /\ api[r].at = "idle"
NewId == CHOOSE r \in Requests : Unused(r)
Begin(step, p) ==
  /\ \E r \in Requests : Unused(r)
  /\ api' = [api EXCEPT ![NewId] = [at |-> step, of |-> p]]
  /\ UNCHANGED <<tables, calls, handler, cleaning, used>>

Submit == Begin("insert", NoRequest)

Known(r) == call[r] \notin {"none", "refused"}
Retry(p) == Known(p) /\ Begin("parent", p)

\* An event handler runs for the call; one at a time is enough here.
Handling(r, status) ==
  /\ handler[r].at = "idle"
  /\ handler' = [handler EXCEPT ![r] = [at |-> "find", to |-> status]]

\* The background task: _execute_call records originating and dials.
Dial(r) == /\ call[r] = "acked" /\ Handling(r, "live")
           /\ call' = [call EXCEPT ![r] = "up"]
           /\ age' = [age EXCEPT ![r] = 0]
           /\ UNCHANGED <<tables, ttl, api, cleaning, used>>

\* A user event of a call that is up; one that would change nothing is left out.
Event(r) == /\ call[r] \in {"up", "slow"} /\ "event" \notin log[r]
            /\ Handling(r, "live")
            /\ UNCHANGED <<tables, calls, api, cleaning, used>>

\* The call ends, and its last event arrives or is lost with the AMI link.
End(r) == /\ call[r] \in {"up", "slow"}
          /\ call' = [call EXCEPT ![r] = "over"]
          /\ \/ Handling(r, "live") \/ Handling(r, "failed")
             \/ UNCHANGED handler
          /\ UNCHANGED <<tables, ttl, age, api, cleaning, used>>

\* A call that outlives CallLife: a long code repeated, a callee on hold.
Outlive(r) == /\ call[r] = "up" /\ age[r] = CallLife
              /\ Mishap("slow")
              /\ call' = [call EXCEPT ![r] = "slow"]
              /\ UNCHANGED <<tables, ttl, age, jobs, cleaning>>

-----------------------------------------------------------------------------
\* _periodic_cleanup: sleep, then cleanup_expired's three statements.
WakeUp == /\ cleaner = "sleep" /\ wake = 0
          /\ cleaner' = "calls"
          /\ UNCHANGED <<tables, calls, jobs, wake, clean, used>>

\* Mutant: a record is deleted in the tick in which it expires.
ExpiredEarly(r) == ttl[r] <= 0

\* expires_at < now
Expired(r) == ttl[r] < 0

\* Mutant: only calls in a final status are deleted.
DeleteCallsFinal ==
  /\ cleaner = "calls" /\ cleaner' = "events"
  /\ row' = [r \in Requests |-> IF Expired(r) /\ row[r] = "failed" THEN Absent
                                ELSE row[r]]
  /\ UNCHANGED <<log, disk, calls, jobs, wake, clean, used>>

DeleteCalls ==
  /\ cleaner = "calls" /\ cleaner' = "events"
  /\ row' = [r \in Requests |-> IF Expired(r) THEN Absent ELSE row[r]]
  /\ UNCHANGED <<log, disk, calls, jobs, wake, clean, used>>

\* Mutant: the events of the calls that expired, instead of those without one.
SweepEventsExpired ==
  /\ cleaner = "events" /\ cleaner' = "commit"
  /\ log' = [r \in Requests |-> IF row[r] = Absent /\ "queued" \in log[r]
                                THEN {} ELSE log[r]]
  /\ UNCHANGED <<row, disk, calls, jobs, wake, clean, used>>

\* Mutant: the sweep looks the calls up through a connection of its own.
SweepEventsCommitted ==
  /\ cleaner = "events" /\ cleaner' = "commit"
  /\ log' = [r \in Requests |-> IF disk.row[r] = Absent THEN {} ELSE log[r]]
  /\ UNCHANGED <<row, disk, calls, jobs, wake, clean, used>>

SweepEvents ==
  /\ cleaner = "events" /\ cleaner' = "commit"
  /\ log' = [r \in Requests |-> IF row[r] = Absent THEN {} ELSE log[r]]
  /\ UNCHANGED <<row, disk, calls, jobs, wake, clean, used>>

CommitCleanup ==
  /\ cleaner = "commit" /\ cleaner' = "sleep"
  /\ disk' = [row |-> row, log |-> log]
  /\ wake' = Period /\ clean' = TRUE
  /\ UNCHANGED <<row, log, calls, jobs, used>>

\* Mutant: the exception ends the loop.
CleanupDies ==
  /\ cleaner \in {"calls", "events", "commit"}
  /\ Mishap("fault")
  /\ cleaner' = "dead"
  /\ UNCHANGED <<tables, calls, jobs, wake, clean>>

\* One of the three raises: the loop logs it and sleeps again.  What the
\* statements before it did stays on the connection, uncommitted.
CleanupFails ==
  /\ cleaner \in {"calls", "events", "commit"}
  /\ Mishap("fault")
  /\ cleaner' = "sleep" /\ wake' = Period /\ clean' = FALSE
  /\ UNCHANGED <<tables, calls, jobs>>

\* The process dies and is restarted; the new one sleeps before it cleans.
Crash ==
  /\ Mishap("crash")
  /\ row' = disk.row /\ log' = disk.log
  /\ api' = [r \in Requests |-> NoApi]
  /\ handler' = [r \in Requests |-> NoHandler]
  /\ call' = [r \in Requests |-> IF call[r] = "acked" THEN "lost"
                                 ELSE IF api[r].at # "idle" THEN "refused"
                                 ELSE call[r]]
  /\ cleaner' = "sleep" /\ wake' = Period /\ clean' = FALSE
  /\ UNCHANGED <<disk, ttl, age>>

-----------------------------------------------------------------------------
Present(r) == row[r] # Absent \/ disk.row[r] # Absent

\* Nothing is due: no coroutine is at work, no task is scheduled, the cleaner
\* sleeps, no call has reached the end of its life.
Quiet == /\ \A r \in Requests : /\ api[r].at = "idle" /\ handler[r].at = "idle"
                                /\ call[r] # "acked"
                                /\ call[r] = "up" => age[r] < CallLife
         /\ cleaner = "sleep" => wake > 0
         /\ cleaner \notin {"calls", "events", "commit"}

\* The clock; how long ago a deleted record expired is forgotten.
Tick ==
  /\ Quiet
  /\ ttl' = [r \in Requests |->
               IF ttl[r] > 0 \/ (Present(r) /\ ttl[r] > -MaxLate)
               THEN ttl[r] - 1
               ELSE IF ttl[r] < 0 /\ ~Present(r) THEN -1 ELSE ttl[r]]
  /\ age' = [r \in Requests |-> IF call[r] = "up" THEN age[r] + 1 ELSE 0]
  /\ wake' = IF wake > 0 THEN wake - 1 ELSE 0
  /\ UNCHANGED <<tables, call, jobs, cleaner, clean, used>>

Init ==
  /\ row = [r \in Requests |-> Absent] /\ log = [r \in Requests |-> {}]
  /\ disk = [row |-> row, log |-> log]
  /\ ttl = [r \in Requests |-> 0]
  /\ call = [r \in Requests |-> "none"] /\ age = [r \in Requests |-> 0]
  /\ api = [r \in Requests |-> NoApi]
  /\ handler = [r \in Requests |-> NoHandler]
  /\ cleaner = "sleep" /\ wake = Period /\ clean = TRUE
  /\ used = [kind \in {"fault", "crash", "slow"} |-> 0]

Clean == WakeUp \/ DeleteCalls \/ SweepEvents \/ CommitCleanup

Next == \/ Submit
        \/ \E r \in Requests : \/ Retry(r) \/ Dial(r) \/ Event(r)
                               \/ End(r) \/ Outlive(r) \/ Create(r) \/ Handle(r)
                               \/ CreateFails(r) \/ HandleFails(r)
        \/ Clean \/ CleanupFails \/ Crash \/ Tick

Spec == Init /\ [][Next]_vars

\* The database serves every coroutine and the cleaner, scheduled tasks start,
\* calls end.  Strong fairness of time: clients that keep asking do not stop it.
Fairness == /\ \A r \in Requests : /\ WF_vars(Create(r)) /\ WF_vars(Handle(r))
                                   /\ WF_vars(Dial(r)) /\ WF_vars(End(r))
            /\ WF_vars(Clean) /\ SF_vars(Tick)

FairSpec == Spec /\ Fairness

-----------------------------------------------------------------------------
(* Properties *)

Mishaps == used["fault"] + used["crash"]

\* A record, and with it the code it holds, outlives expires_at by one period
\* of the cleanup, and by one more for every failed cleanup and every restart:
\* each puts the next attempt off by a whole period.
ServedAtMost ==
  \A r \in Requests : Present(r) => ttl[r] >= -(Period * (1 + Mishaps))

\* From its 202 until it expires, a call has its record and the first line of
\* its timeline, for the status endpoint as well as after a crash: no cleanup,
\* whoever's commit falls into it, takes part of a call.
KeptUntilExpiry ==
  \A r \in Requests :
    Known(r) /\ ttl[r] >= 0 =>
      /\ row[r] # Absent /\ disk.row[r] # Absent
      /\ "queued" \in log[r] /\ "queued" \in disk.log[r]

\* A call that ends in its time never loses its record under its handlers.
LiveCallsKept ==
  CallLife <= TTL => \A r \in Requests : call[r] = "up" => row[r] # Absent

\* Between cleanups, unless one was cut short, a call is gone as a whole: no
\* timeline without its record.
WholeCallsGo ==
  cleaner = "sleep" /\ clean =>
    \A r \in Requests : row[r] = Absent => "queued" \notin log[r]

\* Events logged for a call that is already deleted are swept too.
OrphansSwept ==
  \A r \in Requests :
    row[r] = Absent /\ log[r] # {} ~> row[r] # Absent \/ log[r] = {}

\* No call stays queued for ever: it is dialled or, when a crash lost its
\* background task, it expires.
QueuedResolves == \A r \in Requests : row[r] = "queued" ~> row[r] # "queued"
=============================================================================
