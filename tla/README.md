# Verification of the OTP voice service

TLA+ models of the Python service under `src/`, the TLC runs that check them on
small instances, and theorems checked by TLAPS. The service accepts a mobile
number and a code over HTTP, dials the number through Asterisk's manager
interface (AMI), plays the code, and reports what became of the call.

## 1. The system

### Components

| component | code | state it keeps | operations |
|---|---|---|---|
| HTTP API | `src/api/routes.py` | none of its own | `send_otp_call`, `retry_call`, `get_call_status`, `health_check` |
| call execution | `routes._execute_call`, `ami/originator.py` | one coroutine per call | `acquire_slot`, two statements, `originate` (ack, OriginateResponse, timeout), failure paths, `release_slot` |
| event handler | `ami/event_handler.py` | none; reads and writes records | OriginateResponse, Newstate, Hangup, UserEvent (OTPCallStart, OTPPlaybackStart, OTPPlaybackComplete) |
| AMI client | `ami/client.py` | manager, `_connected` | connect, login, disconnect, delayed reconnect, close, `send_action` |
| call storage | `storage/db.py` | `otp_calls`, `otp_events`, one shared connection | create, guarded status update, events, lookups, retry count, expiry |
| rate limiter | `core/rate_limiter.py` | per-number and hourly timestamp lists, slot counter | three checks, acquire, release, cleanup |
| application | `src/main.py` | the singletons | startup, periodic cleanup, shutdown |
| Asterisk and dialplan | `asterisk/extensions_custom.conf` (and a PBX) | the calls | rings, answers, plays, hangs up; events and an OriginateResponse |
| validator, schemas | `core/validator.py`, `api/schemas.py` | none | normalise a number, validate a code, sanitize a value |
| installation | `install.sh`, `tools/deploy.py`, `uninstall.sh`, the systemd unit | Asterisk's `*_custom.conf` files, `/opt/otp-service`, `config.yaml`, backups | install, deploy, uninstall, restart, rollback |
| auth, config, logger, sounds | | none at run time | |

How they interact. The HTTP handler checks three limits, writes a record,
answers 202 and schedules a background task. The task takes a slot, dials and
waits. Asterisk's events start handler coroutines that look the call up (by
request or by channel) and update its status. All coroutines share one asyncio
loop and **one** aiosqlite connection, whose worker thread serves one request at
a time in order of arrival: each `await` on the connection is a point where any
other coroutine may run, and a `commit` commits the other coroutines' statements
too. The AMI client replaces its manager at every reconnect, the periodic cleanup
deletes from the same connection, and the installation scripts keep one secret in
two programs' files.

### What is hard

* concurrency: the guard of `update_call_status` reads, awaits and writes; a
  hangup handler decides on a record it read two awaits earlier; capacity is
  checked long before the slot is taken;
* ordering: Hangup, OriginateResponse, user events and a 120 s timeout all write
  the status of one call;
* failure: a database error before or inside the `try`, a lost AMI connection
  whose futures are never resolved, handlers that may or may not be attached
  after a reconnect, a crash between a statement and its commit;
* reconnecting: callbacks of old managers, retries that nest, a startup that waits;
* time: sliding windows pruned lazily on some paths only, records that expire
  while their call is handled or retried;
* scripts that break off anywhere and are run again.

### What makes it correct

| component | properties |
|---|---|
| execution | every slot taken is returned exactly once (`SlotAccounting`, `SlotReleased`); leaks only by a database fault (`LeakBounded`) |
| API | 202 means durable (`AckedIsDurable`); retries are counted (`RetriesCounted`) and, unless the link was lost under a playback, never overlap the call they replace (`NoParallelAttempts`) |
| events and storage | a final status never becomes an intermediate one (`NoRegression`); retryable means over, or playing on after a lost link (`RetryableMeansOver`); no claimed answer that did not happen (`AnsweredIsTrue`); refused calls become retryable and played ones completed (`RefusedIsRetryable`, `PlayedIsCompleted`) |
| rate limiter | no window overflows (`NumberLimit`, `HourlyBound`), quota is spent by what it is for (`NumberQuotaIsForCalls`, `HourlyQuotaIsForAttempts`), lazily pruned lists implement eager windows (`WindowsSpec`) |
| slots | the capacity check counts every call being dialled (`DiallingHoldsSlot`) |
| status | a final status stays what it is unless the link was lost or the process restarted (`TerminalHolds`) |
| AMI client | the flag is honest (`FlagIsHonest`); reconnecting dies out only at the recursion limit (`GivesUpOnlyExhausted`, `Reconnects`); with a library that does not redial by itself, it does not multiply either (`OneLink`) and the flag is about the manager in use (`FlagIsCurrent`); startup ends (`StartupEnds`); events come again (`EventsReturn`) |
| expiry | a call is kept whole until it expires (`KeptUntilExpiry`, `LiveCallsKept`), its code not much longer (`ServedAtMost`), and goes whole (`WholeCallsGo`, `OrphansSwept`); no call stays queued (`QueuedResolves`) |
| request to ear | a code of digits is played as it was asked (`DeliveredAsAsked`); what reached the channel, in the order promised (`Announces`); and it ends, if the code has no comma (`PlaybackEnds`) |
| installation | what deploy.py installs works, and install.sh's under conditions (`UsableWhenDone`); both can be undone (`Reversible`) |

The hazards, each at its line, are in `PROJECT.json`.

## 2. The modules

| module | models |
|---|---|
| `CallStatus` | the vocabulary of a record and the pure functions on it: status sets, cause and reason tables, the hangup fallback, the refusal rule, `is_answered` |
| `CallLifecycle` | API, execution, event handlers, storage, the link to Asterisk and the call, composed on one database queue |
| `MCCallLifecycle` | symmetry and a constraint for TLC |
| `CallLifecycleProofs` | theorems about `CallLifecycle`: types, slots, the queue |
| `CallRecordProofs` | theorems about `CallLifecycle`: what a record says of its call, creation, durability, retry counts |
| `CallOrderProofs` | theorems about `CallLifecycle`: the order of the writes to a record |
| `RateLimiter` | the two window limits, in the order the handlers ask them, with cleanup and restart |
| `SlidingWindow` | abstract: what a window limiter promises |
| `RateLimiterProofs` | theorems about `RateLimiter` |
| `AmiClient` | the AMI link: managers, reconnect coroutines, startup, shutdown |
| `AmiClientProofs` | theorems about `AmiClient` |
| `Expiry` | how long a record is kept: creation, handlers and cleanup on one connection, with a clock |
| `ExpiryProofs` | theorems about `Expiry` |
| `Delivery` | the data of one request and its retries, from the schema to the dialplan's last word |
| `Announcement` | abstract: what the callee is promised |
| `DeliveryProofs` | theorems about `Delivery` |
| `Provisioning` | install.sh, deploy.py, uninstall.sh, the unit and the rollback on one server |
| `ProvisioningProofs` | theorems about `Provisioning` |

Each module describes the whole system from one side. `CallLifecycle` has every
database hop and no clock; `Expiry` has the clock and one step per statement, and
of the statuses only what expiry and retry tell apart; `AmiClient` has the managers
of which `CallLifecycle` sees only "up with handlers", "up without", "down"
(`AfterReconnect` admits both). Its runs say when which occurs: a library that
revives lost sessions brings the handlers back (`EventsReturn`), one that does not
leaves the client's new manager, without handlers, as the only link (`OneLink`).

### CallLifecycle: state

| variable | code |
|---|---|
| `db` | the rows and events the shared connection sees; of a row: status, whether the channel is stored, retry count, parent |
| `disk` | the part that is committed, what a restart finds |
| `task` | the coroutines, by request and kind (`api`, `exec`, one per event): what they wait for, which part of the code they are in, the database requests left to make, the status last read |
| `dbq` | aiosqlite's queue |
| `active` | `RateLimiter._active_count` |
| `ami` | service starting, link up with or without event handlers, link down |
| `call`, `due` | Asterisk: the phase of the call, the OriginateResponse not yet sent |
| `used` | mishaps so far |

A coroutine is the list of the database requests ("hops") it still has to make.
`UpdateVia` is the five hops of `update_call_status` (execute, fetch, close,
UPDATE, COMMIT); the third carries the decision (`Refuses`) on the status the
first one read. `Rest` is the control flow: a refused update skips its write,
a lookup that finds nothing ends the handler, a hangup goes on as the record it
read tells it. `Work` is one turn of worker and loop: the request is served and
the coroutine, resumed, makes its next one. Whatever enters the queue between
these two might as well have entered it just before the first, with the same queue
after it, so they are one step. The action that runs at the last hop says what the
coroutine does next (`Accept`, `EnterTry`, `Release`, `EndHandler`). Hop by hop is
what makes the race of two updates come out as in the code: the coroutine that is
resumed puts its next request behind the others.

### CallLifecycle: actions

`Submit`, `SubmitRetry`, `RefuseRetry`, `AdmitRetry`, `Accept` are the HTTP
handlers. A refused `send_otp_call` changes nothing here; the window limits only
refuse more and are left to `RateLimiter`, so a retry may be refused at any time.
`Acquire`, `EnterTry`, `Originate`, `OriginateNotAccepted`, `OriginateTimeout`,
`Release` are `_execute_call` and `originate`. `FaultInHandler`, `FaultBeforeTry`,
`FaultInTry`, `FaultThenRelease` are a write statement that raises, at each place
where the code treats it differently. `Ring` to `Refuse` and `Respond` are
Asterisk and the dialplan; each starts its handler if one is attached. `Startup`,
`Disconnect`, `Reconnect`, `Crash` are the link and the process.

### Assumptions about what is not in the repository

* aiosqlite serves requests in order and resumes the coroutine that made them;
  a connection is one SQLite transaction at a time, so a commit is everybody's.
* `send_action` of an asynchronous Originate resolves with the acknowledgement
  and the OriginateResponse (the docstring of `originate` says so), and messages
  it collects are not dispatched to event handlers as well; when its connection
  is lost it is never resolved, and a late OriginateResponse goes to the event
  handler of the new connection, if any (`AfterReconnect` admits both).
* Asterisk emits the events of one call in order and ends every call; a dialled
  call rings 30 s at most (`Timeout` of the action). Nothing is assumed of how long
  it plays: a retry's code may have any length (src/api/schemas.py:70), so the 120 s
  of `wait_for` may end while a call still plays. What `LongAgo` does assume of
  that moment is that the call is past ringing and past the second of `Wait(1)`, so
  at OTPPlaybackStart or later, and that the handlers of the events up to there,
  almost 90 s old, and an OriginateResponse as old have ended. The handlers of the
  later events, OTPPlaybackComplete and Hangup, may be under way.
* A wait for an OriginateResponse expires only if its connection was lost: on a
  connection that lasts Asterisk sends one within those 30 s.
* A channel belongs to one call, and its events carry the identifier of the request
  that dialled it.
* Reads do not fail; a write may, and then its coroutine sees the exception.

### RateLimiter

`log` records every attempt that a limit counted, which the code does not do: it
lets the properties speak of any window of the past. The two lists are sets of
attempts. `RefuseHourly`, `RefuseNumber`, `Admit` are the outcomes of the two
checks; they are one step each because nothing is awaited between the checks and
the lock is never held across an await. A number's list is stored only when the
number is admitted, as in the code; `Cleanup` prunes all lists; `Restart` empties
them, and the properties count each process by itself: across a restart a number
may indeed be called more often. The clock is assumed not to be set back.

`SlidingWindow` counts an event under several keys at once and forgets it when
it is a window old. The keys are the numbers and the hour; a call is counted
under its number and the hour, an attempt its number refuses under the hour only.

### AmiClient

| variable | code |
|---|---|
| `link`, `redial` | each `panoramisk.Manager`: its connection, and whether a timer of its own will dial again |
| `chain` | the coroutines in `_schedule_reconnect`/`_do_connect`: startup's and those of `_on_disconnect`; asleep or dialling, and how deeply nested |
| `manager`, `connected` | `AMIClient._manager`, `_connected` |
| `wired` | the manager `init_event_handler` registered on |
| `service`, `asterisk`, `used` | the process, whether Asterisk accepts connections, mishaps |
| `redials` | fixed: does the library dial again by itself? |

`Wake` replaces the manager and keeps the old one's connection; `AttemptFails`
nests the coroutine, because the `except` clause awaits the next attempt, and at
`MaxTries` the interpreter's RecursionError ends it: `ChainBreaks` in a background
task, whose exception nobody retrieves, `StartupBreaks` in startup, where it ends
the process and systemd starts the next. `OnDisconnect` reacts to any manager.
With the default limit of 1000 frames and two frames per attempt this takes just
under 500 failed attempts, that is about 40 minutes of an outage at 5 s each; after
that a running service does not reconnect until it is restarted.
panoramisk is not in the repository. Its manager may or may not dial again when
its connection fails or is lost, and both are checked.

### Expiry

`row`, `log` and `disk` are the two tables as the connection sees them and as
committed; `ttl` counts down to `expires_at`; `api` and `handler` are the next
statement of each coroutine, `cleaner` of the cleanup. Whichever waits may go next:
more interleavings than the connection's queue admits, hence safe for the
invariants. Nothing takes time but `Tick`, which waits for the statements that are
due (`Quiet`): a statement takes milliseconds, a tick minutes. `CleanupFails` is
the `except` of `_periodic_cleanup`; what the statements before the failing one
did stays on the connection and is committed by somebody else. `Crash` returns to
`disk`. `End` may lose the call's last event, as when the AMI link is down.

### Delivery and Announcement

A number is one of the prefixes of `normalize_mobile`, or an invalid one, and a
model value for the nine digits; a code is a short sequence over two digits, one
digit of another script (`\d` of a Python string matches those of every script) and
a newline. `Submit` is schema and validator, `Retry` takes what `RetryRequest`
takes, which is any code: it is sanitized by `originate` but not validated.
`Originate` joins the variables with commas, and Asterisk takes them apart at the
commas again: a code with a comma is cut there (`Parts`), and what stands behind may
assign OTP_CODE or OTP_REPEAT once more, so the channel gets one of the parts and
a repeat of `Overrides`, where `Forever` stands for one that no counter reaches.
What is left out of Asterisk's syntax of variables are quotes, parentheses and
backslashes, and a part that assigns OTP_REQUEST_ID: `CallLifecycle` assumes that a
call's events name its own request. The
dialplan is [otp-playback-custom], one action per statement that does more than
set a variable. `Announcement` is the specification: introduction and code as
often as asked, a goodbye, and the three user events at their places; both
contexts of the file promise it. `Announces` is the refinement.

### Provisioning

The number of a run stands for the secret and the key it draws. A script is a
sequence of steps (`job`), `Fault` ends it at any of them, and between the steps
systemd may restart the service and Asterisk may load its files. The venv is
removed, made and filled in three steps (`ClearVenv`, `MakeVenv`,
`InstallPackages`), between which a restarted service finds no packages. `access`
says whether the unit's user may enter `/etc/otp-service`: both scripts make it for
root (mode 750), deploy.py then gives it to the service's group (`GrantAccess`),
install.sh only the file in it, and uninstall.sh removes it; a service that may not
enter, or finds no packages, dies when it starts (`Runs`). `last` remembers
the script that ended last, so that the properties can speak of the state it left.
Two facts about the server are left open in the initial state: whether its python
searches `/opt/otp-service/lib`, where install.sh puts the packages, and whether
`/root/otp-voice-service` exists, which deploy.py copies into. Nothing in the
repository sees to either. A third is what the `*_custom.conf` files were before.

## 3. The runs

All runs of `CallLifecycle` use `MaxConcurrent = 1` and `MaxBacklog = 2`: a new
coroutine or event enters only while fewer than two requests are queued, so up to
two coroutines race on the queue; with one call that is every pair of handlers.
Larger backlogs (9 with one call and no mishap, 4 with one drop) were explored
once for `NoRegression` and `AnsweredIsTrue`, with the same result. Deadlock is
not checked: a finished call leaves nothing to do.

| run | instance | shows |
|---|---|---|
| `call_mishaps` | one call; a drop, a crash, a fault; causes 0 (unknown), 16, 17; reasons 3, 5 | counter, leaks, durability, honesty of the status, under every mishap at every point |
| `call_retries` | a call and its retry; a drop, a fault, the new link without handlers; causes 0, 17; reason 5 | retry counting, and when a retry may overlap the call it replaces |
| `call_liveness` | one call, a drop, fairness | the three liveness properties |
| `rate_limits` | two numbers, 2 calls in 2 ticks, 4 attempts in 4 ticks, 5 ticks, one restart | the window properties and the refinement of `SlidingWindow` |
| `ami_link` | an outage, a dropped session, a stop or crash; two failed attempts break a chain; both kinds of library | the flag, the number of links, and that reconnecting goes on and succeeds |
| `expiry` | two calls; life, period and call of 2 ticks; one fault, crash or overlong call | keeping, deleting, and what becomes of the rest |
| `delivery` | 5 prefixes, 2 numbers, all inputs of up to 3 of 5 characters, codes of 2, repeats 0 to 4, two retries; behind a comma repeats 0 and 4, the latter for ever | the refinement of `Announcement`, data from request to ear |
| `provisioning` | 4 scripts, 2 of them broken off, any number of restarts, reloads and rollbacks | usable when done, removable |

The causes are one that means success, one that means failure and one that is
not in the table; the reasons one in the table of `_on_originate_response`'s
guard and one caught by `Response: Failure` only. One call suffices for
properties of a single record: calls share nothing but the queue, the counter
and the commits. Two are needed for capacity and retries. In `call_retries` the
link that is lost makes the timeout write "failed" under a call that plays on, which
is then retried. Its constraint (`OneOriginal`) leaves out a second call of the
client's own, which shares nothing with the first that the two properties ask about.
With a new link that has handlers the instance is four times as large or more; it
was run once without the fault, with the same result, and `OneAttemptAtATime` covers
it, as `RetriesAddUp` covers retries cut off by a crash and two retries of one call. In `rate_limits` both
windows are shorter than the horizon, so that attempts expire from both, and the
hour is longer than the number's window and full before the numbers are.

`ami_link` has seven managers and five tasks so that nobody ever waits for a free
one (`Room`, `IdleTask`): a lost session of an old manager, of the current one and
of one just connecting may overlap with each other's reconnects. Two failed
attempts are the least with which a chain nests and then breaks. In `expiry` the
three times are equal, the edge of `CallLife <= TTL` (in the code 300 s and 300 s,
and about two minutes for a call); two calls are a call and its retry, or two that
share commits. `MaxLate` is past what one mishap allows `ServedAtMost`. `delivery`
has codes of one length only; an instance with codes of 2 and 3 characters, inputs
of 4 and one retry was explored once, with the same result. In `provisioning` four
runs are enough for an install, a deploy, an uninstall and one more after a broken
one.

Each property of these runs is checked against a mutant of the code it is about
(`PROJECT.json`, "mutants"; the mutated definitions stand before the originals).

Four runs find a statement of the documents or comments violated:

| run | statement | what the code does |
|---|---|---|
| `doc_concurrency_limit` | at most 20 concurrent calls | requests pass the check before the slots are taken |
| `doc_completed` | completed: the code was fully played | cause 16 alone means completed |
| `doc_final_status` | the event handler sets a final status | a hangup before OTPCallStart finds no record |
| `doc_install` | the automatic installation starts the service and shows its key | the venv's python does not find passlib, the script ends |

Other places where code and documents disagree, seen while modelling:

* `max_concurrent_calls` (config/config.example.yaml:30) and `active_calls`
  (docs/OPERATIONS.md:84-88) are said to count calls; a slot is released at answer,
  so they count calls being dialled (`DiallingHoldsSlot` is what does hold);
* `is_terminal` "status will not change further" (src/api/schemas.py:57,
  API_DOCS.md:123): after a lost link the timeout of the orphaned Originate turns
  busy into failed, or the end of a call that played on turns that failed into
  completed (if the library revives the lost session). TLC finds both; `TerminalHolds`
  is what does hold;
* a call usually takes 5 to 30 seconds to `is_terminal` and one that takes more than
  60 is "probably abnormal" (API_DOCS.md:312-313): after a hangup before OTPCallStart,
  as in `doc_final_status`, it never gets there, without anything lost or failed;
* the repeat is 1 to 3 (`originate` clamps it): a retry's code with a comma may set
  another (`Delivery`), and no property says more of such a code than `Announces`;
* ringing (API_DOCS.md:91, 107) is never recorded: the channel is bound after the
  answer only;
* after five minutes "a retry with the same code is not possible" (API_DOCS.md:347):
  it is until the next cleanup has passed, up to a period later (`ServedAtMost`), and
  a retry's record lives five minutes of its own;
* "4 to 8 digits" (API_DOCS.md:53): digits of other scripts pass, no recording of
  them exists, the callee hears nothing and the call is completed; a retry's code
  may be anything. `DeliveredAsAsked` is therefore stated for codes of 0 to 9;
* a retry without `repeat` plays twice, whatever the call it replaces had asked
  (routes.py:136); `validate_repeat` is called by nothing;
* "install and start the systemd service" (docs/DEPLOYMENT.md:82), behind the step
  that `doc_install` finds failing, on a server whose python is led to the packages:
  install.sh:112-114 leaves `/etc/otp-service` to root:root with mode 750, lines 328-329
  give only config.yaml to the group, so the unit's user cannot open it
  (src/config.py:56) and the service dies; install.sh:358 says that the installation
  succeeded;
* running install.sh again, which docs/TROUBLESHOOTING.md:69-72 advises, on such a
  server keeps the AMI user (line 240) and writes a new secret into config.yaml (line
  302), though docs/TROUBLESHOOTING.md:26 wants them equal, and `systemctl start`
  (line 339) leaves a running service with its old key. For all this
  `UsableWhenDone` is stated for an install.sh that finds neither user nor unit, but a
  configuration directory that an earlier deploy.py opened, and a python that
  searches `/opt/otp-service/lib`. TLC finds a state against it as soon as one of
  these conditions is left out;
* deploy.py adds neither user nor dialplan to a file that does not exist (lines
  118 and 133), and without `/root/otp-voice-service` copies `src` in its place
  (lines 93 and 99). `UsableWhenDone` is therefore stated for servers that have
  them.

### Fairness

`Fairness` asks that the worker and the loop keep running, that a scheduled task
starts and a timer fires (`Execution`), that Asterisk moves every call on
(`Progress`) and reports on it (`Respond`), and that startup and the reconnect
loop succeed eventually: asyncio, the `wait_for`, Asterisk's own time limits,
`_schedule_reconnect` and systemd's `Restart=on-failure` justify these. Weak
fairness is enough, because a queue below its bound stays so until one of these
steps is taken. No fairness is asked of clients, of answers or of mishaps.

`AmiClient`: connection attempts end, callbacks run, sleeps end (asyncio), the
process is started again (systemd; a stopped service is assumed to be started by
somebody), and Asterisk comes back. `Expiry`: every coroutine and the cleaner get
their statements served, scheduled tasks start, calls end (Asterisk), and time
goes on. The last is strong fairness: a tick waits until nothing is due, and
clients that keep asking make that false again and again, never for ever; in the
code the clock does not wait for them. `Delivery`: Asterisk executes the dialplan
of a channel that is up. `Provisioning` states no fairness and no liveness.

## 4. The theorems

For every number of requests, every limit and every number of mishaps
(`ParametersAssumption` only types the constants):

* `TypeCorrect`, `SlotsCounted`, `LeaksBounded`: the invariants `TypeOK`,
  `SlotAccounting`, `LeakBounded` of `CallLifecycle`, and `OneRequestEach` (its
  `QueueDiscipline`).
* `DialledCallsCounted`: `DiallingHoldsSlot`.

They follow from one inductive invariant, `Inv`. `SlotAccounting` is not
inductive alone: a step changes the counter by one only if exactly one execution
starts or stops holding a slot, so nothing may restart, finish or overwrite a
coroutine that is waiting for the database. That is `QueueDiscipline`, and it
needs in turn that each event handler of a call is started at most once:
`HandlersFollowCall` (only handlers of events that were emitted run), `OneResponse`,
`DialledOnce` (nothing is dialled before `originate`) and `ApiFirst`. The proof
has lemmas on the typing of coroutines and hops, three on the queue (a
coroutine enters, is served again, leaves), lemmas on what a step leaves alone,
then one lemma per action. `DialledCallsCounted` adds `DiallingWaits`: a call that is
dialling or ringing has its execution waiting in `originate`, which holds a slot;
only the timeout leaves it, and by then no call rings any more (`LongAgo`).
* `RecordsTrue`, `AnsweredIsTrue`, `RetryableMeansOver`, `NoParallelAttempts`
  (`AnswersTrue`, `RetriesSafe`, `OneAttemptAtATime`), from `RecordInv`. A record is only as true as the writes on
  their way to it, so the invariant speaks of every hop still to be made: an update
  that carries a status of an answered call belongs to a call that was answered, one
  that carries a retryable status to a call that is over, was refused, or plays on
  under a timeout; the last needs that an execution whose future is orphaned means a
  lost link (`OrphansDropped`). It follows each writer, from its first read of the
  record to its commit, through `Rest`.
* `CreationsSafe`, `AckedIsDurable` (`AcksDurable`), from `CreationInv`: a request
  behind its first commit has its row on disk, and one that inserts has it on the
  connection, whoever commits in between. `RetriesCounted` (`RetriesAddUp`) from
  `CountInv`: the counter of a call is the number of retries behind their increment,
  which needs that one coroutine increments and that the increment and the insert
  of the retry are two hops of it in that order.
* `InOrder`, `NeverBackFromTerminal` (`NoRegression`), from `OrderInv`. An update
  reads, decides and writes in three turns of the queue, so a handler may well decide
  on a status that another one has replaced meanwhile; that it still does no harm
  is a matter of counting turns. Every coroutine of a call is at a place of a known
  list of hops (`Shaped`), which says how many turns it needs before it makes its
  lookup or its write (`Turns`). The queue is served round robin, each
  coroutine in it waits for one hop and goes back to its end: of two that need as
  many turns the one ahead is first, and one that needs fewer stays first
  (`Precedes`). Events of a call come in order, so the handler of an earlier event
  is ahead, or needs fewer turns: the lookups of Newstate come before the update that
  stores the channel, so they find nothing, and the updates to "answered" and
  "playing" before those of PlaybackComplete and Hangup (`InTurn`). What remains,
  the execution's own writes of a final status, happens when the call was refused or
  when nothing is under way that writes an intermediate one: the handlers of
  PlaybackComplete and Hangup may be, and they write final ones. The invariant holds
  across drops, faults and crashes.
* `EventsAgree`, `TerminalForGood` (`TerminalHolds`), from `AgreeInv`, for as long as
  neither the link nor the process has failed: the response reaches the coroutine
  that awaits it (`Awaited`), the Hangup of a refused call finds no record, that of a
  call played to its end says "completed" like PlaybackComplete, a dropped call has
  none of the latter (`HangupAgrees`), and a final status is the one of how the call
  ended, with nobody left to write another (`FinalAgrees`).

None of these theorems has an assumption but those on the constants; what is assumed
of a call at its timeout is the guard `LongAgo` of section 2.

For every set of numbers, every limit and every window (`LimitsAssumption`):

* `TypeCorrect`, `NumberLimitHolds`, `HourlyBoundHolds`, `NumberQuotaExact`,
  `HourlyQuotaExact`, from `LimiterInv`:
  the fresh part of each list is exactly the attempts of this process it should
  count (`NumberQuotaIsForCalls`, `HourlyQuotaIsForAttempts`) and within its
  limit. A window that ends with a new attempt is then the list plus that
  attempt, and windows of the past do not change.
* `WindowsImplemented`: `WindowsSpec`. Pruning is a stutter, since a window
  (`Recent`) is what is fresh in its list; the clock, a restart and an attempt map
  to `Pass`, `Forget` and `Count`, and room in a list is room in its window because a
  window holds no more events than its list holds fresh attempts.

For every number of managers and tasks and every recursion limit
(`LinkAssumption`):

* `TypeCorrect`, `FlagHonest`, `NeverTwoLinks`, `FlagCurrent`, `KeepsTrying`: the
  invariants of `AmiClient` and `GivesUpOnlyExhausted`, from `LinkInv`. It says that a
  chain that dials has a connecting manager, that a process that is down has
  nothing, and, for a library that leaves lost sessions alone (`Single`), that only
  the client's manager has a connection, that someone awaits it while it is being
  made, and that it and an active chain exclude each other. `OneLink` alone is not
  inductive: a second manager still connecting could log in later.

For every number of calls, every time to live, period and bound on mishaps
(`TimesAssumption`):

* `TypeCorrect`, `KeptWhole`, `ServedNoLonger`, `LiveKept`, `GoneWhole`: the five
  invariants of `Expiry`, from `ExpiryInv`. `ServedAtMost` speaks of records only; to
  be inductive it needs the cleaner's alarm clock (`Late`: no record is later than
  the mishaps' periods and the part of this one that has passed). `KeptUntilExpiry`
  needs what a call in creation has written (`Creating`), `LiveCallsKept` that a call
  is dialled in the tick its record was made (`Timely`), `WholeCallsGo` that events
  swept stay swept until the next deletion (`Swept`).

For every number of runs and accidents (`BoundsAssumption`):

* `TypeCorrect`, `CanBeUndone`, `InstalledIsUsable`: `TypeOK`, `Reversible`,
  `UsableWhenDone` of `Provisioning`, the last for the servers it is stated for.
  `ProvisioningInv` adds that a backup precedes
  everything that is written (`BackedUp`), that a missing file is not loaded either,
  and how far uninstall.sh has come (`Undone`). `UsableInv` adds what a script that
  began on a fit server has reached at each of its steps (`Reached`), which nothing
  between its steps disturbs.

For every set of digits and subscribers, every bound on codes and retries:

* `Delivers`, `AnnouncementImplemented` (`Announces`), `WhatIsAskedIsPlayed`
  (`DeliveredAsAsked`), from `DeliveryInv`: what has been heard is the part of the
  announcement that the statement and the two loop counters say, and the channel
  holds the normalized number, a part of the sanitized code, encoded, and the clamped
  repeat of what was asked, or, behind a comma, another; a code of digits is its own
  only part. Each step of the dialplan is then a word of `Announcement`, a
  report of it, or none of its steps. The conversions are sequence operators;
  `FlattenSeq` is a recursive function, and what it computes is proved by the least
  place where it would differ (`Least`, `UpTo`), which takes the place of induction.

The bounds `MaxBacklog`, `MaxDrops`, `MaxCrashes`, `MaxFaults`, `Horizon`,
`MaxAttempts`, `MaxRestarts`, `MaxOutages`, `MaxStops`, `MaxMishaps`, `MaxLate`,
`MaxRuns` are arbitrary in the proofs. `TypeOK` of `Provisioning` is proved and not
run.

Only model-checked: the liveness properties `SlotReleased`, `RefusedIsRetryable`,
`PlayedIsCompleted`, `Reconnects`, `StartupEnds`, `EventsReturn`, `OrphansSwept`,
`QueuedResolves` and `PlaybackEnds`, since TLAPS has no rule for fairness and ENABLED.
`OrderInv` and `AgreeInv` were model-checked first, on one call with a backlog of four
and every mishap but a crash, and of two with a crash as well.

## 5. Plan

Done: `CallStatus`, `CallLifecycle` and its slot theorems; `RateLimiter` with all
its invariants and its refinement of `SlidingWindow` proved; `AmiClient`, `Expiry` and
`Provisioning` with all their invariants proved; `Delivery`, which took the place
of a validator module of its own, since what a validated value means shows in what
is played.

Proved since: what a record says, durability, retry counts, the order of writes and
what final statuses agree on, of `CallLifecycle`; the data and the refinement of
`Delivery`. Every safety and action property that a run checks is now a theorem.

Left: an abstract specification of the status a client sees (queued, in progress,
over), implemented by `CallLifecycle`; which terminal statuses may replace each other
after a lost link, call by call; three requests, for two retries of one call.

## 6. Not modelled, and why

Configuration, logging and masking keep no state and decide nothing about a call.
Authentication compares a header with a hash; which key the hash belongs to is in
`Provisioning`. Sound generation and the scripts that test sounds run before the
service and share no state with it. `get_call_status` and `health_check` only read;
what they report is stated by the properties (`IsAnswered`, `Retryable`,
`Terminal`, `active`, `connected`). `duration`, `hangup_cause`, `asterisk_reason`,
event details and timestamps of a record are data no decision depends on. The
schema migration and the indexes do not change what a query returns. Of the
installation scripts, the prompts, the sounds and the final health check change
nothing `Provisioning` keeps; of the service's user it keeps whether the
configuration directory admits it.

## 7. Running

    tlc -workers 2 -config CallMishaps.cfg MCCallLifecycle.tla
    tlc -workers 2 -config RateLimits.cfg RateLimiter.tla
    tlc -workers 2 -config AmiLink.cfg AmiClient.tla
    tlc -workers 2 -config Expiry.cfg Expiry.tla
    tlc -workers 2 -config Delivery.cfg Delivery.tla
    tlc -workers 2 -config Provisioning.cfg Provisioning.tla
    tlapm CallLifecycleProofs.tla

and so on for the other configurations and proof modules; `Call*.cfg` belong to
`MCCallLifecycle`, `Install*.cfg` to `Provisioning`. `PROJECT.json` lists components,
runs, mutants, findings, hazards, theorems and, for every definition, the lines it
models.
