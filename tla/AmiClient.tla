------------------------------ MODULE AmiClient ------------------------------
(***************************************************************************)
(* The AMI link: AMIClient, the managers it creates one after another, the *)
(* coroutines that reconnect, the startup that awaits the first of them    *)
(* and registers the event handlers, shutdown and restart.                 *)
(*                                                                         *)
(* A reconnect coroutine ("chain") sleeps, creates a manager, awaits its   *)
(* connection and, when that fails, awaits _schedule_reconnect from inside *)
(* the except clause: it never returns between attempts, and each failed   *)
(* attempt nests it two frames deeper, until the interpreter's recursion   *)
(* limit (MaxTries) breaks it.                                             *)
(*                                                                         *)
(* The manager class is panoramisk's.  Whether a manager whose connection  *)
(* failed or was lost dials again by itself is the variable redials, which *)
(* no step changes: the module describes the client over both libraries.   *)
(***************************************************************************)
EXTENDS Naturals

CONSTANTS
  Managers,   \* panoramisk.Manager objects
  NoManager,  \* None
  Startup,    \* the coroutine of startup(), which awaits connect()
  Tasks,      \* the tasks _on_disconnect creates
  MaxTries,   \* failed attempts in one chain before RecursionError
  MaxOutages, MaxDrops, MaxStops \* bounds on outages, lost sessions, stops

ASSUME LinkAssumption ==
  /\ NoManager \notin Managers /\ Startup \notin Tasks
  /\ MaxTries \in Nat \ {0}
  /\ MaxOutages \in Nat /\ MaxDrops \in Nat /\ MaxStops \in Nat

VARIABLES
  asterisk,  \* does Asterisk accept connections?
  redials,   \* does a manager dial again by itself?
  service,   \* the process: down, starting, running, closing
  link,      \* the connection of each manager
  redial,    \* managers with a redial timer of their own pending
  chain,     \* the reconnect coroutines
  manager,   \* AMIClient._manager
  connected, \* AMIClient._connected
  wired,     \* the manager the event handlers were registered on
  used       \* mishaps so far

client == <<chain, manager, connected>>
vars == <<asterisk, redials, service, link, redial, client, wired, used>>

Chains == Tasks \union {Startup}
NoChain == [st |-> "none", on |-> NoManager, tries |-> 0]
Sleeping(tries) == [st |-> "sleep", on |-> NoManager, tries |-> tries]
Dialling(m, tries) == [st |-> "dial", on |-> m, tries |-> tries]

\* off; connecting; tcp: Login sent, not answered; in: logged in; lost: the
\* connection is gone and the on_disconnect callback has not run yet.
Links == {"off", "connecting", "tcp", "in", "lost"}

TypeOK ==
  /\ asterisk \in {"up", "down"} /\ redials \in BOOLEAN
  /\ service \in {"down", "starting", "running", "closing"}
  /\ link \in [Managers -> Links]
  /\ redial \in [Managers -> BOOLEAN]
  /\ chain \in [Chains -> [st : {"none", "sleep", "dial"},
                           on : Managers \union {NoManager},
                           tries : 0..(MaxTries - 1)]]
  /\ manager \in Managers \union {NoManager}
  /\ wired \in Managers \union {NoManager}
  /\ connected \in BOOLEAN
  /\ used \in [{"outage", "drop", "stop"} -> Nat]

-----------------------------------------------------------------------------
Dials(c, m) == chain[c].st = "dial" /\ chain[c].on = m
NoOneDials(m) == \A c \in Chains : ~Dials(c, m)

\* A manager nothing refers to any more; the next one takes its place.
Unused(m) == /\ link[m] = "off" /\ ~redial[m]
             /\ m # manager /\ m # wired
Room == \E m \in Managers : Unused(m)
NewManager == CHOOSE m \in Managers : Unused(m)

\* create_task(self._schedule_reconnect()): a coroutine that is not in use.
IdleTask == \E t \in Tasks : chain[t].st = "none"
NewTask == CHOOSE t \in Tasks : chain[t].st = "none"

Mishap(kind, max) == /\ used[kind] < max
                     /\ used' = [used EXCEPT ![kind] = @ + 1]

\* The process is gone, and with it every object.
Gone == /\ service' = "down"
        /\ link' = [m \in Managers |-> "off"]
        /\ redial' = [m \in Managers |-> FALSE]
        /\ chain' = [c \in Chains |-> NoChain]
        /\ manager' = NoManager /\ wired' = NoManager
        /\ connected' = FALSE

\* The first attempt of connect(), without a delay.
Boot ==
  /\ service = "down" /\ Room
  /\ service' = "starting"
  /\ manager' = NewManager
  /\ link' = [link EXCEPT ![NewManager] = "connecting"]
  /\ chain' = [chain EXCEPT ![Startup] = Dialling(NewManager, 0)]
  /\ UNCHANGED <<asterisk, redials, redial, connected, wired, used>>

\* Mutant: a session that does not belong to the current manager is closed
\* when the next one is created.
WakeClosing(c) ==
  /\ chain[c].st = "sleep" /\ Room
  /\ chain' = [chain EXCEPT ![c] = Dialling(NewManager, chain[c].tries)]
  /\ manager' = NewManager
  /\ link' = [link EXCEPT ![NewManager] = "connecting", ![manager] = "off"]
  /\ redial' = [n \in Managers |-> n # manager /\ redial[n]]
  /\ UNCHANGED <<asterisk, redials, service, connected, wired, used>>

\* The sleep is over: the client's manager is replaced, and the old one keeps
\* whatever connection it has.
Wake(c) ==
  /\ chain[c].st = "sleep" /\ Room
  /\ chain' = [chain EXCEPT ![c] = Dialling(NewManager, chain[c].tries)]
  /\ manager' = NewManager
  /\ link' = [link EXCEPT ![NewManager] = "connecting"]
  /\ UNCHANGED <<asterisk, redials, service, redial, connected, wired, used>>

\* connect() returns with the TCP connection, before the login is answered.
\* When it is startup's, the handlers are registered on what is by now the
\* client's manager, and the service begins to serve.
Established(m) ==
  /\ link[m] = "connecting" /\ asterisk = "up"
  /\ link' = [link EXCEPT ![m] = "tcp"]
  /\ chain' = [c \in Chains |-> IF Dials(c, m) THEN NoChain ELSE chain[c]]
  /\ IF Dials(Startup, m) THEN service' = "running" /\ wired' = manager
     ELSE UNCHANGED <<service, wired>>
  /\ UNCHANGED <<asterisk, redials, redial, manager, connected, used>>

\* Mutant: only the manager with the handlers calls _on_login.
LogInOfWired(m) ==
  /\ link[m] = "tcp" /\ asterisk = "up"
  /\ link' = [link EXCEPT ![m] = "in"]
  /\ connected' = (connected \/ m = wired)
  /\ UNCHANGED <<asterisk, redials, service, redial, chain, manager, wired,
                 used>>

LogIn(m) ==
  /\ link[m] = "tcp" /\ asterisk = "up"
  /\ link' = [link EXCEPT ![m] = "in"]
  /\ connected' = TRUE
  /\ UNCHANGED <<asterisk, redials, service, redial, chain, manager, wired,
                 used>>

\* Mutant: the failed attempt schedules a task as well as awaiting.
AttemptFailsTwice(c, m) ==
  /\ link[m] = "connecting" /\ asterisk = "down" /\ Dials(c, m)
  /\ chain[c].tries + 1 < MaxTries
  /\ link' = [link EXCEPT ![m] = "off"]
  /\ redial' = [redial EXCEPT ![m] = redials]
  /\ IdleTask
  /\ chain' = [chain EXCEPT ![c] = Sleeping(chain[c].tries + 1),
                            ![NewTask] = Sleeping(0)]
  /\ connected' = FALSE
  /\ UNCHANGED <<asterisk, redials, service, manager, wired, used>>

\* Mutant: no limit on the nesting.
AttemptFailsForever(c, m) ==
  /\ link[m] = "connecting" /\ asterisk = "down" /\ Dials(c, m)
  /\ link' = [link EXCEPT ![m] = "off"]
  /\ redial' = [redial EXCEPT ![m] = redials]
  /\ chain' = [chain EXCEPT ![c] = Sleeping(chain[c].tries + 1)]
  /\ connected' = FALSE
  /\ UNCHANGED <<asterisk, redials, service, manager, wired, used>>

\* Connection refused: the chain sleeps again, one level deeper.
AttemptFails(c, m) ==
  /\ link[m] = "connecting" /\ asterisk = "down" /\ Dials(c, m)
  /\ chain[c].tries + 1 < MaxTries
  /\ link' = [link EXCEPT ![m] = "off"]
  /\ redial' = [redial EXCEPT ![m] = redials]
  /\ chain' = [chain EXCEPT ![c] = Sleeping(chain[c].tries + 1)]
  /\ connected' = FALSE
  /\ UNCHANGED <<asterisk, redials, service, manager, wired, used>>

\* RecursionError in a background task: nobody retrieves it.
ChainBreaks(c, m) ==
  /\ link[m] = "connecting" /\ asterisk = "down" /\ Dials(c, m)
  /\ c # Startup /\ chain[c].tries + 1 = MaxTries
  /\ link' = [link EXCEPT ![m] = "off"]
  /\ redial' = [redial EXCEPT ![m] = redials]
  /\ chain' = [chain EXCEPT ![c] = NoChain]
  /\ connected' = FALSE
  /\ UNCHANGED <<asterisk, redials, service, manager, wired, used>>

\* Mutant: the exception of connect() is swallowed by startup().
StartupHangs(m) ==
  /\ link[m] = "connecting" /\ asterisk = "down" /\ Dials(Startup, m)
  /\ chain[Startup].tries + 1 = MaxTries
  /\ link' = [link EXCEPT ![m] = "off"]
  /\ redial' = [redial EXCEPT ![m] = redials]
  /\ chain' = [chain EXCEPT ![Startup] = NoChain]
  /\ UNCHANGED <<asterisk, redials, service, manager, connected, wired, used>>

\* RecursionError in startup(): the process exits and systemd restarts it.
StartupBreaks(m) ==
  /\ link[m] = "connecting" /\ asterisk = "down" /\ Dials(Startup, m)
  /\ chain[Startup].tries + 1 = MaxTries
  /\ Gone
  /\ UNCHANGED <<asterisk, redials, used>>

\* The manager's own timer (panoramisk).
Redial(m) ==
  /\ redial[m] /\ link[m] = "off"
  /\ redial' = [redial EXCEPT ![m] = FALSE]
  /\ link' = [link EXCEPT ![m] = "connecting"]
  /\ UNCHANGED <<asterisk, redials, service, client, wired, used>>

RedialFails(m) ==
  /\ link[m] = "connecting" /\ asterisk = "down" /\ NoOneDials(m)
  /\ link' = [link EXCEPT ![m] = "off"]
  /\ redial' = [redial EXCEPT ![m] = redials]
  /\ UNCHANGED <<asterisk, redials, service, client, wired, used>>

\* A session ends: with Asterisk, by itself, or because the login is refused.
LoseSession(m) ==
  /\ link[m] \in {"tcp", "in"}
  /\ IF asterisk = "down" THEN UNCHANGED used ELSE Mishap("drop", MaxDrops)
  /\ link' = [link EXCEPT ![m] = "lost"]
  /\ redial' = [redial EXCEPT ![m] = redials]
  /\ UNCHANGED <<asterisk, redials, service, client, wired>>

\* Mutant: only the current manager's loss counts.
OnDisconnectOfCurrent(m) ==
  /\ link[m] = "lost"
  /\ link' = [link EXCEPT ![m] = "off"]
  /\ connected' = (connected /\ m # manager)
  /\ IdleTask
  /\ chain' = [chain EXCEPT ![NewTask] = Sleeping(0)]
  /\ UNCHANGED <<asterisk, redials, service, redial, manager, wired, used>>

\* Mutant: a session lost before its login is not followed by a reconnect.
OnDisconnectIfConnected(m) ==
  /\ link[m] = "lost"
  /\ link' = [link EXCEPT ![m] = "off"]
  /\ connected' = FALSE
  /\ chain' = IF connected THEN [chain EXCEPT ![NewTask] = Sleeping(0)]
              ELSE chain
  /\ UNCHANGED <<asterisk, redials, service, redial, manager, wired, used>>

\* Whichever manager it is: the flag goes down and a task is created.
OnDisconnect(m) ==
  /\ link[m] = "lost"
  /\ link' = [link EXCEPT ![m] = "off"]
  /\ connected' = FALSE
  /\ IdleTask
  /\ chain' = [chain EXCEPT ![NewTask] = Sleeping(0)]
  /\ UNCHANGED <<asterisk, redials, service, redial, manager, wired, used>>

\* Shutdown closes the current manager; pending reconnects are not cancelled
\* and may still run until the process is gone.
Close ==
  /\ service = "running" /\ Mishap("stop", MaxStops)
  /\ service' = "closing"
  /\ link' = [m \in Managers |-> IF m = manager /\ link[m] \in {"tcp", "in"}
                                 THEN "lost" ELSE link[m]]
  /\ connected' = FALSE
  /\ UNCHANGED <<asterisk, redials, redial, chain, manager, wired>>

Exit == /\ service = "closing"
        /\ Gone
        /\ UNCHANGED <<asterisk, redials, used>>

Crash == /\ service \in {"starting", "running"} /\ Mishap("stop", MaxStops)
         /\ Gone
         /\ UNCHANGED <<asterisk, redials>>

AsteriskStops == /\ asterisk = "up" /\ Mishap("outage", MaxOutages)
                 /\ asterisk' = "down"
                 /\ UNCHANGED <<redials, service, link, redial, client, wired>>

AsteriskStarts ==
  /\ asterisk = "down" /\ asterisk' = "up"
  /\ UNCHANGED <<redials, service, link, redial, client, wired, used>>

Init == /\ asterisk = "up" /\ redials \in BOOLEAN
        /\ service = "down"
        /\ link = [m \in Managers |-> "off"]
        /\ redial = [m \in Managers |-> FALSE]
        /\ chain = [c \in Chains |-> NoChain]
        /\ manager = NoManager /\ wired = NoManager
        /\ connected = FALSE
        /\ used = [kind \in {"outage", "drop", "stop"} |-> 0]

Reconnect(c) == \/ Wake(c)
                \/ \E m \in Managers : AttemptFails(c, m) \/ ChainBreaks(c, m)

Session(m) == \/ Established(m) \/ LogIn(m) \/ OnDisconnect(m)
              \/ Redial(m) \/ RedialFails(m)

Next == \/ \E m \in Managers : Session(m) \/ LoseSession(m) \/ StartupBreaks(m)
        \/ \E c \in Chains : Reconnect(c)
        \/ Boot \/ Close \/ Exit \/ Crash \/ AsteriskStops \/ AsteriskStarts

Spec == Init /\ [][Next]_vars

\* Timers fire, callbacks and connection attempts complete, systemd restarts
\* the process, a stopped one is started again, and Asterisk comes back.
Fairness ==
  /\ \A m \in Managers : WF_vars(Session(m))
  /\ \A c \in Chains : WF_vars(Reconnect(c))
  /\ WF_vars(Boot)
  /\ WF_vars(\E m \in Managers : StartupBreaks(m))
  /\ WF_vars(Exit) /\ WF_vars(AsteriskStarts)

FairSpec == Spec /\ Fairness

-----------------------------------------------------------------------------
(* Properties *)

Active(c) == chain[c].st # "none"
Live(m) == link[m] \in {"tcp", "in", "lost"}
Trying == \/ \E c \in Chains : Active(c)
          \/ \E m \in Managers : link[m] # "off" \/ redial[m]

\* is_connected of /health and of send_action is never left behind: while it is
\* true some session is logged in, or its on_disconnect is about to run.  (Any
\* manager's session: with a library that redials it need not be the current's.)
FlagIsHonest ==
  connected => \E m \in Managers : link[m] \in {"in", "lost"}

\* The client's own reconnecting (the library leaving lost sessions alone) does
\* not multiply: there is one session or one reconnect coroutine, never two of
\* either and never both, although every failed attempt and every lost session
\* starts or nests one.
OneLink ==
  ~redials =>
    /\ \A c, d \in Chains : Active(c) /\ Active(d) => c = d
    /\ \A m, n \in Managers : Live(m) /\ Live(n) => m = n
    /\ \A c \in Chains, m \in Managers : ~(Active(c) /\ Live(m))

\* Then the flag also tells of the manager send_action uses.
FlagIsCurrent ==
  ~redials /\ connected => /\ manager \in Managers
                           /\ link[manager] \in {"in", "lost"}

\* The client stops trying only when the process ends or when a chain has
\* failed MaxTries times in a row: no lost session and no failed attempt goes
\* without a next one.
GivesUpOnlyExhausted ==
  [][Trying /\ ~Trying' => \/ service' = "down"
                           \/ \E c \in Chains : chain[c].tries + 1 = MaxTries]_vars

\* The reconnect works: the flag comes up again, unless the last chain broke.
Reconnects ==
  (service = "running" /\ ~connected)
     ~> (connected \/ service # "running" \/ ~Trying)

\* startup() awaits Asterisk inside connect() and the service refuses all
\* requests meanwhile, but not for ever: a startup whose chain breaks ends the
\* process, and the next one finds Asterisk.
StartupEnds == service # "running" ~> service = "running"

\* With a library that redials, the session the handlers hang on comes back,
\* although the client has replaced its manager by then.
EventsReturn ==
  (redials /\ service = "running" /\ link[wired] # "in")
     ~> (service # "running" \/ link[wired] = "in")
=============================================================================
