----------------------------- MODULE RateLimiter -----------------------------
(***************************************************************************)
(* The per-number and the hourly limit of RateLimiter, as send_otp_call    *)
(* and retry_call use them: first the hourly check, then the number's.     *)
(* Each check counts the attempt when it passes.  Nothing is awaited       *)
(* between the two checks and the lock is never held across an await, so   *)
(* the pair is one step.  The concurrency layer is in CallLifecycle.       *)
(*                                                                         *)
(* The lists of timestamps are sets of attempts: attempt i is the i-th     *)
(* entry of log, which the code does not keep.                             *)
(***************************************************************************)
EXTENDS Integers, FiniteSets, Sequences

CONSTANTS
  Numbers,         \* mobile numbers, normalised
  PerNumberCalls,  \* rate_limit.per_number_calls
  NumberWindow,    \* rate_limit.per_number_window_minutes, in clock ticks
  HourlyLimit,     \* rate_limit.hourly_limit
  Hour,            \* 3600 s, in clock ticks
  Horizon, MaxAttempts, MaxRestarts \* bounds on time, attempts and restarts

ASSUME LimitsAssumption ==
  /\ "hourly" \notin Numbers
  /\ PerNumberCalls \in Nat /\ NumberWindow \in Nat
  /\ HourlyLimit \in Nat /\ Hour \in Nat
  /\ Horizon \in Nat /\ MaxAttempts \in Nat /\ MaxRestarts \in Nat

VARIABLES
  now,      \* time.time(), assumed not to be set back
  history,  \* _number_history; a number without an entry has the empty list
  hourly,   \* _hourly_calls
  run,      \* restarts so far
  log       \* every attempt that was counted somewhere

vars == <<now, history, hourly, run, log>>

\* ok: the number's limit let it pass too, and the call is placed.
Attempts == [to : Numbers, at : Nat, ok : BOOLEAN, run : Nat]

TypeOK == /\ now \in Nat /\ run \in Nat
          /\ log \in Seq(Attempts)
          /\ history \in [Numbers -> SUBSET (1..Len(log))]
          /\ hourly \in SUBSET (1..Len(log))

-----------------------------------------------------------------------------
\* [t for t in calls if t > now - window]
Fresh(calls, window) == {i \in calls : log[i].at > now - window}

\* Mutant: one call more than the limit.
HourlyRoomInclusive == Cardinality(Fresh(hourly, Hour)) <= HourlyLimit

HourlyRoom == Cardinality(Fresh(hourly, Hour)) < HourlyLimit
NumberRoom(n) == Cardinality(Fresh(history[n], NumberWindow)) < PerNumberCalls

This == Len(log) + 1
Attempt(n, ok) ==
  /\ Len(log) < MaxAttempts
  /\ log' = Append(log, [to |-> n, at |-> now, ok |-> ok, run |-> run])

\* Mutant: the number's limit is checked, and counted, before the hourly one.
RefuseHourlyLate(n) ==
  /\ NumberRoom(n) /\ ~HourlyRoom
  /\ Attempt(n, FALSE)
  /\ history' = [history EXCEPT ![n] = Fresh(@, NumberWindow) \union {This}]
  /\ hourly' = Fresh(hourly, Hour)
  /\ UNCHANGED <<now, run>>

\* 429 of the hourly limit: the number is not looked at.
RefuseHourly(n) ==
  /\ n \in Numbers /\ ~HourlyRoom
  /\ hourly' = Fresh(hourly, Hour)
  /\ UNCHANGED <<now, history, run, log>>

\* Mutant: a refused attempt is counted against the number too.
RefuseNumberCounted(n) ==
  /\ HourlyRoom /\ ~NumberRoom(n)
  /\ Attempt(n, FALSE)
  /\ hourly' = Fresh(hourly, Hour) \union {This}
  /\ history' = [history EXCEPT ![n] = Fresh(@, NumberWindow) \union {This}]
  /\ UNCHANGED <<now, run>>

\* Mutant: the hourly limit is checked but not counted for a refused attempt.
RefuseNumberUncounted(n) ==
  /\ HourlyRoom /\ ~NumberRoom(n)
  /\ Attempt(n, FALSE)
  /\ hourly' = Fresh(hourly, Hour)
  /\ UNCHANGED <<now, history, run>>

\* 429 of the number's limit: the hourly limit has counted the attempt, and the
\* number's list is left as it was, unpruned.
RefuseNumber(n) ==
  /\ HourlyRoom /\ ~NumberRoom(n)
  /\ Attempt(n, FALSE)
  /\ hourly' = Fresh(hourly, Hour) \union {This}
  /\ UNCHANGED <<now, history, run>>

Admit(n) ==
  /\ HourlyRoom /\ NumberRoom(n)
  /\ Attempt(n, TRUE)
  /\ hourly' = Fresh(hourly, Hour) \union {This}
  /\ history' = [history EXCEPT ![n] = Fresh(@, NumberWindow) \union {This}]
  /\ UNCHANGED <<now, run>>

\* Mutant: a number with an expired call is dropped with all its calls.
CleanupWhole ==
  /\ history' = [n \in Numbers |->
                   IF Fresh(history[n], NumberWindow) = history[n]
                   THEN history[n] ELSE {}]
  /\ hourly' = Fresh(hourly, Hour)
  /\ UNCHANGED <<now, run, log>>

\* Mutant: a number is dropped and its next lookup finds no list at all.
CleanupDropped ==
  /\ history' = [n \in {m \in Numbers : Fresh(history[m], NumberWindow) # {}} |->
                   Fresh(history[n], NumberWindow)]
  /\ hourly' = Fresh(hourly, Hour)
  /\ UNCHANGED <<now, run, log>>

\* cleanup, every five minutes: the numbers without a call left are dropped.
Cleanup ==
  /\ history' = [n \in Numbers |-> Fresh(history[n], NumberWindow)]
  /\ hourly' = Fresh(hourly, Hour)
  /\ UNCHANGED <<now, run, log>>

Tick == /\ now < Horizon
        /\ now' = now + 1
        /\ UNCHANGED <<history, hourly, run, log>>

\* The lists are in memory: a restart begins with empty ones.
Restart ==
  /\ run < MaxRestarts
  /\ run' = run + 1
  /\ history' = [n \in Numbers |-> {}]
  /\ hourly' = {}
  /\ UNCHANGED <<now, log>>

Init == /\ now = 0 /\ run = 0 /\ log = <<>>
        /\ history = [n \in Numbers |-> {}]
        /\ hourly = {}

Next == \/ \E n \in Numbers : RefuseHourly(n) \/ RefuseNumber(n) \/ Admit(n)
        \/ Cleanup \/ Tick \/ Restart

Spec == Init /\ [][Next]_vars

-----------------------------------------------------------------------------
(* Properties *)

\* The calls placed to the number of attempt i in the window that ends with it.
NumberSpell(i) ==
  {j \in 1..i : /\ log[j].ok /\ log[j].to = log[i].to /\ log[j].run = log[i].run
                /\ log[j].at > log[i].at - NumberWindow}

\* "at most N calls to a number in X minutes": in every window, wherever it
\* begins, and not only in windows of the clock.  A restart opens a new count.
NumberLimit ==
  \A i \in 1..Len(log) :
    log[i].ok => Cardinality(NumberSpell(i)) <= PerNumberCalls

HourlySpell(i) ==
  {j \in 1..i : log[j].run = log[i].run /\ log[j].at > log[i].at - Hour}

\* "at most N calls an hour", and refused attempts are not even extra: those
\* that passed the hourly check stay within it.
HourlyBound ==
  \A i \in 1..Len(log) : Cardinality(HourlySpell(i)) <= HourlyLimit

\* What an attempt costs: a number's quota is spent by the calls placed to it
\* and by nothing else, least of all by attempts the hourly limit refuses.
NumberQuotaIsForCalls ==
  \A n \in Numbers :
    Fresh(history[n], NumberWindow) =
      {i \in 1..Len(log) : /\ log[i].ok /\ log[i].to = n /\ log[i].run = run
                           /\ log[i].at > now - NumberWindow}

\* An hour's quota is spent by every attempt that found room in it, also by one
\* its number's limit then refused, and by no attempt of an earlier process:
\* quota is never given back early and never lost to pruning.
HourlyQuotaIsForAttempts ==
  Fresh(hourly, Hour) =
    {i \in 1..Len(log) : log[i].run = run /\ log[i].at > now - Hour}

\* The inductive invariant: no entry is of the future, and the lists hold no
\* more than the limits.
Stamped == \A i \in 1..Len(log) : log[i].at <= now /\ log[i].run <= run
WithinLimits ==
  /\ \A n \in Numbers :
       Cardinality(Fresh(history[n], NumberWindow)) <= PerNumberCalls
  /\ Cardinality(Fresh(hourly, Hour)) <= HourlyLimit
LimiterInv == /\ TypeOK /\ Stamped
              /\ NumberQuotaIsForCalls /\ HourlyQuotaIsForAttempts
              /\ WithinLimits /\ NumberLimit /\ HourlyBound

\* The lists, pruned only when they are read, count what eagerly pruned
\* windows count, and no attempt is counted under one limit in part.
Stamps(calls, window) == {<<i, log[i].at>> : i \in Fresh(calls, window)}
Recent == [k \in Numbers \union {"hourly"} |->
             IF k = "hourly" THEN Stamps(hourly, Hour)
             ELSE Stamps(history[k], NumberWindow)]
Windows == INSTANCE SlidingWindow WITH
  Keys <- Numbers \union {"hourly"},
  Limit <- [k \in Numbers \union {"hourly"} |->
              IF k = "hourly" THEN HourlyLimit ELSE PerNumberCalls],
  Window <- [k \in Numbers \union {"hourly"} |->
               IF k = "hourly" THEN Hour ELSE NumberWindow],
  Names <- 1..MaxAttempts,
  recent <- Recent
WindowsSpec == Windows!Spec
=============================================================================
