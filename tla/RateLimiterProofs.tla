-------------------------- MODULE RateLimiterProofs --------------------------
(***************************************************************************)
(* The limits hold in every window of every run, whatever the limits, the  *)
(* windows and the numbers are, and the lists of RateLimiter implement     *)
(* SlidingWindow.                                                          *)
(***************************************************************************)
EXTENDS RateLimiter, FiniteSetTheorems, SequenceTheorems, TLAPS

\* Pruning a list of attempts yields a finite part of it.
LEMMA FreshSubset ==
  ASSUME TypeOK, NEW calls \in SUBSET (1..Len(log)), NEW window
  PROVE  /\ Fresh(calls, window) \subseteq calls
         /\ Fresh(calls, window) \in SUBSET (1..Len(log))
         /\ IsFiniteSet(Fresh(calls, window))
         /\ Cardinality(Fresh(calls, window)) \in Nat
<1>1. Len(log) \in Nat
  BY DEF TypeOK
<1>2. /\ Fresh(calls, window) \subseteq calls
      /\ Fresh(calls, window) \in SUBSET (1..Len(log))
  BY DEF Fresh
<1>3. IsFiniteSet(1..Len(log))
  BY <1>1, FS_Interval
<1> QED BY <1>2, <1>3, FS_Subset, FS_CardinalityType

\* A counted attempt is the next one of the log and the others stay.
LEMMA Logged ==
  ASSUME TypeOK, NEW n \in Numbers, NEW ok \in BOOLEAN, Attempt(n, ok)
  PROVE  /\ log' \in Seq(Attempts) /\ Len(log) \in Nat
         /\ This \in Nat /\ This \notin 1..Len(log)
         /\ 1..Len(log') = 1..Len(log) \union {This}
         /\ \A i \in 1..Len(log) : i # This /\ log'[i] = log[i]
         /\ log'[This] = [to |-> n, at |-> now, ok |-> ok, run |-> run]
<1>1. [to |-> n, at |-> now, ok |-> ok, run |-> run] \in Attempts
  BY DEF TypeOK, Attempts
<1>2. log' = Append(log, [to |-> n, at |-> now, ok |-> ok, run |-> run])
  BY DEF Attempt
<1> QED BY <1>1, <1>2 DEF TypeOK, This

\* The fields of an attempt.
LEMMA Fields ==
  ASSUME TypeOK, NEW i \in 1..Len(log)
  PROVE  /\ log[i] \in Attempts
         /\ log[i].at \in Nat /\ log[i].run \in Nat /\ log[i].to \in Numbers
         /\ log[i].ok \in BOOLEAN
<1>1. log[i] \in Attempts
  BY ElementOfSeq DEF TypeOK
<1> QED BY <1>1 DEF Attempts

\* What the invariant says of the past only: it is not touched by a step that
\* leaves the log alone, or adds an attempt that satisfies it too.
Past == Stamped /\ NumberLimit /\ HourlyBound

\* Nothing is logged and the clock and the process only move on.
LEMMA PastKept ==
  ASSUME TypeOK, TypeOK', Past, log' = log, now' >= now, run' >= run
  PROVE  Past'
<1>1. Stamped'
  BY Fields DEF Past, Stamped, TypeOK
<1>2. NumberLimit' /\ HourlyBound'
  BY DEF Past, NumberLimit, HourlyBound, NumberSpell, HourlySpell
<1> QED BY <1>1, <1>2 DEF Past

\* What it says of the present lists.
Present == NumberQuotaIsForCalls /\ HourlyQuotaIsForAttempts /\ WithinLimits

\* The lists after a step that logs nothing: if they keep what is still fresh
\* and gain nothing, they count what they should.
LEMMA PresentKept ==
  ASSUME TypeOK, TypeOK', Present, log' = log, now' >= now, run' = run,
         \A n \in Numbers : history'[n] \subseteq history[n],
         \A n \in Numbers : Fresh(history[n], NumberWindow) \subseteq history'[n],
         hourly' \subseteq hourly, Fresh(hourly, Hour) \subseteq hourly'
  PROVE  Present'
<1> USE LimitsAssumption
<1>0. \A i \in 1..Len(log) : log[i].at \in Nat
  BY Fields
<1>1. now \in Nat /\ now' \in Nat
  BY DEF TypeOK
<1>2. ASSUME NEW n \in Numbers
      PROVE  /\ Fresh(history[n], NumberWindow)' \subseteq
                  Fresh(history[n], NumberWindow)
             /\ Fresh(history[n], NumberWindow)' =
                  {i \in 1..Len(log) :
                     /\ log[i].ok /\ log[i].to = n /\ log[i].run = run
                     /\ log[i].at > now' - NumberWindow}
  <2>1. history[n] \in SUBSET (1..Len(log))
    BY DEF TypeOK
  <2>2. Fresh(history[n], NumberWindow) =
          {i \in 1..Len(log) : /\ log[i].ok /\ log[i].to = n
                               /\ log[i].run = run
                               /\ log[i].at > now - NumberWindow}
    BY DEF Present, NumberQuotaIsForCalls
  <2>3. Fresh(history[n], NumberWindow)' =
          {i \in history'[n] : log[i].at > now' - NumberWindow}
    BY DEF Fresh
  <2>4. Fresh(history[n], NumberWindow)' \subseteq Fresh(history[n], NumberWindow)
    BY <1>0, <1>1, <2>1, <2>3 DEF Fresh
  <2>5. \A i \in Fresh(history[n], NumberWindow) : i \in history'[n]
    OBVIOUS
  <2> QED BY <1>0, <1>1, <2>2, <2>3, <2>4, <2>5
<1>3. /\ Fresh(hourly, Hour)' \subseteq Fresh(hourly, Hour)
      /\ Fresh(hourly, Hour)' =
           {i \in 1..Len(log) : log[i].run = run /\ log[i].at > now' - Hour}
  <2>1. hourly \in SUBSET (1..Len(log))
    BY DEF TypeOK
  <2>2. Fresh(hourly, Hour) =
          {i \in 1..Len(log) : log[i].run = run /\ log[i].at > now - Hour}
    BY DEF Present, HourlyQuotaIsForAttempts
  <2>3. Fresh(hourly, Hour)' = {i \in hourly' : log[i].at > now' - Hour}
    BY DEF Fresh
  <2>4. Fresh(hourly, Hour)' \subseteq Fresh(hourly, Hour)
    <3> SUFFICES ASSUME NEW i \in hourly', log[i].at > now' - Hour
                 PROVE  i \in hourly /\ log[i].at > now - Hour
      BY <2>3 DEF Fresh
    <3>1. i \in 1..Len(log)
      BY <2>1
    <3> QED BY <1>0, <1>1, <3>1
  <2> QED BY <1>0, <1>1, <2>2, <2>3, <2>4
<1>4. NumberQuotaIsForCalls' /\ HourlyQuotaIsForAttempts'
  BY <1>2, <1>3 DEF NumberQuotaIsForCalls, HourlyQuotaIsForAttempts
<1>5. WithinLimits'
  <2>1. ASSUME NEW n \in Numbers
        PROVE  Cardinality(Fresh(history[n], NumberWindow)') <= PerNumberCalls
    <3>1. history[n] \in SUBSET (1..Len(log))
      BY DEF TypeOK
    <3>2. /\ IsFiniteSet(Fresh(history[n], NumberWindow))
          /\ Cardinality(Fresh(history[n], NumberWindow)) \in Nat
      BY <3>1, FreshSubset
    <3>3. /\ Cardinality(Fresh(history[n], NumberWindow)') <=
               Cardinality(Fresh(history[n], NumberWindow))
          /\ Cardinality(Fresh(history[n], NumberWindow)') \in Nat
      BY <1>2, <3>2, FS_Subset, FS_CardinalityType
    <3> QED BY <3>2, <3>3 DEF Present, WithinLimits
  <2>2. Cardinality(Fresh(hourly, Hour)') <= HourlyLimit
    <3>1. hourly \in SUBSET (1..Len(log))
      BY DEF TypeOK
    <3>2. /\ IsFiniteSet(Fresh(hourly, Hour))
          /\ Cardinality(Fresh(hourly, Hour)) \in Nat
      BY <3>1, FreshSubset
    <3>3. /\ Cardinality(Fresh(hourly, Hour)') <= Cardinality(Fresh(hourly, Hour))
          /\ Cardinality(Fresh(hourly, Hour)') \in Nat
      BY <1>3, <3>2, FS_Subset, FS_CardinalityType
    <3> QED BY <3>2, <3>3 DEF Present, WithinLimits
  <2> QED BY <2>1, <2>2 DEF WithinLimits
<1> QED BY <1>4, <1>5 DEF Present

-----------------------------------------------------------------------------
(* The steps *)

\* Reads the conjuncts of the inductive invariant off its definition, so that
\* the steps below cite the parts and never have to expand it.
LEMMA PartsOfInv ==
  LimiterInv <=> TypeOK /\ Past /\ Present
BY DEF LimiterInv, Past, Present

\* Refusal by the hourly limit, pruning and the clock log nothing.
LEMMA QuietStep ==
  ASSUME LimiterInv,
         \/ \E n \in Numbers : RefuseHourly(n)
         \/ Cleanup \/ Tick \/ UNCHANGED vars
  PROVE  LimiterInv'
<1>1. TypeOK /\ Past /\ Present
  BY PartsOfInv
<1>2. log' = log /\ run' = run /\ now' \in Nat /\ now' >= now
  BY <1>1 DEF RefuseHourly, Cleanup, Tick, vars, TypeOK
<1>3. \A n \in Numbers : /\ history[n] \in SUBSET (1..Len(log))
                          /\ Fresh(history[n], NumberWindow) \subseteq history[n]
                          /\ Fresh(hourly, Hour) \subseteq hourly
                          /\ hourly \in SUBSET (1..Len(log))
  BY <1>1, FreshSubset DEF TypeOK
<1>4. /\ Fresh(hourly, Hour) \subseteq hourly
      /\ hourly \in SUBSET (1..Len(log))
  BY <1>1, FreshSubset DEF TypeOK
<1>5. /\ hourly' \subseteq hourly /\ Fresh(hourly, Hour) \subseteq hourly'
  BY <1>4 DEF RefuseHourly, Cleanup, Tick, vars
<1>6. /\ history' = [n \in Numbers |-> history'[n]]
      /\ \A n \in Numbers :
           /\ history'[n] \subseteq history[n]
           /\ Fresh(history[n], NumberWindow) \subseteq history'[n]
  <2>1. CASE history' = history
    BY <1>1, <1>3, <2>1 DEF TypeOK
  <2>2. CASE history' = [n \in Numbers |-> Fresh(history[n], NumberWindow)]
    BY <1>3, <2>2
  <2> QED BY <2>1, <2>2 DEF RefuseHourly, Cleanup, Tick, vars
<1>7. TypeOK'
  <2>1. \A n \in Numbers : history'[n] \in SUBSET (1..Len(log))
    BY <1>3, <1>6
  <2>2. history' \in [Numbers -> SUBSET (1..Len(log))]
    BY <1>6, <2>1
  <2> QED BY <1>1, <1>2, <1>4, <1>5, <2>2 DEF TypeOK
<1>8. Past'
  <2>1. run' >= run
    BY <1>1, <1>2 DEF TypeOK
  <2> QED BY <1>1, <1>2, <1>7, <2>1, PastKept
<1>9. Present'
  BY <1>1, <1>2, <1>5, <1>6, <1>7, PresentKept
<1> QED BY <1>7, <1>8, <1>9, PartsOfInv DEF LimiterInv, Past, Present

\* A restart: no attempt is of the new process, and the lists are empty.
LEMMA RestartStep ==
  ASSUME LimiterInv, Restart
  PROVE  LimiterInv'
<1>1. TypeOK /\ Past
  BY PartsOfInv
<1>2. /\ run' = run + 1 /\ log' = log /\ now' = now /\ hourly' = {}
      /\ history' = [n \in Numbers |-> {}]
  BY DEF Restart
<1>3. TypeOK'
  BY <1>1, <1>2 DEF TypeOK
<1>4. Past'
  <2>1. now' >= now /\ run' >= run
    BY <1>1, <1>2 DEF TypeOK
  <2> QED BY <1>1, <1>2, <1>3, <2>1, PastKept
<1>5. \A i \in 1..Len(log) : log[i].run # run'
  BY <1>1, <1>2, Fields DEF Past, Stamped, TypeOK
<1>6. \A n \in Numbers : Fresh(history[n], NumberWindow)' = {}
  BY <1>2 DEF Fresh
<1>7. Fresh(hourly, Hour)' = {}
  BY <1>2 DEF Fresh
<1>8. NumberQuotaIsForCalls'
  BY <1>2, <1>5, <1>6 DEF NumberQuotaIsForCalls
<1>9. HourlyQuotaIsForAttempts'
  BY <1>2, <1>5, <1>7 DEF HourlyQuotaIsForAttempts
<1>10. WithinLimits'
  BY <1>6, <1>7, FS_EmptySet, LimitsAssumption DEF WithinLimits
<1> QED BY <1>3, <1>4, <1>8, <1>9, <1>10 DEF LimiterInv, Past

\* The hourly limit counts an attempt: the window that ends with it is the list.
LEMMA HourlyCounted ==
  ASSUME LimiterInv, NEW n \in Numbers, NEW ok \in BOOLEAN, Attempt(n, ok),
         HourlyRoom, hourly' = Fresh(hourly, Hour) \union {This},
         now' = now, run' = run
  PROVE  /\ hourly' \in SUBSET (1..Len(log'))
         /\ Stamped' /\ HourlyQuotaIsForAttempts' /\ HourlyBound'
         /\ Cardinality(Fresh(hourly, Hour)') <= HourlyLimit
<1> DEFINE F == Fresh(hourly, Hour)
<1>0. TypeOK /\ Stamped /\ now \in Nat /\ run \in Nat
  BY DEF LimiterInv, TypeOK
<1>1. /\ log' \in Seq(Attempts) /\ Len(log) \in Nat
      /\ This \in Nat /\ This \notin 1..Len(log)
      /\ 1..Len(log') = 1..Len(log) \union {This}
      /\ \A i \in 1..Len(log) : log'[i] = log[i]
      /\ log'[This] = [to |-> n, at |-> now, ok |-> ok, run |-> run]
  BY <1>0, Logged
<1>2. \A i \in 1..Len(log) : log[i].at \in Nat /\ log[i].run \in Nat
  BY <1>0, Fields
<1>3. /\ F \in SUBSET (1..Len(log)) /\ IsFiniteSet(F)
      /\ Cardinality(F) \in Nat /\ This \notin F
  BY <1>0, <1>1, FreshSubset DEF TypeOK
<1>4. hourly' \in SUBSET (1..Len(log'))
  BY <1>1, <1>3
<1>5. Stamped'
  BY <1>0, <1>1 DEF Stamped
<1>6. F = {i \in 1..Len(log) : log[i].run = run /\ log[i].at > now - Hour}
  BY DEF LimiterInv, HourlyQuotaIsForAttempts
<1>7. HourlyQuotaIsForAttempts'
  <2>1. Fresh(hourly, Hour)' = {i \in F \union {This} : log'[i].at > now - Hour}
    BY DEF Fresh
  <2>2. Fresh(hourly, Hour)' =
          {i \in 1..Len(log') : log'[i].run = run /\ log'[i].at > now - Hour}
    BY <1>1, <1>6, <2>1
  <2> QED BY <2>2 DEF HourlyQuotaIsForAttempts
<1>8. /\ IsFiniteSet(F \union {This})
      /\ Cardinality(F \union {This}) = Cardinality(F) + 1
      /\ Cardinality(F \union {This}) <= HourlyLimit
  <2>1. /\ IsFiniteSet(F \union {This})
        /\ Cardinality(F \union {This}) = Cardinality(F) + 1
    BY <1>3, FS_AddElement
  <2>2. Cardinality(F) < HourlyLimit
    BY DEF HourlyRoom
  <2> QED BY <1>3, <2>1, <2>2, LimitsAssumption
<1>9. ASSUME NEW S \in SUBSET (F \union {This})
      PROVE  Cardinality(S) <= HourlyLimit
  <2>1. /\ Cardinality(S) <= Cardinality(F \union {This})
        /\ Cardinality(S) \in Nat /\ Cardinality(F \union {This}) \in Nat
    BY <1>8, FS_Subset, FS_CardinalityType
  <2> QED BY <1>8, <2>1, LimitsAssumption
<1>10. Cardinality(Fresh(hourly, Hour)') <= HourlyLimit
  <2>1. Fresh(hourly, Hour)' \in SUBSET (F \union {This})
    BY DEF Fresh
  <2> QED BY <1>9, <2>1
<1>11. HourlyBound'
  <2> SUFFICES ASSUME NEW i \in 1..Len(log')
               PROVE  Cardinality(HourlySpell(i)') <= HourlyLimit
    BY DEF HourlyBound
  <2>1. HourlySpell(i)' = {j \in 1..i : /\ log'[j].run = log'[i].run
                                        /\ log'[j].at > log'[i].at - Hour}
    BY DEF HourlySpell
  <2>2. CASE i \in 1..Len(log)
    <3>1. \A j \in 1..i : j \in 1..Len(log)
      BY <1>1, <2>2
    <3>2. HourlySpell(i)' = HourlySpell(i)
      BY <1>1, <2>1, <2>2, <3>1 DEF HourlySpell
    <3> QED BY <2>2, <3>2 DEF LimiterInv, HourlyBound
  <2>3. CASE i = This
    <3>1. 1..i = 1..Len(log) \union {This}
      BY <1>1, <2>3 DEF This
    <3>2. HourlySpell(i)' \in SUBSET (F \union {This})
      BY <1>1, <1>6, <2>1, <2>3, <3>1
    <3> QED BY <1>9, <3>2
  <2> QED BY <1>1, <2>2, <2>3
<1> QED BY <1>4, <1>5, <1>7, <1>10, <1>11

\* An admitted attempt is counted by its number's list, which is the window
\* that ends with it; the other numbers' lists are as they were.
LEMMA NumberCounted ==
  ASSUME LimiterInv, NEW n \in Numbers, Attempt(n, TRUE), NumberRoom(n),
         history' = [history EXCEPT ![n] = Fresh(@, NumberWindow) \union {This}],
         now' = now, run' = run
  PROVE  /\ history' \in [Numbers -> SUBSET (1..Len(log'))]
         /\ NumberQuotaIsForCalls' /\ NumberLimit'
         /\ \A m \in Numbers :
              Cardinality(Fresh(history[m], NumberWindow)') <= PerNumberCalls
<1> DEFINE F(m) == Fresh(history[m], NumberWindow)
           H == F(n) \union {This}
<1>0. TypeOK /\ now \in Nat /\ run \in Nat
  BY DEF LimiterInv, TypeOK
<1>1. /\ log' \in Seq(Attempts) /\ Len(log) \in Nat
      /\ This \in Nat /\ This \notin 1..Len(log)
      /\ 1..Len(log') = 1..Len(log) \union {This}
      /\ \A i \in 1..Len(log) : log'[i] = log[i]
      /\ log'[This] = [to |-> n, at |-> now, ok |-> TRUE, run |-> run]
  BY <1>0, Logged
<1>2. ASSUME NEW m \in Numbers
      PROVE  /\ history[m] \in SUBSET (1..Len(log))
             /\ F(m) \in SUBSET (1..Len(log)) /\ IsFiniteSet(F(m))
             /\ Cardinality(F(m)) \in Nat
             /\ history'[m] = IF m = n THEN H ELSE history[m]
  BY <1>0, FreshSubset DEF TypeOK
<1>3. history' \in [Numbers -> SUBSET (1..Len(log'))]
  <2>1. \A m \in Numbers : history'[m] \in SUBSET (1..Len(log'))
    BY <1>1, <1>2
  <2>2. history' = [m \in Numbers |-> history'[m]]
    BY <1>0 DEF TypeOK
  <2> QED BY <2>1, <2>2
<1>4. ASSUME NEW m \in Numbers
      PROVE  F(m) = {i \in 1..Len(log) :
                       /\ log[i].ok /\ log[i].to = m /\ log[i].run = run
                       /\ log[i].at > now - NumberWindow}
  BY DEF LimiterInv, NumberQuotaIsForCalls
<1>5. ASSUME NEW m \in Numbers, m # n
      PROVE  Fresh(history[m], NumberWindow)' = F(m)
  BY <1>1, <1>2, <1>5 DEF Fresh
<1>6. Fresh(history[n], NumberWindow)' =
        {i \in H : log'[i].at > now - NumberWindow}
  BY <1>2 DEF Fresh
<1>7. NumberQuotaIsForCalls'
  <2> SUFFICES ASSUME NEW m \in Numbers
               PROVE  Fresh(history[m], NumberWindow)' =
                        {i \in 1..Len(log') :
                           /\ log'[i].ok /\ log'[i].to = m /\ log'[i].run = run
                           /\ log'[i].at > now - NumberWindow}
    BY DEF NumberQuotaIsForCalls
  <2>1. CASE m = n
    <3>1. F(n) = {i \in 1..Len(log) :
                    /\ log[i].ok /\ log[i].to = n /\ log[i].run = run
                    /\ log[i].at > now - NumberWindow}
      BY <1>4
    <3>2. /\ log'[This].ok /\ log'[This].to = n /\ log'[This].run = run
      BY <1>1
    <3>3. \A i \in 1..Len(log') :
            i \in H /\ log'[i].at > now - NumberWindow
              <=> /\ log'[i].ok /\ log'[i].to = n /\ log'[i].run = run
                  /\ log'[i].at > now - NumberWindow
      BY <1>1, <3>1, <3>2, Zenon
    <3>4. H \subseteq 1..Len(log')
      BY <1>1, <1>2
    <3> QED BY <1>6, <2>1, <3>3, <3>4
  <2>2. CASE m # n
    BY <1>1, <1>4, <1>5, <2>2
  <2> QED BY <2>1, <2>2
<1>8. /\ IsFiniteSet(H) /\ Cardinality(H) = Cardinality(F(n)) + 1
      /\ Cardinality(H) <= PerNumberCalls
  <2>1. This \notin F(n)
    BY <1>1, <1>2
  <2>2. IsFiniteSet(F(n)) /\ Cardinality(F(n)) \in Nat
    BY <1>2
  <2>3. IsFiniteSet(H) /\ Cardinality(H) = Cardinality(F(n)) + 1
    BY <2>1, <2>2, FS_AddElement
  <2>4. Cardinality(F(n)) < PerNumberCalls
    BY DEF NumberRoom
  <2> QED BY <2>2, <2>3, <2>4, LimitsAssumption
<1>9. ASSUME NEW S \in SUBSET H
      PROVE  Cardinality(S) <= PerNumberCalls
  <2>1. /\ Cardinality(S) <= Cardinality(H)
        /\ Cardinality(S) \in Nat /\ Cardinality(H) \in Nat
    BY <1>8, FS_Subset, FS_CardinalityType
  <2> QED BY <1>8, <2>1, LimitsAssumption
<1>10. ASSUME NEW m \in Numbers
       PROVE  Cardinality(Fresh(history[m], NumberWindow)') <= PerNumberCalls
  <2>1. CASE m = n
    <3>1. Fresh(history[n], NumberWindow)' \in SUBSET H
      BY <1>6
    <3> QED BY <1>9, <2>1, <3>1
  <2>2. CASE m # n
    BY <1>5, <2>2 DEF LimiterInv, WithinLimits
  <2> QED BY <2>1, <2>2
<1>11. NumberLimit'
  <2> SUFFICES ASSUME NEW i \in 1..Len(log'), log'[i].ok
               PROVE  Cardinality(NumberSpell(i)') <= PerNumberCalls
    BY DEF NumberLimit
  <2>1. NumberSpell(i)' =
          {j \in 1..i : /\ log'[j].ok /\ log'[j].to = log'[i].to
                        /\ log'[j].run = log'[i].run
                        /\ log'[j].at > log'[i].at - NumberWindow}
    BY DEF NumberSpell
  <2>2. CASE i \in 1..Len(log)
    <3>1. \A j \in 1..i : j \in 1..Len(log)
      BY <1>1, <2>2
    <3>2. NumberSpell(i)' = NumberSpell(i)
      BY <1>1, <2>1, <2>2, <3>1 DEF NumberSpell
    <3> QED BY <1>1, <2>2, <3>2 DEF LimiterInv, NumberLimit
  <2>3. CASE i = This
    <3>1. 1..i = 1..Len(log) \union {This}
      BY <1>1, <2>3 DEF This
    <3>2. NumberSpell(i)' \in SUBSET H
      BY <1>1, <1>4, <2>1, <2>3, <3>1
    <3> QED BY <1>9, <3>2
  <2> QED BY <1>1, <2>2, <2>3
<1> QED BY <1>3, <1>7, <1>10, <1>11

\* An attempt that a number's limit refuses leaves every number's list alone.
LEMMA NumberSpared ==
  ASSUME LimiterInv, NEW n \in Numbers, Attempt(n, FALSE),
         history' = history, now' = now, run' = run
  PROVE  /\ history' \in [Numbers -> SUBSET (1..Len(log'))]
         /\ NumberQuotaIsForCalls' /\ NumberLimit'
         /\ \A m \in Numbers :
              Cardinality(Fresh(history[m], NumberWindow)') <= PerNumberCalls
<1>0. TypeOK
  BY DEF LimiterInv
<1>1. /\ Len(log) \in Nat /\ This \notin 1..Len(log)
      /\ 1..Len(log') = 1..Len(log) \union {This}
      /\ \A i \in 1..Len(log) : log'[i] = log[i]
      /\ log'[This] = [to |-> n, at |-> now, ok |-> FALSE, run |-> run]
  BY <1>0, Logged
<1>2. \A m \in Numbers : history[m] \in SUBSET (1..Len(log))
  BY <1>0 DEF TypeOK
<1>3. history' \in [Numbers -> SUBSET (1..Len(log'))]
  <2>1. \A m \in Numbers : history[m] \in SUBSET (1..Len(log'))
    BY <1>1, <1>2
  <2>2. history = [m \in Numbers |-> history[m]]
    BY <1>0 DEF TypeOK
  <2> QED BY <2>1, <2>2
<1>4. \A m \in Numbers :
        Fresh(history[m], NumberWindow)' = Fresh(history[m], NumberWindow)
  BY <1>1, <1>2 DEF Fresh
<1>5. NumberQuotaIsForCalls'
  <2> SUFFICES ASSUME NEW m \in Numbers
               PROVE  Fresh(history[m], NumberWindow)' =
                        {i \in 1..Len(log') :
                           /\ log'[i].ok /\ log'[i].to = m /\ log'[i].run = run
                           /\ log'[i].at > now - NumberWindow}
    BY DEF NumberQuotaIsForCalls
  <2>1. Fresh(history[m], NumberWindow) =
          {i \in 1..Len(log) :
             /\ log[i].ok /\ log[i].to = m /\ log[i].run = run
             /\ log[i].at > now - NumberWindow}
    BY DEF LimiterInv, NumberQuotaIsForCalls
  <2> QED BY <1>1, <1>4, <2>1
<1>6. NumberLimit'
  <2> SUFFICES ASSUME NEW i \in 1..Len(log'), log'[i].ok
               PROVE  Cardinality(NumberSpell(i)') <= PerNumberCalls
    BY DEF NumberLimit
  <2>1. i \in 1..Len(log)
    BY <1>1
  <2>2. \A j \in 1..i : j \in 1..Len(log)
    BY <1>1, <2>1
  <2>3. NumberSpell(i)' = NumberSpell(i)
    BY <1>1, <2>1, <2>2 DEF NumberSpell
  <2> QED BY <1>1, <2>1, <2>3 DEF LimiterInv, NumberLimit
<1>7. \A m \in Numbers :
        Cardinality(Fresh(history[m], NumberWindow)') <= PerNumberCalls
  BY <1>4 DEF LimiterInv, WithinLimits
<1> QED BY <1>3, <1>5, <1>6, <1>7

\* An attempt that passed the hourly check, whatever its number's limit said.
LEMMA AttemptStep ==
  ASSUME LimiterInv, NEW n \in Numbers, RefuseNumber(n) \/ Admit(n)
  PROVE  LimiterInv'
<1>1. /\ TypeOK /\ HourlyRoom /\ now' = now /\ run' = run
      /\ hourly' = Fresh(hourly, Hour) \union {This}
      /\ \E ok \in BOOLEAN : Attempt(n, ok)
  BY DEF LimiterInv, RefuseNumber, Admit
<1>2. /\ hourly' \in SUBSET (1..Len(log')) /\ log' \in Seq(Attempts)
      /\ Stamped' /\ HourlyQuotaIsForAttempts' /\ HourlyBound'
      /\ Cardinality(Fresh(hourly, Hour)') <= HourlyLimit
  BY <1>1, HourlyCounted, Logged
<1>3. /\ history' \in [Numbers -> SUBSET (1..Len(log'))]
      /\ NumberQuotaIsForCalls' /\ NumberLimit'
      /\ \A m \in Numbers :
           Cardinality(Fresh(history[m], NumberWindow)') <= PerNumberCalls
  BY NumberCounted, NumberSpared DEF RefuseNumber, Admit
<1>4. TypeOK'
  BY <1>1, <1>2, <1>3 DEF TypeOK
<1>5. WithinLimits'
  BY <1>2, <1>3 DEF WithinLimits
<1> QED BY <1>2, <1>3, <1>4, <1>5 DEF LimiterInv

-----------------------------------------------------------------------------
(* The theorems *)

\* LimiterInv holds in every state of every run.
THEOREM LimiterInvariance == Spec => []LimiterInv
<1>1. Init => LimiterInv
  <2> SUFFICES ASSUME Init PROVE LimiterInv
    OBVIOUS
  <2>1. /\ now = 0 /\ run = 0 /\ log = <<>> /\ hourly = {}
        /\ history = [n \in Numbers |-> {}] /\ Len(log) = 0 /\ 1..Len(log) = {}
    BY DEF Init
  <2>2. TypeOK
    BY <2>1 DEF TypeOK
  <2>3. /\ \A n \in Numbers : Fresh(history[n], NumberWindow) = {}
        /\ Fresh(hourly, Hour) = {}
    BY <2>1 DEF Fresh
  <2>4. NumberQuotaIsForCalls /\ HourlyQuotaIsForAttempts
    BY <2>1, <2>3 DEF NumberQuotaIsForCalls, HourlyQuotaIsForAttempts
  <2>5. WithinLimits
    BY <2>3, FS_EmptySet, LimitsAssumption DEF WithinLimits
  <2>6. Stamped /\ NumberLimit /\ HourlyBound
    BY <2>1 DEF Stamped, NumberLimit, HourlyBound
  <2> QED BY <2>2, <2>4, <2>5, <2>6 DEF LimiterInv
<1>2. LimiterInv /\ [Next]_vars => LimiterInv'
  BY QuietStep, RestartStep, AttemptStep DEF Next
<1> QED BY <1>1, <1>2, PTL DEF Spec

\* No window of NumberWindow, wherever it begins, has more than PerNumberCalls
\* calls to one number placed by one process: lazy pruning, the periodic
\* cleanup and refused attempts notwithstanding.
THEOREM NumberLimitHolds == Spec => []NumberLimit
<1>1. LimiterInv => NumberLimit
  BY DEF LimiterInv
<1> QED BY <1>1, LimiterInvariance, PTL

\* No hour has more than HourlyLimit attempts that passed the hourly check,
\* so no more calls either.
THEOREM HourlyBoundHolds == Spec => []HourlyBound
<1>1. LimiterInv => HourlyBound
  BY DEF LimiterInv
<1> QED BY <1>1, LimiterInvariance, PTL

\* A number's quota is spent by its calls and by nothing else.
THEOREM NumberQuotaExact == Spec => []NumberQuotaIsForCalls
<1>1. LimiterInv => NumberQuotaIsForCalls
  BY DEF LimiterInv
<1> QED BY <1>1, LimiterInvariance, PTL

\* The lists, the log and the clocks keep their types, across restarts too.
THEOREM TypeCorrect == Spec => []TypeOK
<1>1. LimiterInv => TypeOK
  BY DEF LimiterInv
<1> QED BY <1>1, LimiterInvariance, PTL

\* The hourly list counts the attempts of this process in the last hour, those
\* included that the number's limit then refused, and nothing else.
THEOREM HourlyQuotaExact == Spec => []HourlyQuotaIsForAttempts
<1>1. LimiterInv => HourlyQuotaIsForAttempts
  BY DEF LimiterInv
<1> QED BY <1>1, LimiterInvariance, PTL

-----------------------------------------------------------------------------
(* The refinement *)

Keys == Numbers \union {"hourly"}

\* What a key's window holds now and after a step, key by key.
LEMMA Recents ==
  /\ Recent = [k \in Keys |-> Recent[k]]
  /\ Recent' = [k \in Keys |-> Recent'[k]]
  /\ Recent["hourly"] = {<<i, log[i].at>> : i \in Fresh(hourly, Hour)}
  /\ Recent'["hourly"] = {<<i, log'[i].at>> : i \in Fresh(hourly, Hour)'}
  /\ \A n \in Numbers :
       /\ n # "hourly"
       /\ Recent[n] = {<<i, log[i].at>> : i \in Fresh(history[n], NumberWindow)}
       /\ Recent'[n] =
            {<<i, log'[i].at>> : i \in Fresh(history[n], NumberWindow)'}
BY LimitsAssumption DEF Recent, Stamps, Keys

\* A window holds no more events than its list holds fresh attempts.
LEMMA StampsBounded ==
  ASSUME TypeOK, NEW calls \in SUBSET (1..Len(log)), NEW window
  PROVE  /\ Cardinality(Stamps(calls, window)) \in Nat
         /\ Cardinality(Stamps(calls, window)) <= Cardinality(Fresh(calls, window))
<1> DEFINE S == Fresh(calls, window)
           T == Stamps(calls, window)
           stamp == [i \in S |-> <<i, log[i].at>>]
<1>1. IsFiniteSet(S)
  BY FreshSubset
<1>2. stamp \in Surjection(S, T)
  BY DEF Surjection, Stamps
<1>3. IsFiniteSet(T) /\ Cardinality(T) <= Cardinality(S)
  <2> HIDE DEF S, T, stamp
  <2> QED BY <1>1, <1>2, FS_Surjection
<1> QED BY <1>3, FS_CardinalityType

\* SlidingWindow counts as RateLimiter does.
LEMMA SameCardinality == \A S : Windows!Cardinality(S) = Cardinality(S)
BY DEF Windows!Cardinality, Cardinality

\* Room in a list is room in its window.
LEMMA RoomImplemented ==
  ASSUME TypeOK
  PROVE  /\ HourlyRoom => Cardinality(Recent["hourly"]) < HourlyLimit
         /\ \A n \in Numbers :
              NumberRoom(n) => Cardinality(Recent[n]) < PerNumberCalls
<1>1. HourlyRoom => Cardinality(Recent["hourly"]) < HourlyLimit
  <2>1. hourly \in SUBSET (1..Len(log))
    BY DEF TypeOK
  <2>2. /\ Cardinality(Stamps(hourly, Hour)) \in Nat
        /\ Cardinality(Stamps(hourly, Hour)) <= Cardinality(Fresh(hourly, Hour))
        /\ Cardinality(Fresh(hourly, Hour)) \in Nat
    BY <2>1, StampsBounded, FreshSubset
  <2>3. Recent["hourly"] = Stamps(hourly, Hour)
    BY Recents DEF Stamps
  <2> QED BY <2>2, <2>3, LimitsAssumption DEF HourlyRoom
<1>2. ASSUME NEW n \in Numbers, NumberRoom(n)
      PROVE  Cardinality(Recent[n]) < PerNumberCalls
  <2> DEFINE W == Stamps(history[n], NumberWindow)
             F == Fresh(history[n], NumberWindow)
  <2>1. history[n] \in SUBSET (1..Len(log))
    BY DEF TypeOK
  <2>2. /\ Cardinality(W) \in Nat /\ Cardinality(W) <= Cardinality(F)
        /\ Cardinality(F) \in Nat
    BY <2>1, StampsBounded, FreshSubset
  <2>3. Recent[n] = W
    BY Recents DEF Stamps
  <2> QED BY <1>2, <2>2, <2>3, LimitsAssumption DEF NumberRoom
<1> QED BY <1>1, <1>2

\* Pruning a list does not touch its window.
LEMMA PruningUnseen ==
  ASSUME TypeOK, log' = log, now' = now,
         hourly' \in {hourly, Fresh(hourly, Hour)},
         \A n \in Numbers :
           history'[n] \in {history[n], Fresh(history[n], NumberWindow)}
  PROVE  Recent' = Recent
<1>1. Fresh(hourly, Hour)' = Fresh(hourly, Hour)
  BY DEF Fresh
<1>2. ASSUME NEW n \in Numbers
      PROVE  Fresh(history[n], NumberWindow)' = Fresh(history[n], NumberWindow)
  BY DEF Fresh
<1>3. Recent'["hourly"] = Recent["hourly"]
  BY <1>1, Recents
<1>4. ASSUME NEW n \in Numbers
      PROVE  Recent'[n] = Recent[n]
  <2>1. Recent'[n] =
          {<<i, log'[i].at>> : i \in Fresh(history[n], NumberWindow)'}
    BY Recents
  <2>2. Recent[n] = {<<i, log[i].at>> : i \in Fresh(history[n], NumberWindow)}
    BY Recents
  <2> QED BY <1>2, <2>1, <2>2
<1>5. \A k \in Keys : Recent'[k] = Recent[k]
  BY <1>3, <1>4 DEF Keys
<1> QED BY <1>5, Recents

\* The clock: what is a window old now is forgotten, in every window at once.
LEMMA TickImplemented ==
  ASSUME TypeOK, Tick
  PROVE  Windows!Pass
<1>1. /\ now' = now + 1 /\ history' = history /\ hourly' = hourly /\ log' = log
      /\ now \in Nat
  BY DEF Tick, TypeOK
<1>2. \A i \in 1..Len(log) : log[i].at \in Nat
  BY Fields
<1>3. Recent'["hourly"] = {e \in Recent["hourly"] : e[2] > now' - Hour}
  <2>1. hourly \in SUBSET (1..Len(log))
    BY DEF TypeOK
  <2>2. \A i \in hourly : log[i].at > now' - Hour => log[i].at > now - Hour
    BY <1>1, <1>2, <2>1, LimitsAssumption
  <2>3. Fresh(hourly, Hour)' = {i \in Fresh(hourly, Hour) : log[i].at > now' - Hour}
    BY <1>1, <2>2 DEF Fresh
  <2> QED BY <1>1, <2>3, Recents
<1>4. ASSUME NEW n \in Numbers
      PROVE  Recent'[n] = {e \in Recent[n] : e[2] > now' - NumberWindow}
  <2> DEFINE F == Fresh(history[n], NumberWindow)
  <2>1. history[n] \in SUBSET (1..Len(log))
    BY DEF TypeOK
  <2>2. \A i \in history[n] :
          log[i].at > now' - NumberWindow => log[i].at > now - NumberWindow
    BY <1>1, <1>2, <2>1, LimitsAssumption
  <2>3. Fresh(history[n], NumberWindow)' =
          {i \in F : log[i].at > now' - NumberWindow}
    BY <1>1, <2>2 DEF Fresh
  <2> QED BY <1>1, <2>3, Recents
<1>5. \A k \in Keys : Recent'[k] = Windows!Unexpired(Recent[k], k, now')
  BY <1>3, <1>4, LimitsAssumption DEF Keys, Windows!Unexpired
<1>6. Recent' = [k \in Keys |-> Windows!Unexpired(Recent[k], k, now')]
  BY <1>5, Recents
<1> QED BY <1>1, <1>6 DEF Windows!Pass, Keys

\* The event of an attempt joins the window of the list that counts it.
LEMMA Joined ==
  ASSUME TypeOK, NEW n \in Numbers, NEW ok \in BOOLEAN, Attempt(n, ok),
         now' = now, NEW calls \in SUBSET (1..Len(log)), NEW window
  PROVE  /\ {<<i, log'[i].at>> :
               i \in {j \in Fresh(calls, window) \union {This} :
                        log'[j].at > now - window}}
              = {e \in {<<i, log[i].at>> : i \in Fresh(calls, window)}
                         \union {<<This, now>>} : e[2] > now - window}
         /\ {<<i, log'[i].at>> : i \in {j \in calls : log'[j].at > now - window}}
              = {<<i, log[i].at>> : i \in Fresh(calls, window)}
<1> DEFINE F == Fresh(calls, window)
<1>1. /\ \A i \in 1..Len(log) : log'[i] = log[i]
      /\ log'[This].at = now
  <2>1. /\ \A i \in 1..Len(log) : log'[i] = log[i]
        /\ log'[This] = [to |-> n, at |-> now, ok |-> ok, run |-> run]
    BY Logged
  <2> QED BY <2>1
<1>2. F \in SUBSET (1..Len(log)) /\ \A i \in F : log[i].at > now - window
  BY FreshSubset DEF Fresh
<1>3. {j \in calls : log'[j].at > now - window} = F
  BY <1>1 DEF Fresh
<1>4. \A i \in F : log'[i].at = log[i].at
  BY <1>1, <1>2
<1> QED BY <1>1, <1>2, <1>3, <1>4

\* An attempt that the number's limit refuses is an event of the hour alone.
LEMMA RefusalImplemented ==
  ASSUME TypeOK, NEW n \in Numbers, RefuseNumber(n)
  PROVE  Windows!Count({"hourly"}, <<This, now>>)
<1>1. /\ HourlyRoom /\ Attempt(n, FALSE) /\ now' = now /\ history' = history
      /\ hourly' = Fresh(hourly, Hour) \union {This}
  BY DEF RefuseNumber
<1>2. hourly \in SUBSET (1..Len(log))
  BY DEF TypeOK
<1>3. Recent'["hourly"] =
        {e \in Recent["hourly"] \union {<<This, now>>} : e[2] > now - Hour}
  <2>1. Fresh(hourly, Hour)' =
          {j \in Fresh(hourly, Hour) \union {This} : log'[j].at > now - Hour}
    BY <1>1 DEF Fresh
  <2>2. {<<i, log'[i].at>> :
           i \in {j \in Fresh(hourly, Hour) \union {This} :
                    log'[j].at > now - Hour}}
          = {e \in {<<i, log[i].at>> : i \in Fresh(hourly, Hour)}
                     \union {<<This, now>>} : e[2] > now - Hour}
    BY <1>1, <1>2, Joined
  <2>3. /\ Recent["hourly"] = {<<i, log[i].at>> : i \in Fresh(hourly, Hour)}
        /\ Recent'["hourly"] = {<<i, log'[i].at>> : i \in Fresh(hourly, Hour)'}
    BY Recents
  <2> QED BY <2>1, <2>2, <2>3
<1>4. ASSUME NEW m \in Numbers
      PROVE  Recent'[m] = Recent[m]
  <2>1. history[m] \in SUBSET (1..Len(log))
    BY DEF TypeOK
  <2>2. Fresh(history[m], NumberWindow)' =
          {j \in history[m] : log'[j].at > now - NumberWindow}
    BY <1>1 DEF Fresh
  <2>3. {<<i, log'[i].at>> :
           i \in {j \in history[m] : log'[j].at > now - NumberWindow}}
          = {<<i, log[i].at>> : i \in Fresh(history[m], NumberWindow)}
    BY <1>1, <2>1, Joined
  <2>4. /\ Recent[m] =
             {<<i, log[i].at>> : i \in Fresh(history[m], NumberWindow)}
        /\ Recent'[m] =
             {<<i, log'[i].at>> : i \in Fresh(history[m], NumberWindow)'}
    BY Recents
  <2> QED BY <2>2, <2>3, <2>4
<1>5. \A k \in Keys : Recent'[k] =
        IF k \in {"hourly"}
        THEN Windows!Unexpired(Recent[k] \union {<<This, now>>}, k, now)
        ELSE Recent[k]
  BY <1>3, <1>4, LimitsAssumption DEF Keys, Windows!Unexpired
<1>6. Recent' = [k \in Keys |->
        IF k \in {"hourly"}
        THEN Windows!Unexpired(Recent[k] \union {<<This, now>>}, k, now)
        ELSE Recent[k]]
  BY <1>5, Recents
<1>7. Cardinality(Recent["hourly"]) < HourlyLimit
  BY <1>1, RoomImplemented
<1>8. Windows!Cardinality(Recent["hourly"]) < HourlyLimit
  BY <1>7, SameCardinality
<1> QED BY <1>1, <1>6, <1>8 DEF Windows!Count, Keys

\* An admitted attempt is an event of the hour and of its number, never of one
\* of them.
LEMMA AdmissionImplemented ==
  ASSUME TypeOK, NEW n \in Numbers, Admit(n)
  PROVE  Windows!Count({"hourly", n}, <<This, now>>)
<1>1. /\ HourlyRoom /\ NumberRoom(n) /\ Attempt(n, TRUE) /\ now' = now
      /\ hourly' = Fresh(hourly, Hour) \union {This}
      /\ history' = [history EXCEPT ![n] = Fresh(@, NumberWindow) \union {This}]
  BY DEF Admit
<1>2. hourly \in SUBSET (1..Len(log))
  BY DEF TypeOK
<1>3. Recent'["hourly"] =
        {e \in Recent["hourly"] \union {<<This, now>>} : e[2] > now - Hour}
  <2>1. Fresh(hourly, Hour)' =
          {j \in Fresh(hourly, Hour) \union {This} : log'[j].at > now - Hour}
    BY <1>1 DEF Fresh
  <2>2. {<<i, log'[i].at>> :
           i \in {j \in Fresh(hourly, Hour) \union {This} :
                    log'[j].at > now - Hour}}
          = {e \in {<<i, log[i].at>> : i \in Fresh(hourly, Hour)}
                     \union {<<This, now>>} : e[2] > now - Hour}
    BY <1>1, <1>2, Joined
  <2>3. /\ Recent["hourly"] = {<<i, log[i].at>> : i \in Fresh(hourly, Hour)}
        /\ Recent'["hourly"] = {<<i, log'[i].at>> : i \in Fresh(hourly, Hour)'}
    BY Recents
  <2> QED BY <2>1, <2>2, <2>3
<1>4. Recent'[n] =
        {e \in Recent[n] \union {<<This, now>>} : e[2] > now - NumberWindow}
  <2>1. history[n] \in SUBSET (1..Len(log))
    BY DEF TypeOK
  <2>2. history'[n] = Fresh(history[n], NumberWindow) \union {This}
    BY <1>1 DEF TypeOK
  <2>3. Fresh(history[n], NumberWindow)' =
          {j \in Fresh(history[n], NumberWindow) \union {This} :
             log'[j].at > now - NumberWindow}
    BY <1>1, <2>2 DEF Fresh
  <2>4. {<<i, log'[i].at>> :
           i \in {j \in Fresh(history[n], NumberWindow) \union {This} :
                    log'[j].at > now - NumberWindow}}
          = {e \in {<<i, log[i].at>> : i \in Fresh(history[n], NumberWindow)}
                     \union {<<This, now>>} : e[2] > now - NumberWindow}
    BY <1>1, <2>1, Joined
  <2>5. /\ Recent[n] =
             {<<i, log[i].at>> : i \in Fresh(history[n], NumberWindow)}
        /\ Recent'[n] =
             {<<i, log'[i].at>> : i \in Fresh(history[n], NumberWindow)'}
    BY Recents
  <2> QED BY <2>3, <2>4, <2>5
<1>5. ASSUME NEW m \in Numbers, m # n
      PROVE  Recent'[m] = Recent[m]
  <2>1. history[m] \in SUBSET (1..Len(log)) /\ history'[m] = history[m]
    BY <1>1, <1>5 DEF TypeOK
  <2>2. Fresh(history[m], NumberWindow)' =
          {j \in history[m] : log'[j].at > now - NumberWindow}
    BY <1>1, <2>1 DEF Fresh
  <2>3. {<<i, log'[i].at>> :
           i \in {j \in history[m] : log'[j].at > now - NumberWindow}}
          = {<<i, log[i].at>> : i \in Fresh(history[m], NumberWindow)}
    BY <1>1, <2>1, Joined
  <2>4. /\ Recent[m] =
             {<<i, log[i].at>> : i \in Fresh(history[m], NumberWindow)}
        /\ Recent'[m] =
             {<<i, log'[i].at>> : i \in Fresh(history[m], NumberWindow)'}
    BY Recents
  <2> QED BY <2>2, <2>3, <2>4
<1>6. \A k \in Keys : Recent'[k] =
        IF k \in {"hourly", n}
        THEN Windows!Unexpired(Recent[k] \union {<<This, now>>}, k, now)
        ELSE Recent[k]
  BY <1>3, <1>4, <1>5, LimitsAssumption DEF Keys, Windows!Unexpired
<1>7. Recent' = [k \in Keys |->
        IF k \in {"hourly", n}
        THEN Windows!Unexpired(Recent[k] \union {<<This, now>>}, k, now)
        ELSE Recent[k]]
  BY <1>6, Recents
<1>8. /\ Cardinality(Recent["hourly"]) < HourlyLimit
      /\ Cardinality(Recent[n]) < PerNumberCalls
  BY <1>1, RoomImplemented
<1>9. /\ Windows!Cardinality(Recent["hourly"]) < HourlyLimit
      /\ Windows!Cardinality(Recent[n]) < PerNumberCalls
  BY <1>8, SameCardinality
<1> QED BY <1>1, <1>7, <1>9, LimitsAssumption DEF Windows!Count, Keys

\* Pruned only when they are read or cleaned up, the lists count what windows
\* that forget every event on time count: a caller cannot tell them apart.
THEOREM WindowsImplemented == Spec => WindowsSpec
<1>1. Init => Windows!Init
  <2> SUFFICES ASSUME Init PROVE Windows!Init
    OBVIOUS
  <2>1. \A k \in Keys : Recent[k] = {}
    BY LimitsAssumption DEF Init, Recent, Stamps, Fresh, Keys
  <2>2. Recent = [k \in Keys |-> {}]
    BY <2>1, Recents
  <2> QED BY <2>2 DEF Init, Windows!Init, Keys
<1>2. TypeOK /\ [Next]_vars => [Windows!Next]_(Windows!vars)
  <2> SUFFICES ASSUME TypeOK, [Next]_vars
               PROVE  Windows!Next \/ (now' = now /\ Recent' = Recent)
    BY DEF Windows!vars
  <2>0. /\ hourly \in {hourly, Fresh(hourly, Hour)}
        /\ \A n \in Numbers :
             history[n] \in {history[n], Fresh(history[n], NumberWindow)}
    OBVIOUS
  <2>1. CASE \/ \E n \in Numbers : RefuseHourly(n)
             \/ Cleanup \/ UNCHANGED vars
    BY <2>1, PruningUnseen DEF RefuseHourly, Cleanup, vars
  <2>2. CASE Tick
    BY <2>2, TickImplemented DEF Windows!Next
  <2>3. CASE Restart
    <3>1. \A k \in Keys : Recent'[k] = {}
      BY <2>3, LimitsAssumption DEF Restart, Recent, Stamps, Fresh, Keys
    <3>2. Recent' = [k \in Keys |-> {}]
      BY <3>1, Recents
    <3> QED BY <2>3, <3>2 DEF Restart, Windows!Forget, Windows!Next, Keys
  <2>4. ASSUME NEW n \in Numbers, RefuseNumber(n) \/ Admit(n)
        PROVE  Windows!Next
    <3>1. This \in 1..MaxAttempts
      BY <2>4, LimitsAssumption DEF RefuseNumber, Admit, Attempt, This, TypeOK
    <3>2. \E ks \in SUBSET Keys : Windows!Count(ks, <<This, now>>)
      <4>1. {"hourly"} \in SUBSET Keys /\ {"hourly", n} \in SUBSET Keys
        BY DEF Keys
      <4> QED BY <2>4, <4>1, RefusalImplemented, AdmissionImplemented
    <3> QED BY <3>1, <3>2 DEF Windows!Next, Keys
  <2> QED BY <2>1, <2>2, <2>3, <2>4 DEF Next
<1> QED BY <1>1, <1>2, TypeCorrect, PTL
        DEF Spec, WindowsSpec, Windows!Spec
=============================================================================
