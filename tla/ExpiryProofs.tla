----------------------------- MODULE ExpiryProofs -----------------------------
(***************************************************************************)
(* How long a call is kept, for any number of calls, times and mishaps: at *)
(* least until it expires, and not for longer than the cleanups that       *)
(* failed explain.                                                         *)
(***************************************************************************)
EXTENDS Expiry, TLAPS

\* Steps of the HTTP handler that come after its INSERT, and after the first
\* line of the timeline.
Inserted == {"commit record", "log", "commit log", "bump", "commit bump"}
Logged == {"commit log", "bump", "commit bump"}

\* A call in creation is not known yet; what it has written is on the
\* connection, and no tick has passed since.
CreatingOf(r) ==
  /\ api[r].at # "idle" => call[r] = "none"
  /\ api[r].at \in Inserted => row[r] # Absent /\ ttl[r] = TTL
  /\ api[r].at \in Logged => "queued" \in log[r]
Creating == \A r \in Requests : CreatingOf(r)

\* KeptUntilExpiry of one call.
KeptOf(r) ==
  Known(r) /\ ttl[r] >= 0 =>
    /\ row[r] # Absent /\ disk.row[r] # Absent
    /\ "queued" \in log[r] /\ "queued" \in disk.log[r]

\* A call is dialled in the tick of its creation, and the time since then is
\* what its record has lost.
TimelyOf(r) ==
  /\ call[r] = "acked" => ttl[r] = TTL
  /\ call[r] = "up" => age[r] <= CallLife /\ ttl[r] >= TTL - age[r]
Timely == \A r \in Requests : TimelyOf(r)

\* While the cleaner sleeps, no record is later than the mishaps and the part
\* of the sleep that has passed; while it works, it is due.
Deadline == Period * Mishaps + (Period - wake)
Late ==
  /\ cleaner # "sleep" => wake = 0
  /\ cleaner \in {"events", "commit"} =>
       \A r \in Requests : row[r] # Absent => ttl[r] >= 0
  /\ \A r \in Requests : Present(r) => -ttl[r] <= Deadline

\* Once the events are swept, and until the next deletion, no timeline is left
\* of a deleted call.
Swept ==
  cleaner = "commit" \/ (cleaner = "sleep" /\ clean) =>
    \A r \in Requests : row[r] = Absent => "queued" \notin log[r]

ExpiryInv == /\ TypeOK /\ Creating /\ KeptUntilExpiry /\ Timely /\ Late /\ Swept

\* A new identifier is one that no call has had.
LEMMA FreshId ==
  ASSUME \E r \in Requests : Unused(r)
  PROVE  NewId \in Requests /\ Unused(NewId)
  BY DEF NewId

\* One more mishap is one more period.
LEMMA OneMorePeriod ==
  ASSUME NEW p \in Nat, NEW m \in Nat
  PROVE  p * (m + 1) = p * m + p /\ p * m \in Nat
  OBVIOUS

\* The time by which a record is gone is a number of ticks.
LEMMA DeadlineNat ==
  ASSUME TypeOK
  PROVE  Deadline \in Nat
  <1>1. Mishaps \in Nat /\ Period \in Nat /\ Period - wake \in Nat
    BY TimesAssumption DEF TimesAssumption, TypeOK, Mishaps
  <1>2. QED BY <1>1, OneMorePeriod DEF Deadline

\* A mishap counts, one that is only an overlong call apart.
LEMMA MishapCounts ==
  ASSUME TypeOK, NEW kind \in {"fault", "crash", "slow"}, Mishap(kind)
  PROVE  /\ used' \in [{"fault", "crash", "slow"} -> Nat]
         /\ Mishaps' = IF kind = "slow" THEN Mishaps ELSE Mishaps + 1
         /\ Mishaps \in Nat
  <1>1. used \in [{"fault", "crash", "slow"} -> Nat]
    BY DEF TypeOK
  <1>2. used' = [used EXCEPT ![kind] = used[kind] + 1]
    BY DEF Mishap
  <1>3. CASE kind = "fault" BY <1>1, <1>2, <1>3 DEF Mishaps
  <1>4. CASE kind = "crash" BY <1>1, <1>2, <1>4 DEF Mishaps
  <1>5. CASE kind = "slow" BY <1>1, <1>2, <1>5 DEF Mishaps
  <1>6. QED BY <1>3, <1>4, <1>5

\* A mishap makes no record later and the deadline none the earlier.
LEMMA MishapKeepsLate ==
  ASSUME TypeOK, Late, NEW kind \in {"fault", "crash", "slow"}, Mishap(kind),
         UNCHANGED <<row, disk, ttl, cleaner, wake>>
  PROVE  Late'
  <1>1. /\ Mishaps \in Nat /\ Mishaps' \in {Mishaps, Mishaps + 1}
        /\ Period \in Nat /\ wake \in 0..Period /\ ttl \in [Requests -> Int]
    BY MishapCounts, TimesAssumption DEF TypeOK, TimesAssumption
  <1>2. /\ Period * (Mishaps + 1) = Period * Mishaps + Period
        /\ Period * Mishaps \in Nat
    BY <1>1, OneMorePeriod
  <1>3. Period * Mishaps' \in {Period * Mishaps, Period * Mishaps + Period}
    BY <1>1, <1>2
  <1>4. /\ Deadline \in Int /\ Deadline' \in Int /\ Deadline <= Deadline'
    <2> DEFINE before == Period * Mishaps
               after == Period * Mishaps'
    <2>1. before \in Nat /\ after \in {before, before + Period}
      BY <1>2, <1>3
    <2>2. Deadline = before + (Period - wake)
      BY DEF Deadline
    <2>3. Deadline' = after + (Period - wake)
      BY DEF Deadline
    <2> HIDE DEF before, after
    <2>4. QED BY <1>1, <2>1, <2>2, <2>3
  <1>5. ASSUME NEW q \in Requests, Present(q)' PROVE -(ttl'[q]) <= Deadline'
    <2>1. Present(q) BY <1>5 DEF Present
    <2>2. -(ttl[q]) <= Deadline BY <2>1 DEF Late
    <2>3. ttl[q] \in Int /\ ttl'[q] = ttl[q] BY <1>1
    <2>4. QED BY <1>4, <2>2, <2>3
  <1>6. QED BY <1>5 DEF Late

\* The HTTP handler of one call goes on to its next statement.
LEMMA GoesOn ==
  ASSUME TypeOK, NEW r \in Requests, NEW step \in ApiSteps, Go(r, step)
  PROVE  /\ api' \in [Requests ->
                       [at : ApiSteps, of : Requests \union {NoRequest}]]
         /\ api'[r].at = step /\ api'[r].of = api[r].of
         /\ \A q \in Requests : q # r => api'[q] = api[q]
  BY DEF TypeOK, Go

\* Nothing is recorded at first.
LEMMA InitInv == Init => ExpiryInv
  <1> SUFFICES ASSUME Init PROVE ExpiryInv OBVIOUS
  <1> USE TimesAssumption DEF Init, TimesAssumption
  <1>1. TypeOK
    BY DEF TypeOK, Rows, Logs, NoApi, NoHandler, ApiSteps, HandlerSteps,
           CallStates, Statuses, Lines, Absent
  <1>2. Creating /\ KeptUntilExpiry /\ Timely /\ Swept
    BY DEF Creating, CreatingOf, KeptUntilExpiry, Timely, TimelyOf, Swept,
        NoApi, Inserted, Logged,
           Known
  <1>3. Late
    BY DEF Late, Present
  <1>4. QED BY <1>1, <1>2, <1>3 DEF ExpiryInv

\* The parent is read.
LEMMA ReadParentInv ==
  ASSUME NEW r \in Requests, ExpiryInv, ReadParent(r)
  PROVE  ExpiryInv'
  <1>1. /\ api[r].at = "parent" /\ UNCHANGED <<row, log, disk, ttl, call, age>>
        /\ UNCHANGED <<handler, cleaner, wake, clean, used>>
    BY DEF ReadParent, tables, calls, cleaning
  <1>2. TypeOK /\ Creating
    BY DEF ExpiryInv
  <1>3. /\ api' \in [Requests ->
                       [at : ApiSteps, of : Requests \union {NoRequest}]]
        /\ api'[r].at \in {"idle", "insert"}
        /\ \A q \in Requests : q # r => api'[q] = api[q]
    <2>1. CASE Go(r, "insert") BY <1>2, <2>1, GoesOn DEF ApiSteps
    <2>2. CASE api' = [api EXCEPT ![r] = NoApi]
      <3>1. NoApi \in [at : ApiSteps, of : Requests \union {NoRequest}]
        BY DEF NoApi, ApiSteps
      <3>2. NoApi.at = "idle" BY DEF NoApi
      <3>3. api \in [Requests ->
                       [at : ApiSteps, of : Requests \union {NoRequest}]]
        BY <1>2 DEF TypeOK
      <3>4. QED BY <2>2, <3>1, <3>2, <3>3
    <2>3. QED BY <2>1, <2>2 DEF ReadParent
  <1>4. TypeOK' BY <1>1, <1>2, <1>3 DEF TypeOK
  <1>5. Creating'
    <2> SUFFICES ASSUME NEW q \in Requests PROVE CreatingOf(q)'
      BY DEF Creating
    <2>1. CreatingOf(q) BY <1>2 DEF Creating
    <2>2. CASE q = r BY <1>1, <1>3, <2>1, <2>2 DEF CreatingOf, Inserted, Logged
    <2>3. CASE q # r BY <1>1, <1>3, <2>1, <2>3 DEF CreatingOf
    <2>4. QED BY <2>2, <2>3
  <1>6. KeptUntilExpiry' /\ Timely' /\ Late' /\ Swept'
    BY <1>1 DEF ExpiryInv, KeptUntilExpiry, Known, Timely, TimelyOf, Late,
                Deadline, Mishaps, Present, Swept
  <1>7. QED BY <1>4, <1>5, <1>6 DEF ExpiryInv

\* The record is inserted.
LEMMA InsertInv ==
  ASSUME NEW r \in Requests, ExpiryInv, Insert(r)
  PROVE  ExpiryInv'
  <1>1. /\ api[r].at = "insert" /\ Go(r, "commit record")
        /\ row' = [row EXCEPT ![r] = "queued"]
        /\ ttl' = [ttl EXCEPT ![r] = TTL]
        /\ UNCHANGED <<log, disk, call, age, handler>>
        /\ UNCHANGED <<cleaner, wake, clean, used>>
    BY DEF Insert, ApiGoes, cleaning
  <1>2. TypeOK /\ Creating /\ KeptUntilExpiry /\ Timely /\ Late /\ Swept
    BY DEF ExpiryInv
  <1>3. TTL \in Nat BY TimesAssumption DEF TimesAssumption
  <1>4. /\ api' \in [Requests ->
                       [at : ApiSteps, of : Requests \union {NoRequest}]]
        /\ api'[r].at = "commit record"
        /\ \A q \in Requests : q # r => api'[q] = api[q]
    BY <1>1, <1>2, GoesOn DEF ApiSteps
  <1>5. ttl \in [Requests -> Int] /\ row \in Rows
    BY <1>2 DEF TypeOK
  <1>6. ttl' \in [Requests -> Int]
    <2>1. ttl' = [ttl EXCEPT ![r] = TTL] BY <1>1
    <2>2. QED BY <1>3, <1>5, <2>1
  <1>7. row' \in Rows
    <2>1. row' = [row EXCEPT ![r] = "queued"] BY <1>1
    <2>2. QED BY <1>5, <2>1 DEF Rows, Statuses
  <1>8. /\ ttl'[r] = TTL /\ row'[r] = "queued"
        /\ \A q \in Requests : q # r => ttl'[q] = ttl[q] /\ row'[q] = row[q]
    <2>1. ttl' = [ttl EXCEPT ![r] = TTL] /\ row' = [row EXCEPT ![r] = "queued"]
      BY <1>1
    <2>2. QED BY <1>5, <2>1 DEF Rows
  <1>9. TypeOK'
    <2>1. UNCHANGED <<log, disk, call, age, handler, cleaner, wake, clean, used>>
      BY <1>1
    <2>2. QED BY <1>2, <1>4, <1>6, <1>7, <2>1 DEF TypeOK
  <1>10. call[r] = "none" /\ UNCHANGED <<log, disk, call, age, cleaner, wake>>
         /\ UNCHANGED <<clean, used>>
    BY <1>1, <1>2 DEF Creating, CreatingOf
  <1>11. Creating'
    <2> SUFFICES ASSUME NEW q \in Requests PROVE CreatingOf(q)'
      BY DEF Creating
    <2>1. CreatingOf(q) BY <1>2 DEF Creating
    <2>2. CASE q = r
      BY <1>4, <1>8, <1>10, <2>2 DEF CreatingOf, Logged, Absent
    <2>3. CASE q # r BY <1>4, <1>8, <1>10, <2>1, <2>3 DEF CreatingOf
    <2>4. QED BY <2>2, <2>3
  <1>12. KeptUntilExpiry' /\ Timely'
    <2> SUFFICES ASSUME NEW q \in Requests PROVE (KeptOf(q) /\ TimelyOf(q))'
      BY DEF KeptUntilExpiry, KeptOf, Timely
    <2>1. KeptOf(q) /\ TimelyOf(q)
      BY <1>2 DEF KeptUntilExpiry, KeptOf, Timely
    <2>2. CASE q = r BY <1>10, <2>2 DEF KeptOf, Known, TimelyOf
    <2>3. CASE q # r BY <1>8, <1>10, <2>1, <2>3 DEF KeptOf, Known, TimelyOf
    <2>4. QED BY <2>2, <2>3
  <1>13. Late'
    <2>1. Deadline' = Deadline /\ Deadline \in Nat
      BY <1>2, <1>10, DeadlineNat DEF Deadline, Mishaps
    <2>2. Present(r)' => -(ttl'[r]) <= Deadline
      BY <1>3, <1>8, <2>1
    <2>3. ASSUME NEW q \in Requests, q # r, Present(q)'
          PROVE  -(ttl'[q]) <= Deadline
      BY <1>2, <1>8, <1>10, <2>3 DEF Late, Present
    <2>4. \A q \in Requests : Present(q)' => -(ttl'[q]) <= Deadline'
      BY <2>1, <2>2, <2>3
    <2>5. cleaner' \in {"events", "commit"} =>
            \A q \in Requests : row'[q] # Absent => ttl'[q] >= 0
      BY <1>2, <1>3, <1>8, <1>10 DEF Late
    <2>6. cleaner' # "sleep" => wake' = 0
      BY <1>2, <1>10 DEF Late
    <2>7. QED BY <2>4, <2>5, <2>6 DEF Late
  <1>14. Swept'
    BY <1>2, <1>8, <1>10 DEF Swept, Absent
  <1>15. QED BY <1>9, <1>11, <1>12, <1>13, <1>14 DEF ExpiryInv

\* The record is committed.
LEMMA CommitRecordInv ==
  ASSUME NEW r \in Requests, ExpiryInv, CommitRecord(r)
  PROVE  ExpiryInv'
  <1> USE TimesAssumption
      DEF TimesAssumption, ExpiryInv, CommitRecord, ApiGoes, CommitAll,
          tables, calls,
          jobs, cleaning
  <1>0. /\ api' \in [Requests ->
                       [at : ApiSteps, of : Requests \union {NoRequest}]]
        /\ api'[r].at = "log"
        /\ \A q \in Requests : q # r => api'[q] = api[q]
    BY GoesOn DEF ApiSteps
  <1>1. TypeOK'
    <2>1. disk' \in [row : Rows, log : Logs]
      BY DEF TypeOK
    <2>2. QED BY <1>0, <2>1 DEF TypeOK
  <1>2. Creating'
    <2> SUFFICES ASSUME NEW q \in Requests PROVE CreatingOf(q)'
      BY DEF Creating
    <2> USE <1>0, <1>1 DEF TypeOK, Rows, Logs, Creating, CreatingOf, Inserted,
        Logged
    <2>1. CASE q = r BY <2>1
    <2>2. CASE q # r BY <2>2
    <2>3. QED BY <2>1, <2>2
  <1>3. KeptUntilExpiry'
    <2> SUFFICES ASSUME NEW q \in Requests PROVE KeptOf(q)'
      BY DEF KeptUntilExpiry, KeptOf
    <2> USE <1>0, <1>1 DEF TypeOK, Rows, Logs, Creating, CreatingOf,
        KeptUntilExpiry, KeptOf, Known, Inserted, Logged, Absent, Late,
        Timely, TimelyOf
    <2>1. CASE q = r BY <2>1
    <2>2. CASE q # r BY <2>2
    <2>3. QED BY <2>1, <2>2
  <1>4. Timely'
    <2> SUFFICES ASSUME NEW q \in Requests PROVE TimelyOf(q)'
      BY DEF Timely
    <2> USE <1>0, <1>1 DEF TypeOK, Rows, Logs, Creating, CreatingOf, Inserted,
        Logged, Timely, TimelyOf
    <2>1. CASE q = r BY <2>1
    <2>2. CASE q # r BY <2>2
    <2>3. QED BY <2>1, <2>2
  <1>5. Late'
    BY <1>0, <1>1, DeadlineNat DEF TypeOK, Late, Deadline, Mishaps, Present,
        Rows, Statuses, Absent
  <1>6. Swept'
    BY <1>0, <1>1 DEF TypeOK, Creating, CreatingOf, Swept, Inserted, Rows,
        Logs, Lines, Statuses,
                Absent
  <1>7. QED BY <1>1, <1>2, <1>3, <1>4, <1>5, <1>6

\* The first line of the timeline.
LEMMA LogQueuedInv ==
  ASSUME NEW r \in Requests, ExpiryInv, LogQueued(r)
  PROVE  ExpiryInv'
  <1>1. /\ api[r].at = "log" /\ Go(r, "commit log")
        /\ log' = [log EXCEPT ![r] = log[r] \union {"queued"}]
        /\ UNCHANGED <<row, disk, ttl, call, age, handler, cleaner, wake,
                       clean, used>>
    BY DEF LogQueued, ApiGoes, calls, cleaning
  <1>2. TypeOK /\ Creating /\ KeptUntilExpiry /\ Timely /\ Late /\ Swept
    BY DEF ExpiryInv
  <1>3. /\ api' \in [Requests ->
                       [at : ApiSteps, of : Requests \union {NoRequest}]]
        /\ api'[r].at = "commit log"
        /\ \A q \in Requests : q # r => api'[q] = api[q]
    BY <1>1, <1>2, GoesOn DEF ApiSteps
  <1>4. log \in [Requests -> SUBSET Lines] BY <1>2 DEF TypeOK, Logs
  <1>5. /\ log' \in [Requests -> SUBSET Lines]
        /\ "queued" \in log'[r]
        /\ \A q \in Requests : q # r => log'[q] = log[q]
    BY <1>1, <1>4 DEF Lines
  <1>6. TypeOK' BY <1>1, <1>2, <1>3, <1>5 DEF TypeOK, Logs
  <1>7. call[r] = "none" /\ row[r] # Absent /\ ttl[r] = TTL
    BY <1>1, <1>2 DEF Creating, CreatingOf, Inserted
  <1>8. Creating'
    <2> SUFFICES ASSUME NEW q \in Requests PROVE CreatingOf(q)'
      BY DEF Creating
    <2>1. CASE q = r
      BY <1>1, <1>3, <1>5, <1>7, <2>1 DEF CreatingOf, Inserted, Logged
    <2>2. CASE q # r
      <3>1. CreatingOf(q) BY <1>2 DEF Creating
      <3>2. QED BY <1>1, <1>3, <1>5, <2>2, <3>1 DEF CreatingOf
    <2>3. QED BY <2>1, <2>2
  <1>9. KeptUntilExpiry'
    <2> SUFFICES ASSUME NEW q \in Requests PROVE KeptOf(q)'
      BY DEF KeptUntilExpiry, KeptOf
    <2>1. CASE q = r BY <1>1, <1>7, <2>1 DEF KeptOf, Known
    <2>2. CASE q # r
      <3>1. KeptOf(q) BY <1>2 DEF KeptUntilExpiry, KeptOf
      <3>2. QED BY <1>1, <1>5, <2>2, <3>1 DEF KeptOf, Known
    <2>3. QED BY <2>1, <2>2
  <1>10. Timely' BY <1>1, <1>2 DEF Timely, TimelyOf
  <1>11. Late' BY <1>1, <1>2 DEF Late, Deadline, Mishaps, Present
  <1>12. Swept' BY <1>1, <1>2, <1>5, <1>7 DEF Swept
  <1>13. QED BY <1>6, <1>8, <1>9, <1>10, <1>11, <1>12 DEF ExpiryInv

\* The first line is committed: 202, or the retry goes on.
LEMMA CommitQueuedInv ==
  ASSUME NEW r \in Requests, ExpiryInv, CommitQueued(r)
  PROVE  ExpiryInv'
  <1>1. /\ api[r].at = "commit log" /\ disk' = [row |-> row, log |-> log]
        /\ UNCHANGED <<row, log, ttl, age, handler>>
        /\ UNCHANGED <<cleaner, wake, clean, used>>
    BY DEF CommitQueued, CommitAll, cleaning
  <1>2. TypeOK /\ Creating /\ KeptUntilExpiry /\ Timely /\ Late /\ Swept
    BY DEF ExpiryInv
  <1>3. /\ api' \in [Requests ->
                       [at : ApiSteps, of : Requests \union {NoRequest}]]
        /\ \A q \in Requests : q # r => api'[q] = api[q]
        /\ \/ api'[r].at = "bump" /\ UNCHANGED call
           \/ api'[r].at = "idle" /\ call' = [call EXCEPT ![r] = "acked"]
    <2>1. CASE Go(r, "bump") /\ UNCHANGED call
      BY <1>2, <2>1, GoesOn DEF ApiSteps
    <2>2. CASE /\ call' = [call EXCEPT ![r] = "acked"]
               /\ api' = [api EXCEPT ![r] = NoApi]
      <3>1. NoApi \in [at : ApiSteps, of : Requests \union {NoRequest}]
        BY DEF NoApi, ApiSteps
      <3>2. NoApi.at = "idle" BY DEF NoApi
      <3>3. api \in [Requests ->
                       [at : ApiSteps, of : Requests \union {NoRequest}]]
        BY <1>2 DEF TypeOK
      <3>4. QED BY <2>2, <3>1, <3>2, <3>3
    <2>3. QED BY <2>1, <2>2 DEF CommitQueued
  <1>4. call \in [Requests -> CallStates] /\ row \in Rows /\ log \in Logs
    BY <1>2 DEF TypeOK
  <1>5. /\ call' \in [Requests -> CallStates]
        /\ \A q \in Requests : q # r => call'[q] = call[q]
        /\ \/ api'[r].at = "bump" /\ call'[r] = call[r]
           \/ api'[r].at = "idle" /\ call'[r] = "acked"
    <2>1. CASE api'[r].at = "bump" /\ call' = call BY <1>4, <2>1
    <2>2. CASE /\ api'[r].at = "idle"
               /\ call' = [call EXCEPT ![r] = "acked"]
      <3>1. "acked" \in CallStates BY DEF CallStates
      <3>2. QED BY <1>4, <2>2, <3>1
    <2>3. QED BY <1>3, <2>1, <2>2
  <1>6. disk' \in [row : Rows, log : Logs] BY <1>1, <1>4
  <1>7. TypeOK' BY <1>1, <1>2, <1>3, <1>5, <1>6 DEF TypeOK
  <1>8. Creating'
    <2> SUFFICES ASSUME NEW q \in Requests PROVE CreatingOf(q)'
      BY DEF Creating
    <2>1. CreatingOf(q) BY <1>2 DEF Creating
    <2>2. CASE q = r
      BY <1>1, <1>5, <2>1, <2>2 DEF CreatingOf, Inserted, Logged
    <2>3. CASE q # r BY <1>1, <1>3, <1>5, <2>1, <2>3 DEF CreatingOf
    <2>4. QED BY <2>2, <2>3
  <1>9. /\ call[r] = "none" /\ ttl[r] = TTL /\ row[r] # Absent
        /\ "queued" \in log[r]
    BY <1>1, <1>2 DEF Creating, CreatingOf, Inserted, Logged
  <1>10. KeptUntilExpiry' /\ Timely'
    <2> SUFFICES ASSUME NEW q \in Requests PROVE (KeptOf(q) /\ TimelyOf(q))'
      BY DEF KeptUntilExpiry, KeptOf, Timely
    <2>1. KeptOf(q) /\ TimelyOf(q)
      BY <1>2 DEF KeptUntilExpiry, KeptOf, Timely
    <2>2. CASE q = r
      BY <1>1, <1>5, <1>9, <2>2 DEF KeptOf, TimelyOf, Known
    <2>3. CASE q # r BY <1>1, <1>5, <2>1, <2>3 DEF KeptOf, Known, TimelyOf
    <2>4. QED BY <2>2, <2>3
  <1>11. Late' /\ Swept'
    BY <1>1, <1>2 DEF Late, Deadline, Mishaps, Present, Swept
  <1>12. QED BY <1>7, <1>8, <1>10, <1>11 DEF ExpiryInv

\* The parent's count.
LEMMA BumpInv ==
  ASSUME NEW r \in Requests, ExpiryInv, Bump(r)
  PROVE  ExpiryInv'
  <1>1. /\ api[r].at = "bump" /\ Go(r, "commit bump")
        /\ UNCHANGED <<row, log, disk, ttl, call, age, handler, cleaner, wake,
                       clean, used>>
    BY DEF Bump, ApiGoes, tables, calls, cleaning
  <1>2. TypeOK /\ Creating /\ KeptUntilExpiry /\ Timely /\ Late /\ Swept
    BY DEF ExpiryInv
  <1>3. /\ api' \in [Requests ->
                       [at : ApiSteps, of : Requests \union {NoRequest}]]
        /\ api'[r].at = "commit bump"
        /\ \A q \in Requests : q # r => api'[q] = api[q]
    BY <1>1, <1>2, GoesOn DEF ApiSteps
  <1>4. TypeOK' BY <1>1, <1>2, <1>3 DEF TypeOK
  <1>5. Creating'
    <2> SUFFICES ASSUME NEW q \in Requests PROVE CreatingOf(q)'
      BY DEF Creating
    <2>1. CreatingOf(q) BY <1>2 DEF Creating
    <2>2. CASE q = r
      BY <1>1, <1>3, <2>1, <2>2 DEF CreatingOf, Inserted, Logged
    <2>3. CASE q # r BY <1>1, <1>3, <2>1, <2>3 DEF CreatingOf
    <2>4. QED BY <2>2, <2>3
  <1>6. KeptUntilExpiry' /\ Timely' /\ Swept'
    BY <1>1, <1>2 DEF KeptUntilExpiry, Known, Timely, TimelyOf, Swept
  <1>7. Late' BY <1>1, <1>2 DEF Late, Deadline, Mishaps, Present
  <1>8. QED BY <1>4, <1>5, <1>6, <1>7 DEF ExpiryInv

\* The count is committed: the retry's 202.
LEMMA CommitBumpInv ==
  ASSUME NEW r \in Requests, ExpiryInv, CommitBump(r)
  PROVE  ExpiryInv'
  <1>1. /\ api[r].at = "commit bump" /\ disk' = [row |-> row, log |-> log]
        /\ call' = [call EXCEPT ![r] = "acked"]
        /\ api' = [api EXCEPT ![r] = NoApi]
        /\ UNCHANGED <<row, log, ttl, age, handler, cleaner, wake, clean,
                       used>>
    BY DEF CommitBump, CommitAll, cleaning
  <1>2. TypeOK /\ Creating /\ KeptUntilExpiry /\ Timely /\ Late /\ Swept
    BY DEF ExpiryInv
  <1>3. row \in Rows /\ log \in Logs /\ call \in [Requests -> CallStates]
    BY <1>2 DEF TypeOK
  <1>4. /\ api' \in [Requests ->
                       [at : ApiSteps, of : Requests \union {NoRequest}]]
        /\ api'[r].at = "idle"
        /\ \A q \in Requests : q # r => api'[q] = api[q]
    <2>1. api \in [Requests -> [at : ApiSteps, of : Requests \union {NoRequest}]]
      BY <1>2 DEF TypeOK
    <2>2. /\ NoApi \in [at : ApiSteps, of : Requests \union {NoRequest}]
          /\ NoApi.at = "idle"
      BY DEF NoApi, ApiSteps
    <2>3. QED BY <1>1, <2>1, <2>2
  <1>5. /\ call' \in [Requests -> CallStates]
        /\ call'[r] = "acked"
        /\ \A q \in Requests : q # r => call'[q] = call[q]
    BY <1>1, <1>3 DEF CallStates
  <1>6. TypeOK'
    <2>1. disk' \in [row : Rows, log : Logs] BY <1>1, <1>3
    <2>2. QED BY <1>1, <1>2, <1>4, <1>5, <2>1 DEF TypeOK
  <1>7. /\ row[r] # Absent /\ ttl[r] = TTL /\ "queued" \in log[r]
    BY <1>1, <1>2 DEF Creating, CreatingOf, Inserted, Logged
  <1>8. Creating'
    <2> SUFFICES ASSUME NEW q \in Requests PROVE CreatingOf(q)'
      BY DEF Creating
    <2>1. CASE q = r BY <1>4, <2>1 DEF CreatingOf, Inserted, Logged
    <2>2. CASE q # r
      <3>1. CreatingOf(q) BY <1>2 DEF Creating
      <3>2. QED BY <1>1, <1>4, <1>5, <2>2, <3>1 DEF CreatingOf
    <2>3. QED BY <2>1, <2>2
  <1>9. KeptUntilExpiry' /\ Timely'
    <2> SUFFICES ASSUME NEW q \in Requests PROVE (KeptOf(q) /\ TimelyOf(q))'
      BY DEF KeptUntilExpiry, KeptOf, Timely
    <2>1. KeptOf(q) /\ TimelyOf(q)
      BY <1>2 DEF KeptUntilExpiry, KeptOf, Timely
    <2>2. CASE q = r
      BY <1>1, <1>5, <1>7, <2>2 DEF KeptOf, TimelyOf, Known
    <2>3. CASE q # r BY <1>1, <1>5, <2>1, <2>3 DEF KeptOf, Known, TimelyOf
    <2>4. QED BY <2>2, <2>3
  <1>10. Late' /\ Swept'
    BY <1>1, <1>2 DEF Late, Deadline, Mishaps, Present, Swept
  <1>11. QED BY <1>6, <1>8, <1>9, <1>10 DEF ExpiryInv

\* An event handler goes on to its next statement.
LEMMA HandlerMoves ==
  ASSUME TypeOK, NEW r \in Requests, NEW from, NEW step \in HandlerSteps,
         HandlerGoes(r, from, step)
  PROVE  handler' \in [Requests ->
                        [at : HandlerSteps, to : {"live", "failed"}]]
  BY DEF TypeOK, HandlerGoes

\* A step of an event handler: no call, no creation and no cleanup is touched,
\* no record comes or goes, no first line either, and a commit is everybody's.
LEMMA HandlerKeeps ==
  ASSUME ExpiryInv,
         handler' \in [Requests ->
                        [at : HandlerSteps, to : {"live", "failed"}]],
         row' \in Rows, log' \in Logs,
         \A q \in Requests :
           /\ row'[q] = Absent <=> row[q] = Absent
           /\ "queued" \in log'[q] <=> "queued" \in log[q],
         disk' = disk \/ disk' = [row |-> row, log |-> log],
         UNCHANGED <<ttl, call, age, api, cleaner, wake, clean, used>>
  PROVE  ExpiryInv'
  <1>1. TypeOK /\ Creating /\ KeptUntilExpiry /\ Timely /\ Late /\ Swept
    BY DEF ExpiryInv
  <1>2. row \in Rows /\ log \in Logs /\ disk \in [row : Rows, log : Logs]
    BY <1>1 DEF TypeOK
  <1>3. disk' \in [row : Rows, log : Logs] BY <1>2
  <1>4. TypeOK' BY <1>1, <1>3 DEF TypeOK
  <1>5. Creating' /\ Timely' /\ Swept'
    BY <1>1 DEF Creating, CreatingOf, Timely, TimelyOf, Swept
  <1>6. \/ disk'.row = disk.row /\ disk'.log = disk.log
        \/ disk'.row = row /\ disk'.log = log
    OBVIOUS
  <1>7. KeptUntilExpiry'
    <2> SUFFICES ASSUME NEW q \in Requests PROVE KeptOf(q)'
      BY DEF KeptUntilExpiry, KeptOf
    <2>1. KeptOf(q) BY <1>1 DEF KeptUntilExpiry, KeptOf
    <2>2. QED BY <1>6, <2>1 DEF KeptOf, Known
  <1>8. Late'
    <2>1. \A q \in Requests : Present(q)' => Present(q)
      BY <1>6 DEF Present
    <2>2. Deadline' = Deadline BY DEF Deadline, Mishaps
    <2>3. QED BY <1>1, <2>1, <2>2 DEF Late
  <1>9. QED BY <1>4, <1>5, <1>7, <1>8 DEF ExpiryInv

\* A handler reads the record.
LEMMA FindInv ==
  ASSUME NEW r \in Requests, ExpiryInv, Find(r)
  PROVE  ExpiryInv'
  <1>1. TypeOK BY DEF ExpiryInv
  <1>2. UNCHANGED <<row, log, disk, ttl, call, age, api, cleaner, wake, clean,
                    used>>
    BY DEF Find, tables, calls, cleaning
  <1>3. handler' \in [Requests ->
                       [at : HandlerSteps, to : {"live", "failed"}]]
    <2>1. \E step \in HandlerSteps : HandlerGoes(r, "find", step)
      BY DEF Find, HandlerSteps
    <2>2. QED BY <1>1, <2>1, HandlerMoves
  <1>4. row \in Rows /\ log \in Logs BY <1>1 DEF TypeOK
  <1>5. QED BY <1>2, <1>3, <1>4, HandlerKeeps

\* A handler writes the status.
LEMMA UpdateStatusInv ==
  ASSUME NEW r \in Requests, ExpiryInv, UpdateStatus(r)
  PROVE  ExpiryInv'
  <1>1. /\ handler' = [handler EXCEPT ![r].at = "commit update"]
        /\ row' = IF row[r] = Absent THEN row
                  ELSE [row EXCEPT ![r] = handler[r].to]
        /\ UNCHANGED <<log, disk, ttl, call, age, api>>
        /\ UNCHANGED <<cleaner, wake, clean, used>>
    BY DEF UpdateStatus, HandlerGoes, calls, cleaning
  <1>2. TypeOK /\ Creating /\ KeptUntilExpiry /\ Timely /\ Late /\ Swept
    BY DEF ExpiryInv
  <1>3. /\ row \in Rows
        /\ handler \in [Requests -> [at : HandlerSteps, to : {"live", "failed"}]]
    BY <1>2 DEF TypeOK
  <1>4. row' \in Rows
    BY <1>1, <1>3 DEF Rows, Statuses
  <1>5. handler' \in [Requests -> [at : HandlerSteps, to : {"live", "failed"}]]
    BY <1>1, <1>3 DEF HandlerSteps
  <1>6. TypeOK' BY <1>1, <1>2, <1>4, <1>5 DEF TypeOK
  <1>7. \A q \in Requests : row'[q] = Absent <=> row[q] = Absent
    <2>1. handler[r].to # Absent BY <1>3 DEF Absent
    <2>2. QED BY <1>1, <1>3, <2>1 DEF Rows
  <1>8. UNCHANGED <<log, disk, ttl, call, age, api, cleaner, wake, clean, used>>
    BY <1>1
  <1>9. Creating' /\ KeptUntilExpiry' /\ Timely' /\ Swept'
    BY <1>2, <1>7, <1>8 DEF Creating, CreatingOf, KeptUntilExpiry, Known,
                            Timely, TimelyOf, Swept
  <1>10. Late'
    BY <1>2, <1>7, <1>8 DEF Late, Deadline, Mishaps, Present
  <1>11. QED BY <1>6, <1>9, <1>10 DEF ExpiryInv

\* A handler commits the status.
LEMMA CommitUpdateInv ==
  ASSUME NEW r \in Requests, ExpiryInv, CommitUpdate(r)
  PROVE  ExpiryInv'
  <1>1. TypeOK BY DEF ExpiryInv
  <1>2. /\ HandlerGoes(r, "commit update", "log")
        /\ disk' = [row |-> row, log |-> log]
        /\ UNCHANGED <<row, log, ttl, call, age, api, cleaner, wake, clean,
                       used>>
    BY DEF CommitUpdate, CommitAll, calls, cleaning
  <1>3. handler' \in [Requests ->
                       [at : HandlerSteps, to : {"live", "failed"}]]
    BY <1>1, <1>2, HandlerMoves DEF HandlerSteps
  <1>4. row \in Rows /\ log \in Logs BY <1>1 DEF TypeOK
  <1>5. QED BY <1>2, <1>3, <1>4, HandlerKeeps

\* A handler logs its event.
LEMMA LogEventInv ==
  ASSUME NEW r \in Requests, ExpiryInv, LogEvent(r)
  PROVE  ExpiryInv'
  <1>1. TypeOK BY DEF ExpiryInv
  <1>2. /\ HandlerGoes(r, "log", "commit log")
        /\ log' = [log EXCEPT ![r] = log[r] \union {"event"}]
        /\ UNCHANGED <<row, disk, ttl, call, age, api, cleaner, wake, clean,
                       used>>
    BY DEF LogEvent, calls, cleaning
  <1>3. handler' \in [Requests ->
                       [at : HandlerSteps, to : {"live", "failed"}]]
    BY <1>1, <1>2, HandlerMoves DEF HandlerSteps
  <1>4. row \in Rows /\ log \in [Requests -> SUBSET Lines]
    BY <1>1 DEF TypeOK, Logs
  <1>5. /\ log' \in [Requests -> SUBSET Lines]
        /\ \A q \in Requests : "queued" \in log'[q] <=> "queued" \in log[q]
    BY <1>2, <1>4 DEF Lines
  <1>6. QED BY <1>2, <1>3, <1>4, <1>5, HandlerKeeps DEF Logs

\* A handler commits its event.
LEMMA CommitEventInv ==
  ASSUME NEW r \in Requests, ExpiryInv, CommitEvent(r)
  PROVE  ExpiryInv'
  <1>1. TypeOK BY DEF ExpiryInv
  <1>2. /\ handler' = [handler EXCEPT ![r] = NoHandler]
        /\ disk' = [row |-> row, log |-> log]
        /\ UNCHANGED <<row, log, ttl, call, age, api, cleaner, wake, clean,
                       used>>
    BY DEF CommitEvent, CommitAll, calls, cleaning
  <1>3. handler' \in [Requests ->
                       [at : HandlerSteps, to : {"live", "failed"}]]
    BY <1>1, <1>2 DEF TypeOK, NoHandler, HandlerSteps
  <1>4. row \in Rows /\ log \in Logs BY <1>1 DEF TypeOK
  <1>5. QED BY <1>2, <1>3, <1>4, HandlerKeeps

\* A statement of the HTTP handler fails.
LEMMA CreateFailsInv ==
  ASSUME NEW r \in Requests, ExpiryInv, CreateFails(r)
  PROVE  ExpiryInv'
  <1>1. /\ api[r].at # "idle" /\ Mishap("fault")
        /\ api' = [api EXCEPT ![r] = NoApi]
        /\ call' = [call EXCEPT ![r] = "refused"]
        /\ UNCHANGED <<row, log, disk, ttl, age, handler, cleaner, wake,
                       clean>>
    BY DEF CreateFails, tables, cleaning
  <1>2. TypeOK /\ Creating /\ KeptUntilExpiry /\ Timely /\ Late /\ Swept
    BY DEF ExpiryInv
  <1>3. /\ api' \in [Requests ->
                       [at : ApiSteps, of : Requests \union {NoRequest}]]
        /\ api'[r].at = "idle"
        /\ \A q \in Requests : q # r => api'[q] = api[q]
    <2>1. api \in [Requests -> [at : ApiSteps, of : Requests \union {NoRequest}]]
      BY <1>2 DEF TypeOK
    <2>2. /\ NoApi \in [at : ApiSteps, of : Requests \union {NoRequest}]
          /\ NoApi.at = "idle"
      BY DEF NoApi, ApiSteps
    <2>3. QED BY <1>1, <2>1, <2>2
  <1>4. /\ call' \in [Requests -> CallStates]
        /\ call'[r] = "refused"
        /\ \A q \in Requests : q # r => call'[q] = call[q]
    <2>1. call \in [Requests -> CallStates] BY <1>2 DEF TypeOK
    <2>2. QED BY <1>1, <2>1 DEF CallStates
  <1>5. used' \in [{"fault", "crash", "slow"} -> Nat]
    BY <1>1, <1>2, MishapCounts
  <1>6. TypeOK' BY <1>1, <1>2, <1>3, <1>4, <1>5 DEF TypeOK
  <1>7. ASSUME NEW q \in Requests
        PROVE  (CreatingOf(q) /\ KeptOf(q) /\ TimelyOf(q))'
    <2>1. CASE q = r
      BY <1>3, <1>4, <2>1 DEF CreatingOf, KeptOf, Known, TimelyOf, Inserted,
                              Logged
    <2>2. CASE q # r
      <3>1. CreatingOf(q) /\ KeptOf(q) /\ TimelyOf(q)
        BY <1>2 DEF Creating, KeptUntilExpiry, KeptOf, Timely
      <3>2. QED
        BY <1>1, <1>3, <1>4, <2>2, <3>1 DEF CreatingOf, KeptOf, Known,
                                            TimelyOf
    <2>3. QED BY <2>1, <2>2
  <1>8. Creating' /\ KeptUntilExpiry' /\ Timely'
    BY <1>7 DEF Creating, KeptUntilExpiry, KeptOf, Timely
  <1>9. Late' BY <1>1, <1>2, MishapKeepsLate
  <1>10. Swept' BY <1>1, <1>2 DEF Swept
  <1>11. QED BY <1>6, <1>8, <1>9, <1>10 DEF ExpiryInv

\* A statement of an event handler fails.
LEMMA HandleFailsInv ==
  ASSUME NEW r \in Requests, ExpiryInv, HandleFails(r)
  PROVE  ExpiryInv'
  <1>1. /\ Mishap("fault") /\ handler' = [handler EXCEPT ![r] = NoHandler]
        /\ UNCHANGED <<row, log, disk, ttl, call, age, api, cleaner, wake,
                       clean>>
    BY DEF HandleFails, tables, calls, cleaning
  <1>2. TypeOK /\ Creating /\ KeptUntilExpiry /\ Timely /\ Late /\ Swept
    BY DEF ExpiryInv
  <1>3. handler' \in [Requests ->
                       [at : HandlerSteps, to : {"live", "failed"}]]
    BY <1>1, <1>2 DEF TypeOK, NoHandler, HandlerSteps
  <1>4. used' \in [{"fault", "crash", "slow"} -> Nat]
    BY <1>1, <1>2, MishapCounts
  <1>5. TypeOK' BY <1>1, <1>2, <1>3, <1>4 DEF TypeOK
  <1>6. Creating' /\ KeptUntilExpiry' /\ Timely' /\ Swept'
    BY <1>1, <1>2 DEF Creating, CreatingOf, KeptUntilExpiry, Known, Timely,
                      TimelyOf, Swept
  <1>7. Late' BY <1>1, <1>2, MishapKeepsLate
  <1>8. QED BY <1>5, <1>6, <1>7 DEF ExpiryInv

\* The call is dialled.
LEMMA DialInv ==
  ASSUME NEW r \in Requests, ExpiryInv, Dial(r)
  PROVE  ExpiryInv'
  <1>1. /\ call[r] = "acked" /\ call' = [call EXCEPT ![r] = "up"]
        /\ age' = [age EXCEPT ![r] = 0]
        /\ handler' = [handler EXCEPT ![r] = [at |-> "find", to |-> "live"]]
        /\ UNCHANGED <<row, log, disk, ttl, api, cleaner, wake, clean, used>>
    BY DEF Dial, Handling, tables, cleaning
  <1>2. TypeOK /\ Creating /\ KeptUntilExpiry /\ Timely /\ Late /\ Swept
    BY DEF ExpiryInv
  <1>3. /\ call \in [Requests -> CallStates] /\ age \in [Requests -> Nat]
        /\ handler \in [Requests -> [at : HandlerSteps, to : {"live", "failed"}]]
        /\ ttl \in [Requests -> Int]
    BY <1>2 DEF TypeOK
  <1>4. /\ call' \in [Requests -> CallStates] /\ call'[r] = "up"
        /\ \A q \in Requests : q # r => call'[q] = call[q]
    BY <1>1, <1>3 DEF CallStates
  <1>5. /\ age' \in [Requests -> Nat] /\ age'[r] = 0
        /\ \A q \in Requests : q # r => age'[q] = age[q]
    BY <1>1, <1>3
  <1>6. handler' \in [Requests -> [at : HandlerSteps, to : {"live", "failed"}]]
    BY <1>1, <1>3 DEF HandlerSteps
  <1>7. UNCHANGED <<row, log, disk, ttl, api, cleaner, wake, clean, used>>
    BY <1>1
  <1>8. TypeOK' BY <1>2, <1>4, <1>5, <1>6, <1>7 DEF TypeOK
  <1>9. Creating' /\ KeptUntilExpiry'
    <2> SUFFICES ASSUME NEW q \in Requests PROVE (CreatingOf(q) /\ KeptOf(q))'
      BY DEF KeptUntilExpiry, KeptOf, Creating
    <2>1. CreatingOf(q) /\ KeptOf(q)
      BY <1>2 DEF KeptUntilExpiry, KeptOf, Creating
    <2>2. CASE q = r
      BY <1>1, <1>4, <1>7, <2>1, <2>2 DEF KeptOf, Known, CreatingOf, Inserted,
                                           Logged
    <2>3. CASE q # r BY <1>4, <1>7, <2>1, <2>3 DEF KeptOf, Known, CreatingOf
    <2>4. QED BY <2>2, <2>3
  <1>10. Timely'
    <2> SUFFICES ASSUME NEW q \in Requests PROVE TimelyOf(q)'
      BY DEF Timely
    <2>1. TimelyOf(q) BY <1>2 DEF Timely
    <2>2. TTL \in Nat /\ CallLife \in Nat
      BY TimesAssumption DEF TimesAssumption
    <2>3. CASE q = r
      <3>1. ttl'[r] = TTL BY <1>1, <1>7, <2>1, <2>3 DEF TimelyOf
      <3>2. QED BY <1>4, <1>5, <2>2, <2>3, <3>1 DEF TimelyOf
    <2>4. CASE q # r BY <1>4, <1>5, <1>7, <2>1, <2>4 DEF TimelyOf
    <2>5. QED BY <2>3, <2>4
  <1>11. Late' /\ Swept'
    BY <1>2, <1>7 DEF Late, Deadline, Mishaps, Present, Swept
  <1>12. QED BY <1>8, <1>9, <1>10, <1>11 DEF ExpiryInv

\* A user event.
LEMMA EventInv ==
  ASSUME NEW r \in Requests, ExpiryInv, Event(r)
  PROVE  ExpiryInv'
  <1>1. TypeOK BY DEF ExpiryInv
  <1>2. /\ handler' = [handler EXCEPT ![r] = [at |-> "find", to |-> "live"]]
        /\ UNCHANGED <<row, log, disk, ttl, call, age, api, cleaner, wake,
                       clean, used>>
    BY DEF Event, Handling, tables, calls, cleaning
  <1>3. handler' \in [Requests ->
                       [at : HandlerSteps, to : {"live", "failed"}]]
    BY <1>1, <1>2 DEF TypeOK, HandlerSteps
  <1>4. row \in Rows /\ log \in Logs BY <1>1 DEF TypeOK
  <1>5. QED BY <1>2, <1>3, <1>4, HandlerKeeps

\* The call ends.
LEMMA EndInv ==
  ASSUME NEW r \in Requests, ExpiryInv, End(r)
  PROVE  ExpiryInv'
  <1>1. /\ call[r] \in {"up", "slow"} /\ call' = [call EXCEPT ![r] = "over"]
        /\ UNCHANGED <<row, log, disk, ttl, age, api>>
        /\ UNCHANGED <<cleaner, wake, clean, used>>
    BY DEF End, tables, cleaning
  <1>2. TypeOK /\ Creating /\ KeptUntilExpiry /\ Timely /\ Late /\ Swept
    BY DEF ExpiryInv
  <1>3. /\ call \in [Requests -> CallStates]
        /\ handler \in [Requests -> [at : HandlerSteps, to : {"live", "failed"}]]
    BY <1>2 DEF TypeOK
  <1>4. /\ call' \in [Requests -> CallStates] /\ call'[r] = "over"
        /\ \A q \in Requests : q # r => call'[q] = call[q]
    BY <1>1, <1>3 DEF CallStates
  <1>5. handler' \in [Requests -> [at : HandlerSteps, to : {"live", "failed"}]]
    <2>1. ASSUME NEW s \in {"live", "failed"}, Handling(r, s)
          PROVE  handler' \in
                   [Requests -> [at : HandlerSteps, to : {"live", "failed"}]]
      BY <1>3, <2>1 DEF Handling, HandlerSteps
    <2>2. QED BY <1>3, <2>1 DEF End
  <1>6. UNCHANGED <<row, log, disk, ttl, age, api, cleaner, wake, clean, used>>
    BY <1>1
  <1>7. TypeOK' BY <1>2, <1>4, <1>5, <1>6 DEF TypeOK
  <1>8. ASSUME NEW q \in Requests
        PROVE  (CreatingOf(q) /\ KeptOf(q) /\ TimelyOf(q))'
    <2>1. CreatingOf(q) /\ KeptOf(q) /\ TimelyOf(q)
      BY <1>2 DEF Creating, KeptUntilExpiry, KeptOf, Timely
    <2>2. CASE q = r
      BY <1>1, <1>4, <1>6, <2>1, <2>2 DEF CreatingOf, Inserted, Logged, KeptOf,
                                           Known, TimelyOf
    <2>3. CASE q # r
      BY <1>4, <1>6, <2>1, <2>3 DEF CreatingOf, KeptOf, Known, TimelyOf
    <2>4. QED BY <2>2, <2>3
  <1>9. Creating' /\ KeptUntilExpiry' /\ Timely'
    BY <1>8 DEF Creating, KeptUntilExpiry, KeptOf, Timely
  <1>10. Late' /\ Swept'
    BY <1>2, <1>6 DEF Late, Deadline, Mishaps, Present, Swept
  <1>11. QED BY <1>7, <1>9, <1>10 DEF ExpiryInv

\* The call outlives its time.
LEMMA OutliveInv ==
  ASSUME NEW r \in Requests, ExpiryInv, Outlive(r)
  PROVE  ExpiryInv'
  <1>1. /\ call[r] = "up" /\ call' = [call EXCEPT ![r] = "slow"]
        /\ Mishap("slow")
        /\ UNCHANGED <<row, log, disk, ttl, age, api, handler, cleaner, wake,
                       clean>>
    BY DEF Outlive, tables, jobs, cleaning
  <1>2. TypeOK /\ Creating /\ KeptUntilExpiry /\ Timely /\ Late /\ Swept
    BY DEF ExpiryInv
  <1>3. /\ call' \in [Requests -> CallStates] /\ call'[r] = "slow"
        /\ \A q \in Requests : q # r => call'[q] = call[q]
    <2>1. call \in [Requests -> CallStates] BY <1>2 DEF TypeOK
    <2>2. QED BY <1>1, <2>1 DEF CallStates
  <1>4. used' \in [{"fault", "crash", "slow"} -> Nat]
    BY <1>1, <1>2, MishapCounts
  <1>5. TypeOK' BY <1>1, <1>2, <1>3, <1>4 DEF TypeOK
  <1>6. ASSUME NEW q \in Requests
        PROVE  (CreatingOf(q) /\ KeptOf(q) /\ TimelyOf(q))'
    <2>1. CreatingOf(q) /\ KeptOf(q) /\ TimelyOf(q)
      BY <1>2 DEF Creating, KeptUntilExpiry, KeptOf, Timely
    <2>2. CASE q = r
      BY <1>1, <1>3, <2>1, <2>2 DEF CreatingOf, KeptOf, Known, TimelyOf,
                                    Inserted, Logged
    <2>3. CASE q # r
      BY <1>1, <1>3, <2>1, <2>3 DEF CreatingOf, KeptOf, Known, TimelyOf
    <2>4. QED BY <2>2, <2>3
  <1>7. Creating' /\ KeptUntilExpiry' /\ Timely'
    BY <1>6 DEF Creating, KeptUntilExpiry, KeptOf, Timely
  <1>8. Late' BY <1>1, <1>2, MishapKeepsLate
  <1>9. Swept' BY <1>1, <1>2 DEF Swept
  <1>10. QED BY <1>5, <1>7, <1>8, <1>9 DEF ExpiryInv

\* The cleaner wakes up.
LEMMA WakeUpInv ==
  ASSUME ExpiryInv, WakeUp
  PROVE  ExpiryInv'
  <1>1. /\ cleaner = "sleep" /\ wake = 0 /\ cleaner' = "calls"
        /\ UNCHANGED <<row, log, disk, ttl, call, age, api, handler, wake,
                       clean, used>>
    BY DEF WakeUp, tables, calls, jobs
  <1>2. TypeOK /\ Creating /\ KeptUntilExpiry /\ Timely /\ Late /\ Swept
    BY DEF ExpiryInv
  <1>3. TypeOK' BY <1>1, <1>2 DEF TypeOK
  <1>4. Creating' /\ KeptUntilExpiry' /\ Timely' /\ Swept'
    BY <1>1, <1>2 DEF Creating, CreatingOf, KeptUntilExpiry, Known, Timely,
                      TimelyOf, Swept
  <1>5. Late' BY <1>1, <1>2 DEF Late, Deadline, Mishaps, Present
  <1>6. QED BY <1>3, <1>4, <1>5 DEF ExpiryInv

\* Expired calls are deleted.
LEMMA DeleteCallsInv ==
  ASSUME ExpiryInv, DeleteCalls
  PROVE  ExpiryInv'
  <1>1. /\ cleaner = "calls" /\ cleaner' = "events"
        /\ row' = [r \in Requests |-> IF ttl[r] < 0 THEN Absent ELSE row[r]]
        /\ UNCHANGED <<log, disk, ttl, call, age, api, handler>>
        /\ UNCHANGED <<wake, clean, used>>
    BY DEF DeleteCalls, Expired, calls, jobs
  <1>2. TypeOK /\ Creating /\ KeptUntilExpiry /\ Timely /\ Late /\ Swept
    BY DEF ExpiryInv
  <1>3. row \in Rows /\ ttl \in [Requests -> Int] /\ TTL \in Nat
    BY <1>2, TimesAssumption DEF TypeOK, TimesAssumption
  <1>4. \A r \in Requests : row'[r] = IF ttl[r] < 0 THEN Absent ELSE row[r]
    BY <1>1
  <1>5. row' \in Rows BY <1>1, <1>3 DEF Rows
  <1>6. UNCHANGED <<log, disk, ttl, call, age, api, handler, wake, clean, used>>
    BY <1>1
  <1>7. TypeOK' BY <1>1, <1>2, <1>5, <1>6 DEF TypeOK
  <1>8. ASSUME NEW q \in Requests
        PROVE  (CreatingOf(q) /\ KeptOf(q) /\ TimelyOf(q))'
    <2>1. CreatingOf(q) /\ KeptOf(q) /\ TimelyOf(q)
      BY <1>2 DEF Creating, KeptUntilExpiry, KeptOf, Timely
    <2>2. CASE ttl[q] < 0
      <3>1. ~(ttl[q] >= 0) /\ ttl[q] # TTL BY <1>3, <2>2
      <3>2. api[q].at \notin Inserted BY <2>1, <3>1 DEF CreatingOf
      <3>3. ~(ttl'[q] >= 0) BY <1>6, <3>1
      <3>4. QED BY <1>6, <2>1, <3>2, <3>3 DEF CreatingOf, KeptOf, TimelyOf
    <2>3. CASE ~(ttl[q] < 0)
      <3>1. row'[q] = row[q] BY <1>4, <2>3
      <3>2. QED BY <1>6, <2>1, <3>1 DEF CreatingOf, KeptOf, Known, TimelyOf
    <2>4. QED BY <2>2, <2>3
  <1>9. Creating' /\ KeptUntilExpiry' /\ Timely'
    BY <1>8 DEF Creating, KeptUntilExpiry, KeptOf, Timely
  <1>10. Late'
    <2>1. wake = 0 BY <1>1, <1>2 DEF Late
    <2>2. ASSUME NEW r \in Requests, row'[r] # Absent
          PROVE  ttl'[r] >= 0 /\ row[r] # Absent
      BY <1>3, <1>4, <1>6, <2>2
    <2>3. ASSUME NEW r \in Requests, Present(r)'
          PROVE  -(ttl'[r]) <= Deadline'
      <3>1. Present(r) BY <1>6, <2>2, <2>3 DEF Present
      <3>2. QED BY <1>2, <1>6, <3>1 DEF Late, Deadline, Mishaps
    <2>4. QED BY <1>6, <2>1, <2>2, <2>3 DEF Late
  <1>11. Swept' BY <1>1 DEF Swept
  <1>12. QED BY <1>7, <1>9, <1>10, <1>11 DEF ExpiryInv

\* Events without a call are deleted.
LEMMA SweepEventsInv ==
  ASSUME ExpiryInv, SweepEvents
  PROVE  ExpiryInv'
  <1>1. /\ cleaner = "events" /\ cleaner' = "commit"
        /\ log' = [r \in Requests |-> IF row[r] = Absent THEN {} ELSE log[r]]
        /\ UNCHANGED <<row, disk, ttl, call, age, api, handler, wake, clean,
                       used>>
    BY DEF SweepEvents, calls, jobs
  <1>2. TypeOK /\ Creating /\ KeptUntilExpiry /\ Timely /\ Late /\ Swept
    BY DEF ExpiryInv
  <1>3. log' \in Logs
    <2>1. log \in [Requests -> SUBSET Lines] BY <1>2 DEF TypeOK, Logs
    <2>2. QED BY <1>1, <2>1 DEF Logs
  <1>4. TypeOK' BY <1>1, <1>2, <1>3 DEF TypeOK
  <1>5. \A q \in Requests : log'[q] = IF row[q] = Absent THEN {} ELSE log[q]
    BY <1>1
  <1>6. ASSUME NEW q \in Requests
        PROVE  (CreatingOf(q) /\ KeptOf(q) /\ TimelyOf(q))'
    <2>1. CreatingOf(q) /\ KeptOf(q) /\ TimelyOf(q)
      BY <1>2 DEF Creating, KeptUntilExpiry, KeptOf, Timely
    <2>2. QED
      BY <1>1, <1>5, <2>1 DEF CreatingOf, KeptOf, Known, TimelyOf, Inserted,
                              Logged
  <1>7. Creating' /\ KeptUntilExpiry' /\ Timely'
    BY <1>6 DEF Creating, KeptUntilExpiry, KeptOf, Timely
  <1>8. Late' BY <1>1, <1>2 DEF Late, Deadline, Mishaps, Present
  <1>9. Swept' BY <1>1, <1>5 DEF Swept
  <1>10. QED BY <1>4, <1>7, <1>8, <1>9 DEF ExpiryInv

\* The cleanup is committed.
LEMMA CommitCleanupInv ==
  ASSUME ExpiryInv, CommitCleanup
  PROVE  ExpiryInv'
  <1>1. /\ cleaner = "commit" /\ cleaner' = "sleep" /\ wake' = Period
        /\ clean' = TRUE /\ disk' = [row |-> row, log |-> log]
        /\ UNCHANGED <<row, log, ttl, call, age, api, handler, used>>
    BY DEF CommitCleanup, calls, jobs
  <1>2. TypeOK /\ Creating /\ KeptUntilExpiry /\ Timely /\ Late /\ Swept
    BY DEF ExpiryInv
  <1>3. Period \in Nat BY TimesAssumption DEF TimesAssumption
  <1>4. row \in Rows /\ log \in Logs /\ ttl \in [Requests -> Int]
    BY <1>2 DEF TypeOK
  <1>5. disk' \in [row : Rows, log : Logs] BY <1>1, <1>4
  <1>6. wake' \in 0..Period BY <1>1, <1>3
  <1>7. UNCHANGED <<row, log, ttl, call, age, api, handler, used>>
    BY <1>1
  <1>8. TypeOK' BY <1>1, <1>2, <1>5, <1>6, <1>7 DEF TypeOK
  <1>9. disk'.row = row /\ disk'.log = log BY <1>1
  <1>10. Creating' /\ KeptUntilExpiry' /\ Timely' /\ Swept'
    BY <1>1, <1>2, <1>7, <1>9 DEF Creating, CreatingOf, KeptUntilExpiry, Known,
                                  Timely, TimelyOf, Swept
  <1>11. Late'
    <2>1. Deadline' \in Nat
      <3>1. Mishaps' \in Nat BY <1>8 DEF TypeOK, Mishaps
      <3>2. Period * Mishaps' \in Nat BY <1>3, <3>1, OneMorePeriod
      <3>3. QED BY <1>1, <1>3, <3>2 DEF Deadline
    <2>2. ASSUME NEW r \in Requests, Present(r)' PROVE -(ttl'[r]) <= Deadline'
      <3>1. row[r] # Absent BY <1>7, <1>9, <2>2 DEF Present
      <3>2. ttl[r] >= 0 BY <1>1, <1>2, <3>1 DEF Late
      <3>3. QED BY <1>4, <1>7, <2>1, <3>2
    <2>3. QED BY <1>1, <2>2 DEF Late
  <1>12. QED BY <1>8, <1>10, <1>11 DEF ExpiryInv

\* A statement of the cleanup fails.
LEMMA CleanupFailsInv ==
  ASSUME ExpiryInv, CleanupFails
  PROVE  ExpiryInv'
  <1>1. /\ cleaner' = "sleep" /\ wake' = Period /\ clean' = FALSE
        /\ UNCHANGED <<row, log, disk, ttl, call, age, api, handler>>
    BY DEF CleanupFails, tables, calls, jobs
  <1>2. TypeOK /\ Creating /\ KeptUntilExpiry /\ Timely /\ Late /\ Swept
    BY DEF ExpiryInv
  <1>3. Period \in Nat BY TimesAssumption DEF TimesAssumption
  <1>4. /\ used' \in [{"fault", "crash", "slow"} -> Nat]
        /\ Mishaps' = Mishaps + 1 /\ Mishaps \in Nat
    BY <1>2, MishapCounts DEF CleanupFails
  <1>5. ttl \in [Requests -> Int] /\ wake \in 0..Period
    BY <1>2 DEF TypeOK
  <1>6. wake' \in 0..Period BY <1>1, <1>3
  <1>7. UNCHANGED <<row, log, disk, ttl, call, age, api, handler>>
    BY <1>1
  <1>8. TypeOK' BY <1>1, <1>2, <1>4, <1>6, <1>7 DEF TypeOK
  <1>9. Creating' /\ KeptUntilExpiry' /\ Timely' /\ Swept'
    BY <1>1, <1>2, <1>7 DEF Creating, CreatingOf, KeptUntilExpiry, Known,
                            Timely, TimelyOf, Swept
  <1>10. Late'
    <2>1. /\ Deadline' = Period * (Mishaps + 1) + (Period - wake')
          /\ Period * (Mishaps + 1) = Period * Mishaps + Period
      BY <1>3, <1>4, OneMorePeriod DEF Deadline
    <2>2. Period * Mishaps \in Nat BY <1>3, <1>4, OneMorePeriod
    <2>3. Deadline' >= Deadline
      BY <1>1, <1>3, <1>5, <2>1, <2>2 DEF Deadline
    <2>4. Deadline \in Nat BY <1>2, DeadlineNat
    <2>5. Deadline' \in Int BY <1>1, <1>3, <2>1, <2>2
    <2>6. ASSUME NEW r \in Requests, Present(r)' PROVE -(ttl'[r]) <= Deadline'
      <3>1. Present(r) BY <1>7, <2>6 DEF Present
      <3>2. -(ttl[r]) <= Deadline BY <1>2, <3>1 DEF Late
      <3>3. QED BY <1>5, <1>7, <2>3, <2>4, <2>5, <3>2
    <2>7. QED BY <1>1, <2>6 DEF Late
  <1>11. QED BY <1>8, <1>9, <1>10 DEF ExpiryInv

\* The process is restarted.
LEMMA CrashInv ==
  ASSUME ExpiryInv, Crash
  PROVE  ExpiryInv'
  <1>1. /\ cleaner' = "sleep" /\ wake' = Period /\ clean' = FALSE
        /\ row' = disk.row /\ log' = disk.log
        /\ api' = [r \in Requests |-> NoApi]
        /\ handler' = [r \in Requests |-> NoHandler]
        /\ UNCHANGED <<disk, ttl, age>>
    BY DEF Crash
  <1>2. TypeOK /\ Creating /\ KeptUntilExpiry /\ Timely /\ Late /\ Swept
    BY DEF ExpiryInv
  <1>3. Period \in Nat BY TimesAssumption DEF TimesAssumption
  <1>4. /\ used' \in [{"fault", "crash", "slow"} -> Nat]
        /\ Mishaps' = Mishaps + 1 /\ Mishaps \in Nat
    BY <1>2, MishapCounts DEF Crash
  <1>5. ttl \in [Requests -> Int] /\ wake \in 0..Period
    BY <1>2 DEF TypeOK
  <1>6. wake' \in 0..Period BY <1>1, <1>3
  <1>7. /\ ttl' = ttl /\ age' = age /\ disk' = disk
        /\ row' = disk.row /\ log' = disk.log
    BY <1>1
  <1>8. call' = [r \in Requests |-> IF call[r] = "acked" THEN "lost"
                                    ELSE IF api[r].at # "idle" THEN "refused"
                                    ELSE call[r]]
    BY DEF Crash
  <1>9. call \in [Requests -> CallStates] /\ disk \in [row : Rows, log : Logs]
    BY <1>2 DEF TypeOK
  <1>10. call' \in [Requests -> CallStates]
    BY <1>8, <1>9 DEF CallStates
  <1>11. row' \in Rows /\ log' \in Logs BY <1>7, <1>9
  <1>12. /\ api' \in [Requests ->
                        [at : ApiSteps, of : Requests \union {NoRequest}]]
         /\ \A r \in Requests : api'[r].at = "idle"
    BY <1>1 DEF NoApi, ApiSteps
  <1>13. handler' \in [Requests -> [at : HandlerSteps, to : {"live", "failed"}]]
    BY <1>1 DEF NoHandler, HandlerSteps
  <1>14. TypeOK'
    BY <1>1, <1>2, <1>4, <1>6, <1>10, <1>11, <1>12, <1>13 DEF TypeOK
  <1>15. ASSUME NEW q \in Requests
         PROVE  (CreatingOf(q) /\ KeptOf(q) /\ TimelyOf(q))'
    <2>1. KeptOf(q) /\ TimelyOf(q)
      BY <1>2 DEF KeptUntilExpiry, KeptOf, Timely
    <2>2. CreatingOf(q)' BY <1>12 DEF CreatingOf, Inserted, Logged
    <2>3. /\ call'[q] \in {"lost", "refused"} \/ call'[q] = call[q]
          /\ call'[q] = "lost" => call[q] \in {"acked", "lost"}
          /\ call'[q] # "acked"
      BY <1>8
    <2>4. KeptOf(q)' BY <1>7, <2>1, <2>3 DEF KeptOf, Known
    <2>5. TimelyOf(q)' BY <1>7, <2>1, <2>3 DEF TimelyOf
    <2>6. QED BY <2>2, <2>4, <2>5
  <1>16. Creating' /\ KeptUntilExpiry' /\ Timely'
    BY <1>15 DEF Creating, KeptUntilExpiry, KeptOf, Timely
  <1>17. Late'
    <2>1. /\ Deadline' = Period * (Mishaps + 1) + (Period - wake')
          /\ Period * (Mishaps + 1) = Period * Mishaps + Period
      BY <1>3, <1>4, OneMorePeriod DEF Deadline
    <2>2. Period * Mishaps \in Nat BY <1>3, <1>4, OneMorePeriod
    <2>3. Deadline' >= Deadline
      BY <1>1, <1>3, <1>5, <2>1, <2>2 DEF Deadline
    <2>4. Deadline \in Nat BY <1>2, DeadlineNat
    <2>5. Deadline' \in Int BY <1>1, <1>3, <2>1, <2>2
    <2>6. ASSUME NEW r \in Requests, Present(r)' PROVE -(ttl'[r]) <= Deadline'
      <3>1. Present(r) BY <1>7, <2>6 DEF Present
      <3>2. -(ttl[r]) <= Deadline BY <1>2, <3>1 DEF Late
      <3>3. QED BY <1>5, <1>7, <2>3, <2>4, <2>5, <3>2
    <2>7. QED BY <1>1, <2>6 DEF Late
  <1>18. Swept' BY <1>1 DEF Swept
  <1>19. QED BY <1>14, <1>16, <1>17, <1>18 DEF ExpiryInv

\* A tick of the clock.
LEMMA TickInv ==
  ASSUME ExpiryInv, Tick
  PROVE  ExpiryInv'
  <1>1. /\ Quiet /\ UNCHANGED <<row, log, disk, call, api, handler>>
        /\ UNCHANGED <<cleaner, clean, used>>
        /\ wake' = IF wake > 0 THEN wake - 1 ELSE 0
    BY DEF Tick, tables, jobs
  <1>2. TypeOK /\ Creating /\ KeptUntilExpiry /\ Timely /\ Late /\ Swept
    BY DEF ExpiryInv
  <1>3. /\ ttl \in [Requests -> Int] /\ age \in [Requests -> Nat]
        /\ wake \in 0..Period
        /\ cleaner \in {"sleep", "calls", "events", "commit"}
    BY <1>2 DEF TypeOK
  <1>4. cleaner = "sleep" /\ wake > 0
    BY <1>1, <1>3 DEF Quiet
  <1>5. \A r \in Requests : /\ api[r].at = "idle" /\ call[r] # "acked"
                            /\ call[r] = "up" => age[r] < CallLife
    BY <1>1 DEF Quiet
  <1>6. TTL \in Nat /\ Period \in Nat /\ CallLife \in Nat /\ MaxLate \in Nat
    BY TimesAssumption DEF TimesAssumption
  <1>7. ttl' = [r \in Requests |->
                  IF ttl[r] > 0 \/ (Present(r) /\ ttl[r] > -MaxLate)
                  THEN ttl[r] - 1
                  ELSE IF ttl[r] < 0 /\ ~Present(r) THEN -1 ELSE ttl[r]]
    BY DEF Tick
  <1>8. age' = [r \in Requests |-> IF call[r] = "up" THEN age[r] + 1 ELSE 0]
    BY DEF Tick
  <1>9. /\ ttl' \in [Requests -> Int]
        /\ \A r \in Requests :
             /\ ttl'[r] >= 0 => ttl[r] >= 0
             /\ ttl'[r] >= ttl[r] - 1
             /\ Present(r) => ttl'[r] <= ttl[r]
             /\ ~Present(r) /\ ttl[r] < 0 => ttl'[r] = -1
    BY <1>3, <1>6, <1>7
  <1>10. /\ age' \in [Requests -> Nat]
         /\ \A r \in Requests : call[r] = "up" => age'[r] = age[r] + 1
    BY <1>3, <1>8
  <1>11. wake' = wake - 1 /\ wake' \in 0..Period BY <1>1, <1>3, <1>4, <1>6
  <1>12. UNCHANGED <<row, log, disk, call, api, handler, cleaner, clean, used>>
    BY <1>1
  <1>13. TypeOK' BY <1>2, <1>9, <1>10, <1>11, <1>12 DEF TypeOK
  <1>14. ASSUME NEW q \in Requests
         PROVE  (CreatingOf(q) /\ KeptOf(q) /\ TimelyOf(q))'
    <2>1. KeptOf(q) /\ TimelyOf(q)
      BY <1>2 DEF KeptUntilExpiry, KeptOf, Timely
    <2>2. CreatingOf(q)' BY <1>5, <1>12 DEF CreatingOf, Inserted, Logged
    <2>3. KeptOf(q)' BY <1>9, <1>12, <2>1 DEF KeptOf, Known
    <2>4. TimelyOf(q)'
      <3>1. call'[q] # "acked" BY <1>5, <1>12
      <3>2. ASSUME call'[q] = "up"
            PROVE  age'[q] <= CallLife /\ ttl'[q] >= TTL - age'[q]
        <4>1. /\ call[q] = "up" /\ age[q] < CallLife /\ ttl[q] >= TTL - age[q]
              /\ age[q] \in Nat /\ ttl[q] \in Int /\ ttl'[q] \in Int
          BY <1>3, <1>5, <1>9, <1>12, <2>1, <3>2 DEF TimelyOf
        <4>2. age'[q] = age[q] + 1 /\ ttl'[q] >= ttl[q] - 1
          BY <1>9, <1>10, <4>1
        <4>3. QED BY <1>6, <4>1, <4>2
      <3>3. QED BY <3>1, <3>2 DEF TimelyOf
    <2>5. QED BY <2>2, <2>3, <2>4
  <1>15. Creating' /\ KeptUntilExpiry' /\ Timely'
    BY <1>14 DEF Creating, KeptUntilExpiry, KeptOf, Timely
  <1>16. Late'
    <2>1. Mishaps' = Mishaps /\ Mishaps \in Nat
      BY <1>2, <1>12 DEF Mishaps, TypeOK
    <2>2. Period * Mishaps \in Nat BY <1>6, <2>1, OneMorePeriod
    <2>3. Deadline' = Period * Mishaps + (Period - (wake - 1))
      BY <1>11, <2>1 DEF Deadline
    <2>4. ASSUME NEW r \in Requests, Present(r)' PROVE -(ttl'[r]) <= Deadline'
      <3>1. Present(r) BY <1>12, <2>4 DEF Present
      <3>2. -(ttl[r]) <= Period * Mishaps + (Period - wake)
        BY <1>2, <3>1 DEF Late, Deadline
      <3>3. ttl[r] \in Int /\ ttl'[r] \in Int /\ ttl'[r] >= ttl[r] - 1
        BY <1>3, <1>9
      <3>4. wake \in Int /\ Period \in Int BY <1>3, <1>6
      <3>5. QED BY <2>2, <2>3, <3>2, <3>3, <3>4
    <2>5. QED BY <1>4, <1>12, <2>4 DEF Late
  <1>17. Swept' BY <1>2, <1>12 DEF Swept
  <1>18. QED BY <1>13, <1>15, <1>16, <1>17 DEF ExpiryInv

\* A request arrives: send_otp_call or retry_call.
LEMMA BeginInv ==
  ASSUME ExpiryInv, NEW step \in {"insert", "parent"},
         NEW p \in Requests \union {NoRequest}, Begin(step, p)
  PROVE  ExpiryInv'
  <1> USE TimesAssumption, FreshId
      DEF TimesAssumption, ExpiryInv, Begin, Unused, tables, calls, cleaning
  <1>1. TypeOK'
    BY DEF TypeOK, ApiSteps
  <1>2. Creating'
    BY <1>1 DEF TypeOK, Creating, CreatingOf, Inserted, Logged
  <1>3. KeptUntilExpiry' /\ Timely' /\ Swept'
    BY <1>1 DEF TypeOK, KeptUntilExpiry, Known, Timely, TimelyOf, Swept
  <1>4. Late'
    BY <1>1 DEF Late, Deadline, Mishaps, Present
  <1>5. QED BY <1>1, <1>2, <1>3, <1>4

\* Every step keeps the invariant.
LEMMA NextInv == ExpiryInv /\ [Next]_vars => ExpiryInv'
  <1> SUFFICES ASSUME ExpiryInv, [Next]_vars PROVE ExpiryInv'
    OBVIOUS
  <1>1. CASE Submit
    BY <1>1, BeginInv DEF Submit
  <1>2. ASSUME NEW r \in Requests, Retry(r) PROVE ExpiryInv'
    BY <1>2, BeginInv DEF Retry
  <1>3. ASSUME NEW r \in Requests, Create(r) PROVE ExpiryInv'
    BY <1>3, ReadParentInv, InsertInv, CommitRecordInv, LogQueuedInv,
       CommitQueuedInv, BumpInv, CommitBumpInv DEF Create
  <1>4. ASSUME NEW r \in Requests, Handle(r) PROVE ExpiryInv'
    BY <1>4, FindInv, UpdateStatusInv, CommitUpdateInv, LogEventInv,
       CommitEventInv DEF Handle
  <1>5. ASSUME NEW r \in Requests,
               Dial(r) \/ Event(r) \/ End(r) \/ Outlive(r)
        PROVE  ExpiryInv'
    BY <1>5, DialInv, EventInv, EndInv, OutliveInv
  <1>6. ASSUME NEW r \in Requests, CreateFails(r) \/ HandleFails(r)
        PROVE  ExpiryInv'
    BY <1>6, CreateFailsInv, HandleFailsInv
  <1>7. CASE Clean
    BY <1>7, WakeUpInv, DeleteCallsInv, SweepEventsInv, CommitCleanupInv
    DEF Clean
  <1>8. CASE CleanupFails \/ Crash \/ Tick
    BY <1>8, CleanupFailsInv, CrashInv, TickInv
  <1>9. CASE UNCHANGED vars
    BY <1>9 DEF ExpiryInv, TypeOK, Creating, CreatingOf, KeptUntilExpiry,
        Known,
                Timely, TimelyOf,
                Late, Deadline, Mishaps, Present, Swept, vars, tables, calls,
                jobs, cleaning
  <1>10. QED
    BY <1>1, <1>2, <1>3, <1>4, <1>5, <1>6, <1>7, <1>8, <1>9 DEF Next

\* The invariant holds in every reachable state.
LEMMA Invariance == Spec => []ExpiryInv
  BY InitInv, NextInv, PTL DEF Spec

\* Every reachable state of the store and its cleaner is well typed.
THEOREM TypeCorrect == Spec => []TypeOK
  <1>1. ExpiryInv => TypeOK BY DEF ExpiryInv
  <1>2. QED BY <1>1, Invariance, PTL

\* From its 202 to its expiry a call is whole, on the connection and on disk,
\* wherever a cleanup, a failed statement or a crash falls.
THEOREM KeptWhole == Spec => []KeptUntilExpiry
  <1>1. ExpiryInv => KeptUntilExpiry BY DEF ExpiryInv
  <1>2. QED BY <1>1, Invariance, PTL

\* No record is served for longer than one period after its expiry, and one
\* more for every failed cleanup and every restart.
THEOREM ServedNoLonger == Spec => []ServedAtMost
  <1>1. ExpiryInv => ServedAtMost
    <2> SUFFICES ASSUME ExpiryInv, NEW r \in Requests, Present(r)
                 PROVE  ttl[r] >= -(Period * (1 + Mishaps))
      BY DEF ServedAtMost
    <2>1. -ttl[r] <= Deadline /\ ttl[r] \in Int /\ wake \in Nat
      BY DEF ExpiryInv, Late, TypeOK
    <2>2. Period \in Nat /\ Mishaps \in Nat
      BY TimesAssumption DEF TimesAssumption, ExpiryInv, TypeOK, Mishaps
    <2>3. Period * (1 + Mishaps) = Period * Mishaps + Period
      BY <2>2, OneMorePeriod
    <2>4. QED BY <2>1, <2>2, <2>3, OneMorePeriod DEF Deadline
  <1>2. QED BY <1>1, Invariance, PTL

\* A call that ends in its time keeps its record under its handlers.
THEOREM LiveKept == Spec => []LiveCallsKept
  <1>1. ExpiryInv => LiveCallsKept
    BY TimesAssumption DEF TimesAssumption, ExpiryInv, LiveCallsKept, Timely,
        TimelyOf,
       KeptUntilExpiry, Known, TypeOK
  <1>2. QED BY <1>1, Invariance, PTL

\* Between cleanups that were not cut short, no timeline outlives its record.
THEOREM GoneWhole == Spec => []WholeCallsGo
  <1>1. ExpiryInv => WholeCallsGo BY DEF ExpiryInv, Swept, WholeCallsGo
  <1>2. QED BY <1>1, Invariance, PTL
=============================================================================
