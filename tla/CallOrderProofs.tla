---------------------------- MODULE CallOrderProofs ----------------------------
(***************************************************************************)
(* The order of the statements that different coroutines of one call wait  *)
(* for, for any number of calls, backlog and mishaps: a final status never *)
(* becomes an intermediate one, although update_call_status reads, decides *)
(* and writes in turns of its own, and while the link and the process last *)
(* it does not become another final one either.                            *)
(*                                                                         *)
(* The argument: the queue is served round robin, so a handler that began  *)
(* earlier and has as many turns left before its write is served first;    *)
(* the handlers that write a final status begin later, or alone.  Which of *)
(* them is left to write one, and which, follows from how the call ended.  *)
(***************************************************************************)
EXTENDS CallRecordProofs

Doing(r, k) == task[<<r, k>>].st = "db"
List(r, k) == task[<<r, k>>].todo

-----------------------------------------------------------------------------
(* What the event handlers have left to do *)

\* The handlers that update the record at once.
Updates == {"callstart", "playing", "complete"}
Program(r, k) == CASE k = "callstart" -> OnCallStart(r)
                   [] k = "playing" -> OnPlaybackStart(r)
                   [] k = "complete" -> OnPlaybackComplete(r)
Updating(r, k, s) == \E n \in 1..7 : s = Left(Program(r, k), n)

\* The handlers of Newstate look for a call whose channel is not stored yet.
NewState(k) == IF k = "up" THEN "answered" ELSE "ringing"
Looking(r, k) ==
  \E n \in 1..3 : /\ List(r, k) = Left(OnNewState(r, NewState(k)), n)
                  /\ n = 1 => ~db.row[r].bound
                  /\ n > 1 => task[<<r, k>>].seen = Absent

\* The handler of Hangup looks the call up, logs, and updates with a final
\* status.
Mapped == Terminal \union {"unmapped"}
Routing(r, m, s) == \E n \in 1..3 : s = Left(OnHangup(r, m), n)
Ending(r, m, s) ==
  \E seen \in Statuses :
    \E n \in 1..Len(HangupBody(r, m, seen)) : s = Left(HangupBody(r, m, seen), n)
HangingUp(r, m, s) == Routing(r, m, s) \/ Ending(r, m, s)

\* Statements that record no status but a final one.
Closing == {h \in Hops : /\ h.op \notin {"bind", "route", "found"}
                         /\ h.op = "write" => h.arg \in Terminal}
WritesStatus(s) == \E i \in 1..Len(s) : s[i].op = "write"

\* Nothing of the call is on its way, nor will be, but the news of its end.
Undisturbed(r) ==
  /\ call[r] \in {"none", "playing", "played"} \/ CallEnded(r)
  /\ due[r] = "no"
  /\ \A k \in Handlers \ {"complete", "hangup"} : ~Doing(r, k)

\* An OriginateResponse is recorded of a refused call only; a timeout or a
\* rejection when nothing else is recorded any more.
Answering(r) ==
  /\ List(r, "response") \in Seq(Closing)
  /\ WritesStatus(List(r, "response")) => call[r] = "refused"
ClosingUp(r) ==
  /\ List(r, "exec") \in Seq(Closing)
  /\ \/ /\ task[<<r, "exec">>].part = "forward"
        /\ WritesStatus(List(r, "exec")) => call[r] = "refused"
     \/ /\ task[<<r, "exec">>].part \in {"rejected", "except"}
        /\ Undisturbed(r)

Shaped(r) ==
  /\ \A k \in {"ringing", "up"} : Doing(r, k) => Looking(r, k)
  /\ \A k \in Updates : Doing(r, k) => Updating(r, k, List(r, k))
  /\ Doing(r, "hangup") => \E m \in Mapped : HangingUp(r, m, List(r, "hangup"))
  /\ Doing(r, "response") => Answering(r)
  /\ Doing(r, "exec") /\ task[<<r, "exec">>].part # "pre" => ClosingUp(r)

-----------------------------------------------------------------------------
(* Whose turn it is *)

\* The turns a handler needs to make its lookup (Newstate) or its write; none
\* when that is done or will not be.
Turns(k, s) ==
  CASE k \in {"ringing", "up"} -> IF Len(s) = 10 THEN 1 ELSE 0
    [] k = "hangup" ->
         IF s[Len(s)].op = "route" THEN Len(s) + 6
         ELSE IF Len(s) > 1 /\ s[Len(s) - 1].op = "write" THEN Len(s) - 1
         ELSE 0
    [] OTHER -> IF Len(s) > 3 THEN Len(s) - 3 ELSE 0
TurnsLeft(r, k) == IF Doing(r, k) THEN Turns(k, List(r, k)) ELSE 0

InQueue(q, t) == \E i \in 1..Len(q) : q[i] = t
Ahead(q, a, b) == \E i, j \in 1..Len(q) : i < j /\ q[i] = a /\ q[j] = b

\* Handler k of the call does what it counts its turns for before handler l.
Precedes(r, k, l) ==
  TurnsLeft(r, k) > 0 /\ TurnsLeft(r, l) > 0 =>
    \/ TurnsLeft(r, k) < TurnsLeft(r, l)
    \/ TurnsLeft(r, k) = TurnsLeft(r, l) /\ Ahead(dbq, <<r, k>>, <<r, l>>)

\* The lookups of Newstate precede the storing of the channel, and the updates
\* with intermediate statuses those with final ones.
Follows == ({"ringing", "up"} \X {"callstart"})
              \union ({"callstart", "playing"} \X {"complete", "hangup"})
InTurn(r) == \A p \in Follows : Precedes(r, p[1], p[2])

-----------------------------------------------------------------------------
(* The invariant *)

\* Who waits is in the queue.
Queued == \A t \in Tasks : task[t].st = "db" => InQueue(dbq, t)

\* Once the status is final no intermediate one is on its way.
FinalIsLast(r) ==
  db.row[r].status \in Terminal =>
    TurnsLeft(r, "callstart") = 0 /\ TurnsLeft(r, "playing") = 0

\* A refused call was never answered, and only such a call is reported as
\* failed.
Reported(r) ==
  /\ call[r] = "refused" => \A k \in Updates : ~Doing(r, k)
  /\ due[r] \notin {"no", "answered"} =>
       call[r] = "refused" /\ due[r] \in Terminal

OrderOf(r) == Shaped(r) /\ InTurn(r) /\ FinalIsLast(r) /\ Reported(r)
OrderInv == Queued /\ \A r \in Requests : OrderOf(r)

-----------------------------------------------------------------------------
(* What final statuses agree on, while the link and the process last *)

Smooth == used["drop"] = 0 /\ used["crash"] = 0

\* The Originate is awaited as long as the call is dialled or its response due,
\* so every OriginateResponse finds the coroutine that awaits it.
Awaited(r) ==
  /\ task[<<r, "exec">>].st # "orphan"
  /\ task[<<r, "exec">>].st = "wait" <=> Dialled(r) \/ due[r] # "no"
  /\ ~Doing(r, "response")

\* An Originate that was not accepted records "failed", of no call.
WritesOnly(s, status) ==
  \A i \in 1..Len(s) : s[i].op = "write" => s[i].arg = status
NotAccepted(r) ==
  Doing(r, "exec") /\ task[<<r, "exec">>].part \in {"rejected", "except"} =>
    call[r] = "none" /\ WritesOnly(List(r, "exec"), "failed")

\* An OriginateResponse is recorded once.
WritesOnce(s) ==
  \A i, j \in 1..Len(s) : s[i].op = "write" /\ s[j].op = "write" => i = j
Forwarding(r) ==
  Doing(r, "exec") /\ task[<<r, "exec">>].part = "forward" =>
    WritesOnce(List(r, "exec"))

\* The Hangup of a refused call finds no record of it, that of a call that was
\* played records "completed", and a dropped call has no PlaybackComplete.
Unfound(r) ==
  \E m \in Mapped : \E n \in 1..3 :
    /\ List(r, "hangup") = Left(OnHangup(r, m), n)
    /\ n > 1 => task[<<r, "hangup">>].seen = Absent
HangupAgrees(r) ==
  /\ call[r] = "refused" /\ Doing(r, "hangup") => Unfound(r)
  /\ call[r] \in {"played", "finished"} /\ Doing(r, "hangup") =>
       HangingUp(r, "completed", List(r, "hangup"))
  /\ call[r] = "dropped" => ~Doing(r, "complete")

\* A final status is that of the one event that is left to record one, or that
\* event has been recorded.
FinalAgrees(r) ==
  db.row[r].status \in Terminal =>
    /\ call[r] = "none" => db.row[r].status = "failed"
    /\ call[r] = "refused" =>
         /\ due[r] = "no"
         /\ ~(Doing(r, "exec") /\ WritesStatus(List(r, "exec")))
    /\ call[r] \in {"played", "finished"} => db.row[r].status = "completed"
    /\ call[r] = "dropped" => TurnsLeft(r, "hangup") = 0

AgreeOf(r) == /\ Awaited(r) /\ NotAccepted(r) /\ Forwarding(r)
              /\ HangupAgrees(r) /\ FinalAgrees(r)
AgreeInv == Smooth => \A r \in Requests : AgreeOf(r)

-----------------------------------------------------------------------------
(* The lists of statements, one by one *)

\* A list of five before one of two.
LEMMA FiveAndTwo ==
  ASSUME NEW S, NEW s \in Seq(S), NEW u \in Seq(S), Len(s) = 5, Len(u) = 2
  PROVE  /\ s \o u \in Seq(S) /\ Len(s \o u) = 7
         /\ (s \o u)[1] = s[1] /\ (s \o u)[2] = s[2] /\ (s \o u)[3] = s[3]
         /\ (s \o u)[4] = s[4] /\ (s \o u)[5] = s[5]
         /\ (s \o u)[6] = u[1] /\ (s \o u)[7] = u[2]
<1> DEFINE w == s \o u
<1>1. /\ w \in Seq(S) /\ Len(w) = Len(s) + Len(u)
      /\ \A i \in 1..Len(s) + Len(u) :
           w[i] = IF i <= Len(s) THEN s[i] ELSE u[i - Len(s)]
  BY ConcatProperties
<1> HIDE DEF w
<1>2. Len(w) = 7 /\ \A i \in 1..7 : w[i] = IF i <= 5 THEN s[i] ELSE u[i - 5]
  BY <1>1
<1>3. /\ w[1] = s[1] /\ w[2] = s[2] /\ w[3] = s[3] /\ w[4] = s[4] /\ w[5] = s[5]
      /\ w[6] = u[1] /\ w[7] = u[2]
  BY <1>2
<1> QED BY <1>1, <1>2, <1>3 DEF w

\* A list of two before one of five.
LEMMA TwoAndFive ==
  ASSUME NEW S, NEW s \in Seq(S), NEW u \in Seq(S), Len(s) = 2, Len(u) = 5
  PROVE  /\ s \o u \in Seq(S) /\ Len(s \o u) = 7
         /\ (s \o u)[1] = s[1] /\ (s \o u)[2] = s[2] /\ (s \o u)[3] = u[1]
         /\ (s \o u)[4] = u[2] /\ (s \o u)[5] = u[3]
         /\ (s \o u)[6] = u[4] /\ (s \o u)[7] = u[5]
<1> DEFINE w == s \o u
<1>1. /\ w \in Seq(S) /\ Len(w) = Len(s) + Len(u)
      /\ \A i \in 1..Len(s) + Len(u) :
           w[i] = IF i <= Len(s) THEN s[i] ELSE u[i - Len(s)]
  BY ConcatProperties
<1> HIDE DEF w
<1>2. Len(w) = 7 /\ \A i \in 1..7 : w[i] = IF i <= 2 THEN s[i] ELSE u[i - 2]
  BY <1>1
<1>3. /\ w[1] = s[1] /\ w[2] = s[2] /\ w[3] = u[1] /\ w[4] = u[2] /\ w[5] = u[3]
      /\ w[6] = u[4] /\ w[7] = u[5]
  BY <1>2
<1> QED BY <1>1, <1>2, <1>3 DEF w

\* update_call_status: read, decide, write, commit.
LEMMA UpdateLayout ==
  ASSUME NEW r \in Requests, NEW w \in {"write", "bind"}, NEW s \in Statuses
  PROVE  LET P == UpdateVia(w, r, s)
         IN /\ P \in Seq(Hops) /\ Len(P) = 5
            /\ P[1] = Hop("select", r, NoArg) /\ P[2] = Hop("fetch", r, NoArg)
            /\ P[3] = Hop("guard", r, s) /\ P[4] = Hop(w, r, s)
            /\ P[5] = Hop("commit", r, NoArg)
<1>1. UpdateVia(w, r, s) \in Seq(Hops)
  BY StatementTypes DEF Programs
<1> QED BY <1>1 DEF UpdateVia, NoArg

\* add_event.
LEMMA EventLayout ==
  ASSUME NEW r \in Requests, NEW e \in EventNames
  PROVE  LET P == AddEvent(r, e)
         IN /\ P \in Seq(Hops) /\ Len(P) = 2
            /\ P[1] = Hop("log", r, e) /\ P[2] = Hop("commit", r, NoArg)
<1>1. AddEvent(r, e) \in Seq(Hops)
  BY StatementTypes DEF Programs
<1> QED BY <1>1 DEF AddEvent, NoArg

\* A handler that updates the record and then logs the event.
LEMMA ProgramLayout ==
  ASSUME NEW r \in Requests, NEW k \in Updates
  PROVE  LET P == Program(r, k)
         IN /\ P \in Seq(Hops) /\ Len(P) = 7
            /\ P[1].op = "select" /\ P[2].op = "fetch" /\ P[3].op = "guard"
            /\ P[4].op = (IF k = "callstart" THEN "bind" ELSE "write")
            /\ P[4].arg \in Terminal => k = "complete"
            /\ k = "complete" => P[4].arg = "completed"
            /\ P[5].op = "commit" /\ P[6].op = "log" /\ P[7].op = "commit"
<1>1. PICK w \in {"write", "bind"}, s \in {"answered", "playing", "completed"},
           e \in EventNames :
        /\ Program(r, k) = UpdateVia(w, r, s) \o AddEvent(r, e)
        /\ w = IF k = "callstart" THEN "bind" ELSE "write"
        /\ s = "completed" <=> k = "complete"
  <2>1. CASE k = "callstart"
    <3>1. Program(r, k) = UpdateVia("bind", r, "answered")
                            \o AddEvent(r, "dialplan_start")
      BY <2>1 DEF Program, OnCallStart
    <3> QED BY <2>1, <3>1 DEF EventNames
  <2>2. CASE k = "playing"
    <3>1. Program(r, k) = UpdateVia("write", r, "playing") \o AddEvent(r, "playing")
      BY <2>2 DEF Program, OnPlaybackStart, Update
    <3> QED BY <2>2, <3>1 DEF EventNames
  <2>3. CASE k = "complete"
    <3>1. Program(r, k) = UpdateVia("write", r, "completed")
                            \o AddEvent(r, "playback_complete")
      BY <2>3 DEF Program, OnPlaybackComplete, Update
    <3> QED BY <2>3, <3>1 DEF EventNames
  <2> QED BY <2>1, <2>2, <2>3 DEF Updates
<1>2. s \in Statuses /\ (s \in Terminal => s = "completed")
  BY DEF Statuses, InProgress, Terminal, Retryable
<1> DEFINE u == UpdateVia(w, r, s)
           a == AddEvent(r, e)
<1>3. /\ u \in Seq(Hops) /\ Len(u) = 5
      /\ u[1].op = "select" /\ u[2].op = "fetch" /\ u[3].op = "guard"
      /\ u[4].op = w /\ u[4].arg = s /\ u[5].op = "commit"
  BY <1>2, UpdateLayout, HopFields
<1>4. /\ a \in Seq(Hops) /\ Len(a) = 2
      /\ a[1].op = "log" /\ a[2].op = "commit"
  BY EventLayout, HopFields
<1> HIDE DEF u, a
<1>5. Program(r, k) = u \o a
  BY <1>1 DEF u, a
<1>6. /\ u \o a \in Seq(Hops) /\ Len(u \o a) = 7
      /\ (u \o a)[1] = u[1] /\ (u \o a)[2] = u[2] /\ (u \o a)[3] = u[3]
      /\ (u \o a)[4] = u[4] /\ (u \o a)[5] = u[5]
      /\ (u \o a)[6] = a[1] /\ (u \o a)[7] = a[2]
  BY <1>3, <1>4, FiveAndTwo
<1> DEFINE P == Program(r, k)
<1>7. /\ P \in Seq(Hops) /\ Len(P) = 7
      /\ P[1].op = "select" /\ P[2].op = "fetch" /\ P[3].op = "guard"
      /\ P[4].op = w /\ P[4].arg = s
      /\ P[5].op = "commit" /\ P[6].op = "log" /\ P[7].op = "commit"
  BY <1>3, <1>4, <1>5, <1>6
<1> HIDE DEF P
<1>8. /\ P[4].op = (IF k = "callstart" THEN "bind" ELSE "write")
      /\ P[4].arg \in Terminal => k = "complete"
      /\ k = "complete" => P[4].arg = "completed"
  BY <1>1, <1>2, <1>7
<1> QED BY <1>7, <1>8 DEF P

\* A list of three before another one.
LEMMA ThreeAndMore ==
  ASSUME NEW S, NEW s \in Seq(S), NEW u \in Seq(S), Len(s) = 3
  PROVE  /\ s \o u \in Seq(S) /\ Len(s \o u) = 3 + Len(u)
         /\ (s \o u)[1] = s[1] /\ (s \o u)[2] = s[2] /\ (s \o u)[3] = s[3]
<1> DEFINE w == s \o u
<1>1. /\ w \in Seq(S) /\ Len(w) = Len(s) + Len(u)
      /\ \A i \in 1..Len(s) + Len(u) :
           w[i] = IF i <= Len(s) THEN s[i] ELSE u[i - Len(s)]
  BY ConcatProperties
<1> HIDE DEF w
<1>2. Len(w) = 3 + Len(u) /\ \A i \in 1..3 : w[i] = s[i]
  BY <1>1
<1>3. w[1] = s[1] /\ w[2] = s[2] /\ w[3] = s[3]
  BY <1>2
<1> QED BY <1>1, <1>2, <1>3 DEF w

\* get_call_by_channel.
LEMMA FindLayout ==
  ASSUME NEW last, NEW r \in Requests, NEW arg, Hop(last, r, arg) \in Hops
  PROVE  LET P == FindThen(last, r, arg)
         IN /\ P \in Seq(Hops) /\ Len(P) = 3
            /\ P[1] = Hop("find", r, NoArg) /\ P[2] = Hop("fetch", r, NoArg)
            /\ P[3] = Hop(last, r, arg)
<1>1. Hop("find", r, "") \in Hops /\ Hop("fetch", r, "") \in Hops
  BY HopTypes
<1>2. FindThen(last, r, arg) \in Programs
  BY <1>1, Programs3 DEF FindThen
<1> QED BY <1>2 DEF FindThen, NoArg, Programs

\* A Newstate: the lookup, the update and the event.
LEMMA NewStateLayout ==
  ASSUME NEW r \in Requests, NEW s \in {"ringing", "answered"}
  PROVE  LET P == OnNewState(r, s)
         IN /\ P \in Seq(Hops) /\ Len(P) = 10
            /\ P[1].op = "find" /\ P[1].on = r
            /\ P[2].op = "fetch" /\ P[3].op = "found"
<1> DEFINE f == FindThen("found", r, "")
           u == Update(r, s)
           a == AddEvent(r, s)
<1>1. s \in Statuses /\ s \in EventNames
  BY DEF Statuses, InProgress, EventNames
<1>2. /\ f \in Seq(Hops) /\ Len(f) = 3
      /\ f[1].op = "find" /\ f[1].on = r /\ f[2].op = "fetch" /\ f[3].op = "found"
  <2>1. Hop("found", r, "") \in Hops
    BY HopTypes
  <2>2. /\ f \in Seq(Hops) /\ Len(f) = 3
        /\ f[1] = Hop("find", r, NoArg) /\ f[2] = Hop("fetch", r, NoArg)
        /\ f[3] = Hop("found", r, NoArg)
    BY <2>1, FindLayout DEF NoArg
  <2> HIDE DEF f
  <2> QED BY <2>2, HopFields
<1>3. u \in Seq(Hops) /\ Len(u) = 5
  BY <1>1, UpdateLayout DEF Update
<1>4. a \in Seq(Hops) /\ Len(a) = 2
  BY <1>1, EventLayout
<1>5. OnNewState(r, s) = (f \o u) \o a
  BY DEF OnNewState
<1> HIDE DEF f, u, a
<1>6. /\ f \o u \in Seq(Hops) /\ Len(f \o u) = 8
      /\ (f \o u)[1] = f[1] /\ (f \o u)[2] = f[2] /\ (f \o u)[3] = f[3]
  <2>1. /\ f \o u \in Seq(Hops) /\ Len(f \o u) = 3 + Len(u)
        /\ (f \o u)[1] = f[1] /\ (f \o u)[2] = f[2] /\ (f \o u)[3] = f[3]
    BY <1>2, <1>3, ThreeAndMore
  <2> QED BY <1>3, <2>1
<1> DEFINE fu == f \o u
<1> HIDE DEF fu
<1>7. /\ fu \o a \in Seq(Hops) /\ Len(fu \o a) = 10
      /\ \A i \in 1..8 : (fu \o a)[i] = fu[i]
  <2>1. /\ fu \o a \in Seq(Hops) /\ Len(fu \o a) = Len(fu) + Len(a)
        /\ \A i \in 1..Len(fu) + Len(a) :
             (fu \o a)[i] = IF i <= Len(fu) THEN fu[i] ELSE a[i - Len(fu)]
    <3>1. fu \in Seq(Hops)
      BY <1>6 DEF fu
    <3> QED BY <1>4, <3>1, ConcatProperties
  <2>2. Len(fu) = 8
    BY <1>6 DEF fu
  <2> QED BY <1>4, <2>1, <2>2
<1>8. /\ (fu \o a)[1] = fu[1] /\ (fu \o a)[2] = fu[2] /\ (fu \o a)[3] = fu[3]
  <2>1. 1 \in 1..8 /\ 2 \in 1..8 /\ 3 \in 1..8
    OBVIOUS
  <2>2. \A i \in 1..8 : (fu \o a)[i] = fu[i]
    BY <1>7
  <2> QED BY ONLY <2>1, <2>2
<1> QED BY <1>2, <1>5, <1>6, <1>7, <1>8 DEF fu

\* A Hangup: the lookup first.
LEMMA HangupLayout ==
  ASSUME NEW r \in Requests, NEW m \in Mapped
  PROVE  LET P == OnHangup(r, m)
         IN /\ P \in Seq(Hops) /\ Len(P) = 3
            /\ P[1].op = "find" /\ P[2].op = "fetch"
            /\ P[3].op = "route" /\ P[3].on = r /\ P[3].arg = m
<1>1. m \in Statuses \union {"unmapped"}
  BY DEF Mapped, Statuses
<1>2. Hop("route", r, m) \in Hops
  BY <1>1, HopTypes
<1> QED BY <1>2, FindLayout, HopFields DEF OnHangup

\* What a Hangup records is final.
LEMMA HangupIsFinal ==
  ASSUME NEW m \in Mapped, NEW seen
  PROVE  HangupStatus(m, seen) \in Terminal
BY DEF Mapped, HangupStatus, Terminal, Retryable

\* A Hangup of a call that was found: the event, and then the update unless
\* the status is final already.
LEMMA HangupBodyLayout ==
  ASSUME NEW r \in Requests, NEW m \in Mapped, NEW seen \in Statuses
  PROVE  LET P == HangupBody(r, m, seen)
         IN /\ P \in Seq(Hops)
            /\ Len(P) = 2 \/ Len(P) = 7
            /\ P[1].op = "log" /\ P[2].op = "commit"
            /\ Len(P) = 7 =>
                 /\ P[3].op = "select" /\ P[4].op = "fetch"
                 /\ P[5].op = "guard" /\ P[5].arg \in Terminal
                 /\ P[6].op = "write" /\ P[6].arg = HangupStatus(m, seen)
                 /\ P[6].arg \in Terminal
                 /\ P[7].op = "commit"
<1> DEFINE a == AddEvent(r, "hangup")
           s == HangupStatus(m, seen)
           u == Update(r, s)
           P == HangupBody(r, m, seen)
<1>1. /\ a \in Seq(Hops) /\ Len(a) = 2
      /\ a[1].op = "log" /\ a[2].op = "commit"
  BY EventLayout, HopFields DEF EventNames
<1>2. s \in Terminal /\ s \in Statuses
  BY HangupIsFinal DEF Statuses
<1>3. /\ u \in Seq(Hops) /\ Len(u) = 5
      /\ u[1].op = "select" /\ u[2].op = "fetch"
      /\ u[3].op = "guard" /\ u[3].arg = s
      /\ u[4].op = "write" /\ u[4].arg = s /\ u[5].op = "commit"
  <2> HIDE DEF s
  <2> QED BY <1>2, UpdateLayout, HopFields DEF Update
<1>4. CASE seen \in Terminal
  <2>1. P = a \o <<>>
    BY <1>4 DEF HangupBody
  <2> HIDE DEF a, P
  <2>2. P = a
    BY <1>1, <2>1
  <2>3. P \in Seq(Hops) /\ Len(P) = 2 /\ P[1].op = "log" /\ P[2].op = "commit"
    BY <1>1, <2>2
  <2> QED BY <2>3 DEF P
<1>5. CASE seen \notin Terminal
  <2>1. P = a \o u
    BY <1>5 DEF HangupBody
  <2> HIDE DEF a, u, s, P
  <2>2. /\ a \o u \in Seq(Hops) /\ Len(a \o u) = 7
        /\ (a \o u)[1] = a[1] /\ (a \o u)[2] = a[2] /\ (a \o u)[3] = u[1]
        /\ (a \o u)[4] = u[2] /\ (a \o u)[5] = u[3]
        /\ (a \o u)[6] = u[4] /\ (a \o u)[7] = u[5]
    BY <1>1, <1>3, TwoAndFive
  <2>3. /\ P \in Seq(Hops) /\ Len(P) = 7
        /\ P[1].op = "log" /\ P[2].op = "commit"
        /\ P[3].op = "select" /\ P[4].op = "fetch"
        /\ P[5].op = "guard" /\ P[5].arg \in Terminal
        /\ P[6].op = "write" /\ P[6].arg = s /\ P[6].arg \in Terminal
        /\ P[7].op = "commit"
    BY <1>1, <1>2, <1>3, <2>1, <2>2
  <2> QED BY <2>3 DEF P, s
<1> QED BY <1>4, <1>5

-----------------------------------------------------------------------------
(* A handler is served *)

\* Going on behind the three statements that are skipped.
LEMMA LeftSkip ==
  ASSUME NEW S, NEW P \in Seq(S), NEW n \in 1..Len(P), n + 2 <= Len(P)
  PROVE  SubSeq(Left(P, n), 4, Len(Left(P, n))) = Left(P, n + 3)
<1>1. /\ Left(P, n) \in Seq(S) /\ Len(Left(P, n)) = Len(P) - n + 1
      /\ \A i \in 1..Len(P) - n + 1 : Left(P, n)[i] = P[n + i - 1]
  BY DEF Left
<1> QED BY <1>1 DEF Left

\* What a coroutine does next, and what is left of it then.
LEMMA ServedAt ==
  ASSUME NEW S, NEW P \in Seq(S), NEW n \in 1..Len(P), NEW t,
         task[t].todo = Left(P, n)
  PROVE  /\ Op(t) = P[n]
         /\ P[n].op \notin {"guard", "found", "route"} => Rest(t) = Left(P, n + 1)
         /\ P[n].op = "guard" /\ ~Refuses(task[t].seen, P[n].arg) =>
              Rest(t) = Left(P, n + 1)
         /\ P[n].op = "guard" /\ Refuses(task[t].seen, P[n].arg)
              /\ n + 2 <= Len(P) => Rest(t) = Left(P, n + 3)
         /\ P[n].op = "found" /\ task[t].seen = Absent => Rest(t) = <<>>
         /\ P[n].op = "route" =>
              Rest(t) = IF task[t].seen = Absent THEN <<>>
                        ELSE HangupBody(P[n].on, P[n].arg, task[t].seen)
<1>1. Op(t) = P[n] /\ Tail(task[t].todo) = Left(P, n + 1)
  BY LeftStep DEF Op
<1>2. n + 2 <= Len(P) =>
        SubSeq(task[t].todo, 4, Len(task[t].todo)) = Left(P, n + 3)
  BY LeftSkip
<1>3. P[n].op \notin {"guard", "found", "route"} => Rest(t) = Left(P, n + 1)
  BY <1>1 DEF Rest
<1>4. P[n].op = "guard" /\ ~Refuses(task[t].seen, P[n].arg) =>
        Rest(t) = Left(P, n + 1)
  BY <1>1 DEF Rest
<1>5. P[n].op = "guard" /\ Refuses(task[t].seen, P[n].arg) /\ n + 2 <= Len(P) =>
        Rest(t) = Left(P, n + 3)
  BY <1>1, <1>2 DEF Rest
<1>6. P[n].op = "found" /\ task[t].seen = Absent => Rest(t) = <<>>
  BY <1>1 DEF Rest
<1>7. P[n].op = "route" =>
        Rest(t) = IF task[t].seen = Absent THEN <<>>
                  ELSE HangupBody(P[n].on, P[n].arg, task[t].seen)
  BY <1>1 DEF Rest
<1> QED BY <1>1, <1>3, <1>4, <1>5, <1>6, <1>7

\* The turns of a handler that updates the record at once.
LEMMA UpdateTurns ==
  ASSUME NEW S, NEW P \in Seq(S), Len(P) = 7, NEW n \in 1..7, NEW k \in Updates
  PROVE  Turns(k, Left(P, n)) = IF n <= 4 THEN 5 - n ELSE 0
<1>1. Len(Left(P, n)) = 8 - n
  <2>1. n \in 1..Len(P)
    OBVIOUS
  <2>2. Len(Left(P, n)) = Len(P) - n + 1
    BY <2>1, LeftStep
  <2> QED BY <2>2
<1> QED BY <1>1 DEF Turns, Updates

\* A handler that updates the record at once is served.
LEMMA UpdaterServed ==
  ASSUME NEW r \in Requests, NEW k \in Updates, Updating(r, k, List(r, k))
  PROVE  LET h == Op(<<r, k>>)
             rest == Rest(<<r, k>>)
         IN /\ h.op \in {"write", "bind"} =>
                 /\ Turns(k, List(r, k)) = 1
                 /\ h.arg \in Terminal <=> k = "complete"
                 /\ k = "complete" => h.arg = "completed"
            /\ h.op = "bind" => k = "callstart"
            /\ rest # <<>> =>
                 /\ Updating(r, k, rest)
                 /\ Turns(k, rest) > 0 =>
                      Turns(k, List(r, k)) = Turns(k, rest) + 1
<1> DEFINE P == Program(r, k)
           t == <<r, k>>
<1>1. PICK n \in 1..7 : task[t].todo = Left(P, n)
  BY DEF Updating, List
<1>2. /\ P \in Seq(Hops) /\ Len(P) = 7
      /\ P[1].op = "select" /\ P[2].op = "fetch" /\ P[3].op = "guard"
      /\ P[4].op \in {"write", "bind"} /\ (P[4].op = "bind" => k = "callstart")
      /\ P[4].arg \in Terminal <=> k = "complete"
      /\ k = "complete" => P[4].arg = "completed"
      /\ P[5].op = "commit" /\ P[6].op = "log" /\ P[7].op = "commit"
  BY ProgramLayout DEF Terminal
<1> HIDE DEF P, t
<1>3. /\ Op(t) = P[n]
      /\ n # 3 => Rest(t) = Left(P, n + 1)
      /\ n = 3 => Rest(t) = Left(P, 4) \/ Rest(t) = Left(P, 6)
  <2>1. n \in 1..Len(P)
    BY <1>2
  <2>2. n # 3 => P[n].op \notin {"guard", "found", "route"}
    BY <1>2
  <2>3. n = 3 => P[n].op = "guard" /\ n + 2 <= Len(P)
    BY <1>2
  <2>4. /\ Op(t) = P[n]
        /\ P[n].op \notin {"guard", "found", "route"} => Rest(t) = Left(P, n + 1)
        /\ P[n].op = "guard" /\ ~Refuses(task[t].seen, P[n].arg) =>
             Rest(t) = Left(P, n + 1)
        /\ P[n].op = "guard" /\ Refuses(task[t].seen, P[n].arg)
             /\ n + 2 <= Len(P) => Rest(t) = Left(P, n + 3)
    <3>1. P \in Seq(Hops)
      BY <1>2
    <3> QED BY <1>1, <2>1, <3>1, ServedAt
  <2> QED BY <2>2, <2>3, <2>4
<1>4. Op(t).op \in {"write", "bind"} => n = 4
  BY <1>2, <1>3
<1>5. Turns(k, List(r, k)) = IF n <= 4 THEN 5 - n ELSE 0
  BY <1>1, <1>2, UpdateTurns DEF List, t
<1>6. ASSUME Rest(t) # <<>>
      PROVE  \E m \in 1..7 : /\ Rest(t) = Left(P, m) /\ m > n
                             /\ m > 4 \/ m = n + 1
  <2>1. PICK m \in 2..8 : Rest(t) = Left(P, m) /\ m > n /\ (m > 4 \/ m = n + 1)
    <3>1. CASE n = 3
      BY <1>3, <3>1
    <3>2. CASE n # 3
      BY <1>3, <3>2
    <3> QED BY <3>1, <3>2
  <2>2. Left(P, 7 + 1) = <<>>
    BY <1>2, LeftEnds
  <2>3. m # 8
    BY <1>6, <2>1, <2>2
  <2> QED BY <2>1, <2>3
<1>7. ASSUME Rest(t) # <<>>
      PROVE  /\ \E m \in 1..7 : Rest(t) = Left(P, m)
             /\ Turns(k, Rest(t)) > 0 =>
                  Turns(k, List(r, k)) = Turns(k, Rest(t)) + 1
  <2>1. PICK m \in 1..7 : /\ Rest(t) = Left(P, m) /\ m > n
                          /\ m > 4 \/ m = n + 1
    BY <1>6, <1>7
  <2>2. Turns(k, Rest(t)) = IF m <= 4 THEN 5 - m ELSE 0
    BY <1>2, <2>1, UpdateTurns
  <2> QED BY <1>5, <2>1, <2>2
<1>8. Op(t).op \in {"write", "bind"} =>
        /\ Turns(k, List(r, k)) = 1
        /\ Op(t).arg \in Terminal <=> k = "complete"
        /\ k = "complete" => Op(t).arg = "completed"
  BY <1>2, <1>3, <1>4, <1>5
<1>9. Op(t).op = "bind" => k = "callstart"
  BY <1>2, <1>3, <1>4
<1> QED BY <1>7, <1>8, <1>9 DEF P, t, Updating

\* The turns of a handler that looks for the call of a Newstate.
LEMMA LookTurns ==
  ASSUME NEW S, NEW P \in Seq(S), Len(P) = 10, NEW n \in 1..10,
         NEW k \in {"ringing", "up"}
  PROVE  Turns(k, Left(P, n)) = IF n = 1 THEN 1 ELSE 0
<1>1. n \in 1..Len(P)
  OBVIOUS
<1>2. Len(Left(P, n)) = Len(P) - n + 1
  BY <1>1, LeftStep
<1> QED BY <1>2 DEF Turns

\* A handler that looks for the call of a Newstate is served: it finds none.
LEMMA LookerServed ==
  ASSUME NEW r \in Requests, NEW k \in {"ringing", "up"}, Looking(r, k)
  PROVE  LET rest == Rest(<<r, k>>)
         IN /\ Op(<<r, k>>).op \notin {"write", "bind"}
            /\ rest # <<>> =>
                 /\ \E n \in 2..3 : rest = Left(OnNewState(r, NewState(k)), n)
                 /\ Seen(<<r, k>>) = Absent
                 /\ Turns(k, rest) = 0
<1> DEFINE P == OnNewState(r, NewState(k))
           t == <<r, k>>
<1>1. PICK n \in 1..3 : /\ task[t].todo = Left(P, n)
                        /\ n = 1 => ~db.row[r].bound
                        /\ n > 1 => task[t].seen = Absent
  BY DEF Looking, List
<1>2. /\ P \in Seq(Hops) /\ Len(P) = 10
      /\ P[1].op = "find" /\ P[1].on = r
      /\ P[2].op = "fetch" /\ P[3].op = "found"
  BY NewStateLayout DEF NewState
<1> HIDE DEF P, t
<1>3. /\ Op(t) = P[n]
      /\ n \in 1..2 => Rest(t) = Left(P, n + 1)
      /\ n = 3 => Rest(t) = <<>>
  <2>1. n \in 1..Len(P) /\ P \in Seq(Hops)
    BY <1>2
  <2>2. n \in 1..2 => P[n].op \notin {"guard", "found", "route"}
    BY <1>2
  <2>3. n = 3 => P[n].op = "found" /\ task[t].seen = Absent
    BY <1>1, <1>2
  <2>4. /\ Op(t) = P[n]
        /\ P[n].op \notin {"guard", "found", "route"} => Rest(t) = Left(P, n + 1)
        /\ P[n].op = "found" /\ task[t].seen = Absent => Rest(t) = <<>>
    BY <1>1, <2>1, ServedAt
  <2> QED BY <2>2, <2>3, <2>4
<1>4. Op(t).op \notin {"write", "bind"}
  BY <1>2, <1>3
<1>5. ASSUME Rest(t) # <<>>
      PROVE  /\ \E m \in 2..3 : Rest(t) = Left(P, m)
             /\ Seen(t) = Absent /\ Turns(k, Rest(t)) = 0
  <2>1. n \in 1..2 /\ Rest(t) = Left(P, n + 1)
    BY <1>3, <1>5
  <2>2. Turns(k, Left(P, n + 1)) = 0
    <3>1. n + 1 \in 1..10 /\ n + 1 # 1
      BY <2>1
    <3> QED BY <1>2, <3>1, LookTurns
  <2>3. CASE n = 1
    <3>1. Op(t).op = "find" /\ Op(t).on = r /\ ~db.row[r].bound
      BY <1>1, <1>2, <1>3, <2>3
    <3> QED BY <2>1, <2>2, <2>3, <3>1 DEF Seen, ReadBy
  <2>4. CASE n = 2
    <3>1. Op(t).op = "fetch" /\ task[t].seen = Absent
      BY <1>1, <1>2, <1>3, <2>4
    <3> QED BY <2>1, <2>2, <2>4, <3>1 DEF Seen
  <2> QED BY <2>1, <2>3, <2>4
<1> QED BY <1>4, <1>5 DEF P, t

\* The turns of the handler of a Hangup, which are counted from its lookup on.
LEMMA RouteTurns ==
  ASSUME NEW r \in Requests, NEW m \in Mapped, NEW n \in 1..3
  PROVE  Turns("hangup", Left(OnHangup(r, m), n)) = 10 - n
<1> DEFINE P == OnHangup(r, m)
<1>1. P \in Seq(Hops) /\ Len(P) = 3 /\ P[3].op = "route"
  BY HangupLayout
<1> HIDE DEF P
<1>2. n \in 1..Len(P)
  BY <1>1
<1>3. /\ Len(Left(P, n)) = 4 - n
      /\ \A i \in 1..(4 - n) : Left(P, n)[i] = P[n + i - 1]
  <2>1. /\ Len(Left(P, n)) = Len(P) - n + 1
        /\ \A i \in 1..Len(P) - n + 1 : Left(P, n)[i] = P[n + i - 1]
    BY <1>1, <1>2, LeftStep
  <2> QED BY <1>1, <2>1
<1>4. Left(P, n)[4 - n] = P[3]
  <2>1. 4 - n \in 1..(4 - n) /\ n + (4 - n) - 1 = 3
    OBVIOUS
  <2> QED BY <1>3, <2>1
<1>5. Turns("hangup", Left(P, n)) = (4 - n) + 6
  BY <1>1, <1>3, <1>4 DEF Turns
<1> QED BY <1>5 DEF P

\* Of a call that was found, the turns up to its update, if there is one.
LEMMA EndTurns ==
  ASSUME NEW S, NEW P \in Seq(S), Len(P) = 2 \/ Len(P) = 7,
         P[Len(P)].op = "commit",
         P[Len(P) - 1].op = "write" <=> Len(P) = 7,
         NEW n \in 1..Len(P)
  PROVE  Turns("hangup", Left(P, n)) =
           IF Len(P) = 7 /\ n <= 6 THEN 7 - n ELSE 0
<1> DEFINE s == Left(P, n)
           l == Len(P) - n + 1
<1>1. /\ Len(s) = l
      /\ \A i \in 1..l : s[i] = P[n + i - 1]
  BY LeftStep
<1> HIDE DEF s
<1>2. s[l] = P[Len(P)]
  <2>1. l \in 1..l /\ n + l - 1 = Len(P)
    OBVIOUS
  <2> QED BY <1>1, <2>1
<1>3. l > 1 => s[l - 1] = P[Len(P) - 1]
  <2>1. l > 1 => l - 1 \in 1..l /\ n + (l - 1) - 1 = Len(P) - 1
    OBVIOUS
  <2> QED BY <1>1, <2>1
<1>4. Turns("hangup", s) =
        IF l > 1 /\ s[l - 1].op = "write" THEN l - 1 ELSE 0
  BY <1>1, <1>2 DEF Turns
<1>5. CASE Len(P) = 7
  <2>1. l = 8 - n
    BY <1>5
  <2>2. l > 1 => s[l - 1].op = "write"
    BY <1>3, <1>5
  <2> HIDE DEF l
  <2> QED BY <1>4, <1>5, <2>1, <2>2 DEF s
<1>6. CASE Len(P) = 2
  <2>1. l > 1 => s[l - 1].op # "write"
    BY <1>3, <1>6
  <2> HIDE DEF l
  <2> QED BY <1>4, <1>6, <2>1 DEF s
<1> QED BY <1>5, <1>6

\* The handler of a Hangup is served before it has looked the call up.
LEMMA RoutingServed ==
  ASSUME TypeOK, NEW r \in Requests, NEW m \in Mapped,
         Routing(r, m, List(r, "hangup"))
  PROVE  LET rest == Rest(<<r, "hangup">>)
         IN /\ Op(<<r, "hangup">>).op \notin {"write", "bind"}
            /\ rest # <<>> =>
                 /\ HangingUp(r, m, rest)
                 /\ Turns("hangup", rest) > 0 =>
                      Turns("hangup", List(r, "hangup"))
                        = Turns("hangup", rest) + 1
<1> DEFINE t == <<r, "hangup">>
           rest == Rest(t)
           seen == task[t].seen
<1>1. PICK n \in 1..3 : task[t].todo = Left(OnHangup(r, m), n)
  BY DEF Routing, List
<1> DEFINE P == OnHangup(r, m)
<1>2. /\ P \in Seq(Hops) /\ Len(P) = 3 /\ P[1].op = "find" /\ P[2].op = "fetch"
      /\ P[3].op = "route" /\ P[3].on = r /\ P[3].arg = m
  BY HangupLayout
<1>3. seen \in Statuses \union {Absent}
  BY TaskNames DEF TypeOK, TaskRecords, Handlers
<1>4. Turns("hangup", List(r, "hangup")) = 10 - n
  BY <1>1, RouteTurns DEF List
<1> HIDE DEF P, t
<1>5. /\ Op(t) = P[n]
      /\ n \in 1..2 => rest = Left(P, n + 1)
      /\ n = 3 => rest = IF seen = Absent THEN <<>> ELSE HangupBody(r, m, seen)
  <2>1. n \in 1..Len(P) /\ P \in Seq(Hops)
    BY <1>2
  <2>2. n \in 1..2 => P[n].op \notin {"guard", "found", "route"}
    BY <1>2
  <2>3. n = 3 => P[n].op = "route"
    BY <1>2
  <2>4. /\ Op(t) = P[n]
        /\ P[n].op \notin {"guard", "found", "route"} => Rest(t) = Left(P, n + 1)
        /\ P[n].op = "route" =>
             Rest(t) = IF task[t].seen = Absent THEN <<>>
                       ELSE HangupBody(P[n].on, P[n].arg, task[t].seen)
    BY <1>1, <2>1, ServedAt DEF P
  <2> QED BY <1>2, <2>2, <2>3, <2>4
<1>6. Op(t).op \notin {"write", "bind"}
  BY <1>2, <1>5
<1>7. CASE n \in 1..2
  <2>1. n + 1 \in 1..3 /\ rest = Left(P, n + 1)
    BY <1>5, <1>7
  <2>2. Turns("hangup", rest) = 10 - (n + 1)
    BY <2>1, RouteTurns DEF P
  <2>3. HangingUp(r, m, rest)
    BY <2>1 DEF HangingUp, Routing, P
  <2>4. 10 - n = (10 - (n + 1)) + 1
    OBVIOUS
  <2> QED BY <1>4, <1>6, <2>2, <2>3, <2>4 DEF t
<1>8. CASE n = 3 /\ seen # Absent
  <2> DEFINE B == HangupBody(r, m, seen)
  <2>1. seen \in Statuses /\ rest = B
    BY <1>3, <1>5, <1>8
  <2>2. /\ B \in Seq(Hops)
        /\ Len(B) = 2 \/ Len(B) = 7
        /\ B[1].op = "log" /\ B[2].op = "commit"
        /\ Len(B) = 7 => B[6].op = "write" /\ B[7].op = "commit"
    BY <2>1, HangupBodyLayout
  <2>3. Ending(r, m, B)
    <3>1. 1 \in 1..Len(B) /\ B = Left(B, 1)
      <4> HIDE DEF B
      <4> QED BY <2>2, LeftEnds
    <3> QED BY <2>1, <3>1 DEF Ending
  <2> HIDE DEF B
  <2>4. /\ B[Len(B)].op = "commit"
        /\ B[Len(B) - 1].op = "write" <=> Len(B) = 7
        /\ 1 \in 1..Len(B)
    <3>1. CASE Len(B) = 2
      <4>1. B[2].op = "commit" /\ B[2 - 1].op = "log"
        BY <2>2
      <4> QED BY <3>1, <4>1
    <3>2. CASE Len(B) = 7
      <4>1. B[7].op = "commit" /\ B[7 - 1].op = "write"
        BY <2>2, <3>2
      <4> QED BY <3>2, <4>1
    <3> QED BY <2>2, <3>1, <3>2
  <2>5. Turns("hangup", Left(B, 1)) = IF Len(B) = 7 /\ 1 <= 6 THEN 7 - 1 ELSE 0
    BY <2>2, <2>4, EndTurns
  <2>6. Turns("hangup", B) = 6 \/ Turns("hangup", B) = 0
    <3>1. B = Left(B, 1)
      BY <2>2, LeftEnds
    <3> QED BY <2>5, <3>1
  <2>7. Turns("hangup", List(r, "hangup")) = 7
    BY <1>4, <1>8
  <2>8. Turns("hangup", rest) > 0 =>
          Turns("hangup", List(r, "hangup")) = Turns("hangup", rest) + 1
    BY <2>1, <2>6, <2>7
  <2>9. HangingUp(r, m, rest)
    BY <2>1, <2>3 DEF HangingUp
  <2> QED BY <1>6, <2>8, <2>9 DEF t
<1>9. CASE n = 3 /\ seen = Absent
  <2>1. rest = <<>>
    BY <1>5, <1>9
  <2> QED BY <1>6, <2>1 DEF t
<1> QED BY <1>7, <1>8, <1>9

\* The handler of a Hangup is served after it has looked the call up.
LEMMA EndingServed ==
  ASSUME NEW r \in Requests, NEW m \in Mapped,
         Ending(r, m, List(r, "hangup"))
  PROVE  LET h == Op(<<r, "hangup">>)
             rest == Rest(<<r, "hangup">>)
         IN /\ h.op \in {"write", "bind"} =>
                 /\ Turns("hangup", List(r, "hangup")) = 1
                 /\ h.arg \in Terminal /\ h.op = "write"
                 /\ m # "unmapped" => h.arg = m
            /\ rest # <<>> =>
                 /\ HangingUp(r, m, rest)
                 /\ Turns("hangup", rest) > 0 =>
                      Turns("hangup", List(r, "hangup"))
                        = Turns("hangup", rest) + 1
<1> DEFINE t == <<r, "hangup">>
           rest == Rest(t)
<1>1. PICK seen \in Statuses :
             \E i \in 1..Len(HangupBody(r, m, seen)) :
               task[t].todo = Left(HangupBody(r, m, seen), i)
  BY DEF Ending, List
<1> DEFINE P == HangupBody(r, m, seen)
<1>2. PICK n \in 1..Len(P) : task[t].todo = Left(P, n)
  BY <1>1
<1>3. /\ P \in Seq(Hops)
      /\ Len(P) = 2 \/ Len(P) = 7
      /\ P[1].op = "log" /\ P[2].op = "commit"
      /\ Len(P) = 7 =>
           /\ P[3].op = "select" /\ P[4].op = "fetch"
           /\ P[5].op = "guard" /\ P[5].arg \in Terminal
           /\ P[6].op = "write" /\ P[6].arg \in Terminal
           /\ m # "unmapped" => P[6].arg = m
           /\ P[7].op = "commit"
  BY HangupBodyLayout DEF HangupStatus
<1>4. \A i \in 1..Len(P) : Left(P, i) # <<>> => Ending(r, m, Left(P, i))
  BY DEF Ending
<1> HIDE DEF P, t
<1>5. /\ P[Len(P)].op = "commit"
      /\ P[Len(P) - 1].op = "write" <=> Len(P) = 7
  <2>1. CASE Len(P) = 2
    <3>1. P[2].op = "commit" /\ P[2 - 1].op = "log"
      BY <1>3
    <3> QED BY <2>1, <3>1
  <2>2. CASE Len(P) = 7
    <3>1. P[7].op = "commit" /\ P[7 - 1].op = "write"
      BY <1>3, <2>2
    <3> QED BY <2>2, <3>1
  <2> QED BY <1>3, <2>1, <2>2
<1>6. \A i \in 1..Len(P) : Turns("hangup", Left(P, i)) =
                             IF Len(P) = 7 /\ i <= 6 THEN 7 - i ELSE 0
  BY <1>3, <1>5, EndTurns
<1>7. /\ Op(t) = P[n]
      /\ rest # <<>> => rest = Left(P, n + 1)
  <2>1. /\ Op(t) = P[n]
        /\ P[n].op \notin {"guard", "found", "route"} => Rest(t) = Left(P, n + 1)
        /\ P[n].op = "guard" /\ ~Refuses(task[t].seen, P[n].arg) =>
             Rest(t) = Left(P, n + 1)
        /\ P[n].op = "guard" /\ Refuses(task[t].seen, P[n].arg)
             /\ n + 2 <= Len(P) => Rest(t) = Left(P, n + 3)
    BY <1>2, <1>3, ServedAt
  <2>2. CASE Len(P) = 2
    <3>1. n = 1 \/ n = 2
      BY <2>2
    <3>2. P[n].op \in {"log", "commit"}
      BY <1>3, <3>1
    <3> QED BY <2>1, <3>2
  <2>3. CASE Len(P) = 7 /\ n # 5
    <3>1. n \in {1, 2, 3, 4, 6, 7}
      BY <2>3
    <3>2. P[n].op \notin {"guard", "found", "route"}
      BY <1>3, <2>3, <3>1
    <3> QED BY <2>1, <3>2
  <2>4. Len(P) = 7 => Left(P, 5 + 3) = <<>>
    <3>1. Left(P, Len(P) + 1) = <<>>
      BY <1>3, LeftEnds
    <3> QED BY <3>1
  <2>5. CASE Len(P) = 7 /\ n = 5
    <3>1. P[n].op = "guard" /\ n + 2 <= Len(P)
      BY <1>3, <2>5
    <3>2. Refuses(task[t].seen, P[n].arg) => rest = <<>>
      BY <2>1, <2>4, <2>5, <3>1
    <3> QED BY <2>1, <3>1, <3>2
  <2> QED BY <1>3, <2>1, <2>2, <2>3, <2>5
<1>8. Op(t).op \in {"write", "bind"} =>
        /\ n = 6 /\ Len(P) = 7 /\ Op(t).arg \in Terminal /\ Op(t).op = "write"
        /\ m # "unmapped" => Op(t).arg = m
  BY <1>3, <1>7
<1>9. Turns("hangup", List(r, "hangup")) =
        IF Len(P) = 7 /\ n <= 6 THEN 7 - n ELSE 0
  BY <1>2, <1>6 DEF List, t
<1>10. ASSUME rest # <<>>
       PROVE  /\ HangingUp(r, m, rest)
              /\ Turns("hangup", rest) > 0 =>
                   Turns("hangup", List(r, "hangup")) = Turns("hangup", rest) + 1
  <2>1. n + 1 \in 1..Len(P)
    <3>1. n + 1 # Len(P) + 1
      BY <1>3, <1>7, <1>10, LeftEnds
    <3> QED BY <1>3, <3>1
  <2>2. Turns("hangup", rest) = IF Len(P) = 7 /\ n + 1 <= 6 THEN 7 - (n + 1) ELSE 0
    BY <1>6, <1>7, <1>10, <2>1
  <2>3. HangingUp(r, m, rest)
    BY <1>4, <1>7, <1>10, <2>1 DEF HangingUp
  <2> QED BY <1>3, <1>9, <2>2, <2>3
<1>11. Op(t).op \in {"write", "bind"} =>
         /\ Turns("hangup", List(r, "hangup")) = 1
         /\ Op(t).arg \in Terminal /\ Op(t).op = "write"
         /\ m # "unmapped" => Op(t).arg = m
  BY <1>8, <1>9
<1> QED BY <1>10, <1>11 DEF t

-----------------------------------------------------------------------------
(* What a step does to the queue *)

\* The coroutine neither was in the queue nor is, or it waits as before.
Untouched(u) == \/ task'[u] = task[u]
                \/ task[u].st # "db" /\ task'[u].st # "db"
OnlyTask(t) == \A u \in Tasks \ {t} : Untouched(u)

\* An event starts its handler.
Triggered(r, k) ==
  \/ /\ \/ k = "ringing" /\ call[r] = "dialing"
        \/ k = "up" /\ call[r] \in {"dialing", "ringing"}
     /\ List(r, k)' = OnNewState(r, NewState(k))
  \/ /\ \/ k = "callstart" /\ call[r] = "up"
        \/ k = "playing" /\ call[r] = "dialplan"
        \/ k = "complete" /\ call[r] = "playing" /\ call'[r] = "played"
     /\ List(r, k)' = Program(r, k)
  \/ /\ k = "hangup" /\ ~CallEnded(r) /\ CallEnded(r)'
     /\ \E m \in Mapped : /\ List(r, k)' = OnHangup(r, m)
                          /\ call[r] = "played" => m = "completed"
  \/ /\ k = "response" /\ due[r] # "no" /\ task[<<r, "exec">>].st # "wait"
     /\ List(r, k)' = OnOriginateResponse(r, due[r])

\* The background task begins, or its Originate has come to an end.
Resumed(r) ==
  LET e == <<r, "exec">>
  IN \/ task'[e].part = "pre"
     \/ /\ task'[e].part = "forward" /\ due[r] # "no"
        /\ task'[e].todo = OnOriginateResponse(r, due[r])
     \/ /\ task'[e].part = "rejected" /\ task'[e].todo = OnFailed(r)
        /\ task[e].st = "send" \/ (task[e].st = "orphan" /\ LongAgo(r))

\* Coroutine t makes its first request.
Joins(t) ==
  /\ task[t].st # "db" /\ task'[t].st = "db" /\ OnlyTask(t)
  /\ dbq' = Append(dbq, t) /\ UNCHANGED store
  /\ t[2] \in Handlers => Triggered(t[1], t[2])
  /\ t[2] = "exec" => Resumed(t[1])

\* Coroutine t is served and makes its next request.
GoesOn(t) ==
  /\ Serving(t) /\ task'[t].st = "db" /\ OnlyTask(t)
  /\ dbq' = Append(Tail(dbq), t)
  /\ UNCHANGED asterisk /\ (UNCHANGED store \/ Execute(t))
  /\ t[2] \in Handlers => Work(t)
  /\ t[2] = "exec" => Work(t) \/ FaultInTry(t)

\* Coroutine t is served and makes no further request.
Quits(t) ==
  /\ Serving(t) /\ task'[t].st # "db" /\ OnlyTask(t) /\ dbq' = Tail(dbq)
  /\ UNCHANGED asterisk /\ (UNCHANGED store \/ Execute(t))

\* No coroutine makes a request, and none is served.
Idles == /\ \A u \in Tasks : Untouched(u)
         /\ UNCHANGED <<dbq, store>>

\* A coroutine makes its first request, the others stay what they are.
LEMMA PutJoins ==
  ASSUME Inv, UNCHANGED store, NEW t \in Tasks, task[t].st # "db",
         NEW part, NEW todo, Put(t, part, todo, dbq),
         t[2] \in Handlers => Triggered(t[1], t[2]),
         t[2] = "exec" => Resumed(t[1])
  PROVE  Joins(t)
<1>1. task'[t].st = "db" /\ \A u \in Tasks \ {t} : task'[u] = task[u]
  BY PutGives
<1>2. dbq' = Append(dbq, t)
  BY DEF Put
<1> QED BY <1>1, <1>2 DEF Joins, OnlyTask, Untouched

\* An event starts its handler, or is lost.
LEMMA EmitJoins ==
  ASSUME Inv, UNCHANGED store, NEW r \in Requests, NEW k \in Handlers,
         task[<<r, k>>].st # "db", NEW todo, Emit(r, k, todo),
         List(r, k)' = todo => Triggered(r, k)
  PROVE  Joins(<<r, k>>) \/ Idles
<1>1. <<r, k>> \in Tasks /\ k # "exec"
  BY TaskNames
<1>2. CASE ami = "wired"
  <2>1. Put(<<r, k>>, "", todo, dbq)
    BY <1>2 DEF Emit
  <2>2. List(r, k)' = todo
    BY <1>1, <2>1, PutGives DEF List
  <2> QED BY <1>1, <2>1, <2>2, PutJoins
<1>3. CASE ami # "wired"
  BY <1>3 DEF Emit, Idles, Untouched
<1> QED BY <1>2, <1>3

\* HTTP handlers begin with a request.
LEMMA HttpJoins ==
  ASSUME Inv, NEW r \in Requests, Http(r)
  PROVE  Joins(<<r, "api">>)
<1> DEFINE t == <<r, "api">>
<1>1. t \in Tasks /\ t[2] \notin Handlers /\ t[2] # "exec"
  BY TaskNames
<1>2. /\ task[t].st = "idle" /\ UNCHANGED store
      /\ \E todo : Put(t, "", todo, dbq)
  BY DEF Http, Submit, SubmitRetry
<1> QED BY <1>1, <1>2, PutJoins

\* The background task begins, originates, or learns that it could not.
LEMMA ExecutionJoins ==
  ASSUME Inv, NEW r \in Requests, Execution(r)
  PROVE  Joins(<<r, "exec">>) \/ Idles
<1> DEFINE t == <<r, "exec">>
<1>1. t \in Tasks /\ t[1] = r /\ t[2] = "exec" /\ t[2] \notin Handlers
  BY TaskNames
<1>2. UNCHANGED store
  BY DEF Execution, Acquire, Originate, OriginateNotAccepted, OriginateTimeout
<1>3. CASE Acquire(r)
  <2>1. task[t].st # "db" /\ Put(t, "pre", BeforeTry(r), dbq)
    BY <1>3 DEF Acquire
  <2>2. Resumed(r)
    BY <1>1, <2>1, PutGives DEF Resumed
  <2> QED BY <1>1, <1>2, <2>1, <2>2, PutJoins
<1>4. CASE OriginateNotAccepted(r) \/ OriginateTimeout(r)
  <2>1. /\ task[t].st # "db" /\ Put(t, "rejected", OnFailed(r), dbq)
        /\ task[t].st = "send" \/ (task[t].st = "orphan" /\ LongAgo(r))
    BY <1>4 DEF OriginateNotAccepted, OriginateTimeout
  <2>2. Resumed(r)
    BY <1>1, <2>1, PutGives DEF Resumed
  <2> QED BY <1>1, <1>2, <2>1, <2>2, PutJoins
<1>5. CASE Originate(r)
  <2>1. /\ task[t].st = "send" /\ Fresh("wait").st = "wait"
        /\ task' = [task EXCEPT ![t] = Fresh("wait")]
        /\ task \in [Tasks -> TaskRecords]
    BY <1>5 DEF Originate, Fresh, Coroutine, Inv, TypeOK
  <2>2. \A u \in Tasks : Untouched(u)
    BY <1>1, <2>1 DEF Untouched
  <2> QED BY <1>5, <2>2 DEF Originate, Idles
<1> QED BY <1>3, <1>4, <1>5 DEF Execution

\* A mapped cause is a final status, or there is none.
LEMMA CausesMapped == \A cause \in Int : CauseStatus(cause) \in Mapped
BY DEF CauseStatus, Mapped, Terminal, Retryable

\* Every event starts its own handler, and no other coroutine.
LEMMA ProgressJoins ==
  ASSUME Inv, NEW r \in Requests, Progress(r)
  PROVE  (\E k \in Handlers : Joins(<<r, k>>)) \/ Idles
<1>0. /\ UNCHANGED store /\ call \in [Requests -> Phases]
      /\ \A k \in Handlers : task[<<r, k>>].st = "db" => k \in Started(call[r])
  BY DEF Progress, Ring, Answer, StartDialplan, StartPlayback, FinishPlayback,
     HangUp, Drop, Refuse, Inv, TypeOK, HandlersFollowCall
<1>1. /\ "ringing" \in Handlers /\ "up" \in Handlers /\ "callstart" \in Handlers
      /\ "playing" \in Handlers /\ "complete" \in Handlers
      /\ "hangup" \in Handlers
  BY DEF Handlers
<1>2. CASE Ring(r)
  <2>1. /\ call[r] = "dialing" /\ "ringing" \notin Started(call[r])
        /\ Emit(r, "ringing", OnNewState(r, "ringing"))
    BY <1>2 DEF Ring, Started
  <2>2. List(r, "ringing")' = OnNewState(r, "ringing") => Triggered(r, "ringing")
    BY <2>1 DEF Triggered, NewState
  <2> QED BY <1>0, <1>1, <2>1, <2>2, EmitJoins
<1>3. CASE Answer(r)
  <2>1. /\ call[r] \in {"dialing", "ringing"} /\ "up" \notin Started(call[r])
        /\ Emit(r, "up", OnNewState(r, "answered"))
    BY <1>3 DEF Answer, Started
  <2>2. List(r, "up")' = OnNewState(r, "answered") => Triggered(r, "up")
    BY <2>1 DEF Triggered, NewState
  <2> QED BY <1>0, <1>1, <2>1, <2>2, EmitJoins
<1>4. CASE StartDialplan(r)
  <2>1. /\ call[r] = "up" /\ "callstart" \notin Started(call[r])
        /\ Emit(r, "callstart", OnCallStart(r))
    BY <1>4 DEF StartDialplan, Started
  <2>2. List(r, "callstart")' = OnCallStart(r) => Triggered(r, "callstart")
    BY <2>1 DEF Triggered, Program
  <2> QED BY <1>0, <1>1, <2>1, <2>2, EmitJoins
<1>5. CASE StartPlayback(r)
  <2>1. /\ call[r] = "dialplan" /\ "playing" \notin Started(call[r])
        /\ Emit(r, "playing", OnPlaybackStart(r))
    BY <1>5 DEF StartPlayback, Started
  <2>2. List(r, "playing")' = OnPlaybackStart(r) => Triggered(r, "playing")
    BY <2>1 DEF Triggered, Program
  <2> QED BY <1>0, <1>1, <2>1, <2>2, EmitJoins
<1>6. CASE FinishPlayback(r)
  <2>1. /\ call[r] = "playing" /\ "complete" \notin Started(call[r])
        /\ Emit(r, "complete", OnPlaybackComplete(r))
    BY <1>6 DEF FinishPlayback, Started
  <2>2. call'[r] = "played"
    BY <1>0, <1>6 DEF FinishPlayback
  <2>3. List(r, "complete")' = OnPlaybackComplete(r) => Triggered(r, "complete")
    BY <2>1, <2>2 DEF Triggered, Program
  <2> QED BY <1>0, <1>1, <2>1, <2>3, EmitJoins
<1>7. CASE HangUp(r) \/ Drop(r) \/ Refuse(r)
  <2>1. PICK cause \in Int : /\ Emit(r, "hangup", OnHangup(r, CauseStatus(cause)))
                             /\ call[r] = "played" => cause = 16
    BY <1>7, ParametersAssumption DEF HangUp, Drop, Refuse
  <2>2. /\ call[r] \in {"played", "up", "dialplan", "playing", "dialing", "ringing"}
        /\ call'[r] \in {"finished", "dropped", "refused"}
    BY <1>0, <1>7 DEF HangUp, Drop, Refuse
  <2>3. ~CallEnded(r) /\ CallEnded(r)'
    BY <2>2 DEF CallEnded
  <2>4. "hangup" \notin Started(call[r])
    BY <2>2 DEF Started, Handlers
  <2>5. List(r, "hangup")' = OnHangup(r, CauseStatus(cause)) =>
          Triggered(r, "hangup")
    <3>1. call[r] = "played" => CauseStatus(cause) = "completed"
      BY <2>1 DEF CauseStatus
    <3>2. CauseStatus(cause) \in Mapped
      BY CausesMapped
    <3> QED BY <2>3, <3>1, <3>2 DEF Triggered
  <2> QED BY <1>0, <1>1, <2>1, <2>4, <2>5, EmitJoins
<1> QED BY <1>2, <1>3, <1>4, <1>5, <1>6, <1>7 DEF Progress

\* The OriginateResponse resumes the background task, starts its handler, or
\* is lost.
LEMMA RespondJoins ==
  ASSUME Inv, NEW r \in Requests, Respond(r)
  PROVE  Joins(<<r, "exec">>) \/ Joins(<<r, "response">>) \/ Idles
<1> DEFINE t == <<r, "exec">>
           todo == OnOriginateResponse(r, due[r])
<1>0. /\ t \in Tasks /\ t[1] = r /\ t[2] = "exec" /\ t[2] \notin Handlers
      /\ "response" \in Handlers
  BY TaskNames DEF Handlers
<1>1. /\ due[r] # "no" /\ UNCHANGED store
      /\ task[t].st = "wait" => Put(t, "forward", todo, dbq)
      /\ task[t].st # "wait" => Emit(r, "response", todo)
  BY DEF Respond
<1> HIDE DEF todo
<1>2. CASE task[t].st = "wait"
  <2>1. Put(t, "forward", todo, dbq)
    BY <1>1, <1>2
  <2>2. Resumed(r)
    BY <1>0, <1>1, <2>1, PutGives DEF Resumed, todo
  <2> QED BY <1>0, <1>1, <1>2, <2>1, <2>2, PutJoins
<1>3. CASE task[t].st # "wait"
  <2>1. task[<<r, "response">>].st # "db"
    BY <1>1 DEF Inv, OneResponse
  <2>2. List(r, "response")' = todo => Triggered(r, "response")
    BY <1>1, <1>3 DEF Triggered, todo
  <2> QED BY <1>0, <1>1, <1>3, <2>1, <2>2, EmitJoins
<1> QED BY <1>2, <1>3

\* The coroutine that is served goes on or quits, and no other one moves.
LEMMA ServeMoves ==
  ASSUME Inv, NEW t \in Tasks, Serve(t) \/ Fault(t)
  PROVE  GoesOn(t) \/ Quits(t)
<1>0. /\ Serving(t) /\ UNCHANGED asterisk
      /\ t[1] \in Requests /\ t = <<t[1], t[2]>> /\ task[t].st = "db"
  <2>1. Serving(t) /\ UNCHANGED asterisk
    BY DEF Serve, Fault, Work, RefuseRetry, AdmitRetry, Deciding, Accept,
       EnterTry, Release, EndHandler, LastHop, FaultInHandler, FaultBeforeTry,
       FaultInTry, FaultThenRelease, Faulting
  <2> QED BY <2>1, Served
<1>1. CASE Work(t)
  <2>1. /\ task'[t].st = "db" /\ \A u \in Tasks \ {t} : task'[u] = task[u]
        /\ dbq' = Append(Tail(dbq), t) /\ Execute(t)
    BY <1>1, WorkGives DEF Work
  <2> QED BY <1>0, <1>1, <2>1 DEF GoesOn, OnlyTask, Untouched
<1>2. CASE AdmitRetry(t) \/ FaultInTry(t)
  <2>1. /\ \E part, todo : Put(t, part, todo, Tail(dbq))
        /\ UNCHANGED store
        /\ t[2] = "api" \/ FaultInTry(t)
        /\ t[2] \in {"api", "exec"}
    BY <1>2 DEF AdmitRetry, FaultInTry, Deciding
  <2>2. /\ task'[t].st = "db" /\ \A u \in Tasks \ {t} : task'[u] = task[u]
        /\ dbq' = Append(Tail(dbq), t)
    <3>1. PICK part, todo : Put(t, part, todo, Tail(dbq))
      BY <2>1
    <3>2. dbq' = Append(Tail(dbq), t)
      BY <3>1 DEF Put
    <3> QED BY <3>1, <3>2, PutGives
  <2>3. t[2] \notin Handlers
    BY <2>1, TaskNames
  <2> QED BY <1>0, <2>1, <2>2, <2>3 DEF GoesOn, OnlyTask, Untouched
<1>3. CASE Accept(t)
  <2>1. /\ task'[t].st = "done"
        /\ task[<<t[1], "exec">>].st = "idle"
        /\ task'[<<t[1], "exec">>].st = "ready"
        /\ \A u \in Tasks : u # t /\ u # <<t[1], "exec">> => task'[u] = task[u]
        /\ dbq' = Tail(dbq) /\ Execute(t)
    BY <1>3, AcceptGives DEF Accept
  <2>2. OnlyTask(t)
    BY <2>1 DEF OnlyTask, Untouched
  <2> QED BY <1>0, <2>1, <2>2 DEF Quits
<1>4. CASE \E st \in {"idle", "send", "done", "lost"} :
             Leave(t, st) /\ (UNCHANGED store \/ Execute(t))
  <2>1. PICK st \in {"idle", "send", "done", "lost"} :
               Leave(t, st) /\ (UNCHANGED store \/ Execute(t))
    BY <1>4
  <2>2. /\ task'[t].st = st /\ \A u \in Tasks \ {t} : task'[u] = task[u]
        /\ dbq' = Tail(dbq)
    BY <2>1, LeaveGives DEF Leave
  <2> QED BY <1>0, <2>1, <2>2 DEF Quits, OnlyTask, Untouched
<1>5. \/ Work(t) \/ AdmitRetry(t) \/ FaultInTry(t) \/ Accept(t)
      \/ \E st \in {"idle", "send", "done", "lost"} :
           Leave(t, st) /\ (UNCHANGED store \/ Execute(t))
  BY DEF Serve, Fault, RefuseRetry, EnterTry, Release, EndHandler,
     FaultInHandler, FaultBeforeTry, FaultThenRelease
<1> QED BY <1>1, <1>2, <1>3, <1>4, <1>5

\* Every step is one of these, short of a crash.
LEMMA QueueMoves ==
  ASSUME Inv, [Next]_vars, ~Crash
  PROVE  \/ Idles
         \/ \E t \in Tasks : Joins(t) \/ GoesOn(t) \/ Quits(t)
<1>1. ASSUME NEW r \in Requests,
             Http(r) \/ Execution(r) \/ Progress(r) \/ Respond(r)
      PROVE  Idles \/ \E t \in Tasks : Joins(t)
  <2>1. /\ <<r, "api">> \in Tasks /\ <<r, "exec">> \in Tasks
        /\ \A k \in Handlers : <<r, k>> \in Tasks
        /\ "response" \in Handlers
    BY TaskNames DEF Handlers
  <2> QED BY <1>1, <2>1, HttpJoins, ExecutionJoins, ProgressJoins, RespondJoins
<1>2. CASE Disconnect
  <2>1. /\ \A u \in Tasks : task'[u] = IF task[u].st = "wait" THEN Fresh("orphan")
                                       ELSE task[u]
        /\ UNCHANGED <<store, dbq>> /\ Fresh("orphan").st = "orphan"
    BY <1>2 DEF Disconnect, Fresh, Coroutine
  <2> QED BY <2>1 DEF Idles, Untouched
<1>3. CASE Startup \/ Reconnect \/ UNCHANGED vars
  <2>1. UNCHANGED task /\ UNCHANGED dbq /\ UNCHANGED store
    BY <1>3 DEF Startup, Reconnect, vars, store
  <2>2. Idles
    BY <2>1 DEF Idles, Untouched
  <2> QED BY <2>2
<1>4. ASSUME NEW t \in Tasks, Serve(t) \/ Fault(t)
      PROVE  GoesOn(t) \/ Quits(t)
  BY <1>4, ServeMoves
<1>5. \/ \E r \in Requests :
           Http(r) \/ Execution(r) \/ Progress(r) \/ Respond(r)
      \/ \E t \in Tasks : Serve(t) \/ Fault(t)
      \/ Startup \/ Disconnect \/ Reconnect \/ UNCHANGED vars
  BY DEF Next
<1>6. CASE \E r \in Requests :
             Http(r) \/ Execution(r) \/ Progress(r) \/ Respond(r)
  <2>1. PICK r \in Requests :
               Http(r) \/ Execution(r) \/ Progress(r) \/ Respond(r)
    BY <1>6
  <2>2. Idles \/ \E t \in Tasks : Joins(t)
    BY <1>1, <2>1
  <2> QED BY <2>2
<1>7. CASE \E t \in Tasks : Serve(t) \/ Fault(t)
  <2>1. PICK t \in Tasks : Serve(t) \/ Fault(t)
    BY <1>7
  <2>2. GoesOn(t) \/ Quits(t)
    BY <1>4, <2>1
  <2> QED BY <2>2
<1> QED BY <1>2, <1>3, <1>5, <1>6, <1>7

-----------------------------------------------------------------------------
(* Places in the queue *)

\* Who is in the queue stays in it when others join it.
LEMMA QueueGrows ==
  ASSUME NEW S, NEW q \in Seq(S), NEW t \in S, NEW a, NEW b
  PROVE  /\ InQueue(q, a) => InQueue(Append(q, t), a)
         /\ InQueue(Append(q, t), t)
         /\ Ahead(q, a, b) => Ahead(Append(q, t), a, b)
         /\ InQueue(q, a) => Ahead(Append(q, t), a, t)
<1> DEFINE w == Append(q, t)
<1>1. /\ Len(w) = Len(q) + 1 /\ w[Len(q) + 1] = t
      /\ \A i \in 1..Len(q) : w[i] = q[i]
  OBVIOUS
<1> HIDE DEF w
<1>2. /\ Len(q) + 1 \in 1..Len(w)
      /\ \A i \in 1..Len(q) : i \in 1..Len(w) /\ i < Len(q) + 1
  BY <1>1
<1>3. InQueue(q, a) => InQueue(w, a)
  BY <1>1, <1>2 DEF InQueue
<1>4. InQueue(w, t)
  BY <1>1, <1>2 DEF InQueue
<1>5. Ahead(q, a, b) => Ahead(w, a, b)
  BY <1>1, <1>2 DEF Ahead
<1>6. InQueue(q, a) => Ahead(w, a, t)
  BY <1>1, <1>2 DEF InQueue, Ahead
<1> QED BY <1>3, <1>4, <1>5, <1>6 DEF w

\* Who is not served stays in the queue, ahead of the same ones.
LEMMA QueueShrinks ==
  ASSUME NEW S, NEW q \in Seq(S), q # <<>>, NEW a, NEW b, a # Head(q)
  PROVE  /\ InQueue(q, a) => InQueue(Tail(q), a)
         /\ Ahead(q, a, b) => Ahead(Tail(q), a, b)
<1> DEFINE w == Tail(q)
<1>1. /\ Len(w) = Len(q) - 1 /\ q[1] # a
      /\ \A i \in 1..Len(w) : w[i] = q[i + 1]
  OBVIOUS
<1> HIDE DEF w
<1>2. \A i \in 1..Len(q) : i # 1 => i - 1 \in 1..Len(w) /\ w[i - 1] = q[i]
  BY <1>1
<1>3. InQueue(q, a) => InQueue(w, a)
  BY <1>1, <1>2 DEF InQueue
<1>4. ASSUME Ahead(q, a, b)
      PROVE  Ahead(w, a, b)
  <2>1. PICK i \in 1..Len(q), j \in 1..Len(q) : i < j /\ q[i] = a /\ q[j] = b
    BY <1>4 DEF Ahead
  <2>2. i # 1 /\ j # 1
    BY <1>1, <2>1
  <2>3. /\ i - 1 \in 1..Len(w) /\ w[i - 1] = a
        /\ j - 1 \in 1..Len(w) /\ w[j - 1] = b
        /\ i - 1 < j - 1
    BY <1>2, <2>1, <2>2
  <2> QED BY <2>3 DEF Ahead
<1> QED BY <1>3, <1>4 DEF w

\* Nobody is ahead of the one that is served.
LEMMA ServedFirst ==
  ASSUME Inv, NEW t, Serving(t), NEW a
  PROVE  ~Ahead(dbq, a, t)
<1>1. /\ dbq \in Seq(Tasks) /\ dbq # <<>> /\ t = dbq[1]
      /\ \A i, j \in 1..Len(dbq) : dbq[i] = dbq[j] => i = j
  BY DEF Inv, TypeOK, QueueDiscipline, Serving
<1>2. 1 \in 1..Len(dbq)
  BY <1>1
<1> QED BY <1>1, <1>2 DEF Ahead

\* Whoever waits is in the queue.
LEMMA QueuedKept ==
  ASSUME Inv, [Next]_vars, Queued
  PROVE  Queued'
<1>0. dbq \in Seq(Tasks) /\ (dbq # <<>> => Tail(dbq) \in Seq(Tasks))
  BY DEF Inv, TypeOK
<1> SUFFICES ASSUME NEW u \in Tasks, task'[u].st = "db"
             PROVE  InQueue(dbq', u)
  BY DEF Queued
<1>1. ~Crash
  <2>1. SUFFICES ASSUME Crash PROVE FALSE
    OBVIOUS
  <2>2. task'[u] = IF task[u].st = "idle" THEN task[u] ELSE Fresh("done")
    BY <2>1 DEF Crash
  <2>3. Fresh("done").st = "done"
    BY DEF Fresh, Coroutine
  <2>4. task'[u].st \in {"idle", "done"}
    BY <2>2, <2>3
  <2> QED BY <2>4
<1>2. Untouched(u) => InQueue(dbq, u)
  BY DEF Queued, Untouched
<1>3. CASE Idles
  BY <1>2, <1>3 DEF Idles
<1>4. ASSUME NEW t \in Tasks, Joins(t)
      PROVE  InQueue(dbq', u)
  <2>1. dbq' = Append(dbq, t) /\ (u # t => Untouched(u))
    BY <1>4 DEF Joins, OnlyTask
  <2> QED BY <1>0, <1>2, <2>1, QueueGrows
<1>5. ASSUME NEW t \in Tasks, GoesOn(t)
      PROVE  InQueue(dbq', u)
  <2>1. /\ dbq' = Append(Tail(dbq), t) /\ (u # t => Untouched(u))
        /\ dbq # <<>> /\ t = Head(dbq)
    BY <1>5 DEF GoesOn, OnlyTask, Serving
  <2>2. u # t => InQueue(Tail(dbq), u)
    BY <1>0, <1>2, <2>1, QueueShrinks
  <2> QED BY <1>0, <2>1, <2>2, QueueGrows
<1>6. ASSUME NEW t \in Tasks, Quits(t)
      PROVE  InQueue(dbq', u)
  <2>1. /\ dbq' = Tail(dbq) /\ (u # t => Untouched(u)) /\ u # t
        /\ dbq # <<>> /\ t = Head(dbq)
    BY <1>6 DEF Quits, OnlyTask, Serving
  <2> QED BY <1>0, <1>2, <2>1, QueueShrinks
<1> QED BY <1>1, <1>3, <1>4, <1>5, <1>6, QueueMoves

-----------------------------------------------------------------------------
(* Turns *)

\* Turns are counted in natural numbers.
LEMMA TurnsNatural ==
  ASSUME NEW r \in Requests, NEW k \in Handlers
  PROVE  /\ TypeOK => TurnsLeft(r, k) \in Nat
         /\ TypeOK' => TurnsLeft(r, k)' \in Nat
<1>1. ASSUME NEW s \in Seq(Hops)
      PROVE  Turns(k, s) \in Nat
  <2> DEFINE n == Len(s)
  <2>1. n \in Nat
    OBVIOUS
  <2>2. /\ k \in {"ringing", "up"} => Turns(k, s) \in {0, 1}
        /\ k = "hangup" => \/ Turns(k, s) = n + 6 \/ Turns(k, s) = 0
                           \/ n > 1 /\ Turns(k, s) = n - 1
        /\ k \notin {"ringing", "up", "hangup"} =>
             \/ Turns(k, s) = 0
             \/ n > 3 /\ Turns(k, s) = n - 3
    BY DEF Turns
  <2> HIDE DEF n
  <2> QED BY <2>1, <2>2
<1>2. ASSUME TypeOK
      PROVE  TurnsLeft(r, k) \in Nat
  <2>1. List(r, k) \in Seq(Hops)
    BY <1>2, TaskNames DEF TypeOK, TaskRecords, List
  <2> QED BY <1>1, <2>1 DEF TurnsLeft
<1>3. ASSUME TypeOK'
      PROVE  TurnsLeft(r, k)' \in Nat
  <2>1. List(r, k)' \in Seq(Hops)
    BY <1>3, TaskNames DEF TypeOK, TaskRecords, List
  <2> QED BY <1>1, <2>1 DEF TurnsLeft
<1> QED BY <1>2, <1>3

\* A handler that is started has all its turns left.
LEMMA StartTurns ==
  ASSUME Inv, NEW r \in Requests, NEW k \in Handlers, Joins(<<r, k>>)
  PROVE  /\ k \in {"ringing", "up"} => TurnsLeft(r, k)' = 1
         /\ k \in Updates => TurnsLeft(r, k)' = 4
         /\ k = "hangup" => TurnsLeft(r, k)' = 9
<1>1. Triggered(r, k) /\ TurnsLeft(r, k)' = Turns(k, List(r, k)')
  BY DEF Joins, TurnsLeft, Doing
<1>2. CASE k \in {"ringing", "up"}
  <2>1. List(r, k)' = OnNewState(r, NewState(k))
    BY <1>1, <1>2 DEF Triggered
  <2> DEFINE P == OnNewState(r, NewState(k))
  <2>2. P \in Seq(Hops) /\ Len(P) = 10
    BY NewStateLayout DEF NewState
  <2> HIDE DEF P
  <2>3. Turns(k, P) = 1
    BY <1>2, <2>2 DEF Turns
  <2> QED BY <1>1, <1>2, <2>1, <2>3 DEF P, Updates
<1>3. CASE k \in Updates
  <2>1. List(r, k)' = Program(r, k)
    BY <1>1, <1>3 DEF Triggered, Updates
  <2> DEFINE P == Program(r, k)
  <2>2. P \in Seq(Hops) /\ Len(P) = 7
    BY <1>3, ProgramLayout
  <2> HIDE DEF P
  <2>3. Turns(k, P) = 4
    BY <1>3, <2>2 DEF Turns, Updates
  <2> QED BY <1>1, <1>3, <2>1, <2>3 DEF P, Updates
<1>4. CASE k = "hangup"
  <2>1. PICK m \in Mapped : List(r, k)' = OnHangup(r, m)
    BY <1>1, <1>4 DEF Triggered
  <2> DEFINE P == OnHangup(r, m)
  <2>2. P \in Seq(Hops) /\ Left(P, 1) = P
    <3>1. P \in Seq(Hops)
      BY HangupLayout
    <3> HIDE DEF P
    <3> QED BY <3>1, LeftEnds
  <2>3. Turns("hangup", Left(P, 1)) = 10 - 1
    BY RouteTurns
  <2> HIDE DEF P
  <2>4. Turns(k, P) = 9
    BY <1>4, <2>2, <2>3
  <2> QED BY <1>1, <1>4, <2>1, <2>4 DEF P, Updates
<1> QED BY <1>2, <1>3, <1>4

\* A handler that is served has one turn less left, or needs none any more.
LEMMA ServedTurns ==
  ASSUME Inv, NEW r \in Requests, Shaped(r),
         NEW k \in Handlers \ {"response"}, Work(<<r, k>>),
         TurnsLeft(r, k)' > 0
  PROVE  TurnsLeft(r, k) = TurnsLeft(r, k)' + 1
<1> DEFINE t == <<r, k>>
<1>1. /\ task[t].st = "db" /\ task'[t].st = "db" /\ task'[t].todo = Rest(t)
      /\ Rest(t) # <<>>
  BY WorkGives DEF Work
<1>2. /\ TurnsLeft(r, k) = Turns(k, List(r, k))
      /\ TurnsLeft(r, k)' = Turns(k, Rest(t))
      /\ Doing(r, k)
  BY <1>1 DEF TurnsLeft, Doing, List
<1>3. CASE k \in {"ringing", "up"}
  <2>1. Looking(r, k)
    BY <1>2, <1>3 DEF Shaped
  <2>2. Turns(k, Rest(t)) = 0
    BY <1>1, <1>3, <2>1, LookerServed
  <2> QED BY <1>2, <2>2
<1>4. CASE k \in Updates
  <2>1. Updating(r, k, List(r, k))
    BY <1>2, <1>4 DEF Shaped
  <2> QED BY <1>1, <1>2, <1>4, <2>1, UpdaterServed
<1>5. CASE k = "hangup"
  <2>1. PICK m \in Mapped : Routing(r, m, List(r, k)) \/ Ending(r, m, List(r, k))
    BY <1>2, <1>5 DEF Shaped, HangingUp
  <2>2. TypeOK
    BY DEF Inv
  <2> QED BY <1>1, <1>2, <1>5, <2>1, <2>2, RoutingServed, EndingServed
<1> QED BY <1>3, <1>4, <1>5 DEF Handlers, Updates

\* A handler that is not served keeps its turns.
LEMMA KeptTurns ==
  ASSUME NEW r \in Requests, NEW k \in Handlers, Untouched(<<r, k>>),
         TurnsLeft(r, k)' > 0
  PROVE  Doing(r, k) /\ TurnsLeft(r, k) = TurnsLeft(r, k)'
<1>1. Doing(r, k)'
  BY DEF TurnsLeft
<1>2. task'[<<r, k>>] = task[<<r, k>>]
  BY <1>1 DEF Untouched, Doing
<1> QED BY <1>1, <1>2 DEF TurnsLeft, Doing, List

\* Who updates the record with an intermediate status does so soon.
LEMMA FewTurns ==
  ASSUME NEW r \in Requests, Shaped(r),
         NEW k \in {"ringing", "up", "callstart", "playing"}
  PROVE  TurnsLeft(r, k) <= 4
<1>1. CASE k \in {"ringing", "up"}
  BY <1>1 DEF TurnsLeft, Turns
<1>2. CASE k \in Updates /\ Doing(r, k)
  <2>1. PICK n \in 1..7 : List(r, k) = Left(Program(r, k), n)
    BY <1>2 DEF Shaped, Updating
  <2>2. Program(r, k) \in Seq(Hops) /\ Len(Program(r, k)) = 7
    BY <1>2, ProgramLayout
  <2>3. Turns(k, List(r, k)) = IF n <= 4 THEN 5 - n ELSE 0
    BY <1>2, <2>1, <2>2, UpdateTurns
  <2> QED BY <1>2, <2>3 DEF TurnsLeft
<1>3. CASE ~Doing(r, k)
  BY <1>3 DEF TurnsLeft
<1> QED BY <1>1, <1>2, <1>3 DEF Updates

\* The handlers that are compared.
LEMMA FollowsAre ==
  ASSUME NEW p \in Follows
  PROVE  /\ p[1] \in {"ringing", "up", "callstart", "playing"}
         /\ p[2] \in {"callstart", "complete", "hangup"}
         /\ p[1] \in {"ringing", "up"} => p[2] = "callstart"
         /\ p[1] \in {"callstart", "playing"} => p[2] \in {"complete", "hangup"}
         /\ p[1] # p[2]
BY DEF Follows

\* A handler is started by an event that comes before the other one.
LEMMA StartsFirst ==
  ASSUME Inv, NEW r \in Requests, NEW p \in Follows, Triggered(r, p[1])
  PROVE  ~Doing(r, p[2])
<1>1. /\ p[1] = "ringing" => call[r] = "dialing"
      /\ p[1] = "up" => call[r] \in {"dialing", "ringing"}
      /\ p[1] = "callstart" => call[r] = "up"
      /\ p[1] = "playing" => call[r] = "dialplan"
  BY FollowsAre DEF Triggered
<1>2. p[2] \notin Started(call[r])
  BY <1>1, FollowsAre DEF Started
<1>3. p[2] \in Handlers
  BY FollowsAre DEF Handlers
<1> QED BY <1>2, <1>3 DEF Inv, HandlersFollowCall, Doing

\* Round robin keeps who precedes whom.
LEMMA PrecedesKept ==
  ASSUME Inv, Inv', [Next]_vars, ~Crash, Queued,
         NEW r \in Requests, Shaped(r), InTurn(r), NEW p \in Follows
  PROVE  Precedes(r, p[1], p[2])'
<1> DEFINE k == p[1]
           l == p[2]
           a == <<r, k>>
           b == <<r, l>>
<1>0. /\ k \in Handlers \ {"response"} /\ l \in Handlers \ {"response"}
      /\ k \in {"ringing", "up", "callstart", "playing"}
      /\ l \in Updates \union {"hangup"}
  BY FollowsAre DEF Handlers, Updates
<1>1. /\ a \in Tasks /\ b \in Tasks /\ a # b
      /\ a[1] = r /\ a[2] = k /\ b[1] = r /\ b[2] = l
  BY <1>0, FollowsAre, TaskNames
<1> HIDE DEF k, l
<1> SUFFICES ASSUME TurnsLeft(r, k)' > 0, TurnsLeft(r, l)' > 0
             PROVE  \/ TurnsLeft(r, k)' < TurnsLeft(r, l)'
                    \/ /\ TurnsLeft(r, k)' = TurnsLeft(r, l)'
                       /\ Ahead(dbq', a, b)
  BY DEF Precedes, k, l
<1> HIDE DEF a, b
<1>2. /\ TurnsLeft(r, k) \in Nat /\ TurnsLeft(r, k)' \in Nat
      /\ TurnsLeft(r, l) \in Nat /\ TurnsLeft(r, l)' \in Nat
  <2>1. TypeOK /\ TypeOK'
    BY DEF Inv
  <2>2. TurnsLeft(r, k) \in Nat /\ TurnsLeft(r, l) \in Nat
    BY <1>0, <2>1, TurnsNatural
  <2>3. TurnsLeft(r, k)' \in Nat /\ TurnsLeft(r, l)' \in Nat
    BY <1>0, <2>1, TurnsNatural
  <2> QED BY <2>2, <2>3
<1>3. TurnsLeft(r, k) > 0 /\ TurnsLeft(r, l) > 0 =>
        \/ TurnsLeft(r, k) < TurnsLeft(r, l)
        \/ TurnsLeft(r, k) = TurnsLeft(r, l) /\ Ahead(dbq, a, b)
  BY DEF InTurn, Precedes, k, l, a, b
<1>4. /\ Untouched(a) => Doing(r, k) /\ TurnsLeft(r, k) = TurnsLeft(r, k)'
      /\ Untouched(b) => Doing(r, l) /\ TurnsLeft(r, l) = TurnsLeft(r, l)'
  BY <1>0, KeptTurns DEF a, b
<1>5. dbq \in Seq(Tasks) /\ (dbq # <<>> => Tail(dbq) \in Seq(Tasks))
  BY DEF Inv, TypeOK
<1>6. Doing(r, k) => InQueue(dbq, a)
  BY <1>1 DEF Queued, Doing, a
<1>7. CASE Idles
  <2>1. Untouched(a) /\ Untouched(b) /\ dbq' = dbq
    BY <1>1, <1>7 DEF Idles
  <2> QED BY <1>2, <1>3, <1>4, <2>1
<1>8. ASSUME NEW t \in Tasks, Joins(t)
      PROVE  \/ TurnsLeft(r, k)' < TurnsLeft(r, l)'
             \/ TurnsLeft(r, k)' = TurnsLeft(r, l)' /\ Ahead(dbq', a, b)
  <2>1. /\ dbq' = Append(dbq, t)
        /\ a # t => Untouched(a)
        /\ b # t => Untouched(b)
    BY <1>1, <1>8 DEF Joins, OnlyTask
  <2>2. CASE t = a
    <3>1. Triggered(r, k)
      BY <1>0, <1>1, <1>8, <2>2 DEF Joins
    <3>2. ~Doing(r, l)
      BY <3>1, StartsFirst DEF k, l
    <3> QED BY <1>1, <1>4, <2>1, <2>2, <3>2
  <2>3. CASE t = b
    <3>1. TurnsLeft(r, l)' >= 4
      <4>1. Joins(<<r, l>>)
        BY <1>8, <2>3 DEF b
      <4>2. TurnsLeft(r, l)' = 4 \/ TurnsLeft(r, l)' = 9
        BY <1>0, <4>1, StartTurns
      <4> QED BY <4>2
    <3>2. Doing(r, k) /\ TurnsLeft(r, k)' = TurnsLeft(r, k)
      BY <1>1, <1>4, <2>1, <2>3
    <3>3. TurnsLeft(r, k) <= 4
      BY <1>0, FewTurns
    <3>4. Ahead(dbq', a, b)
      BY <1>5, <1>6, <2>1, <2>3, <3>2, QueueGrows
    <3> QED BY <1>2, <3>1, <3>2, <3>3, <3>4
  <2>4. CASE t # a /\ t # b
    <3>1. Ahead(dbq, a, b) => Ahead(dbq', a, b)
      BY <1>5, <2>1, QueueGrows
    <3> QED BY <1>2, <1>3, <1>4, <2>1, <2>4, <3>1
  <2> QED BY <2>2, <2>3, <2>4
<1>9. ASSUME NEW t \in Tasks, Serving(t), OnlyTask(t),
             \/ dbq' = Tail(dbq) /\ t # a /\ t # b
             \/ dbq' = Append(Tail(dbq), t) /\ (t \in {a, b} => Work(t))
      PROVE  \/ TurnsLeft(r, k)' < TurnsLeft(r, l)'
             \/ TurnsLeft(r, k)' = TurnsLeft(r, l)' /\ Ahead(dbq', a, b)
  <2>1. /\ a # t => Untouched(a)
        /\ b # t => Untouched(b)
        /\ dbq # <<>> /\ t = Head(dbq)
    BY <1>1, <1>9 DEF OnlyTask, Serving
  <2>2. CASE t = a
    <3>1. Work(<<r, k>>)
      BY <1>9, <2>2 DEF a
    <3>2. TurnsLeft(r, k) = TurnsLeft(r, k)' + 1
      BY <1>0, <3>1, ServedTurns
    <3>3. TurnsLeft(r, l) = TurnsLeft(r, l)'
      BY <1>1, <1>4, <2>1, <2>2
    <3> QED BY <1>2, <1>3, <3>2, <3>3
  <2>3. CASE t = b
    <3>1. Work(<<r, l>>) /\ dbq' = Append(Tail(dbq), t)
      BY <1>9, <2>3 DEF b
    <3>2. TurnsLeft(r, l) = TurnsLeft(r, l)' + 1
      BY <1>0, <3>1, ServedTurns
    <3>3. Doing(r, k) /\ TurnsLeft(r, k) = TurnsLeft(r, k)'
      BY <1>1, <1>4, <2>1, <2>3
    <3>4. ~Ahead(dbq, a, b)
      BY <1>9, <2>3, ServedFirst
    <3>5. InQueue(Tail(dbq), a)
      BY <1>1, <1>5, <1>6, <2>1, <2>3, <3>3, QueueShrinks
    <3>6. Ahead(dbq', a, b)
      BY <1>5, <2>1, <2>3, <3>1, <3>5, QueueGrows
    <3> QED BY <1>2, <1>3, <3>2, <3>3, <3>4, <3>6
  <2>4. CASE t # a /\ t # b
    <3>1. Ahead(dbq, a, b) => Ahead(Tail(dbq), a, b)
      BY <1>5, <2>1, <2>4, QueueShrinks
    <3>2. Ahead(Tail(dbq), a, b) => Ahead(dbq', a, b)
      <4>1. dbq' = Tail(dbq) \/ dbq' = Append(Tail(dbq), t)
        BY <1>9
      <4>2. Tail(dbq) \in Seq(Tasks)
        BY <1>5, <2>1
      <4>3. Ahead(Tail(dbq), a, b) => Ahead(Append(Tail(dbq), t), a, b)
        BY <4>2, QueueGrows
      <4> QED BY <4>1, <4>3
    <3> QED BY <1>2, <1>3, <1>4, <2>1, <2>4, <3>1, <3>2
  <2> QED BY <2>2, <2>3, <2>4
<1>10. ASSUME NEW t \in Tasks, GoesOn(t)
       PROVE  \/ TurnsLeft(r, k)' < TurnsLeft(r, l)'
              \/ TurnsLeft(r, k)' = TurnsLeft(r, l)' /\ Ahead(dbq', a, b)
  <2>1. t \in {a, b} => Work(t)
    BY <1>0, <1>1, <1>10 DEF GoesOn
  <2>2. Serving(t) /\ OnlyTask(t) /\ dbq' = Append(Tail(dbq), t)
    BY <1>10 DEF GoesOn
  <2> QED BY <1>9, <2>1, <2>2
<1>11. ASSUME NEW t \in Tasks, Quits(t)
       PROVE  \/ TurnsLeft(r, k)' < TurnsLeft(r, l)'
              \/ TurnsLeft(r, k)' = TurnsLeft(r, l)' /\ Ahead(dbq', a, b)
  <2>1. /\ Serving(t) /\ OnlyTask(t) /\ dbq' = Tail(dbq)
        /\ task'[t].st # "db"
    BY <1>11 DEF Quits
  <2>2. t # a /\ t # b
    <3>1. task'[a].st = "db" /\ task'[b].st = "db"
      BY DEF TurnsLeft, Doing, a, b
    <3> QED BY <2>1, <3>1
  <2> QED BY <1>9, <2>1, <2>2
<1> QED BY <1>7, <1>8, <1>10, <1>11, QueueMoves

-----------------------------------------------------------------------------
(* What a step does to one coroutine, and to its call *)

\* A coroutine that waits after a step waited before, was served, or begins.
LEMMA TaskMoves ==
  ASSUME Inv, [Next]_vars, NEW u \in Tasks, task'[u].st = "db"
  PROVE  /\ ~Crash
         /\ task'[u] = task[u] \/ Joins(u) \/ GoesOn(u)
<1>1. ~Crash
  <2>1. SUFFICES ASSUME Crash PROVE FALSE
    OBVIOUS
  <2>2. task'[u] = IF task[u].st = "idle" THEN task[u] ELSE Fresh("done")
    BY <2>1 DEF Crash
  <2>3. Fresh("done").st = "done"
    BY DEF Fresh, Coroutine
  <2>4. task'[u].st \in {"idle", "done"}
    BY <2>2, <2>3
  <2> QED BY <2>4
<1>2. Untouched(u) => task'[u] = task[u]
  BY DEF Untouched
<1>3. CASE Idles
  BY <1>1, <1>2, <1>3 DEF Idles
<1>4. ASSUME NEW t \in Tasks, Joins(t) \/ GoesOn(t) \/ Quits(t), t # u
      PROVE  task'[u] = task[u]
  <2>1. Untouched(u)
    BY <1>4 DEF Joins, GoesOn, Quits, OnlyTask
  <2> QED BY <1>2, <2>1
<1>5. ~Quits(u)
  BY DEF Quits
<1> QED BY <1>1, <1>3, <1>4, <1>5, QueueMoves

\* An event handler that waits was started before, or is by an event.
LEMMA HandlerStarts ==
  ASSUME Inv, [Next]_vars, NEW r \in Requests,
         NEW k \in Handlers, Doing(r, k)'
  PROVE  Doing(r, k) \/ Triggered(r, k)
<1> DEFINE u == <<r, k>>
<1>1. u \in Tasks /\ u[1] = r /\ u[2] = k /\ task'[u].st = "db"
  BY TaskNames DEF Doing
<1>2. task'[u] = task[u] \/ Joins(u) \/ GoesOn(u)
  BY <1>1, TaskMoves
<1>3. CASE task'[u] = task[u]
  BY <1>1, <1>3 DEF Doing
<1>4. CASE Joins(u)
  BY <1>1, <1>4 DEF Joins
<1>5. CASE GoesOn(u)
  <2>1. task[u].st = "db"
    BY <1>5, Served DEF GoesOn
  <2> QED BY <2>1 DEF Doing
<1> QED BY <1>2, <1>3, <1>4, <1>5

\* A reason is a final status, or that of an answer.
LEMMA ReasonsFinal == \A reason : ReasonStatus(reason) \in Terminal \union {"answered"}
BY DEF ReasonStatus, Terminal, Retryable

\* An OriginateResponse is due when the call is answered or refused, once.
LEMMA DueMoves ==
  ASSUME Inv, [Next]_vars, NEW q \in Requests
  PROVE  \/ due'[q] = due[q]
         \/ due[q] # "no" /\ due'[q] = "no"
         \/ /\ call[q] \in {"dialing", "ringing"} /\ call'[q] = "up"
            /\ due'[q] = "answered"
         \/ /\ call[q] \in {"dialing", "ringing"} /\ call'[q] = "refused"
            /\ due'[q] \in Terminal \union {"answered"}
<1>0. /\ due \in [Requests -> Statuses \union {"no"}]
      /\ call \in [Requests -> Phases]
  BY DEF Inv, TypeOK
<1>1. CASE UNCHANGED vars \/ Startup \/ Disconnect \/ Reconnect \/ Crash
  <2>1. UNCHANGED due
    BY <1>1 DEF vars, asterisk, Startup, Disconnect, Reconnect, Crash
  <2> QED BY <2>1
<1>2. ASSUME NEW t \in Tasks, Serve(t) \/ Fault(t)
      PROVE  UNCHANGED due
  BY <1>2, ServeMoves DEF GoesOn, Quits, asterisk
<1>3. ASSUME NEW r \in Requests, Http(r) \/ Execution(r)
      PROVE  UNCHANGED due
  BY <1>3 DEF Http, Submit, SubmitRetry, Execution, Acquire, Originate,
     OriginateNotAccepted, OriginateTimeout, asterisk
<1>4. ASSUME NEW r \in Requests, Respond(r)
      PROVE  due'[q] = due[q] \/ (due[q] # "no" /\ due'[q] = "no")
  <2>1. due[r] # "no" /\ due' = [due EXCEPT ![r] = "no"]
    BY <1>4 DEF Respond
  <2> QED BY <1>0, <2>1
<1>5. ASSUME NEW r \in Requests, Progress(r)
      PROVE  \/ due'[q] = due[q]
             \/ /\ call[q] \in {"dialing", "ringing"} /\ call'[q] = "up"
                /\ due'[q] = "answered"
             \/ /\ call[q] \in {"dialing", "ringing"} /\ call'[q] = "refused"
                /\ due'[q] \in Terminal \union {"answered"}
  <2>1. CASE Answer(r)
    BY <1>0, <2>1 DEF Answer
  <2>2. CASE Refuse(r)
    <3>1. PICK reason \in Reasons :
                 due' = [due EXCEPT ![r] = ReasonStatus(reason)]
      BY <2>2 DEF Refuse
    <3>2. /\ call[r] \in {"dialing", "ringing"}
          /\ call' = [call EXCEPT ![r] = "refused"]
      BY <2>2 DEF Refuse
    <3> QED BY <1>0, <3>1, <3>2, ReasonsFinal
  <2>3. CASE ~Answer(r) /\ ~Refuse(r)
    BY <1>5, <2>3 DEF Progress, Ring, StartDialplan, StartPlayback,
       FinishPlayback, HangUp, Drop
  <2> QED BY <2>1, <2>2, <2>3
<1>6. CASE \E r \in Requests : Http(r) \/ Execution(r) \/ Progress(r) \/ Respond(r)
  BY <1>3, <1>4, <1>5, <1>6
<1>7. CASE \E t \in Tasks : Serve(t) \/ Fault(t)
  BY <1>2, <1>7
<1> QED BY <1>1, <1>6, <1>7 DEF Next

\* A call is dialled by its Originate, and refused before it is answered.
LEMMA CallStarts ==
  ASSUME Inv, [Next]_vars, NEW q \in Requests
  PROVE  /\ call[q] = "none" =>
              \/ call'[q] = "none"
              \/ call'[q] = "dialing" /\ task'[<<q, "exec">>].st = "wait"
         /\ call'[q] = "finished" => call[q] \in {"played", "finished"}
         /\ call'[q] = "refused" => call[q] \in {"dialing", "ringing", "refused"}
         /\ call'[q] = "dropped" =>
              call[q] \in {"up", "dialplan", "playing", "dropped"}
         /\ call'[q] = "none" => call[q] = "none"
<1>0. call \in [Requests -> Phases] /\ task \in [Tasks -> TaskRecords]
  BY DEF Inv, TypeOK
<1>1. CASE UNCHANGED vars \/ Startup \/ Disconnect \/ Reconnect \/ Crash
  <2>1. UNCHANGED call
    BY <1>1 DEF vars, asterisk, Startup, Disconnect, Reconnect, Crash
  <2> QED BY <2>1
<1>2. ASSUME NEW t \in Tasks, Serve(t) \/ Fault(t)
      PROVE  UNCHANGED call
  BY <1>2, ServeMoves DEF GoesOn, Quits, asterisk
<1>3. ASSUME NEW r \in Requests, Http(r) \/ Respond(r)
      PROVE  UNCHANGED call
  BY <1>3 DEF Http, Submit, SubmitRetry, Respond, asterisk
<1>4. ASSUME NEW r \in Requests, Execution(r)
      PROVE  \/ UNCHANGED call
             \/ /\ call' = [call EXCEPT ![r] = "dialing"]
                /\ task'[<<r, "exec">>].st = "wait"
  <2>1. CASE Originate(r)
    <3>1. /\ task' = [task EXCEPT ![<<r, "exec">>] = Fresh("wait")]
          /\ call' = [call EXCEPT ![r] = "dialing"]
          /\ <<r, "exec">> \in Tasks /\ Fresh("wait").st = "wait"
      BY <2>1, TaskNames DEF Originate, Fresh, Coroutine
    <3> QED BY <1>0, <3>1
  <2>2. CASE ~Originate(r)
    BY <1>4, <2>2 DEF Execution, Acquire, OriginateNotAccepted,
       OriginateTimeout, asterisk
  <2> QED BY <2>1, <2>2
<1>5. ASSUME NEW r \in Requests, Progress(r)
      PROVE  \E phase \in Phases :
               /\ call' = [call EXCEPT ![r] = phase] /\ call[r] # "none"
               /\ phase = "refused" => call[r] \in {"dialing", "ringing"}
               /\ phase = "dropped" => call[r] \in {"up", "dialplan", "playing"}
               /\ phase = "finished" => call[r] = "played"
               /\ phase # "none"
  BY <1>5 DEF Progress, Ring, Answer, StartDialplan, StartPlayback,
     FinishPlayback, HangUp, Drop, Refuse, Phases
<1>6. ASSUME NEW r \in Requests, Execution(r)
      PROVE  /\ call[q] = "none" =>
                  \/ call'[q] = "none"
                  \/ call'[q] = "dialing" /\ task'[<<q, "exec">>].st = "wait"
             /\ call'[q] = "finished" => call[q] = "finished"
             /\ call'[q] = "refused" => call[q] = "refused"
             /\ call'[q] = "dropped" => call[q] = "dropped"
             /\ call'[q] = "none" => call[q] = "none"
  BY <1>0, <1>4, <1>6
<1>7. ASSUME NEW r \in Requests, Progress(r)
      PROVE  /\ call[q] = "none" => call'[q] = "none"
             /\ call'[q] = "finished" => call[q] \in {"played", "finished"}
             /\ call'[q] = "refused" =>
                  call[q] \in {"dialing", "ringing", "refused"}
             /\ call'[q] = "dropped" =>
                  call[q] \in {"up", "dialplan", "playing", "dropped"}
             /\ call'[q] = "none" => call[q] = "none"
  <2>1. PICK phase \in Phases :
               /\ call' = [call EXCEPT ![r] = phase] /\ call[r] # "none"
               /\ phase = "refused" => call[r] \in {"dialing", "ringing"}
               /\ phase = "dropped" => call[r] \in {"up", "dialplan", "playing"}
               /\ phase = "finished" => call[r] = "played"
               /\ phase # "none"
    BY <1>5, <1>7
  <2> QED BY <1>0, <2>1
<1>8. CASE \E r \in Requests : Http(r) \/ Execution(r) \/ Progress(r) \/ Respond(r)
  BY <1>3, <1>6, <1>7, <1>8
<1>9. CASE \E t \in Tasks : Serve(t) \/ Fault(t)
  BY <1>2, <1>9
<1> QED BY <1>1, <1>8, <1>9 DEF Next

\* A refused call stays so, and none of its handlers begins to update it with
\* an intermediate status.
LEMMA ReportedKept ==
  ASSUME Inv, [Next]_vars, NEW r \in Requests, Reported(r)
  PROVE  Reported(r)'
<1>1. call[r] = "refused" => call'[r] = "refused"
  BY CallMoves DEF CallEnded
<1>2. ASSUME call'[r] = "refused", NEW k \in Updates, Doing(r, k)'
      PROVE  FALSE
  <2>1. call[r] \in {"dialing", "ringing", "refused"} /\ k \in Handlers
    BY <1>2, CallStarts DEF Handlers, Updates
  <2>2. ~Triggered(r, k)
    BY <1>2, <2>1 DEF Triggered, Updates
  <2>3. Doing(r, k)
    BY <1>2, <2>1, <2>2, HandlerStarts
  <2>4. k \in Started(call[r])
    BY <2>1, <2>3 DEF Inv, HandlersFollowCall, Doing
  <2>5. call[r] = "refused"
    BY <1>2, <2>1, <2>4 DEF Started, Updates
  <2> QED BY <2>3, <2>5 DEF Reported
<1>3. due'[r] \notin {"no", "answered"} =>
        call'[r] = "refused" /\ due'[r] \in Terminal
  BY <1>1, DueMoves DEF Reported
<1> QED BY <1>2, <1>3 DEF Reported

-----------------------------------------------------------------------------
(* Lists that close a call *)

\* add_event records no status.
LEMMA ClosingEvent ==
  ASSUME NEW r \in Requests, NEW e \in EventNames
  PROVE  AddEvent(r, e) \in Seq(Closing) /\ ~WritesStatus(AddEvent(r, e))
<1> DEFINE a == Hop("log", r, e)
           b == Hop("commit", r, NoArg)
<1>1. a \in Hops /\ b \in Hops
  BY HopTypes DEF NoArg
<1>2. a.op = "log" /\ b.op = "commit"
  BY HopFields
<1>3. AddEvent(r, e) = <<a, b>>
  BY DEF AddEvent, NoArg
<1> HIDE DEF a, b
<1>4. a \in Closing /\ b \in Closing
  BY <1>1, <1>2 DEF Closing
<1>5. <<a, b>> \in Seq(Closing)
  BY <1>4, Lists
<1>6. ~WritesStatus(<<a, b>>)
  <2>1. \A i \in 1..Len(<<a, b>>) : i = 1 \/ i = 2
    OBVIOUS
  <2>2. <<a, b>>[1] = a /\ <<a, b>>[2] = b
    OBVIOUS
  <2> QED BY <1>2, <2>1, <2>2 DEF WritesStatus
<1> QED BY <1>3, <1>5, <1>6

\* update_call_status with a final status.
LEMMA ClosingUpdate ==
  ASSUME NEW r \in Requests, NEW s \in Terminal
  PROVE  Update(r, s) \in Seq(Closing)
<1> DEFINE a == Hop("select", r, NoArg)
           b == Hop("fetch", r, NoArg)
           c == Hop("guard", r, s)
           d == Hop("write", r, s)
           e == Hop("commit", r, NoArg)
<1>1. s \in Statuses
  BY DEF Statuses
<1>2. a \in Hops /\ b \in Hops /\ c \in Hops /\ d \in Hops /\ e \in Hops
  BY <1>1, HopTypes DEF NoArg
<1>3. /\ a.op = "select" /\ b.op = "fetch" /\ c.op = "guard"
      /\ d.op = "write" /\ d.arg = s /\ e.op = "commit"
  BY HopFields
<1>4. Update(r, s) = <<a, b, c, d, e>>
  BY DEF Update, UpdateVia, NoArg
<1> HIDE DEF a, b, c, d, e
<1>5. a \in Closing /\ b \in Closing /\ c \in Closing /\ d \in Closing /\ e \in Closing
  BY <1>2, <1>3 DEF Closing
<1>6. <<a, b, c, d, e>> \in Seq(Closing)
  BY <1>5, Lists
<1> QED BY <1>4, <1>6

\* _execute_call reports a failure.
LEMMA ClosingFailed ==
  ASSUME NEW r \in Requests
  PROVE  OnFailed(r) \in Seq(Closing)
<1>1. /\ Update(r, "failed") \in Seq(Closing)
      /\ AddEvent(r, "failed") \in Seq(Closing)
  BY ClosingUpdate, ClosingEvent DEF Terminal, Retryable, EventNames
<1> QED BY <1>1, Lists DEF OnFailed

\* An OriginateResponse is recorded with a final status, or as an event only.
LEMMA ClosingResponse ==
  ASSUME NEW r \in Requests, NEW s \in Terminal \union {"answered"}
  PROVE  /\ OnOriginateResponse(r, s) \in Seq(Closing)
         /\ s = "answered" => ~WritesStatus(OnOriginateResponse(r, s))
<1> DEFINE a == AddEvent(r, "originate_response")
<1>1. a \in Seq(Closing) /\ ~WritesStatus(a)
  BY ClosingEvent DEF EventNames
<1>2. CASE s = "answered"
  <2>1. OnOriginateResponse(r, s) = a \o <<>>
    BY <1>2 DEF OnOriginateResponse
  <2> HIDE DEF a
  <2>2. a \o <<>> = a
    BY <1>1
  <2> QED BY <1>1, <2>1, <2>2
<1>3. CASE s # "answered"
  <2>1. OnOriginateResponse(r, s) = a \o Update(r, s)
    BY <1>3 DEF OnOriginateResponse
  <2>2. Update(r, s) \in Seq(Closing)
    BY <1>3, ClosingUpdate
  <2> HIDE DEF a
  <2> QED BY <1>1, <1>3, <2>1, <2>2, Lists
<1> QED BY <1>2, <1>3

\* What is left of a list that closes a call closes it, and records no status
\* that the whole does not.
LEMMA ClosingRest ==
  ASSUME NEW t, task[t].todo \in Seq(Closing), task[t].todo # <<>>
  PROVE  /\ Rest(t) \in Seq(Closing)
         /\ WritesStatus(Rest(t)) => WritesStatus(task[t].todo)
         /\ Op(t).op # "bind"
         /\ Op(t).op = "write" => /\ Op(t).arg \in Terminal
                                  /\ WritesStatus(task[t].todo)
<1> DEFINE s == task[t].todo
<1> HIDE DEF s
<1>1. s \in Seq(Closing) /\ Len(s) \in Nat /\ Len(s) > 0
  BY DEF s
<1>2. s[1] \in Closing /\ Op(t) = s[1]
  BY <1>1 DEF Op, s
<1>3. Rest(t) = Tail(s) \/ Rest(t) = SubSeq(s, 4, Len(s))
  BY <1>2 DEF Rest, Closing, s
<1>4. /\ Tail(s) \in Seq(Closing) /\ Len(Tail(s)) = Len(s) - 1
      /\ \A i \in 1..Len(Tail(s)) : Tail(s)[i] = s[i + 1]
  BY <1>1
<1>5. /\ SubSeq(s, 4, Len(s)) \in Seq(Closing)
      /\ Len(SubSeq(s, 4, Len(s))) = IF 4 <= Len(s) THEN Len(s) - 3 ELSE 0
      /\ \A i \in 1..Len(s) - 3 : SubSeq(s, 4, Len(s))[i] = s[i + 3]
  BY <1>1
<1>6. WritesStatus(Tail(s)) => WritesStatus(s)
  <2>1. SUFFICES ASSUME NEW i \in 1..Len(Tail(s)), Tail(s)[i].op = "write"
                 PROVE  WritesStatus(s)
    BY DEF WritesStatus
  <2>2. i + 1 \in 1..Len(s) /\ s[i + 1].op = "write"
    BY <1>1, <1>4, <2>1
  <2> QED BY <2>2 DEF WritesStatus
<1>7. WritesStatus(SubSeq(s, 4, Len(s))) => WritesStatus(s)
  <2> DEFINE w == SubSeq(s, 4, Len(s))
  <2> HIDE DEF w
  <2>1. SUFFICES ASSUME NEW i \in 1..Len(w), w[i].op = "write"
                 PROVE  WritesStatus(s)
    BY DEF WritesStatus, w
  <2>2. i + 3 \in 1..Len(s) /\ s[i + 3].op = "write"
    BY <1>1, <1>5, <2>1 DEF w
  <2> QED BY <2>2 DEF WritesStatus
<1>8. s[1].op = "write" => WritesStatus(s)
  <2>1. 1 \in 1..Len(s)
    BY <1>1
  <2> QED BY <2>1 DEF WritesStatus
<1> QED BY <1>2, <1>3, <1>4, <1>5, <1>6, <1>7, <1>8 DEF Closing, s

-----------------------------------------------------------------------------
(* Who writes, and when *)

\* Before the Originate no event of the call has been handled.
LEMMA PreIsFirst ==
  ASSUME Inv, NEW r \in Requests, Doing(r, "exec"),
         task[<<r, "exec">>].part = "pre"
  PROVE  call[r] = "none" /\ \A k \in Handlers : ~Doing(r, k)
<1>1. call[r] = "none"
  BY DEF Inv, DialledOnce, BeforeDialling, Doing
<1>2. Started(call[r]) = {}
  BY <1>1 DEF Started
<1> QED BY <1>1, <1>2 DEF Inv, HandlersFollowCall, Doing

\* A status is written by the coroutines of its call: an intermediate one by
\* the first two updates, whose turn it is, or before the Originate; a final
\* one by the last two, or when nothing else writes any more.
LEMMA Writer ==
  ASSUME Inv, RecordInv, CreationInv, NEW r \in Requests, Shaped(r),
         NEW t, Serving(t), Op(t).op \in {"write", "bind"}, Op(t).on = r
  PROVE  /\ t = <<r, t[2]>>
         /\ \/ /\ t[2] \in {"callstart", "playing"} /\ TurnsLeft(r, t[2]) = 1
               /\ Op(t).arg \notin Terminal
               /\ Op(t).op = "bind" => t[2] = "callstart"
            \/ /\ t[2] \in {"complete", "hangup"} /\ TurnsLeft(r, t[2]) = 1
               /\ Op(t).arg \in Terminal /\ Op(t).op = "write"
               /\ t[2] = "complete" => Op(t).arg = "completed"
            \/ /\ t[2] = "response" /\ call[r] = "refused"
               /\ Op(t).arg \in Terminal /\ Op(t).op = "write"
            \/ /\ t[2] = "exec" /\ Op(t).arg \in Terminal /\ Op(t).op = "write"
               /\ \/ task[t].part = "forward" /\ call[r] = "refused"
                  \/ task[t].part \in {"rejected", "except"} /\ Undisturbed(r)
            \/ /\ t[2] = "exec" /\ task[t].part = "pre"
               /\ Op(t).arg \notin Terminal
               /\ call[r] = "none" /\ \A k \in Handlers : ~Doing(r, k)
         /\ Doing(r, t[2])
<1>1. /\ t[1] \in Requests /\ t[2] \in Kinds /\ t = <<t[1], t[2]>>
      /\ task[t].st = "db" /\ task[t].todo # <<>>
  BY Served
<1>2. t[2] # "api"
  BY <1>1, OpOfHandlers DEF CreationInv
<1>3. t = <<r, t[2]>> /\ Doing(r, t[2])
  BY <1>1, <1>2, OpOfOthers DEF Doing
<1>4. TurnsLeft(r, t[2]) = Turns(t[2], List(r, t[2]))
  BY <1>3 DEF TurnsLeft
<1>5. CASE t[2] \in {"ringing", "up"}
  <2>1. Looking(r, t[2])
    BY <1>3, <1>5 DEF Shaped
  <2> QED BY <1>3, <1>5, <2>1, LookerServed
<1>6. CASE t[2] \in Updates
  <2>1. Updating(r, t[2], List(r, t[2]))
    BY <1>3, <1>6 DEF Shaped
  <2>2. /\ Turns(t[2], List(r, t[2])) = 1
        /\ Op(t).arg \in Terminal <=> t[2] = "complete"
        /\ t[2] = "complete" => Op(t).arg = "completed"
        /\ Op(t).op = "bind" => t[2] = "callstart"
    BY <1>3, <1>6, <2>1, UpdaterServed
  <2> QED BY <1>3, <1>4, <1>6, <2>2 DEF Updates
<1>7. CASE t[2] = "hangup"
  <2>1. PICK m \in Mapped :
               Routing(r, m, List(r, "hangup")) \/ Ending(r, m, List(r, "hangup"))
    BY <1>3, <1>7 DEF Shaped, HangingUp
  <2>2. /\ Turns("hangup", List(r, "hangup")) = 1
        /\ Op(t).arg \in Terminal /\ Op(t).op = "write"
    BY <1>3, <1>7, <2>1, RoutingServed, EndingServed DEF Inv
  <2> QED BY <1>3, <1>4, <1>7, <2>2
<1>8. CASE t[2] = "response"
  <2>1. Answering(r)
    BY <1>3, <1>8 DEF Shaped
  <2>2. task[t].todo \in Seq(Closing) /\ (WritesStatus(task[t].todo) => call[r] = "refused")
    BY <1>3, <1>8, <2>1 DEF Answering, List
  <2>3. /\ Op(t).op # "bind"
        /\ Op(t).op = "write" => /\ Op(t).arg \in Terminal
                                 /\ WritesStatus(task[t].todo)
    BY <1>1, <2>2, ClosingRest
  <2> QED BY <1>3, <1>8, <2>2, <2>3
<1>9. CASE t[2] = "exec" /\ task[t].part # "pre"
  <2>1. ClosingUp(r)
    BY <1>3, <1>9 DEF Shaped
  <2>2. /\ task[t].todo \in Seq(Closing)
        /\ \/ /\ task[t].part = "forward"
              /\ WritesStatus(task[t].todo) => call[r] = "refused"
           \/ /\ task[t].part \in {"rejected", "except"}
              /\ Undisturbed(r)
    BY <1>3, <1>9, <2>1 DEF ClosingUp, List
  <2>3. /\ Op(t).op # "bind"
        /\ Op(t).op = "write" => /\ Op(t).arg \in Terminal
                                 /\ WritesStatus(task[t].todo)
    BY <1>1, <2>2, ClosingRest
  <2> QED BY <1>3, <1>9, <2>2, <2>3
<1>10. CASE t[2] = "exec" /\ task[t].part = "pre"
  <2>1. call[r] = "none" /\ \A k \in Handlers : ~Doing(r, k)
    BY <1>3, <1>10, PreIsFirst
  <2>2. Op(t).arg \notin Terminal
    <3>1. task[t].todo \in Seq(Ready(t, Known))
      BY <1>1, <1>10, Served DEF RecordInv, TrueTasks, Truthful
    <3>2. Op(t) \in Ready(t, Known)
      BY <1>1, <3>1 DEF Op
    <3>3. Op(t).arg \in Terminal => r \in Known.final
      BY <3>2 DEF Ready, TrueStatus
    <3>4. BeforeDialling(<<r, "exec">>)
      BY <1>1, <1>3, <1>10 DEF BeforeDialling
    <3> QED BY <2>1, <3>3, <3>4 DEF Known, Over, CallEnded, PlaysOn
  <2> QED BY <1>1, <1>3, <1>10, <2>1, <2>2
<1>11. t[2] \in {"ringing", "up", "hangup", "response", "exec"} \union Updates
  BY <1>1, <1>2 DEF Kinds, Handlers, Updates
<1> QED BY <1>5, <1>6, <1>7, <1>8, <1>9, <1>10, <1>11

\* Who is served with one turn left is not preceded by anyone.
LEMMA NotPreceded ==
  ASSUME Inv, NEW r \in Requests, InTurn(r), NEW p \in Follows,
         Serving(<<r, p[2]>>), TurnsLeft(r, p[2]) = 1
  PROVE  TurnsLeft(r, p[1]) = 0
<1>1. p[1] \in Handlers /\ TurnsLeft(r, p[1]) \in Nat
  <2>1. p[1] \in Handlers
    BY FollowsAre DEF Handlers
  <2>2. TypeOK
    BY DEF Inv
  <2> QED BY <2>1, <2>2, TurnsNatural
<1>2. ~Ahead(dbq, <<r, p[1]>>, <<r, p[2]>>)
  BY ServedFirst
<1>3. Precedes(r, p[1], p[2])
  BY DEF InTurn
<1> QED BY <1>1, <1>2, <1>3 DEF Precedes

-----------------------------------------------------------------------------
(* The coroutines keep to their lists *)

\* What a statement changes of a record: its status, or that its channel is
\* known, and only if it is a write about it.
LEMMA RowMoves ==
  ASSUME Inv, [Next]_vars, ~Crash, NEW r \in Requests
  PROVE  /\ db'.row[r].bound /\ ~db.row[r].bound =>
              \E t : Serving(t) /\ Op(t).op = "bind" /\ Op(t).on = r
         /\ db'.row[r].status # db.row[r].status =>
              \E t : /\ Serving(t) /\ Op(t).on = r
                     /\ \/ Op(t).op \in {"write", "bind"}
                           /\ db'.row[r].status = Op(t).arg
                        \/ Op(t).op = "insert" /\ db'.row[r].status = "queued"
<1>1. CASE UNCHANGED store
  BY <1>1 DEF store
<1>2. CASE \E t : Serving(t) /\ Execute(t)
  <2>1. PICK t : Serving(t) /\ Execute(t)
    BY <1>2
  <2>2. db' = Effect(Op(t)) /\ db \in Databases /\ task[t].todo # <<>> /\ t \in Tasks
    BY <2>1, Served DEF Execute, Inv, TypeOK
  <2> DEFINE h == Op(t)
  <2>3. h \in Hops
    BY <2>2, HopOfTask DEF Inv
  <2> HIDE DEF h
  <2>4. /\ h.op \notin {"insert", "write", "bind"} \/ h.on # r =>
             /\ Effect(h).row[r].status = db.row[r].status
             /\ Effect(h).row[r].bound = db.row[r].bound
        /\ h.op \in {"write", "bind"} /\ h.on = r => Effect(h).row[r].status = h.arg
        /\ h.op \in {"write", "insert"} /\ h.on = r =>
             Effect(h).row[r].bound = IF h.op = "write" THEN db.row[r].bound ELSE FALSE
        /\ h.op = "insert" /\ h.on = r => Effect(h).row[r].status = "queued"
    BY <2>2, <2>3 DEF Effect, SetRow, Databases, Rows, NoRow
  <2> QED BY <2>1, <2>2, <2>4 DEF h
<1> QED BY <1>1, <1>2, TablesMove

\* A record is only inserted where there is none.
LEMMA InsertsNew ==
  ASSUME Inv, RecordInv, CreationInv, NEW t, Serving(t),
         Op(t).op = "insert", NEW r \in Requests, Op(t).on = r
  PROVE  db.row[r].status = Absent
<1>1. /\ t[1] \in Requests /\ t = <<t[1], t[2]>>
      /\ task[t].st = "db"
  BY Served
<1>2. t[2] = "api"
  BY OpOfOthers
<1>3. t = <<r, "api">>
  BY <1>1, <1>2, OpOfHandlers DEF CreationInv
<1>4. ReadingParent(r) \/ CreatingRecord(r)
  BY <1>1, <1>3 DEF CreationInv, Handled, Busy
<1>5. CASE ReadingParent(r)
  BY <1>5 DEF ReadingParent
<1>6. CASE CreatingRecord(r)
  <2>1. PICK p \in Requests \union {NoRequest} : \E n \in 1..Len(Creation(r, p)) :
               Todo(r) = Left(Creation(r, p), n) /\ Created(r, p, n)
    BY <1>6 DEF CreatingRecord
  <2>2. PICK n \in 1..Len(Creation(r, p)) :
               Todo(r) = Left(Creation(r, p), n) /\ Created(r, p, n)
    BY <2>1
  <2>3. Op(t) = Creation(r, p)[n]
    BY <1>3, <2>2, CreationStep DEF Op, Todo
  <2>4. n = 1
    BY <2>3, CreationOps
  <2> QED BY <2>2, <2>4 DEF Created
<1> QED BY <1>4, <1>5, <1>6

\* A handler of Newstate finds no call by its channel, because the lookup comes
\* before the channel is stored.
LEMMA LookingKept ==
  ASSUME Inv, RecordInv, CreationInv, [Next]_vars,
         NEW r \in Requests, Shaped(r), InTurn(r),
         NEW k \in {"ringing", "up"}, Doing(r, k)'
  PROVE  Looking(r, k)'
<1> DEFINE u == <<r, k>>
           P == OnNewState(r, NewState(k))
<1>0. /\ u \in Tasks /\ u[1] = r /\ u[2] = k /\ task'[u].st = "db"
      /\ k \in Handlers
  BY TaskNames DEF Doing, Handlers
<1>1. ~Crash /\ (task'[u] = task[u] \/ Joins(u) \/ GoesOn(u))
  BY <1>0, TaskMoves
<1>2. P \in Seq(Hops) /\ Len(P) = 10
  BY NewStateLayout DEF NewState
<1> HIDE DEF u, P
<1>3. CASE task'[u] = task[u]
  <2>1. Doing(r, k)
    BY <1>0, <1>3 DEF Doing, u
  <2>2. PICK n \in 1..3 : /\ task[u].todo = Left(P, n)
                          /\ n = 1 => ~db.row[r].bound
                          /\ n > 1 => task[u].seen = Absent
    BY <2>1 DEF Shaped, Looking, List, u, P
  <2>3. ASSUME n = 1, db'.row[r].bound
        PROVE  FALSE
    <3>1. PICK t : Serving(t) /\ Op(t).op = "bind" /\ Op(t).on = r
      BY <1>1, <2>2, <2>3, RowMoves
    <3>2. t = <<r, "callstart">> /\ TurnsLeft(r, "callstart") = 1
      BY <1>0, <2>1, <3>1, Writer
    <3>3. <<k, "callstart">> \in Follows
      BY DEF Follows
    <3>4. TurnsLeft(r, k) = 0
      <4> DEFINE p == <<k, "callstart">>
      <4>1. p \in Follows /\ p[1] = k /\ p[2] = "callstart"
        BY <3>3
      <4> HIDE DEF p
      <4>2. Serving(<<r, p[2]>>) /\ TurnsLeft(r, p[2]) = 1
        BY <3>1, <3>2, <4>1
      <4> QED BY <4>1, <4>2, NotPreceded
    <3>5. Turns(k, Left(P, 1)) = 1
      BY <1>2, LookTurns
    <3> QED BY <2>1, <2>2, <2>3, <3>4, <3>5 DEF TurnsLeft, List, u
  <2>4. /\ task'[u].todo = Left(P, n) /\ (n = 1 => ~db'.row[r].bound)
        /\ n > 1 => task'[u].seen = Absent
    BY <1>3, <2>2, <2>3
  <2> QED BY <2>4 DEF Looking, List, u, P
<1>4. CASE Joins(u)
  <2>1. Triggered(r, k) /\ UNCHANGED store
    BY <1>0, <1>4 DEF Joins
  <2>2. call[r] \in {"dialing", "ringing"} /\ task'[u].todo = P
    BY <2>1 DEF Triggered, List, u, P
  <2>3. ~db.row[r].bound
    <3>1. db.row[r].bound => r \in Known.picked
      BY DEF RecordInv, TrueTables, TrueRow
    <3> QED BY <2>2, <3>1 DEF Known, PickedUp
  <2>4. task'[u].todo = Left(P, 1) /\ ~db'.row[r].bound
    BY <1>2, <2>1, <2>2, <2>3, LeftEnds DEF store
  <2> QED BY <2>4 DEF Looking, List, u, P
<1>5. CASE GoesOn(u)
  <2>1. Work(u)
    BY <1>0, <1>5 DEF GoesOn
  <2>2. /\ task[u].st = "db" /\ task'[u].todo = Rest(u) /\ task'[u].seen = Seen(u)
        /\ Rest(u) # <<>>
    BY <2>1, WorkGives DEF Work
  <2>3. Looking(r, k)
    BY <2>2 DEF Shaped, Doing, u
  <2>4. (\E n \in 2..3 : Rest(u) = Left(P, n)) /\ Seen(u) = Absent
    BY <2>2, <2>3, LookerServed DEF u, P
  <2>5. PICK n \in 2..3 : task'[u].todo = Left(P, n) /\ task'[u].seen = Absent
    BY <2>2, <2>4
  <2>6. n \in 1..3 /\ n # 1
    OBVIOUS
  <2> QED BY <2>5, <2>6 DEF Looking, List, u, P
<1> QED BY <1>1, <1>3, <1>4, <1>5

\* A handler that updates the record keeps to its program.
LEMMA UpdatingKept ==
  ASSUME Inv, [Next]_vars, NEW r \in Requests, Shaped(r),
         NEW k \in Updates, Doing(r, k)'
  PROVE  Updating(r, k, List(r, k)')
<1> DEFINE u == <<r, k>>
<1>0. /\ u \in Tasks /\ u[1] = r /\ u[2] = k /\ task'[u].st = "db"
      /\ k \in Handlers
  BY TaskNames DEF Doing, Handlers, Updates
<1>1. task'[u] = task[u] \/ Joins(u) \/ GoesOn(u)
  BY <1>0, TaskMoves
<1>2. Doing(r, k) => Updating(r, k, List(r, k))
  BY DEF Shaped
<1>3. CASE task'[u] = task[u]
  BY <1>0, <1>2, <1>3 DEF Doing, List
<1>4. CASE Joins(u)
  <2>1. List(r, k)' = Program(r, k)
    BY <1>0, <1>4 DEF Joins, Triggered, Updates
  <2>2. Program(r, k) = Left(Program(r, k), 1)
    BY ProgramLayout, LeftEnds
  <2> QED BY <2>1, <2>2 DEF Updating
<1>5. CASE GoesOn(u)
  <2>1. Work(u)
    BY <1>0, <1>5 DEF GoesOn
  <2>2. /\ task[u].st = "db" /\ task'[u].todo = Rest(u) /\ Rest(u) # <<>>
    BY <2>1, WorkGives DEF Work
  <2>3. Updating(r, k, List(r, k))
    BY <1>2, <2>2 DEF Doing
  <2>4. Updating(r, k, Rest(u))
    BY <2>2, <2>3, UpdaterServed
  <2> QED BY <2>2, <2>4 DEF List
<1> QED BY <1>1, <1>3, <1>4, <1>5

\* So does the handler of a Hangup.
LEMMA HangingUpKept ==
  ASSUME Inv, [Next]_vars, NEW r \in Requests, Shaped(r),
         Doing(r, "hangup")'
  PROVE  \E m \in Mapped : HangingUp(r, m, List(r, "hangup")')
<1> DEFINE u == <<r, "hangup">>
<1>0. /\ u \in Tasks /\ u[1] = r /\ u[2] = "hangup" /\ task'[u].st = "db"
      /\ u[2] \in Handlers
  BY TaskNames DEF Doing, Handlers
<1>1. task'[u] = task[u] \/ Joins(u) \/ GoesOn(u)
  BY <1>0, TaskMoves
<1>2. Doing(r, "hangup") =>
        \E m \in Mapped : HangingUp(r, m, List(r, "hangup"))
  BY DEF Shaped
<1>3. CASE task'[u] = task[u]
  BY <1>0, <1>2, <1>3 DEF Doing, List
<1>4. CASE Joins(u)
  <2>1. PICK m \in Mapped : List(r, "hangup")' = OnHangup(r, m)
    BY <1>0, <1>4 DEF Joins, Triggered
  <2>2. OnHangup(r, m) = Left(OnHangup(r, m), 1)
    BY HangupLayout, LeftEnds
  <2> QED BY <2>1, <2>2 DEF HangingUp, Routing
<1>5. CASE GoesOn(u)
  <2>1. Work(u)
    BY <1>0, <1>5 DEF GoesOn
  <2>2. /\ task[u].st = "db" /\ task'[u].todo = Rest(u) /\ Rest(u) # <<>>
    BY <2>1, WorkGives DEF Work
  <2>3. PICK m \in Mapped :
               Routing(r, m, List(r, "hangup")) \/ Ending(r, m, List(r, "hangup"))
    BY <1>2, <2>2 DEF Doing, HangingUp
  <2>4. HangingUp(r, m, Rest(u))
    BY <2>2, <2>3, RoutingServed, EndingServed DEF Inv
  <2> QED BY <2>2, <2>4 DEF List
<1> QED BY <1>1, <1>3, <1>4, <1>5

\* A refused call stays refused.
LEMMA RefusedKept ==
  ASSUME Inv, [Next]_vars, NEW r \in Requests, call[r] = "refused"
  PROVE  call'[r] = "refused"
BY CallMoves DEF CallEnded

\* The handler of an OriginateResponse records a failure of a refused call only.
LEMMA AnsweringKept ==
  ASSUME Inv, [Next]_vars, NEW r \in Requests, Shaped(r),
         Reported(r), Doing(r, "response")'
  PROVE  Answering(r)'
<1> DEFINE u == <<r, "response">>
<1>0. /\ u \in Tasks /\ u[1] = r /\ u[2] = "response" /\ task'[u].st = "db"
      /\ u[2] \in Handlers
  BY TaskNames DEF Doing, Handlers
<1>1. task'[u] = task[u] \/ Joins(u) \/ GoesOn(u)
  BY <1>0, TaskMoves
<1>2. Doing(r, "response") => Answering(r)
  BY DEF Shaped
<1>3. call[r] = "refused" => call'[r] = "refused"
  BY RefusedKept
<1>4. CASE task'[u] = task[u]
  BY <1>0, <1>2, <1>3, <1>4 DEF Doing, List, Answering
<1>5. CASE Joins(u)
  <2>1. due[r] # "no" /\ List(r, "response")' = OnOriginateResponse(r, due[r])
    BY <1>0, <1>5 DEF Joins, Triggered, Updates
  <2>2. /\ due[r] \in Terminal \union {"answered"}
        /\ due[r] # "answered" => call[r] = "refused"
    BY <2>1 DEF Reported
  <2>3. /\ OnOriginateResponse(r, due[r]) \in Seq(Closing)
        /\ due[r] = "answered" => ~WritesStatus(OnOriginateResponse(r, due[r]))
    BY <2>2, ClosingResponse
  <2>4. List(r, "response")' \in Seq(Closing)
    BY <2>1, <2>3
  <2>5. WritesStatus(List(r, "response")') => call'[r] = "refused"
    BY <1>3, <2>1, <2>2, <2>3
  <2> QED BY <2>4, <2>5 DEF Answering, WritesStatus
<1>6. CASE GoesOn(u)
  <2>1. Work(u)
    BY <1>0, <1>6 DEF GoesOn
  <2>2. /\ task[u].st = "db" /\ task'[u].todo = Rest(u) /\ Rest(u) # <<>>
        /\ task[u].todo # <<>>
    BY <2>1, WorkGives, Served DEF Work
  <2>3. /\ task[u].todo \in Seq(Closing)
        /\ WritesStatus(task[u].todo) => call[r] = "refused"
    BY <1>2, <2>2 DEF Doing, Answering, List
  <2>4. /\ Rest(u) \in Seq(Closing)
        /\ WritesStatus(Rest(u)) => WritesStatus(task[u].todo)
    BY <2>2, <2>3, ClosingRest
  <2>5. List(r, "response")' = Rest(u)
    BY <2>2 DEF List
  <2>6. WritesStatus(List(r, "response")') => call'[r] = "refused"
    BY <1>3, <2>3, <2>4, <2>5
  <2> QED BY <2>4, <2>5, <2>6 DEF Answering, WritesStatus
<1> QED BY <1>1, <1>4, <1>5, <1>6

\* Nothing but the news of its end is on its way, until a call is dialled.
LEMMA UndisturbedKept ==
  ASSUME Inv, [Next]_vars, NEW r \in Requests, Undisturbed(r),
         task'[<<r, "exec">>].st # "wait"
  PROVE  Undisturbed(r)'
<1>1. call'[r] \in {"none", "playing", "played", "refused", "dropped", "finished"}
  BY CallMoves, CallStarts DEF Undisturbed, CallEnded
<1>2. due'[r] = "no"
  BY DueMoves DEF Undisturbed, CallEnded
<1>3. ASSUME NEW k \in Handlers \ {"complete", "hangup"}, Doing(r, k)'
      PROVE  FALSE
  <2>1. ~Triggered(r, k)
    BY <1>1 DEF Triggered, Undisturbed, CallEnded
  <2>2. Doing(r, k)
    BY <1>3, <2>1, HandlerStarts
  <2> QED BY <2>2 DEF Undisturbed
<1> QED BY <1>1, <1>2, <1>3 DEF Undisturbed, CallEnded, Doing

\* A task whose Originate failed closes the call when nothing of it is on its
\* way, and goes on with what an OriginateResponse says of it.
LEMMA ClosingUpKept ==
  ASSUME Inv, [Next]_vars, NEW r \in Requests, Shaped(r),
         Reported(r), Doing(r, "exec")', task'[<<r, "exec">>].part # "pre"
  PROVE  ClosingUp(r)'
<1> DEFINE u == <<r, "exec">>
<1>0. /\ u \in Tasks /\ u[1] = r /\ u[2] = "exec" /\ task'[u].st = "db"
      /\ u[2] \notin Handlers /\ task'[u].part # "pre"
  BY TaskNames DEF Doing
<1>1. task'[u] = task[u] \/ Joins(u) \/ GoesOn(u)
  BY <1>0, TaskMoves
<1>2. Doing(r, "exec") /\ task[u].part # "pre" => ClosingUp(r)
  BY DEF Shaped
<1>3. /\ call[r] = "refused" => call'[r] = "refused"
      /\ Undisturbed(r) => Undisturbed(r)'
  BY <1>0, RefusedKept, UndisturbedKept
<1>4. ASSUME List(r, "exec")' \in Seq(Closing),
             \/ /\ task'[u].part = "forward"
                /\ WritesStatus(List(r, "exec")') => call'[r] = "refused"
             \/ /\ task'[u].part \in {"rejected", "except"}
                /\ Undisturbed(r)'
      PROVE  ClosingUp(r)'
  BY <1>4 DEF ClosingUp, WritesStatus
<1>5. CASE task'[u] = task[u]
  <2>1. ClosingUp(r)
    BY <1>0, <1>2, <1>5 DEF Doing
  <2>2. List(r, "exec")' = List(r, "exec")
    BY <1>5 DEF List
  <2>3. WritesStatus(List(r, "exec")') => WritesStatus(List(r, "exec"))
    BY <2>2
  <2> QED BY <1>3, <1>4, <1>5, <2>1, <2>2, <2>3 DEF ClosingUp
<1>6. CASE Joins(u)
  <2>1. Resumed(r) /\ task[u].st # "db"
    BY <1>0, <1>6 DEF Joins
  <2>2. CASE task'[u].part = "forward"
    <3>1. due[r] # "no" /\ List(r, "exec")' = OnOriginateResponse(r, due[r])
      BY <1>0, <2>1, <2>2 DEF Resumed, List
    <3>2. /\ due[r] \in Terminal \union {"answered"}
          /\ due[r] # "answered" => call[r] = "refused"
      BY <3>1 DEF Reported
    <3>3. /\ OnOriginateResponse(r, due[r]) \in Seq(Closing)
          /\ due[r] = "answered" => ~WritesStatus(OnOriginateResponse(r, due[r]))
      BY <3>2, ClosingResponse
    <3>4. List(r, "exec")' \in Seq(Closing)
      BY <3>1, <3>3
    <3>5. WritesStatus(List(r, "exec")') => call'[r] = "refused"
      BY <1>3, <3>1, <3>2, <3>3
    <3> QED BY <1>4, <2>2, <3>4, <3>5
  <2>3. CASE task'[u].part = "rejected"
    <3>1. /\ List(r, "exec")' = OnFailed(r)
          /\ task[u].st = "send" \/ LongAgo(r)
      BY <1>0, <2>1, <2>3 DEF Resumed, List
    <3>2. List(r, "exec")' \in Seq(Closing)
      BY <3>1, ClosingFailed
    <3>3. ASSUME task[u].st = "send" PROVE Undisturbed(r)
      <4>1. call[r] = "none"
        BY <3>3 DEF Inv, DialledOnce, BeforeDialling
      <4>2. due[r] = "no"
        BY <4>1 DEF Inv, OneResponse
      <4>3. Started(call[r]) = {}
        BY <4>1 DEF Started
      <4>4. \A k \in Handlers : ~Doing(r, k)
        BY <4>3 DEF Inv, HandlersFollowCall, Doing
      <4> QED BY <4>1, <4>2, <4>4 DEF Undisturbed
    <3>4. ASSUME LongAgo(r) PROVE Undisturbed(r)
      BY <3>4 DEF LongAgo, Undisturbed, Doing
    <3> QED BY <1>3, <1>4, <2>3, <3>1, <3>2, <3>3, <3>4
  <2> QED BY <1>0, <2>1, <2>2, <2>3 DEF Resumed
<1>7. CASE GoesOn(u)
  <2>1. Work(u) \/ FaultInTry(u)
    BY <1>0, <1>7 DEF GoesOn
  <2>2. CASE Work(u)
    <3>1. /\ task[u].st = "db" /\ task'[u].todo = Rest(u)
          /\ task[u].todo # <<>> /\ task'[u].part = task[u].part
      BY <2>2, WorkGives, Served DEF Work
    <3>2. ClosingUp(r)
      BY <1>0, <1>2, <3>1 DEF Doing
    <3>3. task[u].todo \in Seq(Closing)
      BY <3>2 DEF ClosingUp, List
    <3>4. /\ Rest(u) \in Seq(Closing)
          /\ WritesStatus(Rest(u)) => WritesStatus(task[u].todo)
      BY <3>1, <3>3, ClosingRest
    <3>5. List(r, "exec")' = Rest(u)
      BY <3>1 DEF List
    <3>6. WritesStatus(List(r, "exec")') => WritesStatus(List(r, "exec"))
      BY <3>4, <3>5 DEF List
    <3> QED BY <1>3, <1>4, <3>1, <3>2, <3>4, <3>5, <3>6 DEF ClosingUp
  <2>3. CASE FaultInTry(u)
    <3>1. /\ Serving(u) /\ task[u].part = "rejected"
          /\ Put(u, "except", OnFailed(r), Tail(dbq))
      BY <1>0, <2>3 DEF FaultInTry, Faulting
    <3>2. /\ task[u].st = "db" /\ task'[u].todo = OnFailed(r)
          /\ task'[u].part = "except"
      BY <1>0, <3>1, Served, PutGives
    <3>3. Undisturbed(r)
      BY <1>2, <3>1, <3>2 DEF Doing, ClosingUp
    <3>4. List(r, "exec")' \in Seq(Closing)
      BY <3>2, ClosingFailed DEF List
    <3> QED BY <1>3, <1>4, <3>2, <3>3, <3>4
  <2> QED BY <2>1, <2>2, <2>3
<1> QED BY <1>1, <1>5, <1>6, <1>7

\* Every coroutine keeps to its list.
LEMMA ShapedKept ==
  ASSUME Inv, RecordInv, CreationInv, [Next]_vars,
         NEW r \in Requests, Shaped(r), InTurn(r), Reported(r)
  PROVE  Shaped(r)'
<1>1. \A k \in {"ringing", "up"} : Doing(r, k)' => Looking(r, k)'
  BY LookingKept
<1>2. \A k \in Updates : Doing(r, k)' => Updating(r, k, List(r, k)')
  BY UpdatingKept
<1>3. Doing(r, "hangup")' => \E m \in Mapped : HangingUp(r, m, List(r, "hangup")')
  BY HangingUpKept
<1>4. Doing(r, "response")' => Answering(r)'
  BY AnsweringKept
<1>5. Doing(r, "exec")' /\ task'[<<r, "exec">>].part # "pre" => ClosingUp(r)'
  BY ClosingUpKept
<1>6. \A k \in Updates : Updating(r, k, List(r, k)') = Updating(r, k, List(r, k))'
  BY DEF Updating
<1>7. \A m \in Mapped : HangingUp(r, m, List(r, "hangup")')
                          = HangingUp(r, m, List(r, "hangup"))'
  BY DEF HangingUp, Routing, Ending
<1> QED BY <1>1, <1>2, <1>3, <1>4, <1>5, <1>6, <1>7 DEF Shaped

-----------------------------------------------------------------------------
(* A final status stays final *)

\* A call whose status is final is over, or played, or was given up.
LEMMA FinalIsOver ==
  ASSUME RecordInv, NEW r \in Requests, db.row[r].status \in Terminal
  PROVE  \/ CallEnded(r) \/ call[r] = "played" \/ PlaysOn(r)
         \/ call[r] = "none" /\ ~BeforeDialling(<<r, "exec">>)
BY DEF RecordInv, TrueTables, TrueRow, TrueStatus, Known, Over

\* No handler is left an intermediate status to write when a final one is.
LEMMA FinalIsLastKept ==
  ASSUME Inv, RecordInv, CreationInv, [Next]_vars,
         NEW r \in Requests, OrderOf(r)
  PROVE  FinalIsLast(r)'
<1> USE DEF OrderOf
<1> SUFFICES ASSUME db'.row[r].status \in Terminal,
                    NEW k \in {"callstart", "playing"},
                    TurnsLeft(r, k)' # 0
             PROVE  FALSE
  BY DEF FinalIsLast
<1> DEFINE u == <<r, k>>
<1>0. /\ u \in Tasks /\ u[1] = r /\ u[2] = k /\ task'[u].st = "db"
      /\ k \in Handlers \ {"response"} /\ Doing(r, k)'
  BY TaskNames DEF TurnsLeft, Doing, Handlers
<1>1. ~Crash /\ (task'[u] = task[u] \/ Joins(u) \/ GoesOn(u))
  BY <1>0, TaskMoves
<1>2. TurnsLeft(r, k) \in Nat /\ TurnsLeft(r, k)' \in Nat
  <2>1. TypeOK /\ TypeOK'
    BY NextInv DEF Inv
  <2> QED BY <1>0, <2>1, TurnsNatural
<1>3. TurnsLeft(r, k) > 0 \/ Triggered(r, k)
  <2>1. CASE task'[u] = task[u]
    <3>1. Untouched(<<r, k>>)
      BY <2>1 DEF Untouched
    <3> QED BY <1>0, <1>2, <3>1, KeptTurns
  <2>2. CASE Joins(u)
    BY <1>0, <2>2 DEF Joins
  <2>3. CASE GoesOn(u)
    <3>1. Work(<<r, k>>)
      BY <1>0, <2>3 DEF GoesOn
    <3>2. TurnsLeft(r, k) = TurnsLeft(r, k)' + 1
      BY <1>0, <1>2, <3>1, ServedTurns
    <3> QED BY <1>2, <3>2
  <2> QED BY <1>1, <2>1, <2>2, <2>3
<1>4. /\ Triggered(r, k) => call[r] \in {"up", "dialplan"}
      /\ TurnsLeft(r, k) > 0 => Doing(r, k)
  BY DEF Triggered, TurnsLeft
<1>5. CASE db.row[r].status \in Terminal
  <2>1. ~(TurnsLeft(r, k) > 0)
    BY <1>5 DEF FinalIsLast
  <2>2. call[r] \in {"up", "dialplan"}
    BY <1>3, <1>4, <2>1
  <2> QED BY <1>5, <2>2, FinalIsOver DEF CallEnded, PlaysOn
<1>6. CASE db.row[r].status \notin Terminal
  <2>1. PICK t : /\ Serving(t) /\ Op(t).on = r
                 /\ \/ Op(t).op \in {"write", "bind"}
                       /\ db'.row[r].status = Op(t).arg
                    \/ Op(t).op = "insert" /\ db'.row[r].status = "queued"
    BY <1>1, <1>6, RowMoves
  <2>2. Op(t).op \in {"write", "bind"} /\ Op(t).arg \in Terminal
    BY <2>1 DEF Terminal, Retryable
  <2>3. /\ t = <<r, t[2]>>
        /\ \/ t[2] \in {"complete", "hangup"} /\ TurnsLeft(r, t[2]) = 1
           \/ call[r] = "refused"
           \/ Undisturbed(r)
           \/ call[r] = "none" /\ ~Doing(r, k)
    BY <1>0, <2>1, <2>2, Writer
  <2>4. CASE t[2] \in {"complete", "hangup"} /\ TurnsLeft(r, t[2]) = 1
    <3> DEFINE p == <<k, t[2]>>
    <3>1. p \in Follows /\ p[1] = k /\ p[2] = t[2]
      BY <2>4 DEF Follows
    <3> HIDE DEF p
    <3>2. Serving(<<r, p[2]>>) /\ TurnsLeft(r, p[2]) = 1
      BY <2>1, <2>3, <2>4, <3>1
    <3>3. TurnsLeft(r, k) = 0
      BY <3>1, <3>2, NotPreceded
    <3>4. Triggered(r, p[1])
      BY <1>3, <3>1, <3>3
    <3>5. ~Doing(r, p[2])
      BY <3>1, <3>4, StartsFirst
    <3> QED BY <3>2, <3>5 DEF TurnsLeft
  <2>5. CASE call[r] = "refused"
    <3>1. Reported(r)' /\ call'[r] = "refused"
      BY <2>5, ReportedKept, RefusedKept
    <3> QED BY <1>0, <3>1 DEF Reported, Updates
  <2>6. CASE Undisturbed(r)
    BY <1>0, <1>3, <1>4, <2>6 DEF Undisturbed, CallEnded
  <2>7. CASE call[r] = "none" /\ ~Doing(r, k)
    BY <1>3, <1>4, <2>7
  <2> QED BY <2>3, <2>4, <2>5, <2>6, <2>7
<1> QED BY <1>5, <1>6

\* Short of a crash, a final status is only replaced by a final one.
LEMMA FinalHolds ==
  ASSUME Inv, RecordInv, CreationInv, [Next]_vars, ~Crash,
         NEW r \in Requests, OrderOf(r), db.row[r].status \in Terminal
  PROVE  db'.row[r].status \in Terminal
<1> SUFFICES ASSUME db'.row[r].status \notin Terminal
             PROVE  FALSE
  OBVIOUS
<1>1. PICK t : /\ Serving(t) /\ Op(t).on = r
               /\ \/ Op(t).op \in {"write", "bind"}
                     /\ db'.row[r].status = Op(t).arg
                  \/ Op(t).op = "insert"
  BY RowMoves
<1>2. Op(t).op # "insert"
  <2>1. Absent \notin Terminal
    BY DEF Absent, Terminal, Retryable
  <2> QED BY <1>1, <2>1, InsertsNew
<1>3. /\ t = <<r, t[2]>>
      /\ \/ t[2] \in {"callstart", "playing"} /\ TurnsLeft(r, t[2]) = 1
         \/ /\ t[2] = "exec" /\ task[t].st = "db" /\ task[t].part = "pre"
            /\ call[r] = "none"
  <2>1. Op(t).op \in {"write", "bind"} /\ Op(t).arg \notin Terminal
    BY <1>1, <1>2
  <2>2. /\ t = <<r, t[2]>> /\ Doing(r, t[2])
        /\ \/ t[2] \in {"callstart", "playing"} /\ TurnsLeft(r, t[2]) = 1
           \/ /\ t[2] = "exec" /\ task[t].part = "pre" /\ call[r] = "none"
    BY <1>1, <2>1, Writer DEF OrderOf
  <2> QED BY <2>2 DEF Doing
<1>4. CASE t[2] \in {"callstart", "playing"} /\ TurnsLeft(r, t[2]) = 1
  BY <1>4 DEF OrderOf, FinalIsLast
<1>5. CASE /\ t[2] = "exec" /\ task[t].st = "db" /\ task[t].part = "pre"
           /\ call[r] = "none"
  BY <1>3, <1>5, FinalIsOver DEF CallEnded, PlaysOn, BeforeDialling, Doing
<1> QED BY <1>3, <1>4, <1>5

-----------------------------------------------------------------------------
(* The order is kept *)

\* The handlers of a call keep their order.
LEMMA InTurnKept ==
  ASSUME Inv, [Next]_vars, Queued,
         NEW r \in Requests, OrderOf(r)
  PROVE  InTurn(r)'
<1>1. SUFFICES ASSUME NEW p \in Follows
               PROVE  Precedes(r, p[1], p[2])'
  BY DEF InTurn, Follows
<1>2. Inv'
  BY NextInv
<1>3. CASE ~Crash
  BY <1>2, <1>3, PrecedesKept DEF OrderOf
<1>4. CASE Crash
  <2>1. p[1] \in Handlers
    BY FollowsAre DEF Handlers
  <2>2. <<r, p[1]>> \in Tasks
    BY <2>1, TaskNames
  <2>3. task'[<<r, p[1]>>].st # "db"
    BY <1>4, <2>2, TaskMoves
  <2> QED BY <2>3 DEF Precedes, TurnsLeft, Doing
<1> QED BY <1>3, <1>4

\* No coroutine waits at first.
LEMMA InitOrder == Init => OrderInv
<1> SUFFICES ASSUME Init PROVE OrderInv
  OBVIOUS
<1>1. \A t \in Tasks : task[t].st = "idle"
  BY DEF Init, Fresh, Coroutine
<1>2. Queued
  BY <1>1 DEF Queued
<1>3. ASSUME NEW r \in Requests
      PROVE  OrderOf(r)
  <2>1. \A k \in Kinds : ~Doing(r, k)
    BY <1>1, TaskNames DEF Doing
  <2>2. \A k \in Handlers : ~Doing(r, k) /\ TurnsLeft(r, k) = 0
    BY <2>1, TaskNames DEF TurnsLeft
  <2>3. Shaped(r)
    BY <2>1, <2>2, TaskNames DEF Shaped, Handlers, Updates
  <2>4. InTurn(r)
    <3>1. \A p \in Follows : p[1] \in Handlers
      BY FollowsAre DEF Handlers
    <3> QED BY <2>2, <3>1 DEF InTurn, Precedes
  <2>5. FinalIsLast(r)
    BY <2>2 DEF FinalIsLast, Handlers
  <2>6. Reported(r)
    BY DEF Reported, Init
  <2> QED BY <2>3, <2>4, <2>5, <2>6 DEF OrderOf
<1> QED BY <1>2, <1>3 DEF OrderInv

\* Every step keeps the order.
LEMMA NextOrder ==
  Inv /\ RecordInv /\ CreationInv /\ OrderInv /\ [Next]_vars => OrderInv'
<1> SUFFICES ASSUME Inv, RecordInv, CreationInv, OrderInv, [Next]_vars
             PROVE  OrderInv'
  OBVIOUS
<1>1. Queued'
  BY QueuedKept DEF OrderInv
<1>2. ASSUME NEW r \in Requests
      PROVE  OrderOf(r)'
  <2>1. OrderOf(r) /\ Queued
    BY DEF OrderInv
  <2>2. Shaped(r)'
    BY <2>1, ShapedKept DEF OrderOf
  <2>3. InTurn(r)'
    BY <2>1, InTurnKept
  <2>4. FinalIsLast(r)'
    BY <2>1, FinalIsLastKept
  <2>5. Reported(r)'
    BY <2>1, ReportedKept DEF OrderOf
  <2> QED BY <2>2, <2>3, <2>4, <2>5 DEF OrderOf
<1> QED BY <1>1, <1>2 DEF OrderInv

\* A restart counts as a crash.
LEMMA CrashCounts ==
  ASSUME Inv, used'["crash"] = used["crash"]
  PROVE  ~Crash
<1> SUFFICES ASSUME Crash PROVE FALSE
  OBVIOUS
<1>1. used \in [{"drop", "crash", "fault"} -> Nat]
  BY DEF Inv, TypeOK
<1>2. used'["crash"] = used["crash"] + 1
  BY <1>1 DEF Crash
<1> QED BY <1>1, <1>2

\* The coroutines of a call take their turns in the order of its events: the
\* lookups by channel come before the channel is stored, the updates with
\* intermediate statuses before those with final ones, and a final status
\* leaves nothing but final ones to be written.
THEOREM InOrder == Spec => []OrderInv
<1>1. Init => OrderInv
  BY InitOrder
<1>2. Inv /\ RecordInv /\ CreationInv /\ OrderInv /\ [Next]_vars => OrderInv'
  BY NextOrder
<1>3. (Spec => []Inv) /\ (Spec => []RecordInv) /\ (Spec => []CreationInv)
  BY Invariance, RecordsTrue, CreationsSafe
<1> QED BY <1>1, <1>2, <1>3, PTL DEF Spec

\* "don't go back from terminal": short of a crash no interleaving of the stale
\* read in update_call_status with other updates takes a call from a terminal
\* status to one that is not.
THEOREM NeverBackFromTerminal == Spec => NoRegression
<1>1. ASSUME Inv, RecordInv, CreationInv, OrderInv, [Next]_vars
      PROVE  [used'["crash"] = used["crash"] =>
                \A r \in Requests : db.row[r].status \in Terminal =>
                                      db'.row[r].status \in Terminal]_vars
  <2>1. SUFFICES ASSUME used'["crash"] = used["crash"], NEW r \in Requests,
                        db.row[r].status \in Terminal
                 PROVE  db'.row[r].status \in Terminal
    OBVIOUS
  <2>2. ~Crash
    BY <1>1, <2>1, CrashCounts
  <2> QED BY <1>1, <2>1, <2>2, FinalHolds DEF OrderInv
<1>2. (Spec => []Inv) /\ (Spec => []RecordInv) /\ (Spec => []CreationInv)
  BY Invariance, RecordsTrue, CreationsSafe
<1>3. Spec => []OrderInv
  BY InOrder
<1> QED BY <1>1, <1>2, <1>3, PTL DEF Spec, NoRegression

-----------------------------------------------------------------------------
(* While the link and the process last *)

\* The link and the process have lasted until now, and last this step.
LEMMA SmoothSteps ==
  ASSUME Inv, [Next]_vars, Smooth'
  PROVE  Smooth /\ ~Crash /\ ~Disconnect
<1>1. used \in [{"drop", "crash", "fault"} -> Nat]
  BY DEF Inv, TypeOK
<1>2. \A m \in {"drop", "crash", "fault"} :
        used' = [used EXCEPT ![m] = @ + 1] =>
          /\ used'[m] = used[m] + 1
          /\ \A n \in {"drop", "crash", "fault"} \ {m} : used'[n] = used[n]
  BY <1>1
<1>3. ~Crash /\ ~Disconnect
  BY <1>1, <1>2 DEF Crash, Disconnect, Smooth
<1>4. CASE UNCHANGED used
  BY <1>3, <1>4 DEF Smooth
<1>5. CASE \E m \in {"drop", "crash", "fault"} :
             used' = [used EXCEPT ![m] = @ + 1]
  <2>1. PICK m \in {"drop", "crash", "fault"} :
               used' = [used EXCEPT ![m] = @ + 1]
    BY <1>5
  <2>2. m \notin {"drop", "crash"}
    BY <1>1, <1>2, <2>1 DEF Smooth
  <2>3. used'["drop"] = used["drop"] /\ used'["crash"] = used["crash"]
    BY <1>2, <2>1, <2>2
  <2> QED BY <1>3, <2>3 DEF Smooth
<1> QED BY <1>4, <1>5, UsedMoves

\* Neither a statement that is served nor one that fails makes a coroutine wait
\* for an OriginateResponse, or touches the call.
LEMMA WorkerAwaitsNothing ==
  ASSUME Inv, NEW t \in Tasks, Serve(t) \/ Fault(t), NEW q \in Requests,
         ~Waiting(q)
  PROVE  ~Waiting(q)'
<1> DEFINE e == <<q, "exec">>
<1>1. task \in [Tasks -> TaskRecords] /\ e \in Tasks
  BY TaskNames DEF Inv, TypeOK
<1>2. task[e].st \notin {"wait", "orphan"}
  BY DEF Waiting
<1> HIDE DEF e
<1>3. SUFFICES task'[e].st \notin {"wait", "orphan"}
  BY DEF Waiting, e
<1>4. CASE Work(t)
  <2>1. task' = [task EXCEPT ![t] = [task[t] EXCEPT !.todo = Rest(t),
                                                    !.seen = Seen(t)]]
    BY <1>4 DEF Work
  <2> QED BY <1>1, <1>2, <2>1
<1>5. CASE Accept(t)
  <2>1. task' = [task EXCEPT ![t] = Fresh("done"),
                             ![<<t[1], "exec">>] = Fresh("ready")]
    BY <1>5 DEF Accept
  <2>2. Fresh("done").st = "done" /\ Fresh("ready").st = "ready"
    BY DEF Fresh, Coroutine
  <2> QED BY <1>1, <1>2, <2>1, <2>2
<1>6. CASE ~Work(t) /\ ~Accept(t)
  <2>1. \/ \E part, todo, queue : Put(t, part, todo, queue)
        \/ \E st \in {"idle", "send", "done", "lost"} : Leave(t, st)
    BY <1>6 DEF Serve, Fault, RefuseRetry, AdmitRetry, EnterTry,
       Release, EndHandler, FaultInHandler, FaultBeforeTry, FaultInTry,
       FaultThenRelease
  <2>2. \E c : /\ task' = [task EXCEPT ![t] = c]
               /\ c.st \in {"db", "idle", "send", "done", "lost"}
    <3>1. CASE \E part, todo, queue : Put(t, part, todo, queue)
      <4>1. PICK part, todo, queue : Put(t, part, todo, queue)
        BY <3>1
      <4>2. Coroutine("db", part, todo).st = "db"
        BY DEF Coroutine
      <4> QED BY <4>1, <4>2 DEF Put
    <3>2. CASE \E st \in {"idle", "send", "done", "lost"} : Leave(t, st)
      <4>1. PICK st \in {"idle", "send", "done", "lost"} : Leave(t, st)
        BY <3>2
      <4>2. Fresh(st).st = st
        BY DEF Fresh, Coroutine
      <4> QED BY <4>1, <4>2 DEF Leave
    <3> QED BY <2>1, <3>1, <3>2
  <2> QED BY <1>1, <1>2, <2>2
<1> QED BY <1>4, <1>5, <1>6

\* A call that is dialled has its response due when it is picked up or refused.
LEMMA ProgressReports ==
  ASSUME Inv, NEW r \in Requests, Progress(r), NEW q \in Requests
  PROVE  (Dialled(q) \/ due[q] # "no")' <=> (Dialled(q) \/ due[q] # "no")
<1>1. call \in [Requests -> Phases] /\ due \in [Requests -> Statuses \union {"no"}]
  BY DEF Inv, TypeOK
<1>2. CASE Ring(r)
  BY <1>1, <1>2 DEF Ring, Dialled
<1>3. CASE Answer(r)
  BY <1>1, <1>3 DEF Answer, Dialled
<1>4. CASE Refuse(r)
  <2>1. PICK reason \in Reasons : due' = [due EXCEPT ![r] = ReasonStatus(reason)]
    BY <1>4 DEF Refuse
  <2>2. ReasonStatus(reason) # "no"
    BY ReasonsFinal DEF Terminal, Retryable
  <2>3. call' = [call EXCEPT ![r] = "refused"] /\ Dialled(r)
    BY <1>4 DEF Refuse, Dialled
  <2> QED BY <1>1, <2>1, <2>2, <2>3 DEF Dialled
<1>5. ASSUME NEW phase, phase \notin {"dialing", "ringing"}, ~Dialled(r),
             call' = [call EXCEPT ![r] = phase], due' = due
      PROVE  (Dialled(q) \/ due[q] # "no")' <=> (Dialled(q) \/ due[q] # "no")
  BY <1>1, <1>5 DEF Dialled
<1>6. CASE \/ StartDialplan(r) \/ StartPlayback(r) \/ FinishPlayback(r)
           \/ HangUp(r) \/ Drop(r)
  BY <1>5, <1>6 DEF StartDialplan, StartPlayback, FinishPlayback, HangUp, Drop,
     Dialled
<1> QED BY <1>2, <1>3, <1>4, <1>6 DEF Progress

\* The coroutine of a call waits from its Originate to the response.
LEMMA AwaitedKept ==
  ASSUME Inv, [Next]_vars, ~Crash, ~Disconnect, NEW q \in Requests, Awaited(q)
  PROVE  /\ task'[<<q, "exec">>].st # "orphan"
         /\ task'[<<q, "exec">>].st = "wait" <=> (Dialled(q) \/ due[q] # "no")'
<1> DEFINE e == <<q, "exec">>
           Due == Dialled(q) \/ due[q] # "no"
<1>0. /\ task \in [Tasks -> TaskRecords] /\ call \in [Requests -> Phases]
      /\ due \in [Requests -> Statuses \union {"no"}]
      /\ e \in Tasks
  BY TaskNames DEF Inv, TypeOK
<1>1. task[e].st # "orphan" /\ (task[e].st = "wait" <=> Due)
  BY DEF Awaited
<1>2. ASSUME call' = call, due' = due
      PROVE  Due' <=> Due
  BY <1>2 DEF Dialled
<1>3. ASSUME task'[e] = task[e], Due' <=> Due
      PROVE  /\ task'[<<q, "exec">>].st # "orphan"
             /\ task'[<<q, "exec">>].st = "wait" <=> (Dialled(q) \/ due[q] # "no")'
  BY <1>1, <1>3
<1>4. CASE UNCHANGED vars \/ Startup \/ Reconnect
  <2>1. task' = task /\ call' = call /\ due' = due
    BY <1>4 DEF Startup, Reconnect, vars, asterisk
  <2> QED BY <1>2, <1>3, <2>1
<1>5. ASSUME NEW t \in Tasks, Serve(t) \/ Fault(t)
      PROVE  /\ task'[<<q, "exec">>].st # "orphan"
             /\ task'[<<q, "exec">>].st = "wait" <=> (Dialled(q) \/ due[q] # "no")'
  <2>1. call' = call /\ due' = due
    BY <1>5 DEF Serve, Fault, Work, RefuseRetry, AdmitRetry, Accept, EnterTry,
       Release, EndHandler, FaultInHandler, FaultBeforeTry, FaultInTry,
       FaultThenRelease, asterisk
  <2>2. CASE Waiting(q)
    <3>1. task'[e] = task[e]
      BY <1>5, <2>2, WorkerLeavesWaiters
    <3> QED BY <1>2, <1>3, <2>1, <3>1
  <2>3. CASE ~Waiting(q)
    <3>1. task'[e].st \notin {"wait", "orphan"}
      BY <1>5, <2>3, WorkerAwaitsNothing DEF Waiting
    <3> QED BY <1>1, <1>2, <2>1, <2>3, <3>1 DEF Waiting
  <2> QED BY <2>2, <2>3
<1>6. ASSUME NEW r \in Requests, Progress(r)
      PROVE  /\ task'[<<q, "exec">>].st # "orphan"
             /\ task'[<<q, "exec">>].st = "wait" <=> (Dialled(q) \/ due[q] # "no")'
  BY <1>3, <1>6, ProgressLeavesWaiters, ProgressReports
<1>7. ASSUME NEW r \in Requests, Http(r)
      PROVE  /\ task'[<<q, "exec">>].st # "orphan"
             /\ task'[<<q, "exec">>].st = "wait" <=> (Dialled(q) \/ due[q] # "no")'
  <2>1. <<r, "api">> # e
    BY TaskNames
  <2>2. \E part, todo : Put(<<r, "api">>, part, todo, dbq)
    BY <1>7 DEF Http, Submit, SubmitRetry
  <2>3. task'[e] = task[e]
    BY <1>0, <2>1, <2>2 DEF Put
  <2>4. call' = call /\ due' = due
    BY <1>7 DEF Http, Submit, SubmitRetry, asterisk
  <2> QED BY <1>2, <1>3, <2>3, <2>4
<1>8. ASSUME NEW r \in Requests, r # q, Execution(r) \/ Respond(r)
      PROVE  /\ task'[<<q, "exec">>].st # "orphan"
             /\ task'[<<q, "exec">>].st = "wait" <=> (Dialled(q) \/ due[q] # "no")'
  <2>1. <<r, "exec">> # e /\ <<r, "response">> # e
    BY <1>8, TaskNames
  <2>2. \/ \E part, todo, queue : Put(<<r, "exec">>, part, todo, queue)
        \/ task' = [task EXCEPT ![<<r, "exec">>] = Fresh("wait")]
        \/ \E todo : Emit(r, "response", todo)
    BY <1>8 DEF Execution, Acquire, Originate, OriginateNotAccepted,
       OriginateTimeout, Respond
  <2>3. task'[e] = task[e]
    BY <1>0, <2>1, <2>2 DEF Put, Emit
  <2>4. call'[q] = call[q] /\ due'[q] = due[q]
    BY <1>0, <1>8 DEF Execution, Acquire, Originate, OriginateNotAccepted,
       OriginateTimeout, Respond, asterisk
  <2> QED BY <1>3, <2>3, <2>4 DEF Dialled
<1>9. ASSUME Execution(q)
      PROVE  /\ task'[<<q, "exec">>].st # "orphan"
             /\ task'[<<q, "exec">>].st = "wait" <=> (Dialled(q) \/ due[q] # "no")'
  <2>1. CASE Originate(q)
    <3>1. task'[e] = Fresh("wait") /\ call'[q] = "dialing"
      BY <1>0, <2>1 DEF Originate
    <3>2. Fresh("wait").st = "wait"
      BY DEF Fresh, Coroutine
    <3> QED BY <3>1, <3>2 DEF Dialled
  <2>2. CASE Acquire(q) \/ OriginateNotAccepted(q)
    <3>1. task[e].st \in {"ready", "send"} /\ call' = call /\ due' = due
      BY <2>2 DEF Acquire, OriginateNotAccepted, asterisk
    <3>2. \E part, todo : Put(e, part, todo, dbq)
      BY <2>2 DEF Acquire, OriginateNotAccepted
    <3>3. task'[e].st = "db"
      BY <1>0, <3>2, PutGives
    <3> QED BY <1>1, <1>2, <3>1, <3>3
  <2>3. ~OriginateTimeout(q)
    BY <1>1 DEF OriginateTimeout
  <2> QED BY <1>9, <2>1, <2>2, <2>3 DEF Execution
<1>10. ASSUME Respond(q)
       PROVE  /\ task'[<<q, "exec">>].st # "orphan"
              /\ task'[<<q, "exec">>].st = "wait" <=> (Dialled(q) \/ due[q] # "no")'
  <2>1. due[q] # "no" /\ due'[q] = "no" /\ call' = call
    BY <1>0, <1>10 DEF Respond
  <2>2. task[e].st = "wait" /\ ~Dialled(q)
    BY <1>1, <2>1 DEF Dialled, Inv, OneResponse
  <2>3. \E part, todo : Put(e, part, todo, dbq)
    BY <1>10, <2>2 DEF Respond
  <2>4. task'[e].st = "db"
    BY <1>0, <2>3, PutGives
  <2> QED BY <2>1, <2>2, <2>4 DEF Dialled
<1> QED BY <1>4, <1>5, <1>6, <1>7, <1>8, <1>9, <1>10 DEF Next

\* Whether the response of a refused or answered call is due, the handler of
\* OriginateResponse never sees it.
LEMMA NoResponse ==
  ASSUME Inv, [Next]_vars, NEW q \in Requests, Awaited(q)
  PROVE  ~Doing(q, "response")'
<1> SUFFICES ASSUME Doing(q, "response")' PROVE FALSE
  OBVIOUS
<1>1. Triggered(q, "response")
  BY HandlerStarts DEF Handlers, Awaited
<1>2. due[q] # "no" /\ task[<<q, "exec">>].st # "wait"
  BY <1>1 DEF Triggered
<1> QED BY <1>2 DEF Awaited

-----------------------------------------------------------------------------
(* What a list of statements writes *)

\* What is left of a list that closes a call is a later part of it.
LEMMA RestIsLater ==
  ASSUME NEW t, task[t].todo \in Seq(Closing), task[t].todo # <<>>
  PROVE  /\ task[t].todo[1] = Op(t) /\ 1 \in 1..Len(task[t].todo)
         /\ \E d \in {1, 3} :
              \A i \in 1..Len(Rest(t)) : /\ i + d \in 1..Len(task[t].todo)
                                         /\ Rest(t)[i] = task[t].todo[i + d]
<1> DEFINE s == task[t].todo
<1> HIDE DEF s
<1>1. s \in Seq(Closing) /\ Len(s) \in Nat /\ Len(s) > 0
  BY DEF s
<1>2. s[1] \in Closing /\ Op(t) = s[1] /\ 1 \in 1..Len(s)
  BY <1>1 DEF Op, s
<1>3. Rest(t) = Tail(s) \/ Rest(t) = SubSeq(s, 4, Len(s))
  BY <1>2 DEF Rest, Closing, s
<1>4. CASE Rest(t) = Tail(s)
  <2>1. /\ Len(Tail(s)) = Len(s) - 1
        /\ \A i \in 1..Len(Tail(s)) : Tail(s)[i] = s[i + 1]
    BY <1>1
  <2>2. \A i \in 1..Len(Tail(s)) : i + 1 \in 1..Len(s)
    BY <1>1, <2>1
  <2> QED BY <1>2, <1>4, <2>1, <2>2 DEF s
<1>5. CASE Rest(t) = SubSeq(s, 4, Len(s))
  <2> DEFINE w == SubSeq(s, 4, Len(s))
  <2>1. /\ Len(w) = IF 4 <= Len(s) THEN Len(s) - 3 ELSE 0
        /\ \A i \in 1..Len(s) - 3 : w[i] = s[i + 3]
    BY <1>1
  <2> HIDE DEF w
  <2>2. \A i \in 1..Len(w) : i + 3 \in 1..Len(s) /\ w[i] = s[i + 3]
    BY <1>1, <2>1
  <2>3. Rest(t) = w
    BY <1>5 DEF w
  <2> QED BY <1>2, <2>2, <2>3 DEF s
<1> QED BY <1>3, <1>4, <1>5

\* It writes no other status, none twice, and none after the last one.
LEMMA RestWrites ==
  ASSUME NEW t, task[t].todo \in Seq(Closing), task[t].todo # <<>>
  PROVE  /\ \A status : WritesOnly(task[t].todo, status) =>
                          /\ WritesOnly(Rest(t), status)
                          /\ Op(t).op = "write" => Op(t).arg = status
         /\ WritesOnce(task[t].todo) =>
              /\ WritesOnce(Rest(t))
              /\ Op(t).op = "write" => ~WritesStatus(Rest(t))
<1> DEFINE s == task[t].todo
           u == Rest(t)
<1>1. /\ s[1] = Op(t) /\ 1 \in 1..Len(s)
      /\ \E d \in {1, 3} : \A i \in 1..Len(u) : /\ i + d \in 1..Len(s)
                                                /\ u[i] = s[i + d]
  BY RestIsLater
<1> HIDE DEF s, u
<1>2. PICK d \in {1, 3} : \A i \in 1..Len(u) : /\ i + d \in 1..Len(s)
                                               /\ u[i] = s[i + d]
  BY <1>1
<1>3. ASSUME NEW status, WritesOnly(s, status)
      PROVE  /\ WritesOnly(u, status)
             /\ Op(t).op = "write" => Op(t).arg = status
  BY <1>1, <1>2, <1>3 DEF WritesOnly
<1>4. ASSUME WritesOnce(s)
      PROVE  WritesOnce(u)
  <2>1. SUFFICES ASSUME NEW i \in 1..Len(u), NEW j \in 1..Len(u),
                        u[i].op = "write", u[j].op = "write"
                 PROVE  i = j
    BY DEF WritesOnce
  <2>2. /\ i + d \in 1..Len(s) /\ s[i + d].op = "write"
        /\ j + d \in 1..Len(s) /\ s[j + d].op = "write"
    BY <1>2, <2>1
  <2>3. i + d = j + d
    BY <1>4, <2>2 DEF WritesOnce
  <2> QED BY <2>3
<1>5. ASSUME WritesOnce(s), Op(t).op = "write"
      PROVE  ~WritesStatus(u)
  <2>1. SUFFICES ASSUME NEW i \in 1..Len(u), u[i].op = "write"
                 PROVE  FALSE
    BY DEF WritesStatus
  <2>2. i + d \in 1..Len(s) /\ s[i + d].op = "write"
    BY <1>2, <2>1
  <2>3. i + d = 1
    BY <1>1, <1>5, <2>2 DEF WritesOnce
  <2> QED BY <2>3
<1> QED BY <1>3, <1>4, <1>5 DEF s, u

\* An Originate that is not accepted is recorded as failed.
LEMMA FailedWrites ==
  ASSUME NEW r \in Requests
  PROVE  WritesOnly(OnFailed(r), "failed")
<1> DEFINE s == Update(r, "failed")
           u == AddEvent(r, "failed")
<1>1. "failed" \in Statuses /\ "failed" \in EventNames
  BY DEF Statuses, Terminal, Retryable, EventNames
<1>2. /\ s \in Seq(Hops) /\ Len(s) = 5
      /\ s[1].op = "select" /\ s[2].op = "fetch" /\ s[3].op = "guard"
      /\ s[4].arg = "failed" /\ s[5].op = "commit"
  BY <1>1, UpdateLayout, HopFields DEF Update
<1>3. /\ u \in Seq(Hops) /\ Len(u) = 2
      /\ u[1].op = "log" /\ u[2].op = "commit"
  BY <1>1, EventLayout, HopFields
<1> HIDE DEF s, u
<1> DEFINE w == s \o u
<1>4. /\ Len(w) = 7
      /\ w[1] = s[1] /\ w[2] = s[2] /\ w[3] = s[3] /\ w[4] = s[4]
      /\ w[5] = s[5] /\ w[6] = u[1] /\ w[7] = u[2]
  BY <1>2, <1>3, FiveAndTwo
<1> HIDE DEF w
<1>5. \A i \in 1..Len(w) : i \in {1, 2, 3, 4, 5, 6, 7}
  BY <1>4
<1>6. WritesOnly(w, "failed")
  BY <1>2, <1>3, <1>4, <1>5 DEF WritesOnly
<1> QED BY <1>6 DEF w, s, u, OnFailed

\* An OriginateResponse is recorded once.
LEMMA ResponseWrites ==
  ASSUME NEW r \in Requests, NEW s \in Terminal \union {"answered"}
  PROVE  WritesOnce(OnOriginateResponse(r, s))
<1> DEFINE a == AddEvent(r, "originate_response")
           b == Update(r, s)
<1>1. CASE s = "answered"
  <2>1. ~WritesStatus(OnOriginateResponse(r, s))
    BY <1>1, ClosingResponse
  <2> QED BY <2>1 DEF WritesStatus, WritesOnce
<1>2. CASE s # "answered"
  <2>1. s \in Statuses /\ "originate_response" \in EventNames
    BY <1>2 DEF Statuses, EventNames
  <2>2. /\ b \in Seq(Hops) /\ Len(b) = 5
        /\ b[1].op = "select" /\ b[2].op = "fetch" /\ b[3].op = "guard"
        /\ b[5].op = "commit"
    BY <2>1, UpdateLayout, HopFields DEF Update
  <2>3. /\ a \in Seq(Hops) /\ Len(a) = 2
        /\ a[1].op = "log" /\ a[2].op = "commit"
    BY <2>1, EventLayout, HopFields
  <2>4. OnOriginateResponse(r, s) = a \o b
    BY <1>2 DEF OnOriginateResponse
  <2> HIDE DEF a, b
  <2> DEFINE w == a \o b
  <2>5. /\ Len(w) = 7
        /\ w[1] = a[1] /\ w[2] = a[2] /\ w[3] = b[1] /\ w[4] = b[2]
        /\ w[5] = b[3] /\ w[6] = b[4] /\ w[7] = b[5]
    BY <2>2, <2>3, TwoAndFive
  <2>6. OnOriginateResponse(r, s) = w
    BY <2>4
  <2> HIDE DEF w
  <2>7. \A i \in 1..Len(w) : w[i].op = "write" => i = 6
    <3>1. \A i \in 1..Len(w) : i \in {1, 2, 3, 4, 5, 6, 7}
      BY <2>5
    <3> QED BY <2>2, <2>3, <2>5, <3>1
  <2>8. WritesOnce(w)
    BY <2>7 DEF WritesOnce
  <2> QED BY <2>6, <2>8
<1> QED BY <1>1, <1>2

-----------------------------------------------------------------------------
(* Who may still record a final status *)

\* What the call's own coroutine does next.
LEMMA BackgroundMoves ==
  ASSUME Inv, [Next]_vars, NEW r \in Requests, Doing(r, "exec")'
  PROVE  LET e == <<r, "exec">>
         IN \/ task'[e] = task[e] /\ Doing(r, "exec")
            \/ /\ ~Doing(r, "exec") /\ Resumed(r)
            \/ /\ Doing(r, "exec") /\ Serving(e)
               /\ task'[e].part = task[e].part /\ List(r, "exec")' = Rest(e)
               /\ task[e].todo # <<>>
            \/ /\ Doing(r, "exec") /\ Serving(e) /\ task[e].part = "rejected"
               /\ task'[e].part = "except" /\ List(r, "exec")' = OnFailed(r)
<1> DEFINE e == <<r, "exec">>
<1>0. /\ e \in Tasks /\ e[1] = r /\ e[2] = "exec" /\ task'[e].st = "db"
  BY TaskNames DEF Doing
<1>1. CASE task'[e] = task[e]
  BY <1>0, <1>1 DEF Doing
<1>2. CASE Joins(e)
  BY <1>0, <1>2 DEF Joins, Doing
<1>3. CASE Work(e)
  <2>1. Serving(e)
    BY <1>3 DEF Work
  <2>2. task[e].st = "db" /\ task[e].todo # <<>>
    BY <2>1, Served
  <2>3. task'[e].part = task[e].part /\ task'[e].todo = Rest(e)
    BY <1>3, WorkGives
  <2> QED BY <2>1, <2>2, <2>3 DEF Doing, List
<1>4. CASE FaultInTry(e)
  <2>1. /\ Serving(e) /\ task[e].part = "rejected"
        /\ Put(e, "except", OnFailed(r), Tail(dbq))
    BY <1>0, <1>4 DEF FaultInTry, Faulting
  <2>2. /\ task[e].st = "db" /\ task'[e].todo = OnFailed(r)
        /\ task'[e].part = "except"
    BY <1>0, <2>1, Served, PutGives
  <2> QED BY <2>1, <2>2 DEF Doing, List
<1>5. task'[e] = task[e] \/ Joins(e) \/ Work(e) \/ FaultInTry(e)
  BY <1>0, TaskMoves DEF GoesOn
<1> QED BY <1>1, <1>2, <1>3, <1>4, <1>5

\* An Originate that was not accepted has no call.
LEMMA NotAcceptedKept ==
  ASSUME Inv, [Next]_vars, NEW r \in Requests, Shaped(r),
         Awaited(r), NotAccepted(r)
  PROVE  NotAccepted(r)'
<1> DEFINE e == <<r, "exec">>
<1> SUFFICES ASSUME Doing(r, "exec")', task'[e].part \in {"rejected", "except"}
             PROVE  call'[r] = "none" /\ WritesOnly(List(r, "exec")', "failed")
  BY DEF NotAccepted, WritesOnly
<1>1. call[r] = "none" => call'[r] = "none"
  BY CallStarts DEF Doing
<1>2. CASE task'[e] = task[e] /\ Doing(r, "exec")
  BY <1>1, <1>2 DEF NotAccepted, List
<1>3. CASE ~Doing(r, "exec") /\ Resumed(r)
  <2>1. task'[e].part = "rejected"
    BY <1>3 DEF Resumed
  <2>2. task[e].st = "send" /\ List(r, "exec")' = OnFailed(r)
    BY <1>3, <2>1 DEF Resumed, Awaited, List
  <2>3. call[r] = "none"
    BY <2>2 DEF Inv, DialledOnce, BeforeDialling
  <2> QED BY <1>1, <2>2, <2>3, FailedWrites
<1>4. CASE /\ Doing(r, "exec") /\ Serving(e)
           /\ task'[e].part = task[e].part /\ List(r, "exec")' = Rest(e)
           /\ task[e].todo # <<>>
  <2>1. call[r] = "none" /\ WritesOnly(task[e].todo, "failed")
    BY <1>4 DEF NotAccepted, List
  <2>2. task[e].todo \in Seq(Closing)
    BY <1>4 DEF Shaped, ClosingUp, List
  <2>3. WritesOnly(Rest(e), "failed")
    BY <1>4, <2>1, <2>2, RestWrites
  <2> QED BY <1>1, <1>4, <2>1, <2>3
<1>5. CASE /\ Doing(r, "exec") /\ Serving(e) /\ task[e].part = "rejected"
           /\ task'[e].part = "except" /\ List(r, "exec")' = OnFailed(r)
  BY <1>1, <1>5, FailedWrites DEF NotAccepted
<1> QED BY <1>2, <1>3, <1>4, <1>5, BackgroundMoves

\* An OriginateResponse that is forwarded is recorded once.
LEMMA ForwardingKept ==
  ASSUME Inv, [Next]_vars, NEW r \in Requests, Shaped(r),
         Reported(r), Forwarding(r)
  PROVE  Forwarding(r)'
<1> DEFINE e == <<r, "exec">>
<1> SUFFICES ASSUME Doing(r, "exec")', task'[e].part = "forward"
             PROVE  WritesOnce(List(r, "exec")')
  BY DEF Forwarding, WritesOnce
<1>1. CASE task'[e] = task[e] /\ Doing(r, "exec")
  BY <1>1 DEF Forwarding, List
<1>2. CASE ~Doing(r, "exec") /\ Resumed(r)
  <2>1. /\ due[r] # "no" /\ List(r, "exec")' = OnOriginateResponse(r, due[r])
    BY <1>2 DEF Resumed, List
  <2>2. due[r] \in Terminal \union {"answered"}
    BY <2>1 DEF Reported
  <2> QED BY <2>1, <2>2, ResponseWrites
<1>3. CASE /\ Doing(r, "exec") /\ Serving(e)
           /\ task'[e].part = task[e].part /\ List(r, "exec")' = Rest(e)
           /\ task[e].todo # <<>>
  <2>1. WritesOnce(task[e].todo)
    BY <1>3 DEF Forwarding, List
  <2>2. task[e].todo \in Seq(Closing)
    BY <1>3 DEF Shaped, ClosingUp, List
  <2> QED BY <1>3, <2>1, <2>2, RestWrites
<1>4. CASE /\ Doing(r, "exec") /\ Serving(e) /\ task[e].part = "rejected"
           /\ task'[e].part = "except" /\ List(r, "exec")' = OnFailed(r)
  BY <1>4
<1> QED BY <1>1, <1>2, <1>3, <1>4, BackgroundMoves

\* The handler of Hangup that finds no record writes none, and goes on so.
LEMMA UnfoundServed ==
  ASSUME NEW r \in Requests, Unfound(r), ~db.row[r].bound
  PROVE  LET t == <<r, "hangup">>
         IN /\ Op(t).op \notin {"write", "bind"}
            /\ Rest(t) # <<>> =>
                 /\ Seen(t) = Absent
                 /\ \E m \in Mapped : \E n \in 2..3 :
                      Rest(t) = Left(OnHangup(r, m), n)
<1> DEFINE t == <<r, "hangup">>
<1>1. PICK m \in Mapped, n \in 1..3 :
             /\ task[t].todo = Left(OnHangup(r, m), n)
             /\ n > 1 => task[t].seen = Absent
  BY DEF Unfound, List
<1> DEFINE P == OnHangup(r, m)
<1>2. /\ P \in Seq(Hops) /\ Len(P) = 3
      /\ P[1].op = "find" /\ P[2].op = "fetch" /\ P[3].op = "route"
  BY HangupLayout
<1>2a. P[1].on = r
  <2>1. m \in Statuses \union {"unmapped"}
    BY DEF Mapped, Statuses
  <2>2. Hop("route", r, m) \in Hops
    BY <2>1, HopTypes
  <2> QED BY <2>2, FindLayout, HopFields DEF OnHangup
<1> HIDE DEF P
<1>3. n \in 1..Len(P)
  BY <1>2
<1>4. /\ Op(t) = P[n]
      /\ P[n].op \notin {"guard", "found", "route"} => Rest(t) = Left(P, n + 1)
      /\ P[n].op = "route" =>
           Rest(t) = IF task[t].seen = Absent THEN <<>>
                     ELSE HangupBody(P[n].on, P[n].arg, task[t].seen)
  <2>1. task[t].todo = Left(P, n) /\ P \in Seq(Hops)
    BY <1>1, <1>2 DEF P
  <2> HIDE DEF t
  <2> QED BY <1>3, <2>1, ServedAt
<1>5. CASE n = 1
  <2>1. Op(t) = P[1] /\ Rest(t) = Left(P, 2)
    BY <1>2, <1>4, <1>5
  <2>2. Seen(t) = Absent
    BY <1>2, <1>2a, <2>1 DEF Seen, ReadBy
  <2> QED BY <1>2, <2>1, <2>2 DEF P
<1>6. CASE n = 2
  <2>1. Op(t) = P[2] /\ Rest(t) = Left(P, 3) /\ task[t].seen = Absent
    BY <1>1, <1>2, <1>4, <1>6
  <2>2. Seen(t) = Absent
    BY <1>2, <2>1 DEF Seen
  <2> QED BY <1>2, <2>1, <2>2 DEF P
<1>7. CASE n = 3
  <2>1. Op(t) = P[3] /\ Rest(t) = <<>>
    BY <1>1, <1>2, <1>4, <1>7
  <2> QED BY <1>2, <2>1
<1> QED BY <1>5, <1>6, <1>7

\* Before a call is over none of its Hangup is handled, and before it is played
\* no PlaybackComplete.
LEMMA TooEarly ==
  ASSUME Inv, NEW r \in Requests
  PROVE  /\ Doing(r, "hangup") => CallEnded(r)
         /\ Doing(r, "complete") => call[r] = "played" \/ CallEnded(r)
         /\ \A k \in Handlers : Doing(r, k) => call[r] # "none"
<1>1. \A k \in Handlers : Doing(r, k) => k \in Started(call[r])
  BY DEF Inv, HandlersFollowCall, Doing
<1>2. call[r] \in Phases
  BY DEF Inv, TypeOK
<1>3. "hangup" \in Handlers /\ "complete" \in Handlers
  BY DEF Handlers
<1>4. CASE CallEnded(r)
  BY <1>4 DEF CallEnded
<1>5. CASE ~CallEnded(r)
  <2>1. "hangup" \notin Started(call[r])
    BY <1>2, <1>5 DEF Phases, Started, CallEnded, Handlers
  <2>2. call[r] # "played" => "complete" \notin Started(call[r])
    BY <1>2, <1>5 DEF Phases, Started, CallEnded, Handlers
  <2>3. call[r] = "none" => Started(call[r]) = {}
    BY DEF Started
  <2> QED BY <1>1, <1>3, <2>1, <2>2, <2>3
<1> QED BY <1>4, <1>5

\* The handler of a Hangup goes on as the call ended.
LEMMA HangupMoves ==
  ASSUME Inv, [Next]_vars, NEW r \in Requests,
         Doing(r, "hangup")'
  PROVE  LET t == <<r, "hangup">>
         IN \/ task'[t] = task[t] /\ Doing(r, "hangup")
            \/ /\ ~CallEnded(r)
               /\ \E m \in Mapped : /\ List(r, "hangup")' = Left(OnHangup(r, m), 1)
                                    /\ call[r] = "played" => m = "completed"
            \/ /\ Doing(r, "hangup") /\ call' = call
               /\ List(r, "hangup")' = Rest(t) /\ Rest(t) # <<>>
               /\ task'[t].seen = Seen(t)
<1> DEFINE t == <<r, "hangup">>
<1>0. /\ t \in Tasks /\ t[1] = r /\ t[2] = "hangup" /\ t[2] \in Handlers
      /\ task'[t].st = "db"
  BY TaskNames DEF Doing, Handlers
<1>1. task'[t] = task[t] \/ Joins(t) \/ GoesOn(t)
  BY <1>0, TaskMoves
<1>2. CASE task'[t] = task[t]
  BY <1>0, <1>2 DEF Doing
<1>3. CASE Joins(t)
  <2>1. Triggered(r, "hangup")
    BY <1>0, <1>3 DEF Joins
  <2>2. /\ ~CallEnded(r)
        /\ \E m \in Mapped : /\ List(r, "hangup")' = OnHangup(r, m)
                             /\ call[r] = "played" => m = "completed"
    BY <2>1 DEF Triggered
  <2>3. \A m \in Mapped : OnHangup(r, m) = Left(OnHangup(r, m), 1)
    BY HangupLayout, LeftEnds
  <2> QED BY <2>2, <2>3
<1>4. CASE GoesOn(t)
  <2>1. Work(t) /\ UNCHANGED asterisk
    BY <1>0, <1>4 DEF GoesOn
  <2>2. /\ task[t].st = "db" /\ task'[t].todo = Rest(t)
        /\ task'[t].seen = Seen(t) /\ Rest(t) # <<>>
    BY <2>1, WorkGives DEF Work
  <2> QED BY <2>1, <2>2 DEF Doing, List, asterisk
<1> QED BY <1>1, <1>2, <1>3, <1>4

\* What a Hangup records follows from how the call ended.
LEMMA HangupAgreesKept ==
  ASSUME Inv, RecordInv, [Next]_vars, NEW r \in Requests,
         HangupAgrees(r)
  PROVE  HangupAgrees(r)'
<1> DEFINE t == <<r, "hangup">>
<1>0. Inv'
  BY NextInv
<1>1. ASSUME call'[r] = "refused", Doing(r, "hangup")'
      PROVE  Unfound(r)'
  <2>1. Doing(r, "hangup") => call[r] = "refused"
    <3>1. Doing(r, "hangup") => CallEnded(r)
      BY TooEarly
    <3>2. call[r] \in {"dialing", "ringing", "refused"}
      BY <1>1, CallStarts
    <3> QED BY <3>1, <3>2 DEF CallEnded
  <2>2. CASE task'[t] = task[t] /\ Doing(r, "hangup")
    <3>1. Unfound(r)
      BY <2>1, <2>2 DEF HangupAgrees
    <3> QED BY <2>2, <3>1 DEF Unfound, List
  <2>3. CASE \E m \in Mapped : List(r, "hangup")' = Left(OnHangup(r, m), 1)
    BY <2>3 DEF Unfound
  <2>4. CASE /\ Doing(r, "hangup")
             /\ List(r, "hangup")' = Rest(t) /\ Rest(t) # <<>>
             /\ task'[t].seen = Seen(t)
    <3>1. Unfound(r) /\ call[r] = "refused"
      BY <2>1, <2>4 DEF HangupAgrees
    <3>2. ~db.row[r].bound
      BY <3>1 DEF RecordInv, TrueTables, TrueRow, Known, PickedUp
    <3>3. /\ Seen(t) = Absent
          /\ \E m \in Mapped : \E n \in 2..3 : Rest(t) = Left(OnHangup(r, m), n)
      BY <2>4, <3>1, <3>2, UnfoundServed
    <3> QED BY <2>4, <3>3 DEF Unfound
  <2> QED BY <1>1, <2>2, <2>3, <2>4, HangupMoves
<1>2. ASSUME call'[r] \in {"played", "finished"}, Doing(r, "hangup")'
      PROVE  HangingUp(r, "completed", List(r, "hangup")')
  <2>1. call'[r] = "finished"
    <3>1. "hangup" \in Started(call'[r])
      BY <1>0, <1>2 DEF Inv, HandlersFollowCall, Doing, Handlers
    <3> QED BY <1>2, <3>1 DEF Started
  <2>2. call[r] \in {"played", "finished"}
    BY <2>1, CallStarts
  <2>3. CASE task'[t] = task[t] /\ Doing(r, "hangup")
    BY <2>2, <2>3 DEF HangupAgrees, List
  <2>4. CASE /\ ~CallEnded(r)
             /\ \E m \in Mapped : /\ List(r, "hangup")' = Left(OnHangup(r, m), 1)
                                  /\ call[r] = "played" => m = "completed"
    <3>1. List(r, "hangup")' = Left(OnHangup(r, "completed"), 1)
      BY <2>2, <2>4 DEF CallEnded
    <3> QED BY <3>1 DEF HangingUp, Routing
  <2>5. CASE /\ Doing(r, "hangup")
             /\ List(r, "hangup")' = Rest(t) /\ Rest(t) # <<>>
             /\ task'[t].seen = Seen(t)
    <3>1. HangingUp(r, "completed", List(r, "hangup"))
      BY <2>2, <2>5 DEF HangupAgrees
    <3>2. "completed" \in Mapped /\ TypeOK
      BY DEF Mapped, Terminal, Inv
    <3>3. HangingUp(r, "completed", Rest(t))
      BY <2>5, <3>1, <3>2, RoutingServed, EndingServed DEF HangingUp
    <3> QED BY <2>5, <3>3
  <2> QED BY <1>2, <2>3, <2>4, <2>5, HangupMoves
<1>3. ASSUME call'[r] = "dropped", Doing(r, "complete")'
      PROVE  FALSE
  <2>1. call[r] \in {"up", "dialplan", "playing", "dropped"}
    BY <1>3, CallStarts
  <2>2. ~Doing(r, "complete")
    BY <2>1, TooEarly DEF HangupAgrees, CallEnded
  <2>3. Triggered(r, "complete")
    BY <1>3, <2>2, HandlerStarts DEF Handlers
  <2> QED BY <1>3, <2>3 DEF Triggered
<1>4. HangingUp(r, "completed", List(r, "hangup")')
        = HangingUp(r, "completed", List(r, "hangup"))'
  BY DEF HangingUp, Routing, Ending
<1> QED BY <1>1, <1>2, <1>3, <1>4 DEF HangupAgrees

\* A statement is executed while the call stands still, and its coroutine goes
\* on or ends.
LEMMA StatementMoves ==
  ASSUME Inv, [Next]_vars, ~Crash, db' # db, NEW t, Serving(t)
  PROVE  t \in Tasks /\ UNCHANGED asterisk /\ (GoesOn(t) \/ Quits(t))
<1>1. ~Idles /\ \A u \in Tasks : ~Joins(u)
  BY DEF Idles, Joins, store
<1>2. PICK u \in Tasks : GoesOn(u) \/ Quits(u)
  BY <1>1, QueueMoves
<1>3. u = t
  BY <1>2 DEF GoesOn, Quits, Serving
<1> QED BY <1>2, <1>3 DEF GoesOn, Quits

\* Which final status is recorded of a call that ended in which way, and that
\* it is the last one.
LEMMA WhoRecords ==
  ASSUME Inv, RecordInv, CreationInv, [Next]_vars, ~Crash,
         NEW r \in Requests, OrderOf(r), AgreeOf(r),
         db'.row[r].status \in Terminal,
         db'.row[r].status # db.row[r].status
  PROVE  /\ call' = call /\ due' = due
         /\ \/ call[r] = "none" /\ db'.row[r].status = "failed"
            \/ /\ call[r] = "refused" /\ due[r] = "no"
               /\ Doing(r, "exec") /\ WritesStatus(List(r, "exec"))
               /\ Doing(r, "exec")' => ~WritesStatus(List(r, "exec")')
            \/ call[r] \in {"played", "finished"}
                 /\ db'.row[r].status = "completed"
            \/ /\ call[r] = "dropped" /\ TurnsLeft(r, "hangup") = 1
               /\ TurnsLeft(r, "hangup")' = 0
<1>1. PICK t : /\ Serving(t) /\ Op(t).on = r
               /\ \/ Op(t).op \in {"write", "bind"}
                     /\ db'.row[r].status = Op(t).arg
                  \/ Op(t).op = "insert" /\ db'.row[r].status = "queued"
  BY RowMoves
<1>2. Op(t).op \in {"write", "bind"} /\ Op(t).arg \in Terminal
      /\ db'.row[r].status = Op(t).arg
  BY <1>1 DEF Terminal, Retryable
<1>3. t \in Tasks /\ call' = call /\ due' = due /\ (GoesOn(t) \/ Quits(t))
  BY <1>1, StatementMoves DEF asterisk
<1>4. /\ t = <<r, t[2]>> /\ Doing(r, t[2])
      /\ \/ /\ t[2] \in {"complete", "hangup"} /\ TurnsLeft(r, t[2]) = 1
            /\ Op(t).op = "write"
            /\ t[2] = "complete" => Op(t).arg = "completed"
         \/ t[2] = "response"
         \/ /\ t[2] = "exec" /\ Op(t).op = "write"
            /\ \/ task[t].part = "forward" /\ call[r] = "refused"
               \/ task[t].part \in {"rejected", "except"}
  BY <1>1, <1>2, Writer DEF OrderOf
<1>5. /\ Awaited(r) /\ NotAccepted(r) /\ Forwarding(r) /\ HangupAgrees(r)
      /\ Shaped(r) /\ Reported(r)
  BY DEF AgreeOf, OrderOf
<1>6. CASE t[2] = "complete"
  <2>1. call[r] = "played" \/ CallEnded(r)
    BY <1>4, <1>6, TooEarly
  <2>2. call[r] # "refused" /\ call[r] # "dropped"
    BY <1>4, <1>5, <1>6 DEF Reported, Updates, HangupAgrees
  <2>3. call[r] \in {"played", "finished"}
    BY <2>1, <2>2 DEF CallEnded
  <2> QED BY <1>2, <1>3, <1>4, <1>6, <2>3
<1>7. CASE t[2] = "hangup"
  <2>0. t = <<r, "hangup">> /\ Doing(r, "hangup")
    BY <1>4, <1>7
  <2>1. CallEnded(r)
    BY <2>0, TooEarly
  <2>2. call[r] # "refused"
    <3>1. SUFFICES ASSUME call[r] = "refused" PROVE FALSE
      OBVIOUS
    <3>2. Unfound(r)
      BY <1>5, <2>0, <3>1 DEF HangupAgrees
    <3>3. ~db.row[r].bound
      BY <3>1 DEF RecordInv, TrueTables, TrueRow, Known, PickedUp
    <3> QED BY <1>2, <2>0, <3>2, <3>3, UnfoundServed
  <2>3. CASE call[r] = "finished"
    <3>1. HangingUp(r, "completed", List(r, "hangup"))
      BY <1>5, <2>0, <2>3 DEF HangupAgrees
    <3>2. "completed" \in Mapped /\ "completed" # "unmapped" /\ TypeOK
      BY DEF Mapped, Terminal, Inv
    <3>3. Op(t).arg = "completed"
      BY <1>2, <2>0, <3>1, <3>2, RoutingServed, EndingServed DEF HangingUp
    <3> QED BY <1>2, <1>3, <2>3, <3>3
  <2>4. CASE call[r] = "dropped"
    <3>1. TurnsLeft(r, "hangup") = 1
      BY <1>4, <1>7
    <3>2. TurnsLeft(r, "hangup")' \in Nat
      <4>1. TypeOK'
        BY NextInv DEF Inv
      <4> QED BY <4>1, TurnsNatural DEF Handlers
    <3>3. TurnsLeft(r, "hangup")' = 0
      <4>1. CASE Quits(t)
        BY <2>0, <4>1 DEF Quits, TurnsLeft, Doing
      <4>2. CASE GoesOn(t)
        <5>1. Work(<<r, "hangup">>) /\ "hangup" \in Handlers \ {"response"}
          BY <2>0, <4>2, TaskNames DEF GoesOn, Handlers
        <5>2. TurnsLeft(r, "hangup")' > 0 =>
                TurnsLeft(r, "hangup") = TurnsLeft(r, "hangup")' + 1
          BY <1>5, <5>1, ServedTurns
        <5> QED BY <3>1, <3>2, <5>2
      <4> QED BY <1>3, <4>1, <4>2
    <3> QED BY <1>3, <2>4, <3>1, <3>3
  <2> QED BY <2>1, <2>2, <2>3, <2>4 DEF CallEnded
<1>8. t[2] # "response"
  BY <1>4, <1>5 DEF Awaited
<1>9. CASE t[2] = "exec"
  <2>0. t = <<r, "exec">> /\ Doing(r, "exec") /\ Op(t).op = "write"
    BY <1>4, <1>9
  <2>1. CASE task[t].part \in {"rejected", "except"}
    <3>1. call[r] = "none" /\ WritesOnly(task[t].todo, "failed")
      BY <1>5, <2>0, <2>1 DEF NotAccepted, List
    <3>2. task[t].todo \in Seq(Closing)
      BY <1>5, <2>0, <2>1 DEF Shaped, ClosingUp, List
    <3>3. task[t].todo # <<>>
      BY <1>1, Served
    <3>4. Op(t).arg = "failed"
      BY <2>0, <3>1, <3>2, <3>3, RestWrites
    <3> QED BY <1>2, <1>3, <3>1, <3>4
  <2>2. CASE task[t].part = "forward" /\ call[r] = "refused"
    <3>1. WritesOnce(task[t].todo)
      BY <1>5, <2>0, <2>2 DEF Forwarding, List
    <3>2. task[t].todo \in Seq(Closing)
      BY <1>5, <2>0, <2>2 DEF Shaped, ClosingUp, List
    <3>3. task[t].todo # <<>>
      BY <1>1, Served
    <3>4. WritesStatus(List(r, "exec"))
      BY <2>0, <3>2, <3>3, ClosingRest DEF List
    <3>5. ~WritesStatus(Rest(t))
      BY <2>0, <3>1, <3>2, <3>3, RestWrites
    <3>6. due[r] = "no"
      BY <1>5, <2>0 DEF Awaited, Doing
    <3>7. Doing(r, "exec")' => List(r, "exec")' = Rest(t)
      <4>1. CASE Quits(t)
        BY <2>0, <4>1 DEF Quits, Doing
      <4>2. CASE GoesOn(t)
        <5>1. Work(t)
          BY <2>0, <2>2, <4>2 DEF GoesOn, FaultInTry
        <5> QED BY <2>0, <5>1, WorkGives DEF List
      <4> QED BY <1>3, <4>1, <4>2
    <3> QED BY <1>3, <2>0, <2>2, <3>4, <3>5, <3>6, <3>7
  <2> QED BY <1>4, <1>9, <2>1, <2>2
<1> QED BY <1>4, <1>6, <1>7, <1>8, <1>9

\* What a final status says of the call that is over stays true of it.
LEMMA FinalAgreesKept ==
  ASSUME Inv, RecordInv, CreationInv, [Next]_vars, ~Crash, Smooth,
         NEW r \in Requests, OrderOf(r), AgreeOf(r)
  PROVE  FinalAgrees(r)'
<1> DEFINE e == <<r, "exec">>
           t == <<r, "hangup">>
<1> SUFFICES ASSUME db'.row[r].status \in Terminal
             PROVE  FinalAgrees(r)'
  BY DEF FinalAgrees
<1>0. /\ Awaited(r) /\ NotAccepted(r) /\ FinalAgrees(r)
      /\ Shaped(r) /\ Reported(r)
  BY DEF AgreeOf, OrderOf
<1>1. CASE db'.row[r].status # db.row[r].status
  BY <1>1, WhoRecords DEF FinalAgrees, WritesStatus
<1>2. CASE db'.row[r].status = db.row[r].status
  <2>1. db.row[r].status \in Terminal
    BY <1>2
  <2>2. \/ CallEnded(r) \/ call[r] = "played" \/ call[r] = "none"
    <3>1. ~(used["drop"] > 0)
      BY DEF Smooth
    <3>2. ~PlaysOn(r)
      BY <3>1 DEF PlaysOn
    <3> QED BY <2>1, <3>2, FinalIsOver
  <2>3. ASSUME call'[r] = "none"
        PROVE  db'.row[r].status = "failed"
    <3>1. call[r] = "none"
      BY <2>3, CallStarts
    <3> QED BY <1>0, <1>2, <2>1, <3>1 DEF FinalAgrees
  <2>4. ASSUME call'[r] = "refused"
        PROVE  /\ due'[r] = "no"
               /\ ~(Doing(r, "exec")' /\ WritesStatus(List(r, "exec")'))
    <3>1. call[r] = "refused"
      BY <2>2, <2>4, CallStarts DEF CallEnded
    <3>2. /\ due[r] = "no"
          /\ ~(Doing(r, "exec") /\ WritesStatus(List(r, "exec")))
      BY <1>0, <2>1, <3>1 DEF FinalAgrees
    <3>3. due'[r] = "no"
      BY <3>1, <3>2, DueMoves
    <3>4. SUFFICES ASSUME Doing(r, "exec")'
                   PROVE  ~WritesStatus(List(r, "exec")')
      BY <3>3
    <3>5. CASE task'[e] = task[e] /\ Doing(r, "exec")
      BY <3>2, <3>5 DEF List
    <3>6. CASE ~Doing(r, "exec") /\ Resumed(r)
      <4>1. task'[e].part # "pre"
        <5>1. Inv'
          BY NextInv
        <5> QED BY <2>4, <3>4, <5>1 DEF Inv, DialledOnce, BeforeDialling, Doing
      <4>2. task[e].st # "send"
        BY <3>1 DEF Inv, DialledOnce, BeforeDialling
      <4> QED BY <1>0, <3>2, <3>6, <4>1, <4>2 DEF Resumed, Awaited
    <3>7. CASE /\ Doing(r, "exec") /\ Serving(e)
               /\ task'[e].part = task[e].part /\ List(r, "exec")' = Rest(e)
               /\ task[e].todo # <<>>
      <4>1. task[e].part # "pre"
        BY <3>1, <3>7, PreIsFirst
      <4>2. task[e].todo \in Seq(Closing)
        BY <1>0, <3>7, <4>1 DEF Shaped, ClosingUp, List
      <4>3. WritesStatus(Rest(e)) => WritesStatus(task[e].todo)
        BY <3>7, <4>2, ClosingRest
      <4> QED BY <3>2, <3>7, <4>3 DEF List
    <3>8. CASE Doing(r, "exec") /\ task[e].part = "rejected"
      BY <1>0, <3>1, <3>8 DEF NotAccepted
    <3> QED BY <3>4, <3>5, <3>6, <3>7, <3>8, BackgroundMoves
  <2>5. ASSUME call'[r] \in {"played", "finished"}
        PROVE  db'.row[r].status = "completed"
    <3>1. call'[r] = "played" => call[r] = "played"
      BY <2>2, CallMoves, CallStarts DEF CallEnded
    <3>2. call[r] \in {"played", "finished"}
      BY <2>5, <3>1, CallStarts
    <3> QED BY <1>0, <1>2, <2>1, <3>2 DEF FinalAgrees
  <2>6. ASSUME call'[r] = "dropped"
        PROVE  TurnsLeft(r, "hangup")' = 0
    <3>1. call[r] = "dropped" /\ CallEnded(r)
      BY <2>2, <2>6, CallStarts DEF CallEnded
    <3>2. TurnsLeft(r, "hangup") = 0
      BY <1>0, <2>1, <3>1 DEF FinalAgrees
    <3>3. t \in Tasks /\ t[1] = r /\ t[2] = "hangup" /\ t[2] \in Handlers
          /\ "hangup" \in Handlers \ {"response"}
      BY TaskNames DEF Handlers
    <3>4. TurnsLeft(r, "hangup")' \in Nat
      <4>1. TypeOK'
        BY NextInv DEF Inv
      <4> QED BY <3>3, <4>1, TurnsNatural
    <3>5. SUFFICES ASSUME TurnsLeft(r, "hangup")' > 0 PROVE FALSE
      BY <3>4
    <3>6. task'[t].st = "db"
      BY <3>5 DEF TurnsLeft, Doing
    <3>7. task'[t] = task[t] \/ Joins(t) \/ GoesOn(t)
      BY <3>3, <3>6, TaskMoves
    <3>8. task'[t] # task[t]
      BY <3>2, <3>3, <3>5, KeptTurns DEF Untouched
    <3>9. ~Joins(t)
      BY <3>1, <3>3 DEF Joins, Triggered
    <3>10. Work(t)
      BY <3>3, <3>7, <3>8, <3>9 DEF GoesOn
    <3>11. TurnsLeft(r, "hangup") = TurnsLeft(r, "hangup")' + 1
      BY <1>0, <3>3, <3>5, <3>10, ServedTurns
    <3> QED BY <3>2, <3>4, <3>11
  <2> QED BY <2>3, <2>4, <2>5, <2>6 DEF FinalAgrees, WritesStatus
<1> QED BY <1>1, <1>2

\* While the link and the process last, a final status is not replaced.
LEMMA FinalStays ==
  ASSUME Inv, RecordInv, CreationInv, [Next]_vars, ~Crash,
         NEW r \in Requests, OrderOf(r), AgreeOf(r),
         db.row[r].status \in Terminal
  PROVE  db'.row[r].status = db.row[r].status
<1> SUFFICES ASSUME db'.row[r].status # db.row[r].status
             PROVE  FALSE
  OBVIOUS
<1>1. db'.row[r].status \in Terminal
  BY FinalHolds
<1>2. FinalAgrees(r)
  BY DEF AgreeOf
<1> QED BY <1>1, <1>2, WhoRecords DEF FinalAgrees

-----------------------------------------------------------------------------
(* A final status is for good *)

\* Nothing is recorded or under way at first.
LEMMA InitAgrees == Init => AgreeInv
<1> SUFFICES ASSUME Init PROVE AgreeInv
  OBVIOUS
<1>1. ASSUME NEW r \in Requests
      PROVE  AgreeOf(r)
  <2>1. \A t \in Tasks : task[t].st = "idle"
    BY DEF Init, Fresh, Coroutine
  <2>2. \A k \in Kinds : ~Doing(r, k)
    BY <2>1, TaskNames DEF Doing
  <2>3. /\ ~Doing(r, "exec") /\ ~Doing(r, "response") /\ ~Doing(r, "hangup")
        /\ ~Doing(r, "complete") /\ task[<<r, "exec">>].st = "idle"
    BY <2>1, <2>2, TaskNames DEF Handlers
  <2>4. call[r] = "none" /\ due[r] = "no" /\ db.row[r].status = Absent
    BY DEF Init, NoRow
  <2>5. Absent \notin Terminal
    BY DEF Absent, Terminal, Retryable
  <2>6. Awaited(r)
    BY <2>3, <2>4 DEF Awaited, Dialled
  <2>7. NotAccepted(r) /\ Forwarding(r) /\ HangupAgrees(r)
    BY <2>3, <2>4 DEF NotAccepted, Forwarding, HangupAgrees
  <2>8. FinalAgrees(r)
    BY <2>4, <2>5 DEF FinalAgrees
  <2> QED BY <2>6, <2>7, <2>8 DEF AgreeOf
<1> QED BY <1>1 DEF AgreeInv

\* Every step keeps the agreement.
LEMMA NextAgrees ==
  /\ Inv /\ RecordInv /\ CreationInv /\ OrderInv /\ AgreeInv /\ [Next]_vars
  => AgreeInv'
<1> SUFFICES ASSUME Inv, RecordInv, CreationInv, OrderInv, AgreeInv, [Next]_vars,
                    Smooth'
             PROVE  \A r \in Requests : AgreeOf(r)'
  BY DEF AgreeInv
<1>1. Smooth /\ ~Crash /\ ~Disconnect
  BY SmoothSteps
<1>2. ASSUME NEW r \in Requests
      PROVE  AgreeOf(r)'
  <2>1. OrderOf(r) /\ AgreeOf(r)
    BY <1>1 DEF OrderInv, AgreeInv
  <2>2. Awaited(r)'
    BY <1>1, <2>1, AwaitedKept, NoResponse DEF AgreeOf, Awaited
  <2>3. NotAccepted(r)'
    BY <2>1, NotAcceptedKept DEF AgreeOf, OrderOf
  <2>4. Forwarding(r)'
    BY <2>1, ForwardingKept DEF AgreeOf, OrderOf
  <2>5. HangupAgrees(r)'
    BY <2>1, HangupAgreesKept DEF AgreeOf
  <2>6. FinalAgrees(r)'
    BY <1>1, <2>1, FinalAgreesKept
  <2> QED BY <2>2, <2>3, <2>4, <2>5, <2>6 DEF AgreeOf
<1> QED BY <1>2

\* As long as the link and the process last, a final status is that of how the
\* call ended, and whatever could record another one has been recorded or will
\* find nothing to record.
THEOREM EventsAgree == Spec => []AgreeInv
<1>1. Init => AgreeInv
  BY InitAgrees
<1>2. /\ Inv /\ RecordInv /\ CreationInv /\ OrderInv /\ AgreeInv /\ [Next]_vars
      => AgreeInv'
  BY NextAgrees
<1>3. (Spec => []Inv) /\ (Spec => []RecordInv) /\ (Spec => []CreationInv)
  BY Invariance, RecordsTrue, CreationsSafe
<1>4. Spec => []OrderInv
  BY InOrder
<1> QED BY <1>1, <1>2, <1>3, <1>4, PTL DEF Spec

\* is_terminal: what a client that has stopped polling was told stays true.
\* Only a lost link or a restart makes a terminal status another one; the
\* events of a call, however their handlers interleave, never disagree.
THEOREM TerminalForGood == Spec => TerminalHolds
<1>1. ASSUME Inv, RecordInv, CreationInv, OrderInv, AgreeInv, [Next]_vars
      PROVE  [used'["drop"] > 0 \/ used'["crash"] > 0 \/
                \A r \in Requests : db.row[r].status \in Terminal =>
                                      db'.row[r].status = db.row[r].status]_vars
  <2>1. SUFFICES ASSUME ~(used'["drop"] > 0), ~(used'["crash"] > 0),
                        NEW r \in Requests, db.row[r].status \in Terminal
                 PROVE  db'.row[r].status = db.row[r].status
    OBVIOUS
  <2>2. Inv'
    BY <1>1, NextInv
  <2>3. used' \in [{"drop", "crash", "fault"} -> Nat]
    BY <2>2 DEF Inv, TypeOK
  <2>4. Smooth'
    BY <2>1, <2>3 DEF Smooth
  <2>5. Smooth /\ ~Crash
    BY <1>1, <2>4, SmoothSteps
  <2>6. OrderOf(r) /\ AgreeOf(r)
    BY <1>1, <2>5 DEF OrderInv, AgreeInv
  <2> QED BY <1>1, <2>1, <2>5, <2>6, FinalStays
<1>2. (Spec => []Inv) /\ (Spec => []RecordInv) /\ (Spec => []CreationInv)
  BY Invariance, RecordsTrue, CreationsSafe
<1>3. (Spec => []OrderInv) /\ (Spec => []AgreeInv)
  BY InOrder, EventsAgree
<1> QED BY <1>1, <1>2, <1>3, PTL DEF Spec, TerminalHolds
=============================================================================
