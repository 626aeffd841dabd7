--------------------------- MODULE AmiClientProofs ---------------------------
(***************************************************************************)
(* The AMI link over both libraries: the connected flag is never left      *)
(* behind, the client's own reconnecting never multiplies and never ends   *)
(* before a chain is exhausted.                                            *)
(***************************************************************************)
EXTENDS AmiClient, TLAPS

\* A chain that dials has a manager of its own, which is connecting.
DiallingConnects ==
  /\ \A c \in Chains : chain[c].st = "dial" =>
                          /\ chain[c].on \in Managers
                          /\ link[chain[c].on] = "connecting"
  /\ \A c, d \in Chains : /\ chain[c].st = "dial" /\ chain[d].st = "dial"
                           /\ chain[c].on = chain[d].on
                           => c = d

\* A process that is down has nothing.
DownIsEmpty ==
  service = "down" => /\ \A c \in Chains : ~Active(c)
                      /\ \A m \in Managers : link[m] = "off" /\ ~redial[m]

\* Without redialling, a manager has a connection only while it is the
\* client's, connects only while a chain awaits it, and is live only while no
\* chain is active; and there is one chain.
Single ==
  ~redials =>
    /\ \A m \in Managers : ~redial[m]
    /\ \A m \in Managers : link[m] # "off" => m = manager
    /\ \A m \in Managers : link[m] = "connecting" => ~NoOneDials(m)
    /\ \A c, d \in Chains : Active(c) /\ Active(d) => c = d
    /\ \A c \in Chains, m \in Managers : ~(Active(c) /\ Live(m))

LinkInv == /\ TypeOK /\ DiallingConnects /\ DownIsEmpty /\ Single /\ FlagIsHonest

\* NewManager and NewTask are what their names say.
LEMMA FreshManager ==
  ASSUME Room
  PROVE  NewManager \in Managers /\ Unused(NewManager)
  BY DEF Room, NewManager

\* The task that a lost session starts reconnecting in was idle.
LEMMA FreshTask ==
  ASSUME IdleTask
  PROVE  NewTask \in Tasks /\ chain[NewTask].st = "none"
  BY DEF IdleTask, NewTask

ChainRecords == [st : {"none", "sleep", "dial"},
                 on : Managers \union {NoManager}, tries : 0..(MaxTries - 1)]

\* The values chains take are well typed.
LEMMA ChainTyping ==
  /\ NoChain \in ChainRecords
  /\ Sleeping(0) \in ChainRecords
  /\ \A m \in Managers : Dialling(m, 0) \in ChainRecords
  /\ \A n \in Nat : n + 1 < MaxTries => Sleeping(n + 1) \in ChainRecords
  BY LinkAssumption, SMT DEF LinkAssumption, NoChain, Sleeping, Dialling,
      ChainRecords

\* The initial state satisfies the inductive invariant.
LEMMA InitInv == Init => LinkInv
  <1> SUFFICES ASSUME Init PROVE LinkInv OBVIOUS
  <1> USE DEF Init
  <1>1. TypeOK
    <2>1. chain \in [Chains -> ChainRecords]
      BY ChainTyping
    <2>2. QED BY <2>1 DEF TypeOK, Links, ChainRecords
  <1>2. DiallingConnects /\ DownIsEmpty /\ Single /\ FlagIsHonest
    BY DEF DiallingConnects, DownIsEmpty, Single, FlagIsHonest, NoChain,
        Active, Live
  <1>3. QED BY <1>1, <1>2 DEF LinkInv

\* The first attempt.
LEMMA BootInv ==
  ASSUME LinkInv, Boot
  PROVE  LinkInv'
  <1> USE LinkAssumption DEF LinkInv, TypeOK, Links, client, Boot, Dialling,
      Unused, NoChain
  <1>1. TypeOK'
    BY FreshManager DEF Chains, LinkAssumption
  <1>2. DiallingConnects'
    BY <1>1, FreshManager DEF DiallingConnects, DownIsEmpty, Chains, Active,
        NoOneDials, LinkAssumption
  <1>3. DownIsEmpty'
    BY <1>1, FreshManager DEF DownIsEmpty, DiallingConnects, Chains, Active,
        LinkAssumption
  <1>4. Single'
    BY <1>1, FreshManager DEF Single, DownIsEmpty, DiallingConnects, Chains,
        Active, Live, NoOneDials, Dials, LinkAssumption
  <1>5. FlagIsHonest'
    BY <1>1, FreshManager DEF FlagIsHonest, LinkAssumption
  <1>6. QED BY <1>1, <1>2, <1>3, <1>4, <1>5

\* The sleep is over.
LEMMA WakeInv ==
  ASSUME NEW c \in Chains, LinkInv, Wake(c)
  PROVE  LinkInv'
  <1> USE LinkAssumption DEF LinkInv, TypeOK, Links, client, Wake, Dialling,
      Unused
  <1>1. TypeOK'
    BY FreshManager DEF Chains, LinkAssumption
  <1>2. DiallingConnects'
    BY <1>1, FreshManager DEF DiallingConnects, DownIsEmpty, Chains, Active,
        NoOneDials, LinkAssumption
  <1>3. DownIsEmpty'
    BY <1>1, FreshManager DEF DownIsEmpty, DiallingConnects, Chains, Active,
        LinkAssumption
  <1>4. Single'
    BY <1>1, FreshManager DEF Single, DownIsEmpty, DiallingConnects, Chains,
        Active, Live, NoOneDials, Dials, LinkAssumption
  <1>5. FlagIsHonest'
    BY <1>1, FreshManager DEF FlagIsHonest, LinkAssumption
  <1>6. QED BY <1>1, <1>2, <1>3, <1>4, <1>5

\* A connection is made.
LEMMA EstablishedInv ==
  ASSUME NEW m \in Managers, LinkInv, Established(m)
  PROVE  LinkInv'
  <1> USE LinkAssumption DEF LinkInv, TypeOK, Links, client, Established,
      NoChain, Dials
  <1>1. TypeOK'
    BY DEF Chains, LinkAssumption
  <1>2. DiallingConnects'
    BY <1>1 DEF DiallingConnects, DownIsEmpty, Chains, Active, NoOneDials,
        LinkAssumption
  <1>3. DownIsEmpty'
    BY <1>1 DEF DownIsEmpty, DiallingConnects, Chains, Active, LinkAssumption
  <1>4. Single'
    BY <1>1 DEF Single, DownIsEmpty, DiallingConnects, Chains, Active, Live,
        NoOneDials, Dials, LinkAssumption
  <1>5. FlagIsHonest'
    BY <1>1 DEF FlagIsHonest, LinkAssumption
  <1>6. QED BY <1>1, <1>2, <1>3, <1>4, <1>5

\* The login is answered.
LEMMA LogInInv ==
  ASSUME NEW m \in Managers, LinkInv, LogIn(m)
  PROVE  LinkInv'
  <1> USE LinkAssumption DEF LinkInv, TypeOK, Links, client, LogIn
  <1>1. TypeOK'
    BY DEF Chains, LinkAssumption
  <1>2. DiallingConnects'
    BY <1>1 DEF DiallingConnects, DownIsEmpty, Chains, Active, NoOneDials,
        LinkAssumption
  <1>3. DownIsEmpty'
    BY <1>1 DEF DownIsEmpty, DiallingConnects, Chains, Active, LinkAssumption
  <1>4. Single'
    BY <1>1 DEF Single, DownIsEmpty, DiallingConnects, Chains, Active, Live,
        NoOneDials, Dials, LinkAssumption
  <1>5. FlagIsHonest'
    BY <1>1 DEF FlagIsHonest, LinkAssumption
  <1>6. QED BY <1>1, <1>2, <1>3, <1>4, <1>5

\* A failed attempt nests the chain.
LEMMA AttemptFailsInv ==
  ASSUME NEW c \in Chains, NEW m \in Managers, LinkInv, AttemptFails(c, m)
  PROVE  LinkInv'
  <1> USE LinkAssumption DEF LinkInv, TypeOK, Links, client, AttemptFails,
      Sleeping, Dials
  <1>1. TypeOK'
    <2>1. chain \in [Chains -> ChainRecords]
      BY DEF ChainRecords
    <2>2. Sleeping(chain[c].tries + 1) \in ChainRecords
      BY <2>1, ChainTyping DEF ChainRecords
    <2>3. chain' = [chain EXCEPT ![c] = Sleeping(chain[c].tries + 1)]
      OBVIOUS
    <2>4. chain' \in [Chains -> ChainRecords]
      BY <2>1, <2>2, <2>3
    <2>5. QED BY <2>4 DEF ChainRecords
  <1>2. DiallingConnects'
    BY <1>1 DEF DiallingConnects, DownIsEmpty, Chains, Active, NoOneDials,
        LinkAssumption
  <1>3. DownIsEmpty'
    BY <1>1 DEF DownIsEmpty, DiallingConnects, Chains, Active, LinkAssumption
  <1>4. Single'
    BY <1>1 DEF Single, DownIsEmpty, DiallingConnects, Chains, Active, Live,
        NoOneDials, Dials, LinkAssumption
  <1>5. FlagIsHonest'
    BY <1>1 DEF FlagIsHonest, LinkAssumption
  <1>6. QED BY <1>1, <1>2, <1>3, <1>4, <1>5

\* A failed attempt breaks the chain.
LEMMA ChainBreaksInv ==
  ASSUME NEW c \in Chains, NEW m \in Managers, LinkInv, ChainBreaks(c, m)
  PROVE  LinkInv'
  <1> USE LinkAssumption DEF LinkInv, TypeOK, Links, client, ChainBreaks,
      NoChain, Dials
  <1>1. TypeOK'
    <2>1. chain \in [Chains -> ChainRecords]
      BY DEF ChainRecords
    <2>2. NoChain \in ChainRecords
      BY <2>1, ChainTyping DEF ChainRecords
    <2>3. chain' = [chain EXCEPT ![c] = NoChain]
      OBVIOUS
    <2>4. chain' \in [Chains -> ChainRecords]
      BY <2>1, <2>2, <2>3
    <2>5. QED BY <2>4 DEF ChainRecords
  <1>2. DiallingConnects'
    BY <1>1 DEF DiallingConnects, DownIsEmpty, Chains, Active, NoOneDials,
        LinkAssumption
  <1>3. DownIsEmpty'
    BY <1>1 DEF DownIsEmpty, DiallingConnects, Chains, Active, LinkAssumption
  <1>4. Single'
    BY <1>1 DEF Single, DownIsEmpty, DiallingConnects, Chains, Active, Live,
        NoOneDials, Dials, LinkAssumption
  <1>5. FlagIsHonest'
    BY <1>1 DEF FlagIsHonest, LinkAssumption
  <1>6. QED BY <1>1, <1>2, <1>3, <1>4, <1>5

\* A manager's own timer.
LEMMA RedialInv ==
  ASSUME NEW m \in Managers, LinkInv, Redial(m)
  PROVE  LinkInv'
  <1> USE LinkAssumption DEF LinkInv, TypeOK, Links, client, Redial
  <1>1. TypeOK'
    BY DEF Chains, LinkAssumption
  <1>2. DiallingConnects'
    BY <1>1 DEF DiallingConnects, DownIsEmpty, Chains, Active, NoOneDials,
        LinkAssumption
  <1>3. DownIsEmpty'
    BY <1>1 DEF DownIsEmpty, DiallingConnects, Chains, Active, LinkAssumption
  <1>4. Single'
    BY <1>1 DEF Single, DownIsEmpty, DiallingConnects, Chains, Active, Live,
        NoOneDials, Dials, LinkAssumption
  <1>5. FlagIsHonest'
    BY <1>1 DEF FlagIsHonest, LinkAssumption
  <1>6. QED BY <1>1, <1>2, <1>3, <1>4, <1>5

\* A manager's own attempt fails.
LEMMA RedialFailsInv ==
  ASSUME NEW m \in Managers, LinkInv, RedialFails(m)
  PROVE  LinkInv'
  <1> USE LinkAssumption DEF LinkInv, TypeOK, Links, client, RedialFails, Dials
  <1>1. TypeOK'
    BY DEF Chains, LinkAssumption
  <1>2. DiallingConnects'
    BY <1>1 DEF DiallingConnects, DownIsEmpty, Chains, Active, NoOneDials,
        LinkAssumption
  <1>3. DownIsEmpty'
    BY <1>1 DEF DownIsEmpty, DiallingConnects, Chains, Active, LinkAssumption
  <1>4. Single'
    BY <1>1 DEF Single, DownIsEmpty, DiallingConnects, Chains, Active, Live,
        NoOneDials, Dials, LinkAssumption
  <1>5. FlagIsHonest'
    BY <1>1 DEF FlagIsHonest, LinkAssumption
  <1>6. QED BY <1>1, <1>2, <1>3, <1>4, <1>5

\* A session ends.
LEMMA LoseSessionInv ==
  ASSUME NEW m \in Managers, LinkInv, LoseSession(m)
  PROVE  LinkInv'
  <1> USE LinkAssumption DEF LinkInv, TypeOK, Links, client, LoseSession,
      Mishap
  <1>1. TypeOK'
    BY DEF Chains, LinkAssumption
  <1>2. DiallingConnects'
    BY <1>1 DEF DiallingConnects, DownIsEmpty, Chains, Active, NoOneDials,
        LinkAssumption
  <1>3. DownIsEmpty'
    BY <1>1 DEF DownIsEmpty, DiallingConnects, Chains, Active, LinkAssumption
  <1>4. Single'
    BY <1>1 DEF Single, DownIsEmpty, DiallingConnects, Chains, Active, Live,
        NoOneDials, Dials, LinkAssumption
  <1>5. FlagIsHonest'
    BY <1>1 DEF FlagIsHonest, LinkAssumption
  <1>6. QED BY <1>1, <1>2, <1>3, <1>4, <1>5

\* The disconnect callback creates a chain.
LEMMA OnDisconnectInv ==
  ASSUME NEW m \in Managers, LinkInv, OnDisconnect(m)
  PROVE  LinkInv'
  <1> USE LinkAssumption DEF LinkInv, TypeOK, Links, client, OnDisconnect,
      Sleeping
  <1>1. TypeOK'
    <2>1. chain \in [Chains -> ChainRecords]
      BY DEF ChainRecords
    <2>2. Sleeping(0) \in ChainRecords
      BY <2>1, ChainTyping, FreshTask DEF ChainRecords
    <2>3. chain' = [chain EXCEPT ![NewTask] = Sleeping(0)]
      OBVIOUS
    <2>4. chain' \in [Chains -> ChainRecords]
      BY <2>1, <2>2, <2>3
    <2>5. QED BY <2>4 DEF ChainRecords
  <1>2. DiallingConnects'
    BY <1>1, FreshTask DEF DiallingConnects, DownIsEmpty, Chains, Active,
        NoOneDials, LinkAssumption
  <1>3. DownIsEmpty'
    BY <1>1, FreshTask DEF DownIsEmpty, DiallingConnects, Chains, Active,
        LinkAssumption
  <1>4. Single'
    BY <1>1, FreshTask DEF Single, DownIsEmpty, DiallingConnects, Chains,
        Active, Live, NoOneDials, Dials, LinkAssumption
  <1>5. FlagIsHonest'
    BY <1>1, FreshTask DEF FlagIsHonest, LinkAssumption
  <1>6. QED BY <1>1, <1>2, <1>3, <1>4, <1>5

\* Shutdown closes the current manager.
LEMMA CloseInv ==
  ASSUME LinkInv, Close
  PROVE  LinkInv'
  <1> USE LinkAssumption DEF LinkInv, TypeOK, Links, client, Close, Mishap
  <1>1. TypeOK'
    <2>1. used' \in [{"outage", "drop", "stop"} -> Nat]
      BY DEF Mishap
    <2>2. link' \in [Managers -> Links]
      OBVIOUS
    <2>3. QED BY <2>1, <2>2
  <1>2. DiallingConnects'
    BY <1>1 DEF DiallingConnects, DownIsEmpty, Chains, Active, NoOneDials,
        LinkAssumption
  <1>3. DownIsEmpty'
    BY <1>1 DEF DownIsEmpty, DiallingConnects, Chains, Active, LinkAssumption
  <1>4. Single'
    BY <1>1 DEF Single, DownIsEmpty, DiallingConnects, Chains, Active, Live,
        NoOneDials, Dials, LinkAssumption
  <1>5. FlagIsHonest'
    BY <1>1 DEF FlagIsHonest, LinkAssumption
  <1>6. QED BY <1>1, <1>2, <1>3, <1>4, <1>5

\* The process ends.
LEMMA GoneInv ==
  ASSUME LinkInv, Gone, UNCHANGED <<asterisk, redials>>,
         used' \in [{"outage", "drop", "stop"} -> Nat]
  PROVE  LinkInv'
  <1> USE LinkAssumption DEF LinkInv, Gone
  <1>1. TypeOK'
    <2>1. chain' \in [Chains -> ChainRecords]
      BY ChainTyping
    <2>2. QED BY <2>1 DEF TypeOK, Links, ChainRecords
  <1>2. DiallingConnects' /\ DownIsEmpty' /\ Single' /\ FlagIsHonest'
    BY DEF DiallingConnects, DownIsEmpty, Single, FlagIsHonest, NoChain,
           Active, Live
  <1>3. QED BY <1>1, <1>2

\* Steps that leave the process alone.
LEMMA OutsideInv ==
  ASSUME LinkInv, UNCHANGED <<redials, service, link, redial, client, wired>>,
         asterisk' \in {"up", "down"},
         used' \in [{"outage", "drop", "stop"} -> Nat]
  PROVE  LinkInv'
  BY DEF LinkInv, client, TypeOK, DiallingConnects, DownIsEmpty, Single,
         FlagIsHonest, Active, Live, NoOneDials, Dials

\* Mishaps are counted.
LEMMA MishapTyping ==
  ASSUME TypeOK, NEW kind \in {"outage", "drop", "stop"}, NEW max \in Nat,
         Mishap(kind, max)
  PROVE  used' \in [{"outage", "drop", "stop"} -> Nat]
  BY DEF TypeOK, Mishap

\* Every step of the client keeps the invariant.
LEMMA NextInv == LinkInv /\ [Next]_vars => LinkInv'
  <1> SUFFICES ASSUME LinkInv, [Next]_vars PROVE LinkInv'
    OBVIOUS
  <1>0. TypeOK /\ used \in [{"outage", "drop", "stop"} -> Nat]
    BY DEF LinkInv, TypeOK
  <1>1. ASSUME NEW m \in Managers, Session(m) PROVE LinkInv'
    BY <1>1, EstablishedInv, LogInInv, OnDisconnectInv, RedialInv,
       RedialFailsInv DEF Session
  <1>2. ASSUME NEW m \in Managers, LoseSession(m) PROVE LinkInv'
    BY <1>2, LoseSessionInv
  <1>3. ASSUME NEW m \in Managers, StartupBreaks(m) PROVE LinkInv'
    BY <1>0, <1>3, GoneInv DEF StartupBreaks
  <1>4. ASSUME NEW c \in Chains, Reconnect(c) PROVE LinkInv'
    BY <1>4, WakeInv, AttemptFailsInv, ChainBreaksInv DEF Reconnect
  <1>5. CASE Boot BY <1>5, BootInv
  <1>6. CASE Close BY <1>6, CloseInv
  <1>7. CASE Exit BY <1>0, <1>7, GoneInv DEF Exit
  <1>8. CASE Crash
    BY <1>0, <1>8, GoneInv, MishapTyping, LinkAssumption
    DEF Crash, LinkAssumption
  <1>9. CASE AsteriskStops
    BY <1>0, <1>9, OutsideInv, MishapTyping, LinkAssumption
    DEF AsteriskStops, LinkAssumption
  <1>10. CASE AsteriskStarts
    BY <1>0, <1>10, OutsideInv DEF AsteriskStarts
  <1>11. CASE UNCHANGED vars
    BY <1>0, <1>11, OutsideInv DEF vars, TypeOK
  <1>12. QED
    BY <1>1, <1>2, <1>3, <1>4, <1>5, <1>6, <1>7, <1>8, <1>9, <1>10, <1>11
    DEF Next

\* The invariant holds in every reachable state.
LEMMA Invariance == Spec => []LinkInv
  BY InitInv, NextInv, PTL DEF Spec

\* Every reachable state of the link is well typed.
THEOREM TypeCorrect == Spec => []TypeOK
  <1>1. LinkInv => TypeOK BY DEF LinkInv
  <1>2. QED BY <1>1, Invariance, PTL

\* is_connected is never left behind by the sessions, for any number of
\* managers, outages and lost sessions, whichever library dials.
THEOREM FlagHonest == Spec => []FlagIsHonest
  <1>1. LinkInv => FlagIsHonest BY DEF LinkInv
  <1>2. QED BY <1>1, Invariance, PTL

\* The client's own reconnecting never multiplies.
THEOREM NeverTwoLinks == Spec => []OneLink
  <1>1. LinkInv => OneLink
    BY DEF LinkInv, Single, OneLink, Live
  <1>2. QED BY <1>1, Invariance, PTL

\* Without redialling the flag tells of the manager send_action uses.
THEOREM FlagCurrent == Spec => []FlagIsCurrent
  <1>1. LinkInv => FlagIsCurrent
    BY DEF LinkInv, TypeOK, Single, FlagIsHonest, FlagIsCurrent
  <1>2. QED BY <1>1, Invariance, PTL

\* No lost session and no failed attempt goes without a next one, until a
\* chain is exhausted or the process ends.
THEOREM KeepsTrying == Spec => GivesUpOnlyExhausted
  <1> DEFINE Over == \/ service' = "down"
                     \/ \E c \in Chains : chain[c].tries + 1 = MaxTries
  <1>1. ASSUME LinkInv, [Next]_vars
        PROVE  [Trying /\ ~Trying' => Over]_vars
    <2> SUFFICES ASSUME Next, Trying, ~Trying', ~Over PROVE FALSE
      BY <1>1
    <2> USE DEF Trying, client
    <2>1. ASSUME NEW m \in Managers, Established(m) PROVE FALSE
      BY <1>1, <2>1 DEF Established, LinkInv, TypeOK
    <2>2. ASSUME NEW m \in Managers, LogIn(m) PROVE FALSE
      BY <1>1, <2>2 DEF LogIn, LinkInv, TypeOK
    <2>3. ASSUME NEW m \in Managers, OnDisconnect(m) PROVE FALSE
      BY <1>1, <2>3, FreshTask
      DEF OnDisconnect, LinkInv, TypeOK, Sleeping, Active, Chains
    <2>4. ASSUME NEW m \in Managers, Redial(m) PROVE FALSE
      BY <1>1, <2>4 DEF Redial, LinkInv, TypeOK
    <2>5. ASSUME NEW m \in Managers, RedialFails(m) PROVE FALSE
      BY <1>1, <2>5 DEF RedialFails, LinkInv, TypeOK, Single
    <2>6. ASSUME NEW m \in Managers, LoseSession(m) PROVE FALSE
      BY <1>1, <2>6 DEF LoseSession, LinkInv, TypeOK
    <2>7. ASSUME NEW m \in Managers, StartupBreaks(m) PROVE FALSE
      BY <2>7 DEF StartupBreaks, Gone
    <2>8. ASSUME NEW c \in Chains, Reconnect(c) PROVE FALSE
      <3>1. CASE Wake(c)
        BY <1>1, <3>1, FreshManager DEF Wake, LinkInv, TypeOK
      <3>2. ASSUME NEW m \in Managers, AttemptFails(c, m) PROVE FALSE
        BY <1>1, <2>8, <3>2
        DEF AttemptFails, LinkInv, TypeOK, Sleeping, Active
      <3>3. ASSUME NEW m \in Managers, ChainBreaks(c, m) PROVE FALSE
        BY <2>8, <3>3 DEF ChainBreaks
      <3>4. QED BY <2>8, <3>1, <3>2, <3>3 DEF Reconnect
    <2>9. CASE Boot
      BY <1>1, <2>9, FreshManager DEF Boot, LinkInv, TypeOK
    <2>10. CASE Close
      BY <1>1, <2>10 DEF Close, LinkInv, TypeOK, Active
    <2>11. CASE Exit \/ Crash
      BY <2>11 DEF Exit, Crash, Gone
    <2>12. CASE AsteriskStops \/ AsteriskStarts
      BY <2>12 DEF AsteriskStops, AsteriskStarts, Active
    <2>13. QED
      BY <2>1, <2>2, <2>3, <2>4, <2>5, <2>6, <2>7, <2>8, <2>9, <2>10, <2>11,
         <2>12 DEF Next, Session
  <1>2. QED
    BY <1>1, InitInv, NextInv, PTL DEF Spec, GivesUpOnlyExhausted
=============================================================================
