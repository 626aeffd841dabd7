---------------------------- MODULE SlidingWindow ----------------------------
(***************************************************************************)
(* What a sliding-window limiter promises.  Each key has a limit and a     *)
(* window; an event that is counted under some keys has room under each of *)
(* them, and is forgotten the moment it is a window old.                   *)
(***************************************************************************)
EXTENDS Integers, FiniteSets

CONSTANTS Keys, Limit, Window, Names

VARIABLES
  now,     \* the time
  recent   \* the events of each key that still count, with their time

vars == <<now, recent>>

TypeOK == /\ now \in Nat
          /\ recent \in [Keys -> SUBSET (Names \X Nat)]

Unexpired(events, k, t) == {e \in events : e[2] > t - Window[k]}

Init == now = 0 /\ recent = [k \in Keys |-> {}]

Pass == /\ now' = now + 1
        /\ recent' = [k \in Keys |-> Unexpired(recent[k], k, now')]

\* An event is counted under all of ks or under none of them.
Count(ks, e) ==
  /\ \A k \in ks : Cardinality(recent[k]) < Limit[k]
  /\ recent' = [k \in Keys |-> IF k \in ks
                               THEN Unexpired(recent[k] \union {e}, k, now)
                               ELSE recent[k]]
  /\ UNCHANGED now

\* A restart forgets everything.
Forget == recent' = [k \in Keys |-> {}] /\ UNCHANGED now

Next == \/ Pass \/ Forget
        \/ \E ks \in SUBSET Keys : \E n \in Names : Count(ks, <<n, now>>)

Spec == Init /\ [][Next]_vars

\* No key ever has more events in its window than its limit.
WithinLimits == \A k \in Keys : Cardinality(recent[k]) <= Limit[k]
=============================================================================
