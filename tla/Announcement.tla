----------------------------- MODULE Announcement -----------------------------
(***************************************************************************)
(* What the callee of an OTP call is promised: an introduction and the     *)
(* digits of the code, as often as asked, then a goodbye, in this order,   *)
(* until the call ends; the three user events tell the service where in    *)
(* this the call is.  Both contexts of extensions_custom.conf promise it.  *)
(***************************************************************************)
EXTENDS Naturals, Sequences

CONSTANTS
  Digits,  \* the bytes there is a recording of
  Bytes    \* all bytes a code may be made of

VARIABLES
  text,    \* OTP_CODE, as the bytes Asterisk has of it
  times,   \* OTP_REPEAT
  heard,   \* what the callee has heard
  told,    \* user events sent so far
  open     \* does the call have a channel?

vars == <<text, times, heard, told, open>>

Intro == "intro"
Goodbye == "goodbye"
Gap == "gap"

\* A byte without a recording plays nothing, and the dialplan goes on.
Word(b) == IF b \in Digits THEN b ELSE Gap

\* The whole announcement: times lines of introduction and code, the goodbye.
Script(code, n) ==
  LET line == Len(code) + 1
  IN [i \in 1..n * line + 1 |->
        IF i = n * line + 1 THEN Goodbye
        ELSE IF (i - 1) % line = 0 THEN Intro
        ELSE Word(code[(i - 1) % line])]

Init == text = <<>> /\ times = 0 /\ heard = <<>> /\ told = 0 /\ ~open

\* A call is placed, and its variables are set.
Enter == /\ ~open /\ open'
         /\ text' \in Seq(Bytes) /\ times' \in Nat
         /\ heard' = <<>> /\ told' = 0

\* OTPCallStart, then OTPPlaybackStart.
Tell == /\ open /\ told < 2 /\ told' = told + 1
        /\ UNCHANGED <<text, times, heard, open>>

Say == /\ open /\ told = 2 /\ Len(heard) < Len(Script(text, times))
       /\ heard' = Append(heard, Script(text, times)[Len(heard) + 1])
       /\ UNCHANGED <<text, times, told, open>>

\* OTPPlaybackComplete: nothing is left to say.
Complete == /\ open /\ told = 2 /\ heard = Script(text, times)
            /\ told' = 3 /\ UNCHANGED <<text, times, heard, open>>

\* The dialplan hangs up, or the callee does, at any point.
Leave == /\ open /\ ~open'
         /\ text' = <<>> /\ times' = 0 /\ heard' = <<>> /\ told' = 0

Next == Enter \/ Tell \/ Say \/ Complete \/ Leave

Spec == Init /\ [][Next]_vars
=============================================================================
