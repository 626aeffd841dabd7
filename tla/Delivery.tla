------------------------------- MODULE Delivery -------------------------------
(***************************************************************************)
(* From the request to the ear: what a client asks for passes the schema   *)
(* and the validator, is kept in the record, is retried, becomes channel   *)
(* variables, and is played by the dialplan.                               *)
(*                                                                         *)
(* One request and its retries.  Numbers and codes are short sequences of  *)
(* characters: the prefixes of normalize_mobile are the real ones, the     *)
(* nine digits after them are a model value, and a code has MinLen to      *)
(* MaxLen digits.  Of what Asterisk makes of the other characters of a     *)
(* retry's code, the comma is modelled; quotes, parentheses and            *)
(* backslashes, which it may treat in pairs, are not.                      *)
(***************************************************************************)
EXTENDS Naturals, Sequences, SequencesExt

CONSTANTS
  Digits,      \* the digits 0 to 9
  Wide,        \* digits of other scripts: \d of a Python str matches them
  Newline,     \* white space that strip() removes and AMI must not see
  Comma,       \* the separator of the channel variables in one AMI header
  Subscribers, \* the nine digits that follow 09
  MinLen, MaxLen, \* length of a code: 4 and 8 in validate_code
  MaxInput,    \* bound: length of the codes clients send
  MaxRetries,  \* bound on the retries of the request
  Overrides,   \* what the text behind a comma may set OTP_REPEAT to
  Forever      \* bound: a repeat no counter reaches, be it too large or no
               \* number; the repetitions followed of such a playback

ASSUME DeliveryAssumption ==
  /\ Digits \intersect Wide = {} /\ Newline \notin Digits \union Wide
  /\ Comma \notin Digits \union Wide \union {Newline}
  /\ MinLen \in Nat \ {0} /\ MaxLen \in Nat /\ MinLen <= MaxLen
  /\ MaxInput \in Nat /\ MaxRetries \in Nat
  /\ Overrides \subseteq Nat /\ Forever \in Nat /\ Forever > 3

VARIABLES
  asked,   \* what the client wants by its latest accepted request
  record,  \* the mobile and code columns
  job,     \* the arguments of _execute_call
  retries, \* retries so far
  at,      \* the request before it is dialled, then the dialplan statement
  chan,    \* the channel: the number rung, OTP_CODE and OTP_REPEAT
  counter, \* OTP_COUNTER
  j,       \* OTP_J
  heard,   \* what the callee has heard
  told     \* user events sent so far

loop == <<counter, j>>
NoChannel == [number |-> <<>>, code |-> <<>>, times |-> 0]
output == <<heard, told>>
vars == <<asked, record, job, retries, at, chan, loop, output>>


-----------------------------------------------------------------------------
(* The validator *)

Chars == Digits \union Wide \union {Newline, Comma}
Inputs == BoundedSeq(Chars, MaxInput)

\* strip: white space at either end.
Strip(s) ==
  LET kept == {i \in DOMAIN s : s[i] # Newline}
  IN IF kept = {} THEN <<>> ELSE SubSeq(s, Min(kept), Max(kept))

\* sanitize_ami_value.
Sanitize(s) ==
  FlattenSeq([i \in DOMAIN s |-> IF s[i] = Newline THEN <<>> ELSE <<s[i]>>])

\* validate_code, after strip: \d{4,8}.
ValidCode(s) == /\ MinLen <= Len(s) /\ Len(s) <= MaxLen
                /\ \A i \in DOMAIN s : s[i] \in Digits \union Wide

\* The four formats normalize_mobile knows, and one it does not.
Formats == {<<"0", "9">>, <<"+", "9", "8", "9">>, <<"9", "8", "9">>,
             <<"0", "0", "9", "8", "9">>, <<"0", "8">>}
Number(prefix, s) == prefix \o <<s>>
Has(mobile, prefix) == Len(mobile) = Len(prefix) + 1 /\ IsPrefix(prefix, mobile)

\* normalize_mobile of a valid number: 09 and the subscriber.
Normalize(mobile) ==
  LET cut == IF Has(mobile, <<"0", "9">>) THEN 1
             ELSE IF Has(mobile, <<"+", "9", "8", "9">>) THEN 3
             ELSE IF Has(mobile, <<"0", "0", "9", "8", "9">>) THEN 4
             ELSE 2
  IN <<"0">> \o SubSeq(mobile, cut + 1, Len(mobile))

ValidMobile(mobile) ==
  \E p \in Formats \ {<<"0", "8">>} : Has(mobile, p)

-----------------------------------------------------------------------------
(* The request *)

\* OTPCallRequest and send_otp_call.  A repeat that is not given is 2.
Submit(prefix, s, code, repeat) ==
  /\ at = "new"
  /\ LET mobile == Number(prefix, s)
     IN IF ValidMobile(mobile) /\ ValidCode(Strip(code)) /\ repeat \in 1..3
        THEN /\ asked' = [sub |-> s, code |-> Strip(code), times |-> repeat]
             /\ record' = [mobile |-> Normalize(mobile), code |-> Strip(code)]
             /\ job' = [mobile |-> Normalize(mobile), code |-> Strip(code),
                        times |-> repeat]
             /\ at' = "queued"
        ELSE at' = "refused" /\ UNCHANGED <<asked, record, job>>
  /\ UNCHANGED <<retries, chan, loop, output>>

\* Mutant: a code that comes with the retry is not looked at.
RetryWithOld(code, repeat) ==
  /\ at = "failed" /\ retries < MaxRetries
  /\ retries' = retries + 1
  /\ LET times == IF repeat = 0 THEN 2 ELSE repeat
     IN /\ asked' = [asked EXCEPT !.code = IF code = <<>> THEN @ ELSE code,
                                  !.times = times]
        /\ job' = [mobile |-> record.mobile, code |-> record.code,
                   times |-> times]
  /\ at' = "queued"
  /\ UNCHANGED <<record, chan, loop, output>>

\* retry_call: the record's number, a new code or the record's, and a repeat
\* that is not remembered.  RetryRequest does not validate the code; an empty
\* one counts as none, as does a repeat of 0.
Retry(code, repeat) ==
  /\ at = "failed" /\ retries < MaxRetries
  /\ retries' = retries + 1
  /\ LET new == IF code = <<>> THEN record.code ELSE code
         times == IF repeat = 0 THEN 2 ELSE repeat
     IN /\ asked' = [asked EXCEPT !.code = IF code = <<>> THEN @ ELSE code,
                                  !.times = times]
        /\ record' = [record EXCEPT !.code = new]
        /\ job' = [mobile |-> record.mobile, code |-> new, times |-> times]
  /\ at' = "queued"
  /\ UNCHANGED <<chan, loop, output>>

\* OTP_CODE has the bytes of the code: two of each wide digit, no recording of
\* either.
Encode(code) ==
  FlattenSeq([i \in DOMAIN code |->
                IF code[i] \in Wide THEN <<"lead", "trail">> ELSE <<code[i]>>])

Clamp(n) == Max({1, Min({3, n})})

\* Asterisk takes the Variable header apart at its commas.
Parts(s) ==
  LET cuts == {0, Len(s) + 1} \union {i \in DOMAIN s : s[i] = Comma}
  IN {SubSeq(s, c[1] + 1, c[2] - 1) :
        c \in {d \in cuts \X cuts : /\ d[1] < d[2]
                                    /\ \A i \in cuts : i <= d[1] \/ d[2] <= i}}

\* originate: sanitized values, joined by commas; the phone rings.  OTP_CODE
\* is what stands before the code's first comma, unless a part behind one
\* assigns it anew, or OTP_REPEAT: then one of the two assignments counts.
Originate ==
  /\ at = "queued"
  /\ LET code == Sanitize(job.code)
         others == IF Comma \in Range(code) THEN Overrides ELSE {}
     IN \E part \in Parts(code), times \in {Clamp(job.times)} \union others :
          chan' = [number |-> job.mobile, code |-> Encode(part),
                   times |-> times]
  /\ at' = "ringing"
  /\ UNCHANGED <<asked, record, job, retries, loop, output>>

\* A channel's variables go with it.
Gone == /\ chan' = NoChannel /\ counter' = 0 /\ j' = 0
        /\ heard' = <<>> /\ told' = 0

\* Nobody picks up, or the call fails.
NoAnswer ==
  /\ at = "ringing" /\ at' = "failed" /\ Gone
  /\ UNCHANGED <<asked, record, job, retries>>

-----------------------------------------------------------------------------
(* The dialplan: [otp-playback-custom] statement by statement, those that   *)
(* only set variables together.  In [otp-playback] the loop over the digits *)
(* is one SayDigits, which says them one after another as well.             *)

Goes(from, to) ==
  /\ at = from /\ at' = to
  /\ UNCHANGED <<asked, record, job, retries, chan>>

Hear(word) == heard' = Append(heard, word) /\ UNCHANGED told
Tell == told' = told + 1 /\ UNCHANGED heard

Word(b) == IF b \in Digits THEN b ELSE "gap"

\* The callee picks up; NoOp, Answer.
PickUp == Goes("ringing", "start") /\ UNCHANGED <<loop, output>>

\* OTPCallStart, Wait(1).
CallStart == Goes("start", "playback") /\ Tell /\ UNCHANGED loop

\* OTPPlaybackStart, Set(OTP_COUNTER=0).
PlaybackStart == /\ Goes("playback", "while") /\ Tell
                 /\ counter' = 0 /\ UNCHANGED j

\* While(OTP_COUNTER < OTP_REPEAT), Playback(otp/otp-intro).
Introduce == /\ counter < chan.times
             /\ Goes("while", "code") /\ Hear("intro") /\ UNCHANGED loop

\* Mutant: the digit counter is set before the loops, and not again.
StartCodeOnce == /\ Goes("code", "digits")
                 /\ j' = IF counter = 0 THEN 0 ELSE j
                 /\ UNCHANGED <<counter, output>>

\* Set of OTP_CODE_COPY, OTP_LEN and OTP_J=0.
StartCode == /\ Goes("code", "digits")
             /\ j' = 0 /\ UNCHANGED <<counter, output>>

\* While(OTP_J < OTP_LEN): OTP_DIGIT, its Playback, OTP_J + 1.
NextDigit == /\ j < Len(chan.code)
             /\ Goes("digits", "digits")
             /\ Hear(Word(chan.code[j + 1]))
             /\ j' = j + 1 /\ UNCHANGED counter

\* EndWhile, Wait(1), OTP_COUNTER + 1, EndWhile.
EndCode == /\ j >= Len(chan.code)
           /\ Goes("digits", "while")
           /\ counter' = counter + 1 /\ UNCHANGED <<j, output>>

\* Mutant: < and > exclude the case that ends the loop.
SayGoodbyeLate == /\ counter > chan.times
                  /\ Goes("while", "complete") /\ Hear("goodbye")
                  /\ UNCHANGED loop

\* Playback(otp/otp-goodbye).
SayGoodbye == /\ counter >= chan.times /\ chan.times # Forever
              /\ Goes("while", "complete") /\ Hear("goodbye") /\ UNCHANGED loop

\* OTPPlaybackComplete.
PlaybackComplete == Goes("complete", "hangup") /\ Tell /\ UNCHANGED loop

InDialplan == {"start", "playback", "while", "code", "digits", "complete",
               "hangup"}

\* Hangup(), or the callee hangs up: extension h.  The service may record
\* the call as one that can be retried.
HangUp == /\ at \in InDialplan
          /\ at' \in IF at = "hangup" THEN {"over"} ELSE {"over", "failed"}
          /\ Gone
          /\ UNCHANGED <<asked, record, job, retries>>

Play == \/ CallStart \/ PlaybackStart \/ Introduce \/ StartCode \/ NextDigit
        \/ EndCode \/ SayGoodbye \/ PlaybackComplete
        \/ at = "hangup" /\ HangUp

-----------------------------------------------------------------------------
Init ==
  /\ asked = [sub |-> "", code |-> <<>>, times |-> 0]
  /\ record = [mobile |-> <<>>, code |-> <<>>]
  /\ job = [mobile |-> <<>>, code |-> <<>>, times |-> 0]
  /\ retries = 0 /\ at = "new"
  /\ chan = NoChannel
  /\ counter = 0 /\ j = 0 /\ heard = <<>> /\ told = 0

Next ==
  \/ \E p \in Formats, s \in Subscribers, code \in Inputs, n \in 0..4 :
       Submit(p, s, code, n)
  \/ \E code \in Inputs, n \in 0..3 : Retry(code, n)
  \/ Originate \/ NoAnswer \/ PickUp \/ Play \/ HangUp

Spec == Init /\ [][Next]_vars

\* Asterisk executes the dialplan of a channel.
FairSpec == Spec /\ WF_vars(Play)

-----------------------------------------------------------------------------
(* Properties *)

Ringing == {"ringing"} \union InDialplan

Promise == INSTANCE Announcement
  WITH Bytes <- Digits \union {"lead", "trail"},
       text <- chan.code, times <- chan.times, open <- at \in Ringing

\* The dialplan announces what Announcement promises, for every code and
\* repeat that reaches it and whenever the callee hangs up: never a word out
\* of order, and OTPPlaybackComplete only after the last.
Announces == Promise!Spec

\* Through validation, record, retry and channel variables: the phone that
\* rings is the subscriber's, and a call whose playback is reported complete
\* said the code of the latest accepted request, all of it, as often as
\* asked.  Digits without a recording are the exception: they pass \d of the
\* validator, are not heard, and the playback is complete all the same.
DeliveredAsAsked ==
  /\ at \in Ringing => chan.number = <<"0", "9", asked.sub>>
  /\ told = 3 /\ asked.code \in Seq(Digits) =>
       heard = Promise!Script(asked.code, asked.times)

\* The loops of the dialplan end, whatever the code, validated or not, brought
\* by the request or a retry, unless a comma of it gave OTP_REPEAT another
\* value.
PlaybackEnds ==
  at \in InDialplan /\ Comma \notin Range(asked.code) ~> at \notin InDialplan
=============================================================================
