----------------------------- MODULE CallStatus -----------------------------
(***************************************************************************)
(* The vocabulary of a call record: the statuses of otp_calls, the names   *)
(* of otp_events, and the pure functions that relate them to what Asterisk *)
(* reports and to what the status endpoint answers.                        *)
(***************************************************************************)
EXTENDS Integers, FiniteSets

\* RETRYABLE_STATUSES: a client may ask for another attempt.
Retryable == {"no_answer", "busy", "congestion", "failed", "unreachable",
              "rejected"}

\* TERMINAL_STATUSES: "no more updates will arrive".
Terminal == Retryable \union {"completed", "cancelled"}

InProgress == {"queued", "originating", "ringing", "answered", "playing"}

Statuses == InProgress \union Terminal

\* What a read returns for a request that has no row.
Absent == "absent"

EventNames == {"queued", "originating", "originate_response", "ringing",
               "answered", "dialplan_start", "playing", "playback_complete",
               "hangup", "failed"}

-----------------------------------------------------------------------------
\* Mutant: normal clearing counts as a failure.
CauseStatusStrict(cause) == IF cause = 17 THEN "busy" ELSE "failed"

\* _CAUSE_TO_STATUS.get(cause): the status of a Q.850 cause, or "unmapped".
CauseStatus(cause) ==
  CASE cause = 16               -> "completed"
    [] cause = 17               -> "busy"
    [] cause \in {18, 19, 20}   -> "no_answer"
    [] cause = 21               -> "rejected"
    [] cause \in {22, 27}       -> "unreachable"
    [] cause \in {28, 50}       -> "failed"
    [] cause \in {34, 38, 41, 42} -> "congestion"
    [] OTHER                    -> "unmapped"

\* Mutant: no fallback for an unknown cause.
HangupStatusMapped(mapped, seen) == mapped

\* The status _on_hangup writes: the mapped one, else a guess from the status
\* it read before logging the event.
HangupStatus(mapped, seen) ==
  IF mapped # "unmapped" THEN mapped
  ELSE IF seen \in {"answered", "playing"} THEN "completed" ELSE "failed"

\* _REASON_TO_STATUS.get(reason, "failed").
ReasonStatus(reason) ==
  CASE reason = 1 -> "no_answer"
    [] reason = 4 -> "answered"
    [] reason = 5 -> "busy"
    [] reason = 8 -> "congestion"
    [] OTHER      -> "failed"

\* update_call_status refuses: no row, or a terminal row and a status that
\* is not.  A terminal status may replace another terminal status.
Refuses(seen, new) ==
  \/ seen = Absent
  \/ seen \in Terminal /\ new \notin Terminal

\* is_answered of the status response.
IsAnswered(status, log) ==
  \/ status \in {"answered", "playing", "completed"}
  \/ log \intersect {"answered", "dialplan_start", "playing",
                     "playback_complete"} # {}
=============================================================================
