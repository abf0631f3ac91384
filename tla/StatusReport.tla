----------------------------- MODULE StatusReport -----------------------------
(***************************************************************************)
(* What /status says about errors: the error texts and their times in      *)
(* AppState (state.c), and state_snapshot, which picks one of the two.     *)
(*                                                                         *)
(* A snapshot is taken under the lock and formatted afterwards from its    *)
(* copy, so every response shows the operators LastError and LastErrorAt   *)
(* of some state.  The times are those of CLOCK_REALTIME, which may be set *)
(* (by hand, or by NTP on a board without a battery for its clock).        *)
(*                                                                         *)
(* Who reports: the capture thread, its camera in turn lost and found, and *)
(* the motion worker, if there is one.  Of a text only its origin is kept. *)
(***************************************************************************)
EXTENDS AppState

CONSTANTS
  MaxTime,      \* bound: the last reading of the clock, in milliseconds
  MaxSessions   \* bound: capture sessions

ASSUME ClockAssumption == MaxTime \in Nat \ {0} /\ MaxSessions \in Nat

VARIABLES
  camera_error,           \* a text, "none" for the empty one
  camera_error_at_ms,
  event_log_error,
  event_log_error_at_ms,
  realtime_ms,            \* CLOCK_REALTIME, not 0 since 1970
  latest,                 \* history: which of the two errors was reported last?
  clock                   \* history: was CLOCK_REALTIME set back while an error persisted?

errorVars == <<camera_error, camera_error_at_ms, event_log_error, event_log_error_at_ms>>
vars == <<appVars, errorVars, realtime_ms, latest, clock>>

Times == 0..MaxTime

TypeOK ==
  /\ AppTypeOK
  /\ camera_error \in {"none", "camera"}
  /\ event_log_error \in {"none", "event_log"}
  /\ camera_error_at_ms \in Times
  /\ event_log_error_at_ms \in Times
  /\ realtime_ms \in Times \ {0}
  /\ latest \in {"camera", "event_log"}
  /\ clock \in {"steady", "set_back"}

Init ==
  /\ AppInit
  /\ realtime_ms = 1
  /\ camera_error = "camera" /\ camera_error_at_ms = 1   \* "camera not initialized"
  /\ event_log_error = "none" /\ event_log_error_at_ms = 0
  /\ latest = "camera" /\ clock = "steady"

ErrorPersists == camera_error # "none" \/ event_log_error # "none"

-----------------------------------------------------------------------------
(* The clock.                                                               *)

Tick ==
  /\ realtime_ms < MaxTime
  /\ realtime_ms' = realtime_ms + 1
  /\ UNCHANGED <<appVars, errorVars, latest, clock>>

SetClock ==
  /\ \E t \in Times \ {0, realtime_ms} :
       /\ realtime_ms' = t
       /\ clock' = IF ErrorPersists /\ t < realtime_ms THEN "set_back" ELSE clock
  /\ UNCHANGED <<appVars, errorVars, latest>>

-----------------------------------------------------------------------------
(* The reports.                                                             *)

\* Mutant: the time of the camera's last error stays.
ReportActive_KeepTime ==
  /\ camera_state # "active"
  /\ capture_generation < MaxSessions
  /\ SetCaptureActive
  /\ camera_error' = "none"
  /\ UNCHANGED <<camera_error_at_ms, event_log_error, event_log_error_at_ms, realtime_ms, latest>>
  /\ clock' = IF ErrorPersists' THEN clock ELSE "steady"

\* state_set_capture_active
ReportActive ==
  /\ camera_state # "active"
  /\ capture_generation < MaxSessions
  /\ SetCaptureActive
  /\ camera_error' = "none" /\ camera_error_at_ms' = 0
  /\ UNCHANGED <<event_log_error, event_log_error_at_ms, realtime_ms, latest>>
  /\ clock' = IF ErrorPersists' THEN clock ELSE "steady"

\* state_set_camera_unavailable; a scan without a camera repeats it
ReportUnavailable ==
  /\ SetCameraUnavailable
  /\ camera_error' = "camera" /\ camera_error_at_ms' = realtime_ms
  /\ latest' = "camera"
  /\ UNCHANGED <<event_log_error, event_log_error_at_ms, realtime_ms, clock>>

\* state_set_event_log_ok
ReportLogOk ==
  /\ motion_enabled
  /\ SetEventLogState("ok")
  /\ event_log_error' = "none" /\ event_log_error_at_ms' = 0
  /\ UNCHANGED <<camera_error, camera_error_at_ms, realtime_ms, latest>>
  /\ clock' = IF ErrorPersists' THEN clock ELSE "steady"

\* Mutant: only the first failure of a row is dated.
ReportLogUnavailable_FirstOnly ==
  /\ motion_enabled
  /\ SetEventLogState("unavailable")
  /\ event_log_error' = "event_log"
  /\ event_log_error_at_ms' = IF event_log_error = "none" THEN realtime_ms ELSE event_log_error_at_ms
  /\ latest' = "event_log"
  /\ UNCHANGED <<camera_error, camera_error_at_ms, realtime_ms, clock>>

\* state_set_event_log_unavailable
ReportLogUnavailable ==
  /\ motion_enabled
  /\ SetEventLogState("unavailable")
  /\ event_log_error' = "event_log" /\ event_log_error_at_ms' = realtime_ms
  /\ latest' = "event_log"
  /\ UNCHANGED <<camera_error, camera_error_at_ms, realtime_ms, clock>>

Next ==
  \/ Tick \/ SetClock
  \/ ReportActive \/ ReportUnavailable
  \/ ReportLogOk \/ ReportLogUnavailable

Spec == Init /\ [][Next]_vars

-----------------------------------------------------------------------------
(* state_snapshot, and the rule of status_json_format that an empty text and *)
(* a time of 0 are null.                                                    *)

ShowsLogError ==
  /\ event_log_state = "unavailable"
  /\ event_log_error_at_ms >= camera_error_at_ms
ShowsCameraError == ~ShowsLogError /\ camera_state # "active"

LastError ==
  IF ShowsLogError THEN event_log_error ELSE IF ShowsCameraError THEN camera_error ELSE "none"

LastErrorAt ==
  IF ShowsLogError THEN event_log_error_at_ms
  ELSE IF ShowsCameraError THEN camera_error_at_ms ELSE 0

-----------------------------------------------------------------------------

\* /status says why it is degraded, and since when, exactly when it is: whichever
\* of camera and log fail and recover, in any order, and whatever the clock does.
\* That is what test_state.c expects, of the log too.  docs/reference/http-api.md
\* says otherwise: that last_error is null when there is no capture error.
DegradedExplained ==
  /\ Degraded <=> LastError # "none"
  /\ Degraded <=> LastErrorAt # 0

\* docs/reference/http-api.md: last_error and last_error_at are those of the most
\* recent error.  Of two errors that both persist, /status shows the one reported
\* last (if they are of one millisecond, either).
LatestErrorShown ==
  /\ camera_state # "active"
  /\ event_log_state = "unavailable"
  /\ camera_error_at_ms # event_log_error_at_ms
  => LastError = latest

\* It does so unless the clock was set back while one of them persisted: setting
\* the clock forward, or back while all is well, does no harm.
ErrorsInOrder == clock = "steady" => LatestErrorShown

=============================================================================
