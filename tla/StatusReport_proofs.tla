-------------------------- MODULE StatusReport_proofs --------------------------
(***************************************************************************)
(* Theorems about StatusReport, for clocks and histories of any length:    *)
(* /status is never degraded without a reason nor gives one that is over,  *)
(* and unless the clock was set back meanwhile it gives the latest one.    *)
(***************************************************************************)
EXTENDS StatusReport, TLAPS

USE DEF cameraVars, frameVars, motionVars, countVars, stopVars, appVars, errorVars, vars

\* Each error is there, with its time, while its part of the daemon is down.
ErrorInv ==
  /\ realtime_ms \in Nat \ {0}
  /\ camera_error_at_ms \in Nat
  /\ event_log_error_at_ms \in Nat
  /\ event_log_state \in {"disabled", "ok", "unavailable"}
  /\ camera_state = "active" => camera_error_at_ms = 0
  /\ camera_error = "none" => camera_error_at_ms = 0
  /\ event_log_error = "none" => event_log_error_at_ms = 0
  /\ camera_state # "active" => camera_error = "camera" /\ camera_error_at_ms # 0
  /\ event_log_state = "unavailable" =>
       event_log_error = "event_log" /\ event_log_error_at_ms # 0

\* As long as the clock is not set back no stamp is in the future, and of two
\* errors the latest has the greater one.
StampInv ==
  clock = "steady" =>
    /\ camera_error_at_ms <= realtime_ms
    /\ event_log_error_at_ms <= realtime_ms
    /\ camera_state # "active" /\ event_log_state = "unavailable" =>
         \/ latest = "camera" /\ event_log_error_at_ms <= camera_error_at_ms
         \/ latest = "event_log" /\ camera_error_at_ms <= event_log_error_at_ms

-----------------------------------------------------------------------------

\* The four functions of state.c that report something keep the shared types.
LEMMA ReportsKeepTypes ==
  ASSUME AppTypeOK,
         \/ UNCHANGED appVars \/ SetCaptureActive \/ SetCameraUnavailable
         \/ \E health \in {"ok", "unavailable"} : SetEventLogState(health)
  PROVE  AppTypeOK'
<1> USE DEF AppTypeOK, CameraStates, EventLogStates
<1>1. CASE UNCHANGED appVars
  BY <1>1
<1>2. CASE SetCaptureActive
  BY <1>2 DEF SetCaptureActive, BroadcastFrameReady
<1>3. CASE SetCameraUnavailable
  BY <1>3 DEF SetCameraUnavailable, BroadcastFrameReady
<1>4. CASE \E health \in {"ok", "unavailable"} : SetEventLogState(health)
  BY <1>4 DEF SetEventLogState
<1> QED
  BY <1>1, <1>2, <1>3, <1>4

LEMMA InitTypes ==
  ASSUME Init
  PROVE  TypeOK
<1>1. AppTypeOK
  BY MotionSettingsAssumption
     DEF Init, AppInit, AppTypeOK, CameraStates, EventLogStates, Threads
<1> QED
  BY <1>1, ClockAssumption DEF Init, TypeOK, Times

LEMMA StepTypes ==
  ASSUME TypeOK, [Next]_vars
  PROVE  TypeOK'
<1> USE ClockAssumption DEF TypeOK, Times
<1>1. CASE Tick \/ SetClock
  BY <1>1, ReportsKeepTypes DEF Tick, SetClock
<1>2. CASE ReportActive
  BY <1>2, ReportsKeepTypes DEF ReportActive
<1>3. CASE ReportUnavailable
  BY <1>3, ReportsKeepTypes DEF ReportUnavailable
<1>4. CASE ReportLogOk \/ ReportLogUnavailable
  BY <1>4, ReportsKeepTypes DEF ReportLogOk, ReportLogUnavailable
<1>5. CASE UNCHANGED vars
  BY <1>5, ReportsKeepTypes
<1> QED
  BY <1>1, <1>2, <1>3, <1>4, <1>5 DEF Next

\* A stamp is a time of the clock or 0, and an error text says whose it is.
THEOREM TypeCorrect == Spec => []TypeOK
BY InitTypes, StepTypes, PTL DEF Spec

-----------------------------------------------------------------------------

LEMMA ErrorInit == Init => ErrorInv /\ StampInv
<1> SUFFICES ASSUME Init PROVE ErrorInv /\ StampInv
  OBVIOUS
<1>1. event_log_state \in {"disabled", "ok"} /\ camera_state = "initializing"
  BY Zenon DEF Init, AppInit
<1> QED
  BY <1>1 DEF Init, ErrorInv, StampInv

LEMMA ErrorStep == ErrorInv /\ [Next]_vars => ErrorInv'
<1> SUFFICES ASSUME ErrorInv, [Next]_vars PROVE ErrorInv'
  OBVIOUS
<1> USE ClockAssumption DEF ErrorInv
<1>1. CASE Tick
  BY <1>1 DEF Tick
<1>2. CASE SetClock
  BY <1>2 DEF SetClock, Times
<1>3. CASE ReportActive
  BY <1>3 DEF ReportActive, SetCaptureActive
<1>4. CASE ReportUnavailable
  BY <1>4 DEF ReportUnavailable, SetCameraUnavailable
<1>5. CASE ReportLogOk
  BY <1>5 DEF ReportLogOk, SetEventLogState
<1>6. CASE ReportLogUnavailable
  BY <1>6 DEF ReportLogUnavailable, SetEventLogState
<1>7. CASE UNCHANGED vars
  BY <1>7
<1> QED
  BY <1>1, <1>2, <1>3, <1>4, <1>5, <1>6, <1>7 DEF Next

LEMMA ErrorsFollow == Spec => []ErrorInv
  BY ErrorInit, ErrorStep, PTL DEF Spec

\* state_snapshot finds a reason and its time exactly when the daemon is degraded,
\* in every order of failures and recoveries and under every setting of the clock.
THEOREM DegradedIsExplained == Spec => []DegradedExplained
<1>1. ErrorInv => DegradedExplained
  <2> SUFFICES ASSUME ErrorInv PROVE DegradedExplained
    OBVIOUS
  <2> USE DEF ErrorInv, DegradedExplained, Degraded, LastError, LastErrorAt, ShowsLogError,
              ShowsCameraError
  <2>1. CASE ShowsLogError
    BY <2>1
  <2>2. CASE ShowsCameraError
    BY <2>2
  <2>3. CASE ~ShowsLogError /\ ~ShowsCameraError
    <3>1. camera_state = "active"
      BY <2>3
    <3>2. event_log_state # "unavailable" \/ event_log_error_at_ms < camera_error_at_ms
      BY <2>3
    <3> QED
      BY <2>3, <3>1, <3>2
  <2> QED
    BY <2>1, <2>2, <2>3
<1> QED
  BY <1>1, ErrorsFollow, PTL

-----------------------------------------------------------------------------

LEMMA StampStep == ErrorInv /\ StampInv /\ [Next]_vars => StampInv'
<1> SUFFICES ASSUME ErrorInv, StampInv, [Next]_vars PROVE StampInv'
  OBVIOUS
<1> USE ClockAssumption DEF ErrorInv, StampInv, ErrorPersists
<1>1. CASE Tick
  BY <1>1 DEF Tick
<1>2. CASE SetClock
  BY <1>2 DEF SetClock, Times
<1>3. CASE ReportActive
  BY <1>3 DEF ReportActive, SetCaptureActive
<1>4. CASE ReportUnavailable
  BY <1>4 DEF ReportUnavailable, SetCameraUnavailable
<1>5. CASE ReportLogOk
  BY <1>5 DEF ReportLogOk, SetEventLogState
<1>6. CASE ReportLogUnavailable
  BY <1>6 DEF ReportLogUnavailable, SetEventLogState
<1>7. CASE UNCHANGED vars
  BY <1>7
<1> QED
  BY <1>1, <1>2, <1>3, <1>4, <1>5, <1>6, <1>7 DEF Next

\* Of two errors that persist, state_snapshot picks the one reported last, unless
\* the clock was set back after one of them.
THEOREM LatestErrorIsShown == Spec => []ErrorsInOrder
<1>1. ErrorInv /\ StampInv => ErrorsInOrder
  BY DEF ErrorInv, StampInv, ErrorsInOrder, LatestErrorShown, LastError, ShowsLogError,
         ShowsCameraError
<1> QED
  BY ErrorInit, ErrorStep, StampStep, <1>1, PTL DEF Spec

=============================================================================
