----------------------------- MODULE Threads_proofs -----------------------------
(***************************************************************************)
(* Lemmas about the capture thread, the motion worker and the state they   *)
(* share, for whoever runs them: MotionPath and Daemon.                    *)
(***************************************************************************)
EXTENDS Capture, MotionWorker, TLAPS

USE DEF cameraVars, frameVars, motionVars, countVars, stopVars, appVars,
        cameraEnvVars, captureVars, motionThreadVars, workerVars

-----------------------------------------------------------------------------
(* Types of the shared state.                                               *)

LEMMA AppInitTypes ==
  ASSUME AppInit
  PROVE  AppTypeOK
BY MotionSettingsAssumption
   DEF AppInit, AppTypeOK, CameraStates, EventLogStates, Threads

\* Every function of state.c keeps the types, whoever calls it.
LEMMA AppOperationsKeepTypes ==
  ASSUME AppTypeOK,
         \/ UNCHANGED appVars
         \/ \E t \in Threads : SleepOnFrameReady(t) \/ TimeOutOnFrameReady(t)
         \/ RequestStop \/ RaiseSignal
         \/ SetCaptureActive \/ SetCameraUnavailable
         \/ \E scene \in Scenes : PublishFrame(scene)
         \/ \E health \in {"ok", "unavailable"} : SetEventLogState(health)
         \/ \E detected \in BOOLEAN, count \in Nat : UpdateMotion(detected, count)
         \/ ResetMotionSample
         \/ AddWorker \/ RemoveWorker \/ AddStreamClient \/ RemoveStreamClient
         \/ SleepOnClientsDone
  PROVE  AppTypeOK'
<1> USE DEF AppTypeOK, CameraStates, EventLogStates
<1>1. CASE UNCHANGED appVars
  BY <1>1
<1>2. CASE \E t \in Threads : SleepOnFrameReady(t) \/ TimeOutOnFrameReady(t)
  BY <1>2 DEF SleepOnFrameReady, TimeOutOnFrameReady
<1>3. CASE RequestStop \/ RaiseSignal
  BY <1>3 DEF RequestStop, RaiseSignal, BroadcastFrameReady
<1>4. CASE SetCaptureActive
  BY <1>4 DEF SetCaptureActive, BroadcastFrameReady
<1>5. CASE SetCameraUnavailable
  BY <1>5 DEF SetCameraUnavailable, BroadcastFrameReady
<1>6. CASE \E scene \in Scenes : PublishFrame(scene)
  BY <1>6 DEF PublishFrame, BroadcastFrameReady
<1>7. CASE \E health \in {"ok", "unavailable"} : SetEventLogState(health)
  BY <1>7 DEF SetEventLogState
<1>8. CASE \E detected \in BOOLEAN, count \in Nat : UpdateMotion(detected, count)
  BY <1>8 DEF UpdateMotion
<1>9. CASE ResetMotionSample
  BY <1>9 DEF ResetMotionSample
<1>10. CASE AddWorker \/ AddStreamClient \/ RemoveStreamClient
  BY <1>10 DEF AddWorker, AddStreamClient, RemoveStreamClient
<1>11. CASE RemoveWorker
  <2>1. clients_done' \in BOOLEAN
    BY <1>11 DEF RemoveWorker
  <2> QED
    BY <1>11, <2>1 DEF RemoveWorker
<1>12. CASE SleepOnClientsDone
  BY <1>12 DEF SleepOnClientsDone
<1> QED
  BY <1>1, <1>2, <1>3, <1>4, <1>5, <1>6, <1>7, <1>8, <1>9, <1>10, <1>11, <1>12

LEMMA MotionIsThread == MotionThread \in Threads
BY DEF Threads

-----------------------------------------------------------------------------
(* Types of the capture thread and its camera.                              *)

\* A camera fault stays within the bound on faults.
LEMMA FaultsBounded ==
  ASSUME NEW present, faults \in 0..MaxFaults, CameraFault(present)
  PROVE  faults' \in 0..MaxFaults
BY CaptureBoundsAssumption DEF CameraFault

LEMMA CaptureInitTypes ==
  ASSUME NEW pc \in CapturePCs, CaptureInit(pc)
  PROVE  CaptureTypeOK
<1>1. faults \in 0..MaxFaults
  BY CaptureBoundsAssumption DEF CaptureInit
<1> QED
  BY <1>1 DEF CaptureInit, CaptureTypeOK

\* Every step of the capture thread keeps the types.
LEMMA CaptureKeepsTypes ==
  ASSUME AppTypeOK, CaptureTypeOK, CaptureStep
  PROVE  AppTypeOK' /\ CaptureTypeOK'
<1>1. AppTypeOK'
  <2>1. CASE \/ CaptureLoop \/ FrameLoop \/ OpenCamera \/ SetupFails \/ Dequeue \/ Requeue
             \/ NoFrameYet \/ StreamFails \/ Cleanup
    BY <2>1, AppOperationsKeepTypes
       DEF CaptureLoop, FrameLoop, OpenCamera, SetupFails, Dequeue, Requeue, NoFrameYet, StreamFails,
           Cleanup
  <2>2. CASE NoCamera \/ StartStreaming \/ MarkUnavailable
    BY <2>2, AppOperationsKeepTypes DEF NoCamera, StartStreaming, MarkUnavailable
  <2>3. CASE \E scene \in Scenes : DeliverFrame(scene)
    BY <2>3, AppOperationsKeepTypes DEF DeliverFrame
  <2> QED
    BY <2>1, <2>2, <2>3 DEF CaptureStep
<1>2. CaptureTypeOK'
  <2> USE DEF CaptureTypeOK, CapturePCs
  <2>1. CASE CaptureLoop
    BY <2>1 DEF CaptureLoop
  <2>2. CASE FrameLoop
    BY <2>2 DEF FrameLoop
  <2>3. CASE NoCamera
    BY <2>3, FaultsBounded DEF NoCamera
  <2>4. CASE SetupFails
    BY <2>4, FaultsBounded DEF SetupFails
  <2>5. CASE StartStreaming
    BY <2>5 DEF StartStreaming
  <2>6. CASE \E scene \in Scenes : DeliverFrame(scene)
    BY <2>6, FaultsBounded DEF DeliverFrame
  <2>7. CASE NoFrameYet
    BY <2>7 DEF NoFrameYet
  <2>8. CASE StreamFails
    BY <2>8, FaultsBounded DEF StreamFails
  <2>9. CASE Cleanup
    BY <2>9 DEF Cleanup
  <2>10. CASE MarkUnavailable
    BY <2>10 DEF MarkUnavailable
  <2>11. CASE OpenCamera \/ Dequeue \/ Requeue
    BY <2>11 DEF OpenCamera, Dequeue, Requeue
  <2> QED
    BY <2>1, <2>2, <2>3, <2>4, <2>5, <2>6, <2>7, <2>8, <2>9, <2>10, <2>11 DEF CaptureStep
<1> QED
  BY <1>1, <1>2

LEMMA CameraKeepsTypes ==
  ASSUME CaptureTypeOK, CameraEnvironment
  PROVE  CaptureTypeOK'
<1>1. faults' \in 0..MaxFaults
  BY CaptureBoundsAssumption DEF CaptureTypeOK, CameraEnvironment, PlugIn, Unplug
<1> QED
  BY <1>1 DEF CaptureTypeOK, CameraEnvironment, PlugIn, Unplug

-----------------------------------------------------------------------------
(* Types of the motion worker.                                              *)

LEMMA MotionInitTypes ==
  ASSUME NEW pc \in MotionPCs, MotionInit(pc)
  PROVE  MotionTypeOK
BY TimeAssumption, GateAssumption
   DEF MotionInit, MotionTypeOK, NoPicture, Pictures, NewGate, Gates, NoResult, Results,
       PipelineStatuses

\* The gate stays a gate, whatever it is told.
LEMMA GateKeepsType ==
  ASSUME NEW g \in Gates, NEW detected \in BOOLEAN, NEW t \in Nat
  PROVE  GateUpdate(g, detected, t) \in Gates
<1>1. EmitEvent(g, t) \in Gates
  BY GateAssumption DEF EmitEvent, Gates
<1>2. [g EXCEPT !.phase = "idle"] \in Gates
  BY DEF Gates
<1> QED
  BY <1>1, <1>2 DEF GateUpdate

LEMMA AppendType ==
  ASSUME NEW S, NEW s \in Seq(S), NEW e \in S
  PROVE  Append(s, e) \in Seq(S)
OBVIOUS

\* However an append ends, the file is as before, or has one more piece.
LEMMA AppendKeepsType ==
  ASSUME NEW file \in Seq(Pieces), NEW event \in Nat, NEW append \in AppendMotion(file, event)
  PROVE  append.file \in Seq(Pieces)
<1>1. Piece(event, TRUE) \in Pieces /\ Piece(event, FALSE) \in Pieces
  BY DEF Piece, Pieces
<1>2. /\ Append(file, Piece(event, TRUE)) \in Seq(Pieces)
      /\ Append(file, Piece(event, FALSE)) \in Seq(Pieces)
  BY <1>1, AppendType
<1> DEFINE line == Append(file, Piece(event, TRUE))
           torn == Append(file, Piece(event, FALSE))
<1>3. \/ append = [status |-> "ok", file |-> line]
      \/ append = [status |-> "open_error", file |-> file]
      \/ append = [status |-> "write_error", file |-> file]
      \/ append = [status |-> "write_error", file |-> torn]
      \/ append = [status |-> "close_error", file |-> line]
  BY DEF AppendMotion
<1> HIDE DEF line, torn
<1>4. append.file \in {file, line, torn}
  BY <1>3
<1> QED
  BY <1>2, <1>4 DEF line, torn

\* Every step of the motion worker keeps the types.
LEMMA MotionKeepsTypes ==
  ASSUME AppTypeOK, MotionTypeOK, MotionStep
  PROVE  AppTypeOK' /\ MotionTypeOK'
<1>1. AppTypeOK'
  <2>1. CASE UNCHANGED appVars \/ SnapshotSleep \/ SnapshotTimeout
    BY <2>1, AppOperationsKeepTypes, MotionIsThread DEF SnapshotSleep, SnapshotTimeout
  <2>2. CASE MotionDisabled \/ ClearSample \/ MotionExit
    BY <2>2, AppOperationsKeepTypes DEF MotionDisabled, ClearSample, MotionExit
  <2>3. CASE ReportHealth
    BY <2>3, AppOperationsKeepTypes DEF ReportHealth
  <2>4. CASE PublishResult
    <3>1. result.motion_detected \in BOOLEAN /\ gate.event_count \in Nat
      BY DEF MotionTypeOK, Results, Gates
    <3> QED
      BY <2>4, <3>1, AppOperationsKeepTypes DEF PublishResult
  <2>5. MotionEnabled \/ SampleDue \/ SnapshotStopped \/ SnapshotUnavailable \/ SnapshotNoMemory
          \/ SnapshotReady \/ SampleFails \/ ProcessQuietSample \/ EmitMotionEvent
        => UNCHANGED appVars
    BY DEF MotionEnabled, SampleDue, SnapshotStopped, SnapshotUnavailable, SnapshotNoMemory,
           SnapshotReady, SampleFails, ProcessQuietSample, EmitMotionEvent, Compare
  <2> QED
    BY <2>1, <2>2, <2>3, <2>4, <2>5 DEF MotionStep
<1>2. MotionTypeOK'
  <2> USE DEF MotionTypeOK, MotionPCs
  <2>1. CASE MotionDisabled \/ MotionEnabled \/ SampleDue \/ SnapshotSleep \/ SnapshotStopped
             \/ SnapshotNoMemory \/ ClearSample \/ ReportHealth
    BY <2>1 DEF MotionDisabled, MotionEnabled, SampleDue, SnapshotSleep, SnapshotStopped,
                SnapshotNoMemory, ClearSample, ReportHealth
  <2>2. NoPicture \in Pictures /\ NoResult \in Results
    BY DEF NoPicture, Pictures, NoResult, Results, PipelineStatuses
  <2>3. CASE SnapshotTimeout
    BY <2>2, <2>3 DEF SnapshotTimeout
  <2>4. CASE SnapshotUnavailable
    BY <2>2, <2>4 DEF SnapshotUnavailable, Pictures, AppTypeOK
  <2>5. CASE SnapshotReady
    BY <2>2, <2>5 DEF SnapshotReady, Pictures, AppTypeOK
  <2>6. CASE SampleFails
    BY <2>6 DEF SampleFails, NoResult, Results, PipelineStatuses
  <2>7. MotionDetected \in BOOLEAN
    BY DEF MotionDetected, BaselineReady
  <2>8. ASSUME Compare PROVE gate' \in Gates /\ baseline' \in Pictures /\ motion_pc' \in MotionPCs
    BY <2>7, <2>8, GateKeepsType, TimeAssumption DEF Compare
  <2>9. CASE ProcessQuietSample
    <3>1. result' \in Results
      BY <2>9, <2>7 DEF ProcessQuietSample, NoResult, Results, PipelineStatuses
    <3> QED
      BY <2>9, <2>8, <3>1 DEF ProcessQuietSample, Compare
  <2>10. CASE EmitMotionEvent
    <3>1. PICK append \in AppendMotion(event_log, snapshot.sequence) :
            LET logged == append.status = "ok"
            IN  /\ event_log' = append.file
                /\ events' = Append(events, NewEvent(logged))
                /\ result' = [status          |-> IF logged THEN "ok" ELSE "event_log_error",
                              motion_detected |-> TRUE,
                              event_logged    |-> logged]
      BY <2>10 DEF EmitMotionEvent
    <3>2. event_log' \in Seq(Pieces)
      BY <3>1, AppendKeepsType DEF Pictures
    <3>3. result' \in Results
      BY <3>1 DEF Results, PipelineStatuses
    <3>4. NewEvent(append.status = "ok") \in Events
      BY TimeAssumption DEF Events, NewEvent, Pictures
    <3>5. events' \in Seq(Events)
      BY <3>1, <3>4
    <3> QED
      BY <2>10, <2>8, <3>2, <3>3, <3>5 DEF EmitMotionEvent, Compare
  <2>11. CASE PublishResult
    BY <2>2, <2>11 DEF PublishResult
  <2>12. CASE MotionExit
    BY <2>2, <2>12, GateAssumption DEF MotionExit, NewGate, Gates
  <2> QED
    BY <2>1, <2>3, <2>4, <2>5, <2>6, <2>9, <2>10, <2>11, <2>12 DEF MotionStep
<1> QED
  BY <1>1, <1>2

LEMMA TickKeepsTypes ==
  ASSUME MotionTypeOK, Tick
  PROVE  MotionTypeOK'
BY TimeAssumption DEF Tick, MotionTypeOK

-----------------------------------------------------------------------------
(* What the threads leave alone.                                            *)

\* What a step of the capture thread may change of what other threads look at:
\* it leaves the clients' and main's part of the state alone, and whatever it
\* changes of what a sleeper on frame_ready waits for, it wakes them all.
LEMMA CaptureEffects ==
  ASSUME CaptureStep
  PROVE  /\ capture_pc \notin {"unborn", "done"}
         /\ UNCHANGED <<countVars, stopVars, clients_done, motion_enabled>>
         /\ frame_ready' = {} \/ UNCHANGED <<frame_ready, frame_sequence, camera_state>>
BY DEF CaptureStep, CaptureLoop, FrameLoop, NoCamera, OpenCamera, SetupFails, StartStreaming,
       DeliverFrame, Dequeue, Requeue, NoFrameYet, StreamFails, Cleanup, MarkUnavailable,
       SetCaptureActive, SetCameraUnavailable, PublishFrame, BroadcastFrameReady

\* What a step of the motion worker may change of what other threads look at: it
\* takes no one but itself to sleep or from it, and then only in its snapshot wait.
LEMMA MotionEffects ==
  ASSUME MotionStep
  PROVE  /\ motion_pc \notin {"unborn", "done"}
         /\ motion_pc' # "unborn"
         /\ UNCHANGED <<cameraVars, frameVars, countVars, stopVars, clients_done, motion_enabled>>
         /\ \/ UNCHANGED frame_ready
            \/ SnapshotSleep \/ SnapshotTimeout
<1>1. CASE MotionDisabled \/ MotionEnabled \/ SampleDue \/ ClearSample \/ MotionExit
  BY <1>1 DEF MotionDisabled, MotionEnabled, SampleDue, ClearSample, MotionExit, ResetMotionSample
<1>2. CASE SnapshotSleep \/ SnapshotTimeout
  BY <1>2 DEF SnapshotSleep, SnapshotTimeout, InSnapshotWait, SleepOnFrameReady, TimeOutOnFrameReady
<1>3. CASE SnapshotStopped \/ SnapshotUnavailable \/ SnapshotNoMemory \/ SnapshotReady
  BY <1>3 DEF SnapshotStopped, SnapshotUnavailable, SnapshotNoMemory, SnapshotReady, InSnapshotWait
<1>4. CASE SampleFails \/ ProcessQuietSample \/ EmitMotionEvent
  BY <1>4 DEF SampleFails, ProcessQuietSample, EmitMotionEvent, Compare
<1>5. CASE ReportHealth \/ PublishResult
  BY <1>5 DEF ReportHealth, PublishResult, SetEventLogState, UpdateMotion, ResetMotionSample
<1> QED
  BY <1>1, <1>2, <1>3, <1>4, <1>5 DEF MotionStep

=============================================================================
