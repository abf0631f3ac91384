--------------------------- MODULE MotionPath_proofs ---------------------------
(***************************************************************************)
(* Theorems about MotionPath, for any bounds, any set of pictures, any     *)
(* cooldown and any limit of the event count: its types, the wake-ups, the *)
(* generation fence; then the events, how many there are, what /status     *)
(* says about them and their log, and how far apart they are; and then     *)
(* what can still be emitted once the camera is gone, and what /status     *)
(* says of a log file that ends in a torn line.                            *)
(***************************************************************************)
EXTENDS MotionPath, Threads_proofs

USE DEF cameraVars, frameVars, motionVars, countVars, stopVars, appVars,
        cameraEnvVars, captureVars, motionThreadVars, workerVars, vars

-----------------------------------------------------------------------------
(* Type correctness.                                                        *)

LEMMA InitTypes == Init => TypeOK
BY AppInitTypes, CaptureInitTypes, MotionInitTypes
   DEF Init, TypeOK, CapturePCs, MotionPCs

LEMMA StepTypes ==
  ASSUME TypeOK, [Next]_vars
  PROVE  TypeOK'
<1> USE DEF TypeOK
<1>1. CASE CaptureThread
  BY <1>1, CaptureKeepsTypes DEF CaptureThread, MotionTypeOK
<1>2. CASE MotionWorkerThread
  BY <1>2, MotionKeepsTypes DEF MotionWorkerThread, CaptureTypeOK
<1>3. CASE Camera
  BY <1>3, CameraKeepsTypes, AppOperationsKeepTypes
     DEF Camera, CameraEnvironment, PlugIn, Unplug, MotionTypeOK
<1>4. CASE Clock
  BY <1>4, TickKeepsTypes, AppOperationsKeepTypes DEF Clock, Tick, CaptureTypeOK
<1>5. CASE Signal \/ StopThreads \/ Stopped \/ UNCHANGED vars
  BY <1>5, AppOperationsKeepTypes DEF Signal, StopThreads, Stopped, CaptureTypeOK, MotionTypeOK
<1> QED
  BY <1>1, <1>2, <1>3, <1>4, <1>5 DEF Next

\* Every reachable state is well typed: in particular the event count of the gate
\* never exceeds its limit (emit_event saturates), and no step leaves the threads
\* or the shared state in a state the code has no name for.
THEOREM TypeCorrect == Spec => []TypeOK
BY InitTypes, StepTypes, PTL DEF Spec

-----------------------------------------------------------------------------
(* No wake-up of the motion worker is lost.                                 *)

\* What the invariant reads of the worker.  Steps of the others leave it alone.
wakeVars == <<motion_pc, snapshot>>

LEMMA WakeupByOthers ==
  ASSUME TypeOK, NoLostWakeup, UNCHANGED wakeVars,
         \/ UNCHANGED <<frame_ready, frame_sequence, camera_state, stop>>
         \/ frame_ready' = {}
  PROVE  NoLostWakeup'
BY DEF NoLostWakeup, wakeVars

\* A wait begins with the predicate checked under the lock, and whoever makes the
\* predicate false broadcasts: NoLostWakeup is inductive.
LEMMA WakeupStep == TypeOK /\ NoLostWakeup /\ [Next]_vars => NoLostWakeup'
<1> SUFFICES ASSUME TypeOK, NoLostWakeup, [Next]_vars PROVE NoLostWakeup'
  OBVIOUS
<1> USE DEF wakeVars
<1>1. CASE CaptureThread
  BY <1>1, CaptureEffects, WakeupByOthers DEF CaptureThread
<1>2. CASE MotionWorkerThread
  <2>1. CASE SnapshotSleep
    BY <2>1 DEF SnapshotSleep, InSnapshotWait, SnapshotWaitBlocks, FrameWaitBlocks, Stopping,
                SleepOnFrameReady, NoLostWakeup
  <2>2. CASE SnapshotTimeout
    BY <2>2 DEF SnapshotTimeout, TimeOutOnFrameReady, NoLostWakeup
  <2>3. CASE SnapshotStopped \/ SnapshotUnavailable \/ SnapshotNoMemory \/ SnapshotReady
    BY <2>3 DEF SnapshotStopped, SnapshotUnavailable, SnapshotNoMemory, SnapshotReady,
                InSnapshotWait, NoLostWakeup
  <2>4. CASE \/ MotionDisabled \/ MotionEnabled \/ SampleDue \/ ClearSample \/ SampleFails
             \/ ProcessQuietSample \/ EmitMotionEvent \/ ReportHealth \/ PublishResult \/ MotionExit
    <3>1. motion_pc # "snapshot" /\ frame_ready' = frame_ready
      BY <2>4
         DEF MotionDisabled, MotionEnabled, SampleDue, ClearSample, SampleFails, ProcessQuietSample,
             EmitMotionEvent, Compare, ReportHealth, PublishResult, MotionExit,
             ResetMotionSample, SetEventLogState, UpdateMotion
    <3> QED
      BY <3>1 DEF NoLostWakeup
  <2> QED
    BY <1>2, <2>1, <2>2, <2>3, <2>4 DEF MotionWorkerThread, MotionStep
<1>3. CASE Camera \/ Clock \/ Signal \/ Stopped \/ UNCHANGED vars
  BY <1>3, WakeupByOthers
     DEF Camera, CameraEnvironment, PlugIn, Unplug, Clock, Tick, Signal, RaiseSignal, Stopped
<1>4. CASE StopThreads
  BY <1>4, WakeupByOthers DEF StopThreads, RequestStop, BroadcastFrameReady
<1> QED
  BY <1>1, <1>2, <1>3, <1>4 DEF Next

\* The motion worker never sleeps in state_wait_jpeg_snapshot on a predicate that
\* no longer holds, for any number of frames, sessions and faults.
THEOREM WakeupsKept == Spec => []NoLostWakeup
<1>1. Init => NoLostWakeup
  BY DEF Init, AppInit, NoLostWakeup
<1> QED
  BY <1>1, WakeupStep, TypeCorrect, PTL DEF Spec

-----------------------------------------------------------------------------
(* The generation fence.                                                    *)

\* SessionFence speaks of the moment before a comparison.  What carries it there
\* from sample to sample: a baseline is of the session the worker has noted, and
\* no younger than its snapshot; and the snapshot is of that session from the
\* moment it is taken until it has been compared.
FenceInv ==
  /\ BaselineReady => /\ baseline.generation = last_generation
                      /\ baseline.sequence <= snapshot.sequence
  /\ motion_pc \in {"fence", "process"} => snapshot.generation = last_generation
  /\ motion_pc = "fence" => ~BaselineReady
  /\ motion_pc = "process" /\ BaselineReady => baseline.sequence < snapshot.sequence

fenceVars == <<motion_pc, snapshot, baseline, last_generation>>

LEMMA FenceStep == TypeOK /\ FenceInv /\ [Next]_vars => FenceInv'
<1> SUFFICES ASSUME TypeOK, FenceInv, [Next]_vars PROVE FenceInv'
  OBVIOUS
<1> USE DEF fenceVars, FenceInv, BaselineReady
<1>1. CASE UNCHANGED fenceVars
  BY <1>1
<1>2. CASE MotionWorkerThread
  <2>1. CASE \/ MotionDisabled \/ MotionEnabled \/ SampleDue \/ SnapshotSleep \/ SnapshotStopped
             \/ SnapshotNoMemory \/ SampleFails \/ ReportHealth \/ PublishResult
    BY <2>1 DEF MotionDisabled, MotionEnabled, SampleDue, SnapshotSleep, SnapshotStopped,
                SnapshotNoMemory, SampleFails, ReportHealth, PublishResult
  <2>2. CASE SnapshotTimeout \/ SnapshotUnavailable \/ MotionExit
    BY <2>2 DEF SnapshotTimeout, SnapshotUnavailable, MotionExit
  <2>3. CASE SnapshotReady
    <3>1. frame_sequence > snapshot.sequence
      BY <2>3 DEF SnapshotReady, FrameIsCurrent, SnapshotWaitBlocks, FrameWaitBlocks,
                  TypeOK, AppTypeOK, MotionTypeOK, Pictures
    <3>2. /\ snapshot'.sequence = frame_sequence
          /\ snapshot'.generation = frame_generation
      BY <2>3 DEF SnapshotReady
    <3>3. CASE frame_generation # last_generation
      BY <2>3, <3>2, <3>3 DEF SnapshotReady
    <3>4. CASE frame_generation = last_generation
      <4>1. baseline' = baseline /\ last_generation' = last_generation /\ motion_pc' = "process"
        BY <2>3, <3>4 DEF SnapshotReady
      <4>2. BaselineReady => baseline.sequence < frame_sequence
        BY <3>1 DEF TypeOK, AppTypeOK, MotionTypeOK, Pictures
      <4> QED
        BY <3>2, <3>4, <4>1, <4>2 DEF TypeOK, AppTypeOK, MotionTypeOK, Pictures
    <3> QED
      BY <3>3, <3>4
  <2>4. CASE ClearSample
    BY <2>4 DEF ClearSample
  <2>5. CASE ProcessQuietSample \/ EmitMotionEvent
    <3>1. /\ motion_pc = "process"
          /\ motion_pc' = "health"
          /\ baseline' = snapshot
          /\ snapshot' = snapshot
          /\ last_generation' = last_generation
      BY <2>5 DEF ProcessQuietSample, EmitMotionEvent, Compare
    <3> QED
      BY <3>1 DEF TypeOK, MotionTypeOK, Pictures
  <2> QED
    BY <1>2, <2>1, <2>2, <2>3, <2>4, <2>5 DEF MotionWorkerThread, MotionStep
<1>3. CASE CaptureThread \/ Camera \/ Clock \/ Signal \/ StopThreads \/ Stopped \/ UNCHANGED vars
  BY <1>1, <1>3 DEF CaptureThread, Camera, Clock, Tick, Signal, StopThreads, Stopped
<1> QED
  BY <1>2, <1>3 DEF Next

\* No comparison crosses a capture session or goes back in time, for any number
\* of sessions that begin and end between two samples.
THEOREM SessionsFenced == Spec => []SessionFence
<1>1. Init => FenceInv
  BY DEF Init, MotionInit, FenceInv, BaselineReady
<1>2. FenceInv => SessionFence
  BY DEF FenceInv, SessionFence
<1> QED
  BY <1>1, <1>2, FenceStep, TypeCorrect, PTL DEF Spec

-----------------------------------------------------------------------------
(* Events: the inductive invariants.                                        *)

\* The last step of a sample that reached the gate is still to report it.
Reporting ==
  motion_pc \in {"health", "publish"} /\ result.status \in {"ok", "event_log_error"}

\* CountHonest with what carries it: the gate counts the events as long as the
\* worker lives, and the shared count may be behind only while the worker is
\* about to report.  Without motion detection there are no samples at all.
CountInv ==
  /\ motion_pc # "done" => gate.event_count = Capped(Len(events))
  /\ Reporting \/ event_count = Capped(Len(events))
  /\ motion_enabled \/ motion_pc \in {"start", "done"}

\* LogHealthHonest with what carries it through "health": what the pipeline told
\* the worker is what the last event says about the log.
LogInv ==
  /\ motion_enabled => event_log_state \in {"ok", "unavailable"}
  /\ motion_enabled /\ motion_pc # "health" => event_log_state = LogHealth
  /\ result.event_logged => result.status = "ok"
  /\ motion_pc = "health" =>
       /\ result.status = "event_log_error" => LogHealth = "unavailable"
       /\ result.event_logged => LogHealth = "ok"
       /\ result.status # "event_log_error" /\ ~result.event_logged => event_log_state = LogHealth

\* A gate in cooldown remembers when the last event was; an idle one lets the
\* next one through because the cooldown of the last is over.
LimiterInv ==
  LET last == events[Len(events)].at
  IN  /\ events # <<>> => last <= now
      /\ motion_pc # "done" =>
           /\ gate.phase = "cooldown" => events # <<>> /\ gate.cooldown_started = last
           /\ gate.phase = "idle" /\ events # <<>> => now >= last + Cooldown

-----------------------------------------------------------------------------
(* The steps of the worker, as far as events are concerned.                 *)

\* An emission adds one event, dated now, and the worker is told how its append
\* went.
LEMMA Emission ==
  ASSUME TypeOK, EmitMotionEvent
  PROVE  \E logged \in BOOLEAN :
           /\ events' = Append(events, NewEvent(logged))
           /\ events' # <<>>
           /\ Len(events') = Len(events) + 1
           /\ events'[Len(events')] = NewEvent(logged)
           /\ result'.status = IF logged THEN "ok" ELSE "event_log_error"
           /\ result'.event_logged = logged
<1>1. PICK append \in AppendMotion(event_log, snapshot.sequence) :
        LET logged == append.status = "ok"
        IN  /\ event_log' = append.file
            /\ events' = Append(events, NewEvent(logged))
            /\ result' = [status          |-> IF logged THEN "ok" ELSE "event_log_error",
                          motion_detected |-> TRUE,
                          event_logged    |-> logged]
  BY DEF EmitMotionEvent
<1> DEFINE logged == append.status = "ok"
           event == NewEvent(logged)
<1>2. event \in Events /\ events \in Seq(Events)
  BY TimeAssumption DEF TypeOK, MotionTypeOK, Events, NewEvent, Pictures
<1>3. events' = Append(events, event)
  BY <1>1
<1> HIDE DEF event
<1>4. events' # <<>> /\ Len(events') = Len(events) + 1 /\ events'[Len(events')] = event
  BY <1>2, <1>3
<1>5. /\ result'.status = IF logged THEN "ok" ELSE "event_log_error"
      /\ result'.event_logged = logged
  BY <1>1
<1>6. logged \in BOOLEAN
  OBVIOUS
<1> HIDE DEF logged
<1> QED
  BY <1>3, <1>4, <1>5, <1>6 DEF event

\* The verdict of the detector is a Boolean.
LEMMA VerdictType == MotionDetected \in BOOLEAN
BY DEF MotionDetected, BaselineReady

\* Every step but an emission leaves the events alone.
LEMMA EventsKept ==
  ASSUME [Next]_vars, ~(MotionWorkerThread /\ EmitMotionEvent)
  PROVE  UNCHANGED events
<1>1. CASE MotionWorkerThread
  BY <1>1
     DEF MotionWorkerThread, MotionStep, MotionDisabled, MotionEnabled, SampleDue, SnapshotSleep,
         SnapshotTimeout, SnapshotStopped, SnapshotUnavailable, SnapshotNoMemory, SnapshotReady,
         ClearSample, SampleFails, ProcessQuietSample, ReportHealth, PublishResult, MotionExit
<1>2. CASE CaptureThread \/ Camera \/ Clock \/ Signal \/ StopThreads \/ Stopped \/ UNCHANGED vars
  BY <1>2 DEF CaptureThread, Camera, Clock, Tick, Signal, StopThreads, Stopped
<1> QED
  BY <1>1, <1>2 DEF Next

\* Nobody but the worker touches what /status shows of events and their log.
LEMMA StatusKeptByOthers ==
  ASSUME CaptureThread \/ Camera \/ Clock \/ Signal \/ StopThreads \/ Stopped \/ UNCHANGED vars
  PROVE  UNCHANGED <<event_count, event_log_state, motion_enabled, motionThreadVars, events>>
<1>1. CASE CaptureThread
  BY <1>1
     DEF CaptureThread, CaptureStep, CaptureLoop, FrameLoop, NoCamera, OpenCamera, SetupFails,
         StartStreaming, DeliverFrame, Dequeue, Requeue, NoFrameYet, StreamFails, Cleanup, MarkUnavailable,
         SetCaptureActive, SetCameraUnavailable, PublishFrame
<1>2. CASE Camera \/ Clock \/ Signal \/ StopThreads \/ Stopped \/ UNCHANGED vars
  BY <1>2 DEF Camera, CameraEnvironment, PlugIn, Unplug, Clock, Tick, Signal, RaiseSignal,
              StopThreads, RequestStop, Stopped
<1> QED
  BY <1>1, <1>2

\* The steps of the worker up to a picture to process.
WaitStep ==
  \/ MotionEnabled \/ SampleDue
  \/ SnapshotSleep \/ SnapshotTimeout \/ SnapshotStopped
  \/ SnapshotUnavailable \/ SnapshotNoMemory \/ SnapshotReady

\* They change nothing /status shows of events, and report nothing.
LEMMA WaitsKeepStatus ==
  ASSUME WaitStep
  PROVE  /\ motion_pc \notin {"health", "publish", "done"}
         /\ motion_pc' \notin {"health", "publish", "done"}
         /\ motion_pc' # "start"
         /\ motion_enabled \/ motion_pc # "start"
         /\ UNCHANGED <<event_count, event_log_state, motion_enabled, gate, result, events>>
<1>1. CASE MotionEnabled \/ SampleDue
  BY <1>1 DEF MotionEnabled, SampleDue
<1>2. CASE SnapshotSleep
  BY <1>2 DEF SnapshotSleep, InSnapshotWait, SleepOnFrameReady
<1>3. CASE SnapshotTimeout
  BY <1>3 DEF SnapshotTimeout, TimeOutOnFrameReady
<1>4. CASE SnapshotStopped \/ SnapshotUnavailable \/ SnapshotNoMemory
  BY <1>4 DEF SnapshotStopped, SnapshotUnavailable, SnapshotNoMemory, InSnapshotWait
<1>5. CASE SnapshotReady
  BY <1>5 DEF SnapshotReady, InSnapshotWait
<1> QED
  BY <1>1, <1>2, <1>3, <1>4, <1>5 DEF WaitStep

-----------------------------------------------------------------------------
(* The number of events.                                                    *)

\* The count moves on with the events, and stops at its limit with them.
LEMMA CappedStep ==
  ASSUME NEW n \in Nat
  PROVE  Capped(n + 1) = IF Capped(n) # CountLimit THEN Capped(n) + 1 ELSE Capped(n)
BY GateAssumption DEF Capped

\* Only an emission moves the gate's count.
LEMMA GateCounts ==
  ASSUME NEW g \in Gates, NEW detected \in BOOLEAN, NEW t \in Nat
  PROVE  GateUpdate(g, detected, t).event_count =
           IF Emits(g, detected, t) /\ g.event_count # CountLimit
           THEN g.event_count + 1 ELSE g.event_count
BY DEF GateUpdate, EmitEvent, Gates

LEMMA CountStep == TypeOK /\ CountInv /\ [Next]_vars => CountInv'
<1> SUFFICES ASSUME TypeOK, CountInv, [Next]_vars PROVE CountInv'
  OBVIOUS
<1> USE DEF CountInv, Reporting
<1>1. CASE MotionWorkerThread
  <2>1. CASE EmitMotionEvent
    <3>1. /\ Len(events') = Len(events) + 1
          /\ result'.status \in {"ok", "event_log_error"}
      BY <2>1, Emission
    <3>2. Len(events) \in Nat
      BY DEF TypeOK, MotionTypeOK
    <3>3. gate'.event_count = Capped(Len(events'))
      <4>1. gate'.event_count = IF gate.event_count # CountLimit
                                THEN gate.event_count + 1 ELSE gate.event_count
        BY <2>1, GateCounts, VerdictType, TimeAssumption
           DEF EmitMotionEvent, Compare, TypeOK, MotionTypeOK
      <4>2. gate.event_count = Capped(Len(events))
        BY <2>1 DEF EmitMotionEvent, Compare
      <4> QED
        BY <3>1, <3>2, <4>1, <4>2, CappedStep
    <3> QED
      BY <2>1, <3>1, <3>3 DEF EmitMotionEvent, Compare
  <2>2. CASE ProcessQuietSample
    <3>1. gate'.event_count = gate.event_count
      BY <2>2, GateCounts, VerdictType, TimeAssumption
         DEF ProcessQuietSample, Compare, TypeOK, MotionTypeOK
    <3> QED
      BY <2>2, <3>1 DEF ProcessQuietSample, Compare, NoResult
  <2>3. CASE SampleFails
    BY <2>3 DEF SampleFails, NoResult
  <2>4. CASE ReportHealth
    BY <2>4 DEF ReportHealth, SetEventLogState
  <2>5. CASE PublishResult
    <3>1. CASE Reporting
      BY <2>5, <3>1 DEF PublishResult, UpdateMotion
    <3>2. CASE ~Reporting
      BY <2>5, <3>2 DEF PublishResult, ResetMotionSample
    <3> QED
      BY <3>1, <3>2
  <2>6. CASE MotionExit \/ ClearSample \/ MotionDisabled
    BY <2>6 DEF MotionExit, ClearSample, MotionDisabled, ResetMotionSample
  <2>7. CASE WaitStep
    BY <2>7, WaitsKeepStatus
  <2> QED
    BY <1>1, <2>1, <2>2, <2>3, <2>4, <2>5, <2>6, <2>7 DEF MotionWorkerThread, MotionStep, WaitStep
<1>2. CASE CaptureThread \/ Camera \/ Clock \/ Signal \/ StopThreads \/ Stopped \/ UNCHANGED vars
  BY <1>2, StatusKeptByOthers
<1> QED
  BY <1>1, <1>2 DEF Next

\* /status reports the number of events there were, up to the limit of the
\* counter, through any number of reconnections, failed samples and failed writes.
THEOREM CountsHonest == Spec => []CountHonest
<1>1. Init => CountInv
  BY GateAssumption DEF Init, AppInit, MotionInit, NewGate, CountInv, Capped
<1>2. CountInv => CountHonest
  BY DEF CountInv, CountHonest, Reporting
<1> QED
  BY <1>1, <1>2, CountStep, TypeCorrect, PTL DEF Spec

-----------------------------------------------------------------------------
(* The health of the log.                                                   *)

LEMMA LogStep == TypeOK /\ CountInv /\ LogInv /\ [Next]_vars => LogInv'
<1> SUFFICES ASSUME TypeOK, CountInv, LogInv, [Next]_vars PROVE LogInv'
  OBVIOUS
<1> USE DEF LogInv
<1>1. CASE MotionWorkerThread
  <2>1. CASE EmitMotionEvent
    <3>1. PICK logged \in BOOLEAN :
            /\ events' = Append(events, NewEvent(logged))
            /\ events' # <<>>
            /\ Len(events') = Len(events) + 1
            /\ events'[Len(events')] = NewEvent(logged)
            /\ result'.status = IF logged THEN "ok" ELSE "event_log_error"
            /\ result'.event_logged = logged
      BY <2>1, Emission
    <3>2. LogHealth' = IF logged THEN "ok" ELSE "unavailable"
      BY <3>1 DEF LogHealth, NewEvent
    <3> QED
      BY <2>1, <3>1, <3>2 DEF EmitMotionEvent, Compare
  <2>2. CASE WaitStep
    BY <2>2, WaitsKeepStatus DEF LogHealth
  <2>6. CASE MotionDisabled \/ ClearSample \/ MotionExit
    <3>1. /\ motion_pc # "health" /\ motion_pc' # "health"
          /\ UNCHANGED <<event_log_state, motion_enabled, events, result>>
      BY <2>6 DEF MotionDisabled, ClearSample, MotionExit, ResetMotionSample
    <3> QED
      BY <3>1 DEF LogHealth
  <2>3. CASE SampleFails \/ ProcessQuietSample
    <3>1. /\ motion_pc = "process" /\ motion_pc' = "health"
          /\ UNCHANGED <<event_log_state, motion_enabled, events>>
          /\ ~result'.event_logged
          /\ result'.status # "event_log_error"
      BY <2>3 DEF SampleFails, ProcessQuietSample, Compare, NoResult
    <3>2. motion_enabled
      BY <3>1 DEF CountInv
    <3> QED
      BY <3>1, <3>2 DEF LogHealth
  <2>4. CASE ReportHealth
    <3>1. motion_enabled /\ motion_pc = "health"
      BY <2>4 DEF ReportHealth, CountInv
    <3>2. UNCHANGED <<motion_enabled, events, result>> /\ motion_pc' = "publish"
      BY <2>4 DEF ReportHealth, SetEventLogState
    <3>3. event_log_state' = LogHealth
      <4>1. CASE result.status = "event_log_error"
        BY <2>4, <3>1, <4>1 DEF ReportHealth, SetEventLogState
      <4>2. CASE result.status # "event_log_error" /\ result.event_logged
        BY <2>4, <3>1, <4>2 DEF ReportHealth, SetEventLogState
      <4>3. CASE result.status # "event_log_error" /\ ~result.event_logged
        BY <2>4, <3>1, <4>3 DEF ReportHealth
      <4> QED
        BY <4>1, <4>2, <4>3
    <3> QED
      BY <3>1, <3>2, <3>3 DEF LogHealth
  <2>5. CASE PublishResult
    <3>1. /\ motion_pc = "publish" /\ motion_pc' = "sleep"
          /\ UNCHANGED <<event_log_state, motion_enabled, events>>
          /\ result' = NoResult
      BY <2>5 DEF PublishResult, UpdateMotion, ResetMotionSample
    <3> QED
      BY <3>1 DEF LogHealth, NoResult
  <2> QED
    BY <1>1, <2>1, <2>2, <2>3, <2>4, <2>5, <2>6 DEF MotionWorkerThread, MotionStep, WaitStep
<1>2. CASE CaptureThread \/ Camera \/ Clock \/ Signal \/ StopThreads \/ Stopped \/ UNCHANGED vars
  BY <1>2, StatusKeptByOthers DEF LogHealth
<1> QED
  BY <1>1, <1>2 DEF Next

\* The log is shown as unavailable from the event that could not be written to the
\* next one that could, and at no other time.
THEOREM LogHealthIsHonest == Spec => []LogHealthHonest
<1>1. Init => CountInv /\ LogInv
  BY GateAssumption
     DEF Init, AppInit, MotionInit, NewGate, NoResult, CountInv, Capped, LogInv, LogHealth
<1>2. LogInv => LogHealthHonest
  BY DEF LogInv, LogHealthHonest
<1> QED
  BY <1>1, <1>2, CountStep, LogStep, TypeCorrect, PTL DEF Spec

-----------------------------------------------------------------------------
(* How far apart the events are.                                            *)

\* The moment of the last event.
LEMMA LastEvent ==
  ASSUME TypeOK, events # <<>>
  PROVE  /\ Len(events) \in Nat \ {0}
         /\ events[Len(events)].at \in Nat
<1>1. events \in Seq(Events)
  BY DEF TypeOK, MotionTypeOK
<1>2. Len(events) \in Nat \ {0}
  BY <1>1
<1>3. events[Len(events)] \in Events
  BY <1>1, <1>2
<1> QED
  BY <1>2, <1>3 DEF Events

\* The gate lets an event through only after the cooldown of the last one.
LEMMA EmissionIsLate ==
  ASSUME TypeOK, LimiterInv, EmitMotionEvent, events # <<>>
  PROVE  now >= events[Len(events)].at + Cooldown
<1>1. Emits(gate, MotionDetected, now) /\ motion_pc = "process"
  BY DEF EmitMotionEvent, Compare
<1>2. gate.phase \in {"idle", "cooldown"} /\ now \in Nat
  BY TimeAssumption DEF TypeOK, MotionTypeOK, Gates
<1>3. events[Len(events)].at \in Nat
  BY LastEvent
<1>4. CASE gate.phase = "idle"
  BY <1>1, <1>4 DEF LimiterInv
<1>5. CASE gate.phase = "cooldown"
  <2>1. CooldownOver(gate, now)
    BY <1>1, <1>5 DEF Emits
  <2>2. gate.cooldown_started = events[Len(events)].at
    BY <1>1, <1>5 DEF LimiterInv
  <2> QED
    BY <1>2, <1>3, <2>1, <2>2, GateAssumption DEF CooldownOver
<1> QED
  BY <1>2, <1>4, <1>5

\* A verdict that emits nothing leaves the gate alone, or ends a cooldown.
LEMMA QuietGate ==
  ASSUME NEW g \in Gates, NEW detected \in BOOLEAN, NEW t \in Nat,
         ~Emits(g, detected, t)
  PROVE  LET g2 == GateUpdate(g, detected, t)
         IN  /\ g2.phase = "cooldown" => g.phase = "cooldown"
             /\ g2.cooldown_started = g.cooldown_started
             /\ g2.phase = "idle" => \/ g.phase = "idle"
                                     \/ g.phase = "cooldown" /\ CooldownOver(g, t)
BY DEF GateUpdate, Gates

\* Others neither touch the gate nor emit; the clock moves forward.
LEMMA OthersKeepGate ==
  ASSUME TypeOK,
         CaptureThread \/ Camera \/ Clock \/ Signal \/ StopThreads \/ Stopped \/ UNCHANGED vars
  PROVE  UNCHANGED <<motion_pc, gate, events>> /\ now' \in {now, now + 1}
<1>1. now \in Nat
  BY TimeAssumption DEF TypeOK, MotionTypeOK
<1>2. CASE Clock
  BY <1>1, <1>2 DEF Clock, Tick
<1>3. CASE CaptureThread \/ Camera \/ Signal \/ StopThreads \/ Stopped \/ UNCHANGED vars
  BY <1>1, <1>3 DEF CaptureThread, Camera, Signal, StopThreads, Stopped
<1> QED
  BY <1>2, <1>3

\* Apart from a comparison, the worker leaves gate, clock and events alone until
\* it returns.
LEMMA WorkerKeepsGate ==
  ASSUME MotionWorkerThread, ~EmitMotionEvent, ~ProcessQuietSample
  PROVE  /\ motion_pc # "done"
         /\ UNCHANGED <<now, events>>
         /\ motion_pc' = "done" \/ UNCHANGED gate
<1>1. CASE WaitStep
  <2>1. UNCHANGED now
    BY <1>1 DEF WaitStep, MotionEnabled, SampleDue, SnapshotSleep, SnapshotTimeout,
                SnapshotStopped, SnapshotUnavailable, SnapshotNoMemory, SnapshotReady
  <2> QED
    BY <1>1, <2>1, WaitsKeepStatus
<1>2. CASE MotionDisabled \/ ClearSample \/ MotionExit
  BY <1>2 DEF MotionDisabled, ClearSample, MotionExit
<1>3. CASE SampleFails \/ ReportHealth \/ PublishResult
  BY <1>3 DEF SampleFails, ReportHealth, PublishResult
<1> QED
  BY <1>1, <1>2, <1>3 DEF MotionWorkerThread, MotionStep, WaitStep

LEMMA LimiterStep == TypeOK /\ LimiterInv /\ [Next]_vars => LimiterInv'
<1> SUFFICES ASSUME TypeOK, LimiterInv, [Next]_vars PROVE LimiterInv'
  OBVIOUS
<1>1. now \in Nat /\ gate \in Gates /\ MotionDetected \in BOOLEAN
  BY TimeAssumption, VerdictType DEF TypeOK, MotionTypeOK
<1>2. CASE MotionWorkerThread /\ EmitMotionEvent
  <2>1. PICK logged \in BOOLEAN :
          /\ events' = Append(events, NewEvent(logged))
          /\ events' # <<>>
          /\ Len(events') = Len(events) + 1
          /\ events'[Len(events')] = NewEvent(logged)
          /\ result'.status = IF logged THEN "ok" ELSE "event_log_error"
          /\ result'.event_logged = logged
    BY <1>2, Emission
  <2>2. gate' = EmitEvent(gate, now) /\ UNCHANGED now
    BY <1>2 DEF EmitMotionEvent, Compare, GateUpdate
  <2>3. gate'.phase = "cooldown" /\ gate'.cooldown_started = now
    BY <2>2 DEF EmitEvent
  <2> QED
    BY <1>1, <2>1, <2>2, <2>3 DEF LimiterInv, NewEvent
<1>3. CASE MotionWorkerThread /\ ProcessQuietSample
  <2>1. /\ motion_pc = "process"
        /\ gate' = GateUpdate(gate, MotionDetected, now)
        /\ ~Emits(gate, MotionDetected, now)
        /\ UNCHANGED <<now, events>>
    BY <1>3 DEF ProcessQuietSample, Compare
  <2>2. /\ gate'.phase = "cooldown" => gate.phase = "cooldown"
        /\ gate'.cooldown_started = gate.cooldown_started
        /\ gate'.phase = "idle" => \/ gate.phase = "idle"
                                   \/ gate.phase = "cooldown" /\ CooldownOver(gate, now)
    BY <1>1, <2>1, QuietGate
  <2>3. CASE events = <<>>
    BY <2>1, <2>2, <2>3 DEF LimiterInv
  <2>4. CASE events # <<>>
    <3>1. events[Len(events)].at \in Nat
      BY <2>4, LastEvent
    <3>2. gate.phase = "cooldown" /\ CooldownOver(gate, now) => now >= events[Len(events)].at + Cooldown
      BY <1>1, <2>1, <2>4, <3>1, GateAssumption DEF LimiterInv, CooldownOver
    <3> QED
      BY <2>1, <2>2, <2>4, <3>2 DEF LimiterInv
  <2> QED
    BY <2>3, <2>4
<1>4. CASE MotionWorkerThread /\ ~EmitMotionEvent /\ ~ProcessQuietSample
  BY <1>4, WorkerKeepsGate DEF LimiterInv
<1>5. CASE CaptureThread \/ Camera \/ Clock \/ Signal \/ StopThreads \/ Stopped \/ UNCHANGED vars
  <2>1. UNCHANGED <<motion_pc, gate, events>> /\ now' \in {now, now + 1}
    BY <1>5, OthersKeepGate
  <2>2. now' \in Nat /\ now' >= now
    BY <1>1, <2>1
  <2>3. CASE events = <<>>
    BY <2>1, <2>3 DEF LimiterInv
  <2>4. CASE events # <<>>
    <3>1. events[Len(events)].at \in Nat
      BY <2>4, LastEvent
    <3> QED
      BY <1>1, <2>1, <2>2, <2>4, <3>1, GateAssumption DEF LimiterInv
  <2> QED
    BY <2>3, <2>4
<1> QED
  BY <1>2, <1>3, <1>4, <1>5 DEF Next

\* A step of the daemon is an emission of the limiter, a tick of its clock, or
\* none of its business.
LEMMA LimiterSimulation ==
  TypeOK /\ LimiterInv /\ [Next]_vars =>
    [Limiter!Advance \/ Limiter!Emit]_Limiter!limiterVars
<1> SUFFICES ASSUME TypeOK, LimiterInv, [Next]_vars
             PROVE  [Limiter!Advance \/ Limiter!Emit]_Limiter!limiterVars
  OBVIOUS
<1> USE DEF Limiter!Advance, Limiter!Emit, Limiter!limiterVars
<1>1. CASE MotionWorkerThread /\ EmitMotionEvent
  <2> DEFINE times == [i \in DOMAIN events |-> events[i].at]
  <2>1. PICK logged \in BOOLEAN : events' = Append(events, NewEvent(logged))
    BY <1>1, Emission
  <2>2. events \in Seq(Events)
    BY DEF TypeOK, MotionTypeOK
  <2>3. UNCHANGED now
    BY <1>1 DEF EmitMotionEvent, Compare
  <2>4. times \in Seq(Nat) /\ Len(times) = Len(events)
    <3>1. Len(events) \in Nat /\ DOMAIN events = 1..Len(events)
      BY <2>2
    <3>2. \A i \in 1..Len(events) : events[i].at \in Nat
      <4>1. \A i \in 1..Len(events) : events[i] \in Events
        BY <2>2, <3>1
      <4> QED
        BY <4>1 DEF Events
    <3>3. times \in [1..Len(events) -> Nat]
      BY <3>1, <3>2
    <3> QED
      BY <3>1, <3>3
  <2>5. times' = Append(times, now)
    <3>1. DOMAIN events' = 1..Len(events) + 1
      BY <2>1, <2>2
    <3>2. \A i \in 1..Len(events) + 1 :
            events'[i].at = IF i <= Len(events) THEN events[i].at ELSE now
      BY <2>1, <2>2 DEF NewEvent
    <3>3. Append(times, now) = [i \in 1..Len(events) + 1 |-> IF i <= Len(events) THEN times[i] ELSE now]
      BY <2>4
    <3> QED
      BY <2>2, <3>1, <3>2, <3>3
  <2>6. times # <<>> => now >= times[Len(times)] + Cooldown
    <3>1. times # <<>> => events # <<>>
      BY <2>2, <2>4
    <3>2. events # <<>> => times[Len(times)] = events[Len(events)].at
      BY <2>2, <2>4
    <3> QED
      BY <1>1, <3>1, <3>2, EmissionIsLate
  <2> QED
    BY <2>3, <2>5, <2>6
<1>2. CASE Clock
  BY <1>2 DEF Clock, Tick
<1>3. CASE /\ ~(MotionWorkerThread /\ EmitMotionEvent)
           /\ ~Clock
  <2>1. UNCHANGED events
    BY <1>3, EventsKept
  <2>2. UNCHANGED now
    <3>1. CASE MotionWorkerThread /\ ProcessQuietSample
      BY <3>1 DEF ProcessQuietSample, Compare
    <3>2. CASE MotionWorkerThread /\ ~ProcessQuietSample
      BY <1>3, <3>2, WorkerKeepsGate
    <3>3. CASE CaptureThread \/ Camera \/ Signal \/ StopThreads \/ Stopped \/ UNCHANGED vars
      BY <3>3 DEF CaptureThread, Camera, Signal, StopThreads, Stopped
    <3> QED
      BY <1>3, <3>1, <3>2, <3>3 DEF Next
  <2> QED
    BY <2>1, <2>2
<1> QED
  BY <1>1, <1>2, <1>3

\* The daemon implements EventLimiter: two motion events are at least Cooldown
\* apart, through lost baselines, new capture sessions and errors.
THEOREM EventsAreLimited == Spec => EventsLimited
<1>1. Init => LimiterInv
  BY DEF Init, MotionInit, NewGate, LimiterInv
<1>2. Init => Limiter!Init
  BY DEF Init, MotionInit, Limiter!Init
<1> QED
  BY <1>1, <1>2, LimiterStep, LimiterSimulation, TypeCorrect, PTL
     DEF Spec, EventsLimited, Limiter!Spec

-----------------------------------------------------------------------------
(* Late events.                                                             *)

\* the worker has a picture at hand
Holding == motion_pc \in {"fence", "process"}

\* LateEventsBounded with what carries it: a session a late event belongs to is
\* over, either because the camera is gone or because the next one has begun, so
\* that no further picture of it is ever taken up.
LateInv ==
  /\ \A i \in DOMAIN events : events[i].late =>
       /\ events[i].generation <= capture_generation
       /\ camera_state = "active" => events[i].generation < capture_generation
       /\ Holding => events[i].generation # snapshot.generation
  /\ Holding => snapshot.generation <= capture_generation
  /\ LateEventsBounded

\* The types the arithmetic of LateInv needs.
LEMMA GenerationTypes ==
  ASSUME TypeOK
  PROVE  /\ capture_generation \in Nat
         /\ snapshot.generation \in Nat
         /\ events \in Seq(Events)
         /\ \A i \in DOMAIN events : events[i].generation \in Nat
<1>1. events \in Seq(Events)
  BY DEF TypeOK, MotionTypeOK
<1>2. \A i \in DOMAIN events : events[i] \in Events
  BY <1>1
<1>3. capture_generation \in Nat
  BY DEF TypeOK, AppTypeOK
<1>4. snapshot.generation \in Nat
  BY DEF TypeOK, MotionTypeOK, Pictures
<1> QED
  BY <1>1, <1>2, <1>3, <1>4 DEF Events

\* Steps of the worker that neither emit nor take up a picture.
LEMMA LateKept ==
  ASSUME LateInv, UNCHANGED <<events, capture_generation, camera_state>>,
         Holding' => Holding /\ UNCHANGED snapshot
  PROVE  LateInv'
BY DEF LateInv, LateEventsBounded

LEMMA LateStep == TypeOK /\ LateInv /\ [Next]_vars => LateInv'
<1> SUFFICES ASSUME TypeOK, LateInv, [Next]_vars PROVE LateInv'
  OBVIOUS
<1>1. CASE MotionWorkerThread /\ EmitMotionEvent
  <2>1. PICK logged \in BOOLEAN : events' = Append(events, NewEvent(logged))
    BY <1>1, Emission
  <2>2. /\ motion_pc = "process" /\ motion_pc' = "health"
        /\ UNCHANGED <<capture_generation, camera_state>>
    BY <1>1 DEF EmitMotionEvent, Compare
  <2> DEFINE n == Len(events) + 1
  <2>3. DOMAIN events' = 1..n /\ DOMAIN events = 1..Len(events) /\ Len(events) \in Nat
    BY <2>1, GenerationTypes
  <2>4. \A i \in 1..n : events'[i] = IF i = n THEN NewEvent(logged) ELSE events[i]
    BY <2>1, GenerationTypes
  <2>5. \A i \in 1..n : i # n => i \in 1..Len(events)
    BY <2>3
  <2>6. /\ NewEvent(logged).generation = snapshot.generation
        /\ NewEvent(logged).late => camera_state # "active"
    BY DEF NewEvent
  <2>7. \A i \in 1..Len(events) :
          events[i].late => events[i].generation # snapshot.generation
    BY <2>2, <2>3 DEF LateInv, Holding
  <2>8. LateEventsBounded'
    BY <2>3, <2>4, <2>5, <2>6, <2>7 DEF LateInv, LateEventsBounded
  <2>9. ~Holding' /\ snapshot.generation <= capture_generation
    BY <2>2 DEF Holding, LateInv
  <2>10. \A i \in DOMAIN events' : events'[i].late =>
           /\ events'[i].generation <= capture_generation'
           /\ camera_state' = "active" => events'[i].generation < capture_generation'
    BY <2>2, <2>3, <2>4, <2>5, <2>6, <2>9 DEF LateInv
  <2> QED
    BY <2>8, <2>9, <2>10 DEF LateInv
<1>2. CASE MotionWorkerThread /\ SnapshotReady
  <2>1. /\ camera_state = "active"
        /\ snapshot'.generation = capture_generation
        /\ UNCHANGED <<events, capture_generation, camera_state>>
    BY <1>2 DEF SnapshotReady, FrameIsCurrent
  <2> QED
    BY <2>1, GenerationTypes DEF LateInv, LateEventsBounded
<1>3. CASE MotionWorkerThread /\ ~EmitMotionEvent /\ ~SnapshotReady
  <2>1. UNCHANGED events
    BY <1>3, EventsKept
  <2>2. UNCHANGED <<capture_generation, camera_state>>
    BY <1>3
       DEF MotionWorkerThread, MotionStep, MotionDisabled, MotionEnabled, SampleDue, SnapshotSleep,
           SnapshotTimeout, SnapshotStopped, SnapshotUnavailable, SnapshotNoMemory, ClearSample,
           SampleFails, ProcessQuietSample, Compare, ReportHealth, PublishResult, MotionExit,
           ResetMotionSample, SleepOnFrameReady, TimeOutOnFrameReady, SetEventLogState, UpdateMotion
  <2>3. Holding' => Holding /\ UNCHANGED snapshot
    BY <1>3
       DEF Holding, MotionWorkerThread, MotionStep, MotionDisabled, MotionEnabled, SampleDue,
           SnapshotSleep, InSnapshotWait, SnapshotTimeout, SnapshotStopped, SnapshotUnavailable,
           SnapshotNoMemory, ClearSample, SampleFails, ProcessQuietSample, Compare, ReportHealth,
           PublishResult, MotionExit
  <2> QED
    BY <2>1, <2>2, <2>3, LateKept
<1>4. CASE CaptureThread
  <2>1. UNCHANGED <<motionThreadVars, events>>
    BY <1>4, StatusKeptByOthers
  <2>2. \/ UNCHANGED <<capture_generation, camera_state>>
        \/ capture_generation' = capture_generation + 1
        \/ UNCHANGED capture_generation /\ camera_state' # "active"
    BY <1>4
       DEF CaptureThread, CaptureStep, CaptureLoop, FrameLoop, NoCamera, OpenCamera, SetupFails,
           StartStreaming, DeliverFrame, Dequeue, Requeue, NoFrameYet, StreamFails, Cleanup,
           MarkUnavailable, SetCaptureActive, SetCameraUnavailable, PublishFrame
  <2>3. LateEventsBounded' /\ (Holding' <=> Holding)
    BY <2>1 DEF LateInv, LateEventsBounded, Holding
  <2> QED
    BY <2>1, <2>2, <2>3, GenerationTypes DEF LateInv
<1>5. CASE Camera \/ Clock \/ Signal \/ StopThreads \/ Stopped \/ UNCHANGED vars
  <2>1. UNCHANGED <<motionThreadVars, events>>
    BY <1>5, StatusKeptByOthers
  <2>2. UNCHANGED <<capture_generation, camera_state>>
    BY <1>5 DEF Camera, CameraEnvironment, PlugIn, Unplug, Clock, Tick, Signal, RaiseSignal,
                StopThreads, RequestStop, Stopped
  <2> QED
    BY <2>1, <2>2, LateKept DEF Holding
<1> QED
  BY <1>1, <1>2, <1>3, <1>4, <1>5 DEF Next

\* Of each capture session at most one event comes too late, for any number of
\* sessions and of frames the worker has not seen.
THEOREM LateEventsAreBounded == Spec => []LateEventsBounded
<1>1. Init => LateInv
  BY DEF Init, MotionInit, LateInv, LateEventsBounded, Holding
<1>2. LateInv => LateEventsBounded
  BY DEF LateInv
<1> QED
  BY <1>1, <1>2, LateStep, TypeCorrect, PTL DEF Spec

-----------------------------------------------------------------------------
(* Torn lines.                                                              *)

\* A file that ends in a torn line has had no event logged since.
TornInv == Torn(event_log) => events # <<>> /\ ~events[Len(events)].logged

\* An append that succeeds leaves a whole line at the end.
LEMMA AppendedIsWhole ==
  ASSUME NEW file \in Seq(Pieces), NEW event \in Nat,
         NEW append \in AppendMotion(file, event), append.status = "ok"
  PROVE  ~Torn(append.file)
<1> DEFINE piece == Piece(event, TRUE)
           line == Append(file, piece)
           torn == Append(file, Piece(event, FALSE))
<1>1. piece.whole /\ piece \in Pieces
  BY DEF Piece, Pieces
<1>2. \/ append = [status |-> "ok", file |-> line]
      \/ append = [status |-> "open_error", file |-> file]
      \/ append = [status |-> "write_error", file |-> file]
      \/ append = [status |-> "write_error", file |-> torn]
      \/ append = [status |-> "close_error", file |-> line]
  BY DEF AppendMotion
<1> HIDE DEF piece
<1>3. line[Len(line)] = piece
  BY <1>1
<1> HIDE DEF line, torn
<1>4. append.file = line
  BY <1>2
<1> QED
  BY <1>1, <1>3, <1>4 DEF Torn

\* Nobody but an emission writes to the log.
LEMMA FileKept ==
  ASSUME [Next]_vars, ~(MotionWorkerThread /\ EmitMotionEvent)
  PROVE  UNCHANGED event_log
<1>1. CASE MotionWorkerThread
  BY <1>1
     DEF MotionWorkerThread, MotionStep, MotionDisabled, MotionEnabled, SampleDue, SnapshotSleep,
         SnapshotTimeout, SnapshotStopped, SnapshotUnavailable, SnapshotNoMemory, SnapshotReady,
         ClearSample, SampleFails, ProcessQuietSample, ReportHealth, PublishResult, MotionExit
<1>2. CASE CaptureThread \/ Camera \/ Clock \/ Signal \/ StopThreads \/ Stopped \/ UNCHANGED vars
  BY <1>2 DEF CaptureThread, Camera, Clock, Tick, Signal, StopThreads, Stopped
<1> QED
  BY <1>1, <1>2 DEF Next

LEMMA TornStep == TypeOK /\ TornInv /\ [Next]_vars => TornInv'
<1> SUFFICES ASSUME TypeOK, TornInv, [Next]_vars PROVE TornInv'
  OBVIOUS
<1>1. CASE MotionWorkerThread /\ EmitMotionEvent
  <2>1. PICK append \in AppendMotion(event_log, snapshot.sequence) :
          /\ event_log' = append.file
          /\ events' = Append(events, NewEvent(append.status = "ok"))
    BY <1>1 DEF EmitMotionEvent
  <2>2. event_log \in Seq(Pieces) /\ events \in Seq(Events)
    BY DEF TypeOK, MotionTypeOK
  <2>3. CASE append.status = "ok"
    BY <2>1, <2>2, <2>3, AppendedIsWhole DEF TornInv, Torn, TypeOK, MotionTypeOK, Pictures
  <2>4. CASE append.status # "ok"
    <3> DEFINE event == NewEvent(append.status = "ok")
    <3>1. ~event.logged
      BY <2>4 DEF NewEvent
    <3>2. events' = Append(events, event)
      BY <2>1
    <3> HIDE DEF event
    <3>3. events' # <<>> /\ events'[Len(events')] = event
      <4>1. Append(events, event)[Len(Append(events, event))] = event
        BY <2>2
      <4>2. Append(events, event) # <<>>
        BY <2>2
      <4> QED
        BY <3>2, <4>1, <4>2
    <3> QED
      BY <3>1, <3>3 DEF TornInv
  <2> QED
    BY <2>3, <2>4
<1>2. CASE ~(MotionWorkerThread /\ EmitMotionEvent)
  BY <1>2, EventsKept, FileKept DEF TornInv, Torn
<1> QED
  BY <1>1, <1>2

\* A torn line at the end of the log is shown in /status until the next event is
\* logged, through any number of events, failures and sessions.
THEOREM TornLinesAnnounced == Spec => []TornLineAnnounced
<1>1. Init => CountInv /\ LogInv /\ TornInv
  BY GateAssumption
     DEF Init, AppInit, MotionInit, NewGate, NoResult, CountInv, Capped, LogInv, LogHealth,
         TornInv, Torn
<1>2. LogInv /\ TornInv => TornLineAnnounced
  BY DEF LogInv, TornInv, Torn, LogHealth, TornLineAnnounced
<1> QED
  BY <1>1, <1>2, CountStep, LogStep, TornStep, TypeCorrect, PTL DEF Spec

=============================================================================
