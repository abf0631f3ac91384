----------------------------- MODULE MotionWorker -----------------------------
(***************************************************************************)
(* The motion worker thread, app/daemon/motion_worker.c, with the pipeline *)
(* it owns (motion_pipeline.c: JPEG decoder, detector, event gate, log).   *)
(*                                                                         *)
(* A step ends where the thread takes the lock of AppState or may block.   *)
(* The pipeline belongs to this thread alone, so what it does between two  *)
(* such points joins the step before or after it.                          *)
(*                                                                         *)
(* Abstracted: a picture is one of Scenes, and two pictures show motion    *)
(* exactly when they differ (the detector's thresholds are its own matter; *)
(* all pictures of a session have one size).  The score and the measured   *)
(* sample rate are left out, and a sample is due at any time: the deadline *)
(* of wait_until_sample only ever delays one.                              *)
(***************************************************************************)
EXTENDS AppState, EventGate, EventLog

CONSTANT MaxTime   \* bound: the last reading of the clock

ASSUME TimeAssumption == MaxTime \in Nat

VARIABLES
  motion_pc,        \* where the motion worker is
  snapshot,         \* JpegSnapshot: its copy of a frame
  last_generation,  \* capture session of the last sample, 0 for none
  baseline,         \* picture the detector compares with, and where it came from
  gate,             \* MotionEventGate
  result,           \* status and MotionPipelineResult of the last sample
  event_log,        \* pieces of the event log file
  now,              \* CLOCK_MONOTONIC
  events            \* history: the events the gate let through

motionThreadVars == <<motion_pc, snapshot, last_generation, baseline, gate, result>>
workerVars == <<motionThreadVars, event_log, now, events>>

\* "unborn" before pthread_create; "start" before the loop; "sleep" in
\* wait_until_sample; "snapshot" in state_wait_jpeg_snapshot; "clear" about to
\* drop the sample shown in /status; "fence" the same, with a snapshot at hand;
\* "process" about to call the pipeline; "health" and "publish" about to report
\* its answer; "exit" behind the loop; "done" returned.
MotionPCs == {"unborn", "start", "sleep", "snapshot", "clear", "fence", "process",
              "health", "publish", "exit", "done"}

Pictures == [sequence : Nat, generation : Nat, frame : Scenes \cup {NoFrame}]
NoPicture == [sequence |-> 0, generation |-> 0, frame |-> NoFrame]
PipelineStatuses == {"ok", "event_log_error", "decode_error", "detector_error"}
Results == [status : PipelineStatuses, motion_detected : BOOLEAN, event_logged : BOOLEAN]
NoResult == [status |-> "ok", motion_detected |-> FALSE, event_logged |-> FALSE]
Events == [at : Nat, logged : BOOLEAN, generation : Nat, late : BOOLEAN]
BaselineReady == baseline # NoPicture

MotionTypeOK ==
  /\ motion_pc \in MotionPCs
  /\ snapshot \in Pictures
  /\ last_generation \in Nat
  /\ baseline \in Pictures
  /\ gate \in Gates
  /\ result \in Results
  /\ event_log \in Seq(Pieces)
  /\ now \in 0..MaxTime
  /\ events \in Seq(Events)

MotionInit(pc) ==
  /\ motion_pc = pc
  /\ snapshot = NoPicture
  /\ last_generation = 0
  /\ baseline = NoPicture
  /\ gate = NewGate
  /\ result = NoResult
  /\ event_log = <<>>
  /\ now = 0
  /\ events = <<>>

Tick ==
  /\ now < MaxTime
  /\ now' = now + 1
  /\ UNCHANGED <<appVars, motionThreadVars, event_log, events>>

-----------------------------------------------------------------------------
(* Before the loop, and the wait for the next sample.                       *)

\* Motion detection is switched off: the thread returns at once.
MotionDisabled ==
  /\ motion_pc = "start"
  /\ ~motion_enabled
  /\ ResetMotionSample
  /\ motion_pc' = "done"
  /\ UNCHANGED <<snapshot, last_generation, baseline, gate, result, event_log, now, events>>

MotionEnabled ==
  /\ motion_pc = "start"
  /\ motion_enabled
  /\ motion_pc' = "sleep"
  /\ UNCHANGED <<appVars, snapshot, last_generation, baseline, gate, result, event_log, now, events>>

\* The loop condition and wait_until_sample, which gives up on a stop, and also
\* when clock_nanosleep fails.
SampleDue ==
  /\ motion_pc = "sleep"
  /\ \/ motion_pc' = "exit"
     \/ ~Stopping /\ motion_pc' = "snapshot"
  /\ UNCHANGED <<appVars, snapshot, last_generation, baseline, gate, result, event_log, now, events>>

-----------------------------------------------------------------------------
(* state_wait_jpeg_snapshot, and what the worker does with its answer.      *)

InSnapshotWait == motion_pc = "snapshot" /\ MotionThread \notin frame_ready

SnapshotSleep ==
  /\ InSnapshotWait
  /\ SnapshotWaitBlocks(snapshot.sequence)
  /\ SleepOnFrameReady(MotionThread)
  /\ UNCHANGED workerVars

\* Mutant: the sample shown in /status stays.
SnapshotTimeout_KeepSample ==
  /\ motion_pc = "snapshot"
  /\ TimeOutOnFrameReady(MotionThread)
  /\ baseline' = NoPicture
  /\ last_generation' = 0
  /\ motion_pc' = "sleep"
  /\ UNCHANGED <<snapshot, gate, result, event_log, now, events>>

\* The wait lasts at most a second.  A frame published before the sleeper has
\* the lock back does not turn its timeout into a success.
SnapshotTimeout ==
  /\ motion_pc = "snapshot"
  /\ TimeOutOnFrameReady(MotionThread)
  /\ baseline' = NoPicture
  /\ last_generation' = 0
  /\ motion_pc' = "clear"
  /\ UNCHANGED <<snapshot, gate, result, event_log, now, events>>

SnapshotStopped ==
  /\ InSnapshotWait
  /\ Stopping
  /\ motion_pc' = "exit"
  /\ UNCHANGED <<appVars, snapshot, last_generation, baseline, gate, result, event_log, now, events>>

\* Mutant: the gate is reset with the baseline.
SnapshotUnavailable_ResetGate ==
  /\ InSnapshotWait
  /\ ~SnapshotWaitBlocks(snapshot.sequence)
  /\ ~Stopping
  /\ ~FrameIsCurrent
  /\ snapshot' = [snapshot EXCEPT !.sequence = frame_sequence]
  /\ baseline' = NoPicture
  /\ last_generation' = 0
  /\ gate' = [gate EXCEPT !.phase = "idle", !.cooldown_started = 0]
  /\ motion_pc' = "clear"
  /\ UNCHANGED <<appVars, result, event_log, now, events>>

\* No camera, or its session has no frame yet: the frame in the slot is skipped.
SnapshotUnavailable ==
  /\ InSnapshotWait
  /\ ~SnapshotWaitBlocks(snapshot.sequence)
  /\ ~Stopping
  /\ ~FrameIsCurrent
  /\ snapshot' = [snapshot EXCEPT !.sequence = frame_sequence]
  /\ baseline' = NoPicture
  /\ last_generation' = 0
  /\ motion_pc' = "clear"
  /\ UNCHANGED <<appVars, gate, result, event_log, now, events>>

\* There is no memory for a larger frame.
SnapshotNoMemory ==
  /\ InSnapshotWait
  /\ ~SnapshotWaitBlocks(snapshot.sequence)
  /\ ~Stopping
  /\ FrameIsCurrent
  /\ motion_pc' = "clear"
  /\ UNCHANGED <<appVars, snapshot, last_generation, baseline, gate, result, event_log, now, events>>

\* Mutant: no fence between two sessions.
SnapshotReady_NoFence ==
  /\ InSnapshotWait
  /\ ~SnapshotWaitBlocks(snapshot.sequence)
  /\ ~Stopping
  /\ FrameIsCurrent
  /\ snapshot' = [sequence |-> frame_sequence, generation |-> frame_generation, frame |-> frame]
  /\ last_generation' = frame_generation
  /\ motion_pc' = "process"
  /\ UNCHANGED <<appVars, baseline, gate, result, event_log, now, events>>

\* A frame of the running session.  The first one of a session drops the
\* baseline and goes through the fence.
SnapshotReady ==
  /\ InSnapshotWait
  /\ ~SnapshotWaitBlocks(snapshot.sequence)
  /\ ~Stopping
  /\ FrameIsCurrent
  /\ snapshot' = [sequence |-> frame_sequence, generation |-> frame_generation, frame |-> frame]
  /\ IF frame_generation # last_generation
     THEN /\ baseline' = NoPicture
          /\ last_generation' = frame_generation
          /\ motion_pc' = "fence"
     ELSE /\ motion_pc' = "process"
          /\ UNCHANGED <<baseline, last_generation>>
  /\ UNCHANGED <<appVars, gate, result, event_log, now, events>>

\* state_reset_motion_sample, with and without a sample to process
ClearSample ==
  /\ motion_pc \in {"clear", "fence"}
  /\ ResetMotionSample
  /\ motion_pc' = IF motion_pc = "fence" THEN "process" ELSE "sleep"
  /\ UNCHANGED <<snapshot, last_generation, baseline, gate, result, event_log, now, events>>

-----------------------------------------------------------------------------
(* motion_pipeline_process_jpeg.                                            *)

\* The decoder refuses the picture, or the detector has no memory for it.
SampleFails ==
  /\ motion_pc = "process"
  /\ \E status \in {"decode_error", "detector_error"} :
       result' = [NoResult EXCEPT !.status = status]
  /\ motion_pc' = "health"
  /\ UNCHANGED <<appVars, snapshot, last_generation, baseline, gate, event_log, now, events>>

\* motion_detector_process: the first picture is only kept to compare with.
MotionDetected == BaselineReady /\ baseline.frame # snapshot.frame

\* The picture becomes the baseline, and its verdict goes through the gate.
Compare ==
  /\ motion_pc = "process"
  /\ baseline' = snapshot
  /\ gate' = GateUpdate(gate, MotionDetected, now)
  /\ motion_pc' = "health"
  /\ UNCHANGED <<appVars, snapshot, last_generation, now>>

ProcessQuietSample ==
  /\ Compare
  /\ ~Emits(gate, MotionDetected, now)
  /\ result' = [NoResult EXCEPT !.motion_detected = MotionDetected]
  /\ UNCHANGED <<event_log, events>>

\* history: when the gate emitted, was it logged, of which capture session is it,
\* and had the camera gone by then?
NewEvent(logged) ==
  [at |-> now, logged |-> logged, generation |-> snapshot.generation,
   late |-> camera_state # "active"]

\* The gate lets an event through, which goes to the log.
EmitMotionEvent ==
  /\ Compare
  /\ Emits(gate, MotionDetected, now)
  /\ \E append \in AppendMotion(event_log, snapshot.sequence) :
       LET logged == append.status = "ok"
       IN  /\ event_log' = append.file
           /\ events' = Append(events, NewEvent(logged))
           /\ result' = [status          |-> IF logged THEN "ok" ELSE "event_log_error",
                         motion_detected |-> TRUE,
                         event_logged    |-> logged]

-----------------------------------------------------------------------------
(* What the worker reports.                                                 *)

\* Mutant: any sample without an error declares the log healthy.
ReportHealth_AnySample ==
  /\ motion_pc = "health"
  /\ CASE result.status = "event_log_error" -> SetEventLogState("unavailable")
       [] result.status = "ok" -> SetEventLogState("ok")
       [] OTHER -> UNCHANGED appVars
  /\ motion_pc' = "publish"
  /\ UNCHANGED <<snapshot, last_generation, baseline, gate, result, event_log, now, events>>

\* update_event_log_health: only an event says something about the log.
ReportHealth ==
  /\ motion_pc = "health"
  /\ CASE result.status = "event_log_error" -> SetEventLogState("unavailable")
       [] result.event_logged -> SetEventLogState("ok")
       [] OTHER -> UNCHANGED appVars
  /\ motion_pc' = "publish"
  /\ UNCHANGED <<snapshot, last_generation, baseline, gate, result, event_log, now, events>>

\* Mutant: an event that could not be logged is not counted in /status.
PublishResult_OnlyLogged ==
  /\ motion_pc = "publish"
  /\ IF result.status = "ok"
     THEN UpdateMotion(result.motion_detected, gate.event_count)
     ELSE ResetMotionSample
  /\ result' = NoResult
  /\ motion_pc' = "sleep"
  /\ UNCHANGED <<snapshot, last_generation, baseline, gate, event_log, now, events>>

\* The result's event_count is the gate's, as no sample came in between.
PublishResult ==
  /\ motion_pc = "publish"
  /\ IF result.status \in {"ok", "event_log_error"}
     THEN UpdateMotion(result.motion_detected, gate.event_count)
     ELSE ResetMotionSample
  /\ result' = NoResult
  /\ motion_pc' = "sleep"
  /\ UNCHANGED <<snapshot, last_generation, baseline, gate, event_log, now, events>>

\* Behind the loop: the snapshot, the baseline and the gate are destroyed.
MotionExit ==
  /\ motion_pc = "exit"
  /\ ResetMotionSample
  /\ snapshot' = NoPicture
  /\ baseline' = NoPicture
  /\ gate' = NewGate
  /\ motion_pc' = "done"
  /\ UNCHANGED <<last_generation, result, event_log, now, events>>

MotionStep ==
  \/ MotionDisabled \/ MotionEnabled \/ SampleDue
  \/ SnapshotSleep \/ SnapshotTimeout \/ SnapshotStopped
  \/ SnapshotUnavailable \/ SnapshotNoMemory \/ SnapshotReady \/ ClearSample
  \/ SampleFails \/ ProcessQuietSample \/ EmitMotionEvent
  \/ ReportHealth \/ PublishResult \/ MotionExit

=============================================================================
