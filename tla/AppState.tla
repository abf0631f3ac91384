------------------------------- MODULE AppState -------------------------------
(***************************************************************************)
(* The shared state of the daemon, app/daemon/state.c.                     *)
(*                                                                         *)
(* AppState holds one slot with the latest JPEG, the health of the camera  *)
(* and of the event log, the motion result shown by /status, two client    *)
(* counters and the stop flag.  A single mutex protects it: every state_*  *)
(* function takes it once and holds it for its whole body, so each of them *)
(* is one atomic operation here.  The only functions that let the mutex go *)
(* halfway are the waits on the condition variable frame_ready (and on     *)
(* clients_done), whose sleepers are the sets of the same name below.      *)
(*                                                                         *)
(* The thread modules (Capture, MotionWorker, HttpServer) extend this one  *)
(* and conjoin these operations into their steps.                          *)
(*                                                                         *)
(* Left out: frame_count (always equal to frame_sequence), fps, the device *)
(* name and resolution, the motion score and sample rate, the error texts  *)
(* with their timestamps.  No property of this module depends on them.     *)
(***************************************************************************)
EXTENDS Naturals, FiniteSets

CONSTANTS
  Scenes,         \* what a picture can show: the abstraction of JPEG bytes
  NoFrame,        \* the content of the slot before the first frame
  MotionThread,   \* identity of the motion worker thread
  Clients,        \* connection slots of the HTTP server
  MotionSettings  \* values of motion.enabled in the configuration

ASSUME ThreadAssumption == MotionThread \notin Clients
ASSUME MotionSettingsAssumption == MotionSettings \subseteq BOOLEAN
ASSUME SceneAssumption == Scenes # {} /\ NoFrame \notin Scenes

VARIABLES
  camera_state,         \* SenseCameraState
  capture_generation,   \* number of capture sessions started
  frame,                \* content of the latest frame
  frame_sequence,       \* number of frames published
  frame_generation,     \* capture session the latest frame belongs to
  motion_enabled,       \* from the configuration, never changes
  motion_state,         \* did the latest sample show motion?
  event_count,          \* events, as shown by /status
  event_log_state,      \* SenseEventLogState
  worker_count,         \* client threads that may still use the state
  client_count,         \* clients inside handle_stream
  stop,                 \* set by state_request_stop
  g_signal_stop,        \* set by the SIGINT/SIGTERM handler of main.c
  frame_ready,          \* threads asleep on the condition variable frame_ready
  clients_done          \* is main asleep on the condition variable clients_done?

cameraVars == <<camera_state, capture_generation>>
frameVars  == <<frame, frame_sequence, frame_generation>>
motionVars == <<motion_state, event_count>>
countVars  == <<worker_count, client_count>>
stopVars   == <<stop, g_signal_stop>>

appVars == <<cameraVars, frameVars, motion_enabled, motionVars, event_log_state,
             countVars, stopVars, frame_ready, clients_done>>

Threads == Clients \cup {MotionThread}
CameraStates == {"initializing", "active", "unavailable"}
EventLogStates == {"initializing", "disabled", "ok", "unavailable"}

AppTypeOK ==
  /\ camera_state \in CameraStates
  /\ capture_generation \in Nat
  /\ frame \in Scenes \cup {NoFrame}
  /\ frame_sequence \in Nat
  /\ frame_generation \in Nat
  /\ motion_enabled \in BOOLEAN
  /\ motion_state \in BOOLEAN
  /\ event_count \in Nat
  /\ event_log_state \in EventLogStates
  /\ worker_count \in Nat
  /\ client_count \in Nat
  /\ stop \in BOOLEAN
  /\ g_signal_stop \in BOOLEAN
  /\ frame_ready \subseteq Threads
  /\ clients_done \in BOOLEAN

(***************************************************************************)
(* state_init followed by state_configure_motion: main calls both before   *)
(* it creates the first thread, so nobody sees the state in between.       *)
(***************************************************************************)
AppInit ==
  /\ camera_state = "initializing"
  /\ capture_generation = 0
  /\ frame = NoFrame
  /\ frame_sequence = 0
  /\ frame_generation = 0
  /\ motion_enabled \in MotionSettings
  /\ motion_state = FALSE
  /\ event_count = 0
  /\ event_log_state = IF motion_enabled THEN "ok" ELSE "disabled"
  /\ worker_count = 0
  /\ client_count = 0
  /\ stop = FALSE
  /\ g_signal_stop = FALSE
  /\ frame_ready = {}
  /\ clients_done = FALSE

-----------------------------------------------------------------------------
(* Reads.                                                                   *)

\* state_should_stop
Stopping == stop \/ g_signal_stop

\* The loop conditions of state_wait_frame and state_wait_jpeg_snapshot: the
\* caller, whose last frame was number seq, goes to sleep while they hold.
FrameWaitBlocks(seq) == frame_sequence <= seq /\ ~Stopping
SnapshotWaitBlocks(seq) == FrameWaitBlocks(seq) /\ camera_state = "active"

\* Mutant: the state of the camera is not looked at.
FrameIsCurrent_AnyState == frame_generation = capture_generation

\* Is the frame in the slot one of the running capture session?
FrameIsCurrent == camera_state = "active" /\ frame_generation = capture_generation

\* state_is_degraded
Degraded ==
  \/ camera_state # "active"
  \/ event_log_state \in {"initializing", "unavailable"}

-----------------------------------------------------------------------------
(* Operations.  Each says what happens to every variable of this module.    *)

BroadcastFrameReady == frame_ready' = {}

\* A wait on frame_ready begins, or ends by its timeout.
SleepOnFrameReady(t) ==
  /\ frame_ready' = frame_ready \cup {t}
  /\ UNCHANGED <<cameraVars, frameVars, motion_enabled, motionVars, event_log_state,
                 countVars, stopVars, clients_done>>

TimeOutOnFrameReady(t) ==
  /\ t \in frame_ready
  /\ frame_ready' = frame_ready \ {t}
  /\ UNCHANGED <<cameraVars, frameVars, motion_enabled, motionVars, event_log_state,
                 countVars, stopVars, clients_done>>

\* state_request_stop
RequestStop ==
  /\ stop' = TRUE
  /\ BroadcastFrameReady
  /\ UNCHANGED <<cameraVars, frameVars, motion_enabled, motionVars, event_log_state,
                 countVars, g_signal_stop, clients_done>>

\* handle_signal: an assignment, no lock and no wake-up
RaiseSignal ==
  /\ g_signal_stop' = TRUE
  /\ UNCHANGED <<cameraVars, frameVars, motion_enabled, motionVars, event_log_state,
                 countVars, stop, frame_ready, clients_done>>

\* state_set_capture_active
SetCaptureActive ==
  /\ capture_generation' = capture_generation + 1
  /\ camera_state' = "active"
  /\ BroadcastFrameReady
  /\ UNCHANGED <<frameVars, motion_enabled, motionVars, event_log_state,
                 countVars, stopVars, clients_done>>

\* Mutant: the loss of the camera wakes nobody.
SetCameraUnavailable_NoWakeup ==
  /\ camera_state' = "unavailable"
  /\ motion_state' = FALSE
  /\ UNCHANGED <<capture_generation, frameVars, motion_enabled, event_count,
                 event_log_state, countVars, stopVars, frame_ready, clients_done>>

\* state_set_camera_unavailable
SetCameraUnavailable ==
  /\ camera_state' = "unavailable"
  /\ motion_state' = FALSE
  /\ BroadcastFrameReady
  /\ UNCHANGED <<capture_generation, frameVars, motion_enabled, event_count,
                 event_log_state, countVars, stopVars, clients_done>>

\* Mutant: a frame wakes one sleeper (pthread_cond_signal).
PublishFrame_WakesOne(scene) ==
  /\ frame' = scene
  /\ frame_sequence' = frame_sequence + 1
  /\ frame_generation' = capture_generation
  /\ frame_ready' = frame_ready \ {CHOOSE t \in Threads : frame_ready # {} => t \in frame_ready}
  /\ UNCHANGED <<cameraVars, motion_enabled, motionVars, event_log_state,
                 countVars, stopVars, clients_done>>

\* state_publish_frame, when the copy can be allocated
PublishFrame(scene) ==
  /\ frame' = scene
  /\ frame_sequence' = frame_sequence + 1
  /\ frame_generation' = capture_generation
  /\ BroadcastFrameReady
  /\ UNCHANGED <<cameraVars, motion_enabled, motionVars, event_log_state,
                 countVars, stopVars, clients_done>>

\* state_set_event_log_ok and state_set_event_log_unavailable
SetEventLogState(health) ==
  /\ event_log_state' = IF event_log_state = "disabled" THEN "disabled" ELSE health
  /\ UNCHANGED <<cameraVars, frameVars, motion_enabled, motionVars,
                 countVars, stopVars, frame_ready, clients_done>>

\* state_update_motion
UpdateMotion(detected, count) ==
  /\ motion_state' = IF motion_enabled THEN detected ELSE motion_state
  /\ event_count' = IF motion_enabled THEN count ELSE event_count
  /\ UNCHANGED <<cameraVars, frameVars, motion_enabled, event_log_state,
                 countVars, stopVars, frame_ready, clients_done>>

\* state_reset_motion_sample
ResetMotionSample ==
  /\ motion_state' = FALSE
  /\ UNCHANGED <<cameraVars, frameVars, motion_enabled, event_count, event_log_state,
                 countVars, stopVars, frame_ready, clients_done>>

\* state_worker_delta(state, 1) and state_worker_delta(state, -1)
AddWorker ==
  /\ worker_count' = worker_count + 1
  /\ UNCHANGED <<cameraVars, frameVars, motion_enabled, motionVars, event_log_state,
                 client_count, stopVars, frame_ready, clients_done>>

RemoveWorker ==
  /\ worker_count' = IF worker_count > 0 THEN worker_count - 1 ELSE 0
  /\ clients_done' = (clients_done /\ worker_count # 1)
  /\ UNCHANGED <<cameraVars, frameVars, motion_enabled, motionVars, event_log_state,
                 client_count, stopVars, frame_ready>>

\* state_stream_client_delta(state, 1) and state_stream_client_delta(state, -1)
AddStreamClient ==
  /\ client_count' = client_count + 1
  /\ UNCHANGED <<cameraVars, frameVars, motion_enabled, motionVars, event_log_state,
                 worker_count, stopVars, frame_ready, clients_done>>

RemoveStreamClient ==
  /\ client_count' = IF client_count > 0 THEN client_count - 1 ELSE 0
  /\ UNCHANGED <<cameraVars, frameVars, motion_enabled, motionVars, event_log_state,
                 worker_count, stopVars, frame_ready, clients_done>>

\* state_wait_for_clients: main goes to sleep while there are workers
SleepOnClientsDone ==
  /\ worker_count > 0
  /\ clients_done' = TRUE
  /\ UNCHANGED <<cameraVars, frameVars, motion_enabled, motionVars, event_log_state,
                 countVars, stopVars, frame_ready>>

=============================================================================
