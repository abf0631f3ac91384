------------------------------ MODULE CaptureV4L2 ------------------------------
(***************************************************************************)
(* capture_once and capture_thread_main of app/daemon/capture_v4l2.c with  *)
(* their resources: the descriptor of the device, the buffers the driver   *)
(* shares with the process, and who owns each of them.                     *)
(*                                                                         *)
(* Capture has the same thread without them, and this module implements    *)
(* it.  Here every ioctl of the setup is a step, since each may fail and   *)
(* the camera may be pulled between any two of them.                       *)
(*                                                                         *)
(* Abstracted: the scan of /dev/video* is one step that ends with an open  *)
(* descriptor or none (each node refused is closed on the spot); formats,  *)
(* addresses and sizes are left out, as are the error texts.               *)
(***************************************************************************)
EXTENDS AppState

CONSTANTS
  BufferCount,  \* CAPTURE_BUFFER_COUNT
  RetryNaps,    \* naps of 200 ms in retry_delay, 10 in the code
  MaxFrames,    \* bound: frames the camera delivers
  MaxFaults     \* bound: unplugs and transient camera faults

ASSUME BufferAssumption == BufferCount \in Nat /\ BufferCount >= 2
ASSUME RetryAssumption == RetryNaps \in Nat \ {0}
ASSUME BoundsAssumption == MaxFrames \in Nat /\ MaxFaults \in Nat

VARIABLES
  pc,            \* where the thread is
  plugged,       \* the camera, as in Capture
  attached,
  faults,
  fd_open,       \* kernel: is the descriptor open?
  mappings,      \* kernel: the buffers mapped into the process
  queued,        \* kernel: the buffers the driver may write to
  start,         \* buffers[i].start # NULL
  mapped_count,
  index,         \* of the loop over the buffers, or of the buffer dequeued
  streaming,
  naps,          \* the counter of retry_delay
  rested         \* history: was there a whole retry_delay since the last failure?

cameraEnvVars == <<plugged, attached, faults>>
kernelVars == <<fd_open, mappings, queued>>
localVars == <<start, mapped_count, index, streaming>>
retryVars == <<naps, rested>>
vars == <<appVars, pc, cameraEnvVars, kernelVars, localVars, retryVars>>

Buffers == 0..BufferCount - 1
Mapped == 0..mapped_count - 1

\* The setup goes "format", "request", "map", "queue", "streamon".  "cleanup" is
\* the exit path with result -1 and "close" with result 0; "check" is the test
\* before retry_delay, "nap" its loop.  The rest is as in Capture.
SetupPCs == {"format", "request", "map", "queue", "streamon"}
FramePCs == {"stream", "select", "publish", "requeue"}
IdlePCs == {"loop", "open", "mark", "check", "nap", "done"}

TypeOK ==
  /\ AppTypeOK
  /\ pc \in SetupPCs \cup FramePCs \cup IdlePCs \cup {"cleanup", "close"}
  /\ plugged \in BOOLEAN /\ attached \in BOOLEAN /\ faults \in 0..MaxFaults
  /\ fd_open \in BOOLEAN
  /\ mappings \subseteq Buffers
  /\ queued \subseteq Buffers
  /\ start \subseteq Buffers
  /\ mapped_count \in 0..BufferCount
  /\ index \in 0..BufferCount
  /\ streaming \in BOOLEAN
  /\ naps \in 0..RetryNaps
  /\ rested \in BOOLEAN

Init ==
  /\ AppInit
  /\ pc = "loop"
  /\ plugged \in BOOLEAN /\ attached = FALSE /\ faults = 0
  /\ fd_open = FALSE /\ mappings = {} /\ queued = {}
  /\ start = {} /\ mapped_count = 0 /\ index = 0 /\ streaming = FALSE
  /\ naps = 0 /\ rested = TRUE

Goes(from, to) == pc = from /\ pc' = to

-----------------------------------------------------------------------------
(* The camera, and whoever stops the daemon.                                *)

CameraFault(present) ==
  \/ ~present /\ UNCHANGED faults
  \/ present /\ faults < MaxFaults /\ faults' = faults + 1

PlugIn ==
  /\ ~plugged
  /\ plugged' = TRUE
  /\ UNCHANGED <<appVars, pc, attached, faults, kernelVars, localVars, retryVars>>

Unplug ==
  /\ plugged
  /\ faults < MaxFaults
  /\ plugged' = FALSE
  /\ attached' = FALSE
  /\ faults' = faults + 1
  /\ UNCHANGED <<appVars, pc, kernelVars, localVars, retryVars>>

Stop ==
  /\ \/ ~stop /\ RequestStop
     \/ ~g_signal_stop /\ RaiseSignal
  /\ UNCHANGED <<pc, cameraEnvVars, kernelVars, localVars, retryVars>>

-----------------------------------------------------------------------------
(* capture_thread_main and retry_delay.                                     *)

\* a new call of capture_once, with its local variables
Loop ==
  /\ pc = "loop"
  /\ IF Stopping
     THEN pc' = "done" /\ UNCHANGED localVars
     ELSE /\ pc' = "open"
          /\ start' = {} /\ mapped_count' = 0 /\ index' = 0 /\ streaming' = FALSE
  /\ UNCHANGED <<appVars, cameraEnvVars, kernelVars, retryVars>>

Check ==
  /\ Goes("check", IF Stopping THEN "loop" ELSE "nap")
  /\ naps' = 0
  /\ UNCHANGED <<appVars, cameraEnvVars, kernelVars, localVars, rested>>

Nap ==
  /\ pc = "nap"
  /\ IF naps < RetryNaps /\ ~Stopping
     THEN naps' = naps + 1 /\ UNCHANGED <<pc, rested>>
     ELSE pc' = "loop" /\ rested' = (naps = RetryNaps) /\ UNCHANGED naps
  /\ UNCHANGED <<appVars, cameraEnvVars, kernelVars, localVars>>

-----------------------------------------------------------------------------
(* capture_once: the setup.                                                 *)

\* Mutant: no delay when there is no camera.
NoCamera_NoDelay ==
  /\ Goes("open", "loop")
  /\ CameraFault(plugged)
  /\ SetCameraUnavailable
  /\ rested' = FALSE
  /\ UNCHANGED <<plugged, attached, kernelVars, localVars, naps>>

NoCamera ==
  /\ Goes("open", "check")
  /\ CameraFault(plugged)
  /\ SetCameraUnavailable
  /\ rested' = FALSE
  /\ UNCHANGED <<plugged, attached, kernelVars, localVars, naps>>

OpenCamera ==
  /\ Goes("open", "format")
  /\ plugged
  /\ attached' = TRUE
  /\ fd_open' = TRUE
  /\ UNCHANGED <<appVars, plugged, faults, mappings, queued, localVars, retryVars>>

\* VIDIOC_S_FMT gives MJPG; VIDIOC_S_PARM may fail, with a warning
SetFormat ==
  /\ Goes("format", "request")
  /\ attached
  /\ UNCHANGED <<appVars, cameraEnvVars, kernelVars, localVars, retryVars>>

\* VIDIOC_REQBUFS: the driver decides how many buffers there are, from two up.
RequestBuffers ==
  /\ Goes("request", "map")
  /\ attached
  /\ mapped_count' \in 2..BufferCount
  /\ index' = 0
  /\ UNCHANGED <<appVars, cameraEnvVars, kernelVars, start, streaming, retryVars>>

\* VIDIOC_QUERYBUF and mmap of one buffer
MapBuffer ==
  /\ pc = "map"
  /\ attached
  /\ start' = start \cup {index}
  /\ mappings' = mappings \cup {index}
  /\ IF index + 1 < mapped_count
     THEN index' = index + 1 /\ UNCHANGED pc
     ELSE index' = 0 /\ pc' = "queue"
  /\ UNCHANGED <<appVars, cameraEnvVars, fd_open, queued, mapped_count, streaming, retryVars>>

\* VIDIOC_QBUF of one buffer
QueueBuffer ==
  /\ pc = "queue"
  /\ attached
  /\ queued' = queued \cup {index}
  /\ IF index + 1 < mapped_count
     THEN index' = index + 1 /\ UNCHANGED pc
     ELSE index' = 0 /\ pc' = "streamon"
  /\ UNCHANGED <<appVars, cameraEnvVars, fd_open, mappings, start, mapped_count, streaming, retryVars>>

\* any of these calls fails, or fewer than two buffers are to be had
SetupFails ==
  /\ pc \in SetupPCs
  /\ CameraFault(attached)
  /\ pc' = "cleanup"
  /\ UNCHANGED <<appVars, plugged, attached, kernelVars, localVars, retryVars>>

StreamOn ==
  /\ Goes("streamon", "stream")
  /\ attached
  /\ SetCaptureActive
  /\ streaming' = TRUE
  /\ UNCHANGED <<cameraEnvVars, kernelVars, start, mapped_count, index, retryVars>>

-----------------------------------------------------------------------------
(* capture_once: the frame loop.                                            *)

FrameLoop ==
  /\ Goes("stream", IF Stopping THEN "close" ELSE "select")
  /\ UNCHANGED <<appVars, cameraEnvVars, kernelVars, localVars, retryVars>>

\* EINTR or EAGAIN
NoFrameYet ==
  /\ Goes("select", "stream")
  /\ UNCHANGED <<appVars, cameraEnvVars, kernelVars, localVars, retryVars>>

\* The driver hands out a buffer it has filled.
Dequeue ==
  /\ Goes("select", "publish")
  /\ attached
  /\ frame_sequence < MaxFrames
  /\ index' \in queued
  /\ queued' = queued \ {index'}
  /\ UNCHANGED <<appVars, cameraEnvVars, fd_open, mappings, start, mapped_count, streaming, retryVars>>

DeliverFrame(scene) ==
  /\ Goes("publish", "requeue")
  /\ index \in Mapped
  /\ PublishFrame(scene)
  /\ UNCHANGED <<cameraEnvVars, kernelVars, localVars, retryVars>>

Requeue ==
  /\ Goes("requeue", "stream")
  /\ attached
  /\ queued' = queued \cup {index}
  /\ UNCHANGED <<appVars, cameraEnvVars, fd_open, mappings, localVars, retryVars>>

\* Mutant: a frame that is no JPEG is skipped, and its buffer forgotten.
StreamFails_Skip ==
  /\ pc \in {"select", "publish", "requeue"}
  /\ CameraFault(attached)
  /\ pc' = IF pc = "publish" THEN "stream" ELSE "cleanup"
  /\ UNCHANGED <<appVars, plugged, attached, kernelVars, localVars, retryVars>>

\* a timeout, an error, a buffer that is invalid or no JPEG, or no memory for it
StreamFails ==
  /\ pc \in {"select", "publish", "requeue"}
  /\ CameraFault(attached)
  /\ pc' = "cleanup"
  /\ UNCHANGED <<appVars, plugged, attached, kernelVars, localVars, retryVars>>

-----------------------------------------------------------------------------
(* capture_once: the exit path.                                             *)

\* Mutant: the buffers are unmapped only if the stream was running.
Release_IfStreaming ==
  /\ mappings' = IF streaming THEN mappings \ (start \cap Mapped) ELSE mappings
  /\ queued' = {}
  /\ fd_open' = FALSE
  /\ attached' = FALSE
  /\ UNCHANGED <<plugged, faults, localVars, naps>>

\* STREAMOFF if the stream was running, munmap of every buffer that was mapped,
\* and close, which takes back the buffers that were queued without a stream.
Release ==
  /\ mappings' = mappings \ (start \cap Mapped)
  /\ queued' = {}
  /\ fd_open' = FALSE
  /\ attached' = FALSE
  /\ UNCHANGED <<plugged, faults, localVars, naps>>

\* Mutant: a failure is reported also while the daemon stops.
Cleanup_AlwaysMarks ==
  /\ Goes("cleanup", "mark")
  /\ Release
  /\ rested' = FALSE
  /\ UNCHANGED appVars

Cleanup ==
  /\ Goes("cleanup", IF Stopping THEN "check" ELSE "mark")
  /\ Release
  /\ rested' = FALSE
  /\ UNCHANGED appVars

Close ==
  /\ Goes("close", "done")
  /\ Release
  /\ UNCHANGED <<appVars, rested>>

MarkUnavailable ==
  /\ Goes("mark", "check")
  /\ SetCameraUnavailable
  /\ UNCHANGED <<cameraEnvVars, kernelVars, localVars, retryVars>>

-----------------------------------------------------------------------------

CaptureThread ==
  \/ Loop \/ Check \/ Nap
  \/ NoCamera \/ OpenCamera
  \/ SetFormat \/ RequestBuffers \/ MapBuffer \/ QueueBuffer \/ SetupFails \/ StreamOn
  \/ FrameLoop \/ NoFrameYet \/ Dequeue \/ (\E scene \in Scenes : DeliverFrame(scene))
  \/ Requeue \/ StreamFails
  \/ Cleanup \/ Close \/ MarkUnavailable

Stopped == pc = "done" /\ UNCHANGED vars

Next == CaptureThread \/ PlugIn \/ Unplug \/ Stop \/ Stopped

Spec == Init /\ [][Next]_vars

-----------------------------------------------------------------------------
(* Safety.                                                                  *)

\* Between two sessions, and when the thread has returned, no descriptor is open
\* and no buffer mapped, wherever the session failed (ADR-0004: retries must not
\* leak).
NothingLeaks == pc \in IdlePCs => ~fd_open /\ mappings = {} /\ queued = {}

\* While the stream runs the driver has every mapped buffer but the one in hand:
\* none is lost, so the stream cannot starve, and the picture being published is
\* not one the driver writes to.
BuffersAccounted ==
  /\ pc \in {"stream", "select"} => queued = Mapped /\ mappings = Mapped
  /\ pc \in {"publish", "requeue"} => index \in Mapped /\ queued = Mapped \ {index}

\* Devices are not scanned again before a whole retry_delay has passed since the
\* last failure (ADR-0004: retries must not become a busy loop).
RetriesPaced == pc = "open" => rested

\* The thread does nothing Capture does not do.
SessionPC ==
  CASE pc \in SetupPCs -> "setup"
    [] pc \in {"check", "nap"} -> "loop"
    [] pc = "close" -> "done"
    [] OTHER -> pc
Session == INSTANCE Capture WITH
  capture_pc <- SessionPC,
  attached <- attached /\ pc \notin {"cleanup", "close"}
StopRequest == (RequestStop \/ RaiseSignal) /\ UNCHANGED Session!captureVars
ImplementsCapture ==
  /\ AppInit /\ Session!CaptureInit("loop")
  /\ [][Session!CaptureStep \/ Session!CameraEnvironment \/ StopRequest]_<<appVars, Session!captureVars>>

=============================================================================
