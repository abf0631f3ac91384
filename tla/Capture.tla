-------------------------------- MODULE Capture --------------------------------
(***************************************************************************)
(* The capture thread, app/daemon/capture_v4l2.c: find a UVC camera, set   *)
(* it up, publish its frames, and start over after any failure.            *)
(*                                                                         *)
(* A step ends where the thread takes the lock of AppState or may block:   *)
(* the V4L2 calls in between touch nothing another thread can see.  The    *)
(* camera is the environment: it can be unplugged, plugged in again, and   *)
(* can fail while it is plugged in.  Each such fault is counted, and       *)
(* MaxFaults bounds them; a retry while no camera is there costs nothing,  *)
(* so the thread's own loop is never cut short.                            *)
(***************************************************************************)
EXTENDS AppState

CONSTANTS
  MaxFrames,   \* bound: frames the camera delivers
  MaxFaults    \* bound: unplugs and transient camera faults

ASSUME CaptureBoundsAssumption == MaxFrames \in Nat /\ MaxFaults \in Nat

VARIABLES
  capture_pc,  \* where the capture thread is
  plugged,     \* is there a camera to open?
  attached,    \* is the descriptor still that of a camera which is there?
  faults       \* camera faults so far

cameraEnvVars == <<plugged, attached, faults>>
captureVars == <<capture_pc, cameraEnvVars>>

\* "unborn" before pthread_create; "loop" the condition of the outer loop, and
\* the retry_delay before it; "open" the scan for a device; "setup" from its
\* format to its buffers; "stream" the condition of the frame loop; "select"
\* blocked for a frame; "publish" about to copy it, "requeue" to give its buffer
\* back; "cleanup" the exit path of capture_once up to its check of the stop flag,
\* "mark" after that check; "done" returned.
CapturePCs == {"unborn", "loop", "open", "setup", "stream", "select", "publish", "requeue",
               "cleanup", "mark", "done"}

CaptureTypeOK ==
  /\ capture_pc \in CapturePCs
  /\ plugged \in BOOLEAN
  /\ attached \in BOOLEAN
  /\ faults \in 0..MaxFaults

CaptureInit(pc) ==
  /\ capture_pc = pc
  /\ plugged \in BOOLEAN
  /\ attached = FALSE
  /\ faults = 0

-----------------------------------------------------------------------------
(* The camera.                                                              *)

\* Something goes wrong with a camera: it is gone, or this is one of the
\* transient faults of a camera that is still there.
CameraFault(present) ==
  \/ ~present /\ UNCHANGED faults
  \/ present /\ faults < MaxFaults /\ faults' = faults + 1

PlugIn ==
  /\ ~plugged
  /\ plugged' = TRUE
  /\ UNCHANGED <<appVars, capture_pc, attached, faults>>

\* A descriptor opened before the unplug stays dead when the camera comes back.
Unplug ==
  /\ plugged
  /\ faults < MaxFaults
  /\ plugged' = FALSE
  /\ attached' = FALSE
  /\ faults' = faults + 1
  /\ UNCHANGED <<appVars, capture_pc>>

CameraEnvironment == PlugIn \/ Unplug

-----------------------------------------------------------------------------
(* The thread.                                                              *)

\* Mutant: the search for a camera goes on after a stop request.
CaptureLoop_Forever ==
  /\ capture_pc = "loop"
  /\ capture_pc' = "open"
  /\ UNCHANGED <<appVars, cameraEnvVars>>

\* the condition of the loop in capture_thread_main
CaptureLoop ==
  /\ capture_pc = "loop"
  /\ capture_pc' = IF Stopping THEN "done" ELSE "open"
  /\ UNCHANGED <<appVars, cameraEnvVars>>

\* The condition of the frame loop.  Leaving it closes the device and returns
\* 0, which ends the thread without touching the state.
FrameLoop ==
  /\ capture_pc = "stream"
  /\ IF Stopping
     THEN capture_pc' = "done" /\ attached' = FALSE
     ELSE capture_pc' = "select" /\ UNCHANGED attached
  /\ UNCHANGED <<appVars, plugged, faults>>

\* select_camera finds no usable node
NoCamera ==
  /\ capture_pc = "open"
  /\ CameraFault(plugged)
  /\ SetCameraUnavailable
  /\ capture_pc' = "loop"
  /\ UNCHANGED <<plugged, attached>>

\* select_camera opens a node
OpenCamera ==
  /\ capture_pc = "open"
  /\ plugged
  /\ attached' = TRUE
  /\ capture_pc' = "setup"
  /\ UNCHANGED <<appVars, plugged, faults>>

\* a step of the setup fails
SetupFails ==
  /\ capture_pc = "setup"
  /\ CameraFault(attached)
  /\ attached' = FALSE
  /\ capture_pc' = "cleanup"
  /\ UNCHANGED <<appVars, plugged>>

\* VIDIOC_STREAMON succeeds
StartStreaming ==
  /\ capture_pc = "setup"
  /\ attached
  /\ SetCaptureActive
  /\ capture_pc' = "stream"
  /\ UNCHANGED cameraEnvVars

\* VIDIOC_DQBUF succeeds
Dequeue ==
  /\ capture_pc = "select"
  /\ attached
  /\ frame_sequence < MaxFrames
  /\ capture_pc' = "publish"
  /\ UNCHANGED <<appVars, cameraEnvVars>>

\* The buffer holds a JPEG, which is copied into the slot.
DeliverFrame(scene) ==
  /\ capture_pc = "publish"
  /\ PublishFrame(scene)
  /\ capture_pc' = "requeue"
  /\ UNCHANGED cameraEnvVars

\* its buffer goes back to the driver
Requeue ==
  /\ capture_pc = "requeue"
  /\ attached
  /\ capture_pc' = "stream"
  /\ UNCHANGED <<appVars, cameraEnvVars>>

\* Mutant: after EINTR or EAGAIN the stop flag is not looked at.
NoFrameYet_Retry ==
  /\ capture_pc = "select"
  /\ UNCHANGED <<appVars, captureVars>>

\* select is interrupted, or VIDIOC_DQBUF says EAGAIN
NoFrameYet ==
  /\ capture_pc = "select"
  /\ capture_pc' = "stream"
  /\ UNCHANGED <<appVars, cameraEnvVars>>

\* select times out or fails, VIDIOC_DQBUF fails, the buffer is invalid or no
\* JPEG, or there is no memory for the copy; or the buffer cannot go back
StreamFails ==
  /\ capture_pc \in {"select", "publish", "requeue"}
  /\ CameraFault(attached)
  /\ capture_pc' = "cleanup"
  /\ attached' = FALSE
  /\ UNCHANGED <<appVars, plugged>>

\* The device is closed; the failure is reported unless the daemon is stopping.
Cleanup ==
  /\ capture_pc = "cleanup"
  /\ capture_pc' = IF Stopping THEN "loop" ELSE "mark"
  /\ UNCHANGED <<appVars, cameraEnvVars>>

\* Mutant: a failed session ends the thread.
MarkUnavailable_GiveUp ==
  /\ capture_pc = "mark"
  /\ SetCameraUnavailable
  /\ capture_pc' = "done"
  /\ UNCHANGED cameraEnvVars

MarkUnavailable ==
  /\ capture_pc = "mark"
  /\ SetCameraUnavailable
  /\ capture_pc' = "loop"
  /\ UNCHANGED cameraEnvVars

CaptureStep ==
  \/ CaptureLoop \/ FrameLoop
  \/ NoCamera \/ OpenCamera \/ SetupFails \/ StartStreaming
  \/ \E scene \in Scenes : DeliverFrame(scene)
  \/ Dequeue \/ Requeue
  \/ NoFrameYet \/ StreamFails
  \/ Cleanup \/ MarkUnavailable

=============================================================================
