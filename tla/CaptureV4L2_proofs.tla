-------------------------- MODULE CaptureV4L2_proofs --------------------------
(***************************************************************************)
(* Theorems about CaptureV4L2: nothing leaks, no buffer is lost, and       *)
(* retries are paced, for every number of buffers, faults and naps.        *)
(***************************************************************************)
EXTENDS CaptureV4L2, TLAPS

USE DEF cameraVars, frameVars, motionVars, countVars, stopVars, appVars,
        cameraEnvVars, kernelVars, localVars, retryVars, vars

\* The local array mirrors the kernel's mappings from the first mmap to the exit
\* path, and the driver's queue grows with the setup to all mapped buffers.
ResourceInv ==
  /\ mapped_count \in 0..BufferCount
  /\ index \in 0..BufferCount
  /\ pc \in IdlePCs => ~fd_open /\ mappings = {} /\ queued = {}
  /\ pc = "open" => start = {}
  /\ pc \notin IdlePCs => start = mappings /\ start \subseteq Mapped
  /\ pc \in {"format", "request"} => mappings = {} /\ queued = {}
  /\ pc = "map" => index < mapped_count /\ mappings = 0..index - 1 /\ queued = {}
  /\ pc = "queue" => index < mapped_count /\ mappings = Mapped /\ queued = 0..index - 1
  /\ pc \in {"streamon", "stream", "select"} => mappings = Mapped /\ queued = Mapped
  /\ pc \in {"publish", "requeue"} =>
       mappings = Mapped /\ index \in Mapped /\ queued = Mapped \ {index}

\* Whoever gets back to the scan has rested, unless the thread is to end; a stop
\* is never taken back.
PaceInv ==
  /\ pc = "loop" => rested \/ Stopping
  /\ pc = "open" => rested
  /\ pc = "nap" => naps \in 0..RetryNaps

-----------------------------------------------------------------------------
(* Resources.                                                               *)

LEMMA ResourceStep == ResourceInv /\ [Next]_vars => ResourceInv'
<1> SUFFICES ASSUME ResourceInv, [Next]_vars PROVE ResourceInv'
  OBVIOUS
<1> USE BufferAssumption DEF ResourceInv, Mapped, IdlePCs, Goes
<1>1. CASE Loop
  BY <1>1 DEF Loop
<1>2. CASE Check \/ Nap \/ NoCamera \/ MarkUnavailable
  BY <1>2 DEF Check, Nap, NoCamera, MarkUnavailable
<1>3. CASE OpenCamera
  BY <1>3 DEF OpenCamera
<1>4. CASE SetFormat
  BY <1>4 DEF SetFormat
<1>5. CASE RequestBuffers
  BY <1>5 DEF RequestBuffers
<1>6. CASE MapBuffer
  <2>1. /\ mappings' = 0..index
        /\ start' = mappings'
        /\ queued' = {}
        /\ mapped_count' = mapped_count
        /\ index < mapped_count
    BY <1>6 DEF MapBuffer
  <2>2. CASE index + 1 < mapped_count
    BY <1>6, <2>1, <2>2 DEF MapBuffer
  <2>3. CASE ~(index + 1 < mapped_count)
    <3>1. mappings' = 0..mapped_count - 1
      BY <2>1, <2>3
    <3> QED
      BY <1>6, <2>1, <2>3, <3>1 DEF MapBuffer
  <2> QED
    BY <2>2, <2>3
<1>7. CASE QueueBuffer
  <2>1. /\ queued' = 0..index
        /\ mappings' = mappings /\ start' = start
        /\ mapped_count' = mapped_count
        /\ index < mapped_count
    BY <1>7 DEF QueueBuffer
  <2>2. CASE index + 1 < mapped_count
    BY <1>7, <2>1, <2>2 DEF QueueBuffer
  <2>3. CASE ~(index + 1 < mapped_count)
    <3>1. queued' = 0..mapped_count - 1
      BY <2>1, <2>3
    <3> QED
      BY <1>7, <2>1, <2>3, <3>1 DEF QueueBuffer
  <2> QED
    BY <2>2, <2>3
<1>8. CASE SetupFails
  BY <1>8 DEF SetupFails, SetupPCs
<1>9. CASE StreamOn
  BY <1>9 DEF StreamOn
<1>10. CASE FrameLoop \/ NoFrameYet
  BY <1>10 DEF FrameLoop, NoFrameYet
<1>11. CASE Dequeue
  BY <1>11 DEF Dequeue
<1>12. CASE \E scene \in Scenes : DeliverFrame(scene)
  BY <1>12 DEF DeliverFrame
<1>13. CASE Requeue
  BY <1>13 DEF Requeue
<1>14. CASE StreamFails
  BY <1>14 DEF StreamFails
<1>15. CASE Cleanup \/ Close
  <2>1. mappings' = {} /\ queued' = {} /\ fd_open' = FALSE /\ pc' \in IdlePCs /\ pc' # "open"
    BY <1>15 DEF Cleanup, Close, Release
  <2> QED
    BY <1>15, <2>1 DEF Cleanup, Close, Release
<1>16. CASE PlugIn \/ Unplug \/ Stop \/ Stopped \/ UNCHANGED vars
  BY <1>16 DEF PlugIn, Unplug, Stop, Stopped
<1> QED
  BY <1>1, <1>2, <1>3, <1>4, <1>5, <1>6, <1>7, <1>8, <1>9, <1>10, <1>11, <1>12, <1>13, <1>14,
     <1>15, <1>16 DEF Next, CaptureThread

LEMMA ResourcesFollow == Spec => []ResourceInv
<1>1. Init => ResourceInv
  BY BufferAssumption DEF Init, ResourceInv, IdlePCs
<1> QED
  BY <1>1, ResourceStep, PTL DEF Spec

\* Wherever a session fails, at any of its calls and after any number of buffers,
\* the thread is left without a descriptor, a mapping or a queued buffer.
THEOREM NoLeak == Spec => []NothingLeaks
<1>1. ResourceInv => NothingLeaks
  BY DEF ResourceInv, NothingLeaks
<1> QED
  BY <1>1, ResourcesFollow, PTL

\* No buffer is lost while the stream runs, and none is read that the driver may
\* write to, for any number of buffers the driver grants.
THEOREM NoBufferLost == Spec => []BuffersAccounted
<1>1. ResourceInv => BuffersAccounted
  BY DEF ResourceInv, BuffersAccounted
<1> QED
  BY <1>1, ResourcesFollow, PTL

-----------------------------------------------------------------------------
(* Types.                                                                   *)

\* A camera fault stays within the bound on faults.
LEMMA FaultsBounded ==
  ASSUME NEW present, faults \in 0..MaxFaults, CameraFault(present)
  PROVE  faults' \in 0..MaxFaults
BY BoundsAssumption DEF CameraFault

LEMMA InitTypes ==
  ASSUME Init
  PROVE  TypeOK
<1>1. AppTypeOK
  BY MotionSettingsAssumption
     DEF Init, AppInit, AppTypeOK, CameraStates, EventLogStates, Threads
<1>2. faults \in 0..MaxFaults /\ mapped_count \in 0..BufferCount /\ index \in 0..BufferCount
      /\ naps \in 0..RetryNaps
  BY BufferAssumption, RetryAssumption, BoundsAssumption DEF Init
<1> QED
  BY <1>1, <1>2 DEF Init, TypeOK, IdlePCs, Buffers

\* Of the shared state the thread uses three operations, its environment two.
LEMMA SharedTypes ==
  ASSUME TypeOK, [Next]_vars
  PROVE  AppTypeOK'
<1> USE DEF AppTypeOK, CameraStates, EventLogStates
<1>1. AppTypeOK
  BY DEF TypeOK
<1>2. CASE UNCHANGED appVars
  BY <1>1, <1>2
<1>3. CASE SetCameraUnavailable
  BY <1>1, <1>3 DEF SetCameraUnavailable, BroadcastFrameReady
<1>4. CASE SetCaptureActive
  BY <1>1, <1>4 DEF SetCaptureActive, BroadcastFrameReady
<1>5. CASE RequestStop \/ RaiseSignal
  BY <1>1, <1>5 DEF RequestStop, RaiseSignal, BroadcastFrameReady
<1>6. CASE \E scene \in Scenes : PublishFrame(scene)
  BY <1>1, <1>6 DEF PublishFrame, BroadcastFrameReady
<1>7. \/ UNCHANGED appVars \/ SetCameraUnavailable \/ SetCaptureActive
      \/ RequestStop \/ RaiseSignal \/ \E scene \in Scenes : PublishFrame(scene)
  BY DEF Next, CaptureThread, Loop, Check, Nap, NoCamera, OpenCamera, SetFormat, RequestBuffers,
         MapBuffer, QueueBuffer, SetupFails, StreamOn, FrameLoop, NoFrameYet, Dequeue, DeliverFrame,
         Requeue, StreamFails, Cleanup, Close, MarkUnavailable, PlugIn, Unplug, Stop, Stopped
<1> QED
  BY <1>2, <1>3, <1>4, <1>5, <1>6, <1>7

\* The array and the queue are indexed inside their bounds; this is where the
\* types need ResourceInv.
LEMMA StepTypes ==
  ASSUME TypeOK, ResourceInv, [Next]_vars
  PROVE  TypeOK'
<1> USE DEF Next, CaptureThread, Loop, Check, Nap, NoCamera, OpenCamera, SetFormat, RequestBuffers,
            MapBuffer, QueueBuffer, SetupFails, StreamOn, FrameLoop, NoFrameYet, Dequeue, DeliverFrame,
            Requeue, StreamFails, Cleanup, Close, Release, MarkUnavailable, PlugIn, Unplug, Stop, Stopped
<1>1. AppTypeOK'
  BY SharedTypes
<1>2. mappings \subseteq Buffers /\ queued \subseteq Buffers /\ start \subseteq Buffers
  BY DEF TypeOK
<1>3. pc \in {"map", "queue", "requeue"} => index \in Buffers
  BY BufferAssumption DEF ResourceInv, Buffers, Mapped
<1>4. mappings' \subseteq Buffers /\ queued' \subseteq Buffers /\ start' \subseteq Buffers
  BY <1>2, <1>3 DEF Goes
<1>5. faults' \in 0..MaxFaults
  BY FaultsBounded, BoundsAssumption DEF TypeOK
<1>6. mapped_count' \in 0..BufferCount /\ index' \in 0..BufferCount
  BY ResourceStep DEF ResourceInv
<1>7. naps' \in 0..RetryNaps
  BY RetryAssumption DEF TypeOK
<1>8. pc' \in SetupPCs \cup FramePCs \cup IdlePCs \cup {"cleanup", "close"}
  BY DEF TypeOK, SetupPCs, FramePCs, IdlePCs, Goes
<1>9. /\ plugged' \in BOOLEAN /\ attached' \in BOOLEAN
      /\ fd_open' \in BOOLEAN /\ streaming' \in BOOLEAN
  BY DEF TypeOK
<1>10. rested' \in BOOLEAN
  BY DEF TypeOK
<1> QED
  BY <1>1, <1>4, <1>5, <1>6, <1>7, <1>8, <1>9, <1>10 DEF TypeOK

\* Every index stays inside the array of buffers, whatever the driver grants, and
\* the delay inside its naps.
THEOREM TypeCorrect == Spec => []TypeOK
BY InitTypes, StepTypes, ResourcesFollow, PTL DEF Spec

-----------------------------------------------------------------------------
(* The pace of the retries.                                                 *)

\* A stop request is never taken back.
LEMMA StoppingStays == [Next]_vars /\ Stopping => Stopping'
<1> SUFFICES ASSUME [Next]_vars, Stopping PROVE Stopping'
  OBVIOUS
<1> USE DEF Stopping
<1>1. CASE NoCamera \/ StreamOn \/ MarkUnavailable \/ \E scene \in Scenes : DeliverFrame(scene)
  BY <1>1 DEF NoCamera, StreamOn, MarkUnavailable, DeliverFrame, SetCameraUnavailable,
              SetCaptureActive, PublishFrame
<1>2. CASE Stop
  BY <1>2 DEF Stop, RequestStop, RaiseSignal
<1>3. CASE \/ Loop \/ Check \/ Nap \/ OpenCamera \/ SetFormat \/ RequestBuffers \/ MapBuffer
           \/ QueueBuffer \/ SetupFails
  BY <1>3 DEF Loop, Check, Nap, OpenCamera, SetFormat, RequestBuffers, MapBuffer, QueueBuffer,
              SetupFails
<1>4. CASE \/ FrameLoop \/ NoFrameYet \/ Dequeue \/ Requeue \/ StreamFails \/ Cleanup \/ Close
           \/ PlugIn \/ Unplug \/ Stopped \/ UNCHANGED vars
  BY <1>4 DEF FrameLoop, NoFrameYet, Dequeue, Requeue, StreamFails, Cleanup, Close, PlugIn, Unplug,
              Stopped
<1> QED
  BY <1>1, <1>2, <1>3, <1>4 DEF Next, CaptureThread

LEMMA PaceStep == PaceInv /\ [Next]_vars => PaceInv'
<1> SUFFICES ASSUME PaceInv, [Next]_vars PROVE PaceInv'
  OBVIOUS
<1> USE StoppingStays, RetryAssumption DEF PaceInv, Goes
<1>1. CASE Loop
  BY <1>1 DEF Loop
<1>2. CASE Check
  BY <1>2 DEF Check
<1>3. CASE Nap
  <2>1. CASE naps < RetryNaps /\ ~Stopping
    <3>1. pc' = "nap" /\ naps' \in 0..RetryNaps
      BY <1>3, <2>1 DEF Nap
    <3> QED
      BY <3>1
  <2>2. CASE ~(naps < RetryNaps)
    <3>1. naps = RetryNaps
      BY <1>3, <2>2 DEF Nap
    <3>2. pc' = "loop" /\ rested' = (naps = RetryNaps)
      BY <1>3, <2>2 DEF Nap
    <3> QED
      BY <3>1, <3>2
  <2>3. CASE Stopping
    <3>1. pc' = "loop" /\ Stopping'
      BY <1>3, <2>3 DEF Nap
    <3> QED
      BY <3>1
  <2> QED
    BY <2>1, <2>2, <2>3
<1>4. CASE Stop
  BY <1>4 DEF Stop
<1>5. CASE \/ NoCamera \/ OpenCamera \/ SetFormat \/ RequestBuffers \/ StreamOn \/ MarkUnavailable
           \/ FrameLoop \/ NoFrameYet \/ Dequeue \/ Requeue
           \/ \E scene \in Scenes : DeliverFrame(scene)
  BY <1>5 DEF NoCamera, OpenCamera, SetFormat, RequestBuffers, StreamOn, MarkUnavailable,
              FrameLoop, NoFrameYet, Dequeue, Requeue, DeliverFrame
<1>6. CASE MapBuffer \/ QueueBuffer \/ SetupFails \/ StreamFails
  BY <1>6 DEF MapBuffer, QueueBuffer, SetupFails, StreamFails, SetupPCs
<1>7. CASE Cleanup \/ Close
  BY <1>7 DEF Cleanup, Close
<1>8. CASE PlugIn \/ Unplug \/ Stopped \/ UNCHANGED vars
  BY <1>8 DEF PlugIn, Unplug, Stopped
<1> QED
  BY <1>1, <1>2, <1>3, <1>4, <1>5, <1>6, <1>7, <1>8 DEF Next, CaptureThread

\* The devices are scanned again only after a whole retry_delay.
THEOREM RetriesArePaced == Spec => []RetriesPaced
<1>1. Init => PaceInv
  BY RetryAssumption DEF Init, PaceInv
<1>2. PaceInv => RetriesPaced
  BY DEF PaceInv, RetriesPaced
<1> QED
  BY <1>1, <1>2, PaceStep, PTL DEF Spec

-----------------------------------------------------------------------------
(* Every step is one of Capture, or none.                                   *)

USE DEF Session!cameraVars, Session!frameVars, Session!motionVars, Session!countVars,
        Session!stopVars, Session!appVars, Session!cameraEnvVars, Session!captureVars

sessionVars == <<appVars, Session!captureVars>>

\* The setup, naps and the release of the resources are invisible.
LEMMA HiddenSteps ==
  ASSUME Check \/ Nap \/ SetFormat \/ RequestBuffers \/ MapBuffer \/ QueueBuffer \/ Close
  PROVE  UNCHANGED sessionVars
<1> USE DEF sessionVars, SessionPC, SetupPCs, Goes
<1>1. CASE Check \/ Nap
  BY <1>1 DEF Check, Nap
<1>2. CASE SetFormat \/ RequestBuffers
  BY <1>2 DEF SetFormat, RequestBuffers
<1>3. CASE MapBuffer \/ QueueBuffer
  BY <1>3 DEF MapBuffer, QueueBuffer
<1>4. CASE Close
  BY <1>4 DEF Close, Release
<1> QED
  BY <1>1, <1>2, <1>3, <1>4

LEMMA SessionSteps ==
  ASSUME CaptureThread,
         ~(Check \/ Nap \/ SetFormat \/ RequestBuffers \/ MapBuffer \/ QueueBuffer \/ Close)
  PROVE  Session!CaptureStep
<1> USE DEF SessionPC, SetupPCs, Goes, Session!CaptureStep
<1>1. CASE Loop
  BY <1>1 DEF Loop, Stopping, Session!CaptureLoop, Session!Stopping
<1>2. CASE NoCamera
  BY <1>2 DEF NoCamera, CameraFault, SetCameraUnavailable, BroadcastFrameReady, Session!NoCamera,
              Session!CameraFault, Session!SetCameraUnavailable, Session!BroadcastFrameReady
<1>3. CASE OpenCamera
  BY <1>3 DEF OpenCamera, Session!OpenCamera
<1>4. CASE SetupFails
  BY <1>4 DEF SetupFails, CameraFault, Session!SetupFails, Session!CameraFault
<1>5. CASE StreamOn
  BY <1>5 DEF StreamOn, SetCaptureActive, BroadcastFrameReady, Session!StartStreaming,
              Session!SetCaptureActive, Session!BroadcastFrameReady
<1>6. CASE FrameLoop
  BY <1>6 DEF FrameLoop, Stopping, Session!FrameLoop, Session!Stopping
<1>7. CASE NoFrameYet
  BY <1>7 DEF NoFrameYet, Session!NoFrameYet
<1>8. CASE Dequeue
  BY <1>8 DEF Dequeue, Session!Dequeue
<1>9. CASE \E scene \in Scenes : DeliverFrame(scene)
  <2>1. PICK scene \in Scenes : DeliverFrame(scene)
    BY <1>9
  <2>2. Session!DeliverFrame(scene)
    BY <2>1 DEF DeliverFrame, PublishFrame, BroadcastFrameReady, Session!DeliverFrame,
                Session!PublishFrame, Session!BroadcastFrameReady
  <2> QED
    BY <2>2
<1>10. CASE Requeue
  BY <1>10 DEF Requeue, Session!Requeue
<1>11. CASE StreamFails
  BY <1>11 DEF StreamFails, CameraFault, Session!StreamFails, Session!CameraFault
<1>12. CASE Cleanup
  BY <1>12 DEF Cleanup, Release, Stopping, Session!Cleanup, Session!Stopping
<1>13. CASE MarkUnavailable
  BY <1>13 DEF MarkUnavailable, SetCameraUnavailable, BroadcastFrameReady, Session!MarkUnavailable,
               Session!SetCameraUnavailable, Session!BroadcastFrameReady
<1> QED
  BY <1>1, <1>2, <1>3, <1>4, <1>5, <1>6, <1>7, <1>8, <1>9, <1>10, <1>11, <1>12, <1>13
     DEF CaptureThread

LEMMA EnvironmentSteps ==
  ASSUME PlugIn \/ Unplug \/ Stop \/ Stopped \/ UNCHANGED vars
  PROVE  Session!CameraEnvironment \/ StopRequest \/ UNCHANGED sessionVars
<1> USE DEF SessionPC
<1>1. CASE PlugIn
  BY <1>1 DEF PlugIn, Session!PlugIn, Session!CameraEnvironment
<1>2. CASE Unplug
  BY <1>2 DEF Unplug, Session!Unplug, Session!CameraEnvironment
<1>3. CASE Stop
  BY <1>3 DEF Stop, StopRequest
<1>4. CASE Stopped \/ UNCHANGED vars
  BY <1>4 DEF Stopped, sessionVars
<1> QED
  BY <1>1, <1>2, <1>3, <1>4

\* The thread with all its ioctls implements the thread of Capture, for which the
\* properties of the daemon are shown.
THEOREM CaptureImplemented == Spec => ImplementsCapture
<1>1. Init => AppInit /\ Session!CaptureInit("loop")
  BY DEF Init, Session!CaptureInit, SessionPC, SetupPCs
<1>2. [Next]_vars =>
        [Session!CaptureStep \/ Session!CameraEnvironment \/ StopRequest]_sessionVars
  BY HiddenSteps, SessionSteps, EnvironmentSteps DEF Next
<1> QED
  BY <1>1, <1>2, PTL DEF Spec, ImplementsCapture, sessionVars

=============================================================================
