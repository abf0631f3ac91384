------------------------------ MODULE MotionPath ------------------------------
(***************************************************************************)
(* The capture thread and the motion worker over the shared state: the     *)
(* daemon without its HTTP side.  Both threads have just been created.     *)
(* Of main only what reaches these two is here: the signal handler, and    *)
(* the state_request_stop that follows http_server_run.                    *)
(***************************************************************************)
EXTENDS Capture, MotionWorker

vars == <<appVars, captureVars, workerVars>>

TypeOK == AppTypeOK /\ CaptureTypeOK /\ MotionTypeOK

Init == AppInit /\ CaptureInit("loop") /\ MotionInit("start")

CaptureThread == CaptureStep /\ UNCHANGED workerVars
MotionWorkerThread == MotionStep /\ UNCHANGED captureVars
Camera == CameraEnvironment /\ UNCHANGED workerVars
Clock == Tick /\ UNCHANGED captureVars

Signal ==
  /\ ~g_signal_stop
  /\ RaiseSignal
  /\ UNCHANGED <<captureVars, workerVars>>

\* http_server_run has returned: on the signal, or for a failure of its own
StopThreads ==
  /\ ~stop
  /\ RequestStop
  /\ UNCHANGED <<captureVars, workerVars>>

\* Both threads have returned; main goes on elsewhere.
Stopped == capture_pc = "done" /\ motion_pc = "done" /\ stop /\ UNCHANGED vars

Next ==
  \/ CaptureThread \/ MotionWorkerThread
  \/ Camera \/ Clock \/ Signal \/ StopThreads
  \/ Stopped

\* The threads run, main polls the stop flag every 500 ms, and a sleeper on
\* frame_ready times out after a second.  A select on the descriptor of a camera
\* that is gone ends with an error or its timeout at last, however often it was
\* interrupted before.  Nothing else is assumed of the camera, of the clock or of
\* the user who sends the signal.
Fairness ==
  /\ WF_vars(CaptureThread)
  /\ SF_vars(~attached /\ StreamFails /\ CaptureThread)
  /\ WF_vars(MotionWorkerThread)
  /\ WF_vars(g_signal_stop /\ StopThreads)

Spec == Init /\ [][Next]_vars
FairSpec == Spec /\ Fairness

-----------------------------------------------------------------------------
(* Safety.                                                                  *)

\* A motion worker asleep in state_wait_jpeg_snapshot has nothing to wake up
\* for: whatever ends its wait, a frame, the end of a session or a stop request,
\* also broadcasts frame_ready.  (A signal does not; main's poll follows it up.)
NoLostWakeup ==
  MotionThread \in frame_ready =>
    /\ motion_pc = "snapshot"
    /\ frame_sequence <= snapshot.sequence
    /\ camera_state = "active"
    /\ ~stop

\* The detector never compares pictures of two capture sessions, nor a picture
\* with itself or a later one, however many sessions come and go between two
\* samples (the generation fence of motion_worker_thread_main).
SessionFence ==
  motion_pc = "process" /\ BaselineReady =>
    /\ baseline.generation = snapshot.generation
    /\ baseline.sequence < snapshot.sequence

Capped(count) == IF count <= CountLimit THEN count ELSE CountLimit

\* The number of events in /status is the number of events there were, up to
\* its limit: no reset of the baseline, failed sample or failed write to the log
\* forgets or repeats one.
CountHonest == motion_pc \notin {"health", "publish"} => event_count = Capped(Len(events))

\* what the last event says about the log
LogHealth ==
  IF events # <<>> /\ ~events[Len(events)].logged THEN "unavailable" ELSE "ok"

\* /status says that the event log is unavailable exactly when the last event
\* did not make it there: a failure stays visible until an event is logged, and
\* samples without an event tell nothing about the log.
LogHealthHonest == motion_enabled /\ motion_pc # "health" => event_log_state = LogHealth

\* While the log file ends in a line torn by this process, /status says that the
\* log is unavailable: the next event's line is going to be unreadable with it
\* (write_all takes nothing back), and nothing but that event hides the fact.
TornLineAnnounced ==
  motion_enabled /\ motion_pc # "health" /\ Torn(event_log)
    => event_log_state = "unavailable"

\* An event emitted after the capture thread marked the camera unavailable is of
\* the one picture the worker held at that moment: of each capture session there
\* is at most one, however many frames of it the worker has not seen.
LateEventsBounded ==
  \A i, j \in DOMAIN events :
    events[i].late /\ events[j].late /\ events[i].generation = events[j].generation
      => i = j

\* Events are at least Cooldown apart, across sessions, baselines and errors:
\* the daemon implements EventLimiter.
Limiter == INSTANCE EventLimiter WITH times <- [i \in DOMAIN events |-> events[i].at]
EventsLimited == Limiter!Spec

-----------------------------------------------------------------------------
(* Liveness.                                                                *)

\* A motion verdict shown in /status for a session that is over is withdrawn,
\* also when the worker published it after the capture thread cleared it.
MotionIsStale ==
  motion_state /\ ~(camera_state = "active" /\ last_generation = capture_generation)
StaleMotionCleared == MotionIsStale ~> ~motion_state

\* A camera that stays plugged in is streaming eventually, also when it was pulled
\* and put back so fast that the old session did not notice yet.
CameraRecovers == plugged ~> ((camera_state = "active" /\ attached) \/ ~plugged \/ Stopping)

\* A signal ends both threads, whatever they wait for.
SignalStopsThreads == g_signal_stop ~> (capture_pc = "done" /\ motion_pc = "done")

=============================================================================
