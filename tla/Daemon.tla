-------------------------------- MODULE Daemon --------------------------------
(***************************************************************************)
(* The whole daemon: main and its HTTP server, the client threads, the     *)
(* capture thread and the motion worker, over one AppState.                *)
(*                                                                         *)
(* main creates the capture thread and the motion worker, serves until a   *)
(* signal or a failure ends http_server_run, and then stops them: set the  *)
(* stop flag, join both threads, wait for the clients, destroy the state.  *)
(***************************************************************************)
EXTENDS Capture, MotionWorker, HttpServer

vars == <<appVars, captureVars, workerVars, httpVars>>

TypeOK == AppTypeOK /\ CaptureTypeOK /\ MotionTypeOK /\ HttpTypeOK

Init == AppInit /\ CaptureInit("unborn") /\ MotionInit("unborn") /\ HttpInit

-----------------------------------------------------------------------------
(* The steps of main that involve the capture thread or the motion worker.  *)

SpawnCapture ==
  /\ MainGoes("spawn_capture", "spawn_motion")
  /\ capture_pc' = "loop"
  /\ UNCHANGED <<http_result, exit_code, appVars, clientVars, cameraEnvVars, workerVars>>

SpawnMotion ==
  /\ MainGoes("spawn_motion", "listen")
  /\ motion_pc' = "start"
  /\ UNCHANGED <<http_result, exit_code, appVars, clientVars, captureVars, snapshot, last_generation,
                 baseline, gate, result, event_log, now, events>>

\* pthread_join of the capture thread, on either way out, and of the worker
JoinCapture ==
  /\ capture_pc = "done"
  /\ MainGoes("join_capture", "join_motion")
  /\ UNCHANGED <<http_result, exit_code, appVars, clientVars, captureVars, workerVars>>

AbortJoin ==
  /\ capture_pc = "done"
  /\ Exit("abort_join", SENSE_EXIT_FATAL)
  /\ UNCHANGED <<captureVars, workerVars>>

JoinMotion ==
  /\ motion_pc = "done"
  /\ MainGoes("join_motion", "wait_clients")
  /\ UNCHANGED <<http_result, exit_code, appVars, clientVars, captureVars, workerVars>>

-----------------------------------------------------------------------------

Main ==
  \/ ServerStep /\ UNCHANGED <<captureVars, workerVars>>
  \/ SpawnCapture \/ SpawnMotion \/ JoinCapture \/ AbortJoin \/ JoinMotion

CaptureThread == CaptureStep /\ UNCHANGED <<workerVars, httpVars>>
MotionWorkerThread == MotionStep /\ UNCHANGED <<captureVars, httpVars>>
ClientThread(c) == ClientStep(c) /\ UNCHANGED <<captureVars, workerVars, serverVars>>

\* The process is running: signals reach it, and there is an outside world.
Running == main_pc # "exited"

Signal ==
  /\ Running
  /\ ~g_signal_stop
  /\ RaiseSignal
  /\ UNCHANGED <<captureVars, workerVars, httpVars>>

Camera == Running /\ CameraEnvironment /\ UNCHANGED <<workerVars, httpVars>>
Clock == Running /\ Tick /\ UNCHANGED <<captureVars, httpVars>>
Network == \E c \in Clients : PeerLeaves(c) /\ UNCHANGED <<captureVars, workerVars>>

Exited == ~Running /\ UNCHANGED vars

Next ==
  \/ Main \/ CaptureThread \/ MotionWorkerThread
  \/ \E c \in Clients : ClientThread(c)
  \/ Signal \/ Camera \/ Clock \/ Network
  \/ Exited

\* Every thread runs: the waits that could last end by a timeout (frame_ready
\* after 1 s, recv and send after 3 s, poll after 500 ms, select after 2 s), by a
\* wake-up (clients_done) or by the end of a thread (the joins).  Nothing is
\* assumed of the camera, the clock, the peers or whoever sends the signal.
Fairness ==
  /\ WF_vars(Main)
  /\ WF_vars(CaptureThread)
  /\ WF_vars(MotionWorkerThread)
  /\ \A c \in Clients : WF_vars(ClientThread(c))

\* The timeouts of frame_ready go by CLOCK_REALTIME: if somebody sets it back, a
\* sleeper may not see its own for as long as that takes.  Then a thread runs
\* only while it is not asleep there.
UntimedFairness ==
  /\ WF_vars(Main)
  /\ WF_vars(CaptureThread)
  /\ WF_vars(MotionThread \notin frame_ready /\ MotionWorkerThread)
  /\ \A c \in Clients : WF_vars(c \notin frame_ready /\ ClientThread(c))

Spec == Init /\ [][Next]_vars
FairSpec == Spec /\ Fairness
UntimedFairSpec == Spec /\ UntimedFairness

-----------------------------------------------------------------------------
(* Safety.                                                                  *)

Streaming(c) == client_pc[c] \in {"stream", "wait", "send", "leave"}
CaptureGone == capture_pc \in {"unborn", "done"}
MotionGone == motion_pc \in {"unborn", "done"}

\* Both client counters are exact in every state: worker_count counts the
\* connections from their accept to the last use of the state by their thread,
\* client_count the streams shown in /status, on every way out of a thread.
ClientsCounted ==
  /\ worker_count = Cardinality({c \in Clients : client_pc[c] # "free"})
  /\ client_count = Cardinality({c \in Clients : Streaming(c)})

\* When main destroys the state, and ever after, no thread can still use it.
StateOutlivesThreads ==
  main_pc \in {"destroy", "exited"} =>
    CaptureGone /\ MotionGone /\ \A c \in Clients : client_pc[c] = "free"

\* A sleeper has nothing to wake up for: a client has seen the latest frame, the
\* motion worker too and its camera is streaming, nobody has requested a stop,
\* and main sleeps only while some client thread is left to wake it.
NoLostWakeup ==
  /\ \A c \in frame_ready \cap Clients : client_pc[c] = "wait" /\ frame_sequence <= sequence[c]
  /\ MotionThread \in frame_ready =>
       motion_pc = "snapshot" /\ frame_sequence <= snapshot.sequence /\ camera_state = "active"
  /\ frame_ready # {} => ~stop
  /\ clients_done => main_pc = "wait_clients" /\ worker_count > 0

\* Exit code 0, after which systemd (Restart=on-failure) does not start the
\* daemon again, is for a daemon that ran and was told to stop, and for no other:
\* not for a failure, and also if the server fails while the signal is on its way
\* (docs/operations/runbooks/service-lifecycle.md).
Ran == motion_pc # "unborn"
ExitCodeHonest == ~Running => (exit_code = SENSE_EXIT_OK <=> Ran /\ g_signal_stop)

\* Server, clients and start-up leave the two threads of the camera's side alone:
\* to the capture thread and the motion worker the daemon is a MotionPath.  What
\* MotionPath promises for all its runs, the daemon keeps, whatever the clients
\* do, and also when a thread could not be created.
Path == INSTANCE MotionPath
          WITH Clients <- {}, worker_count <- 0, client_count <- 0, clients_done <- FALSE,
               frame_ready <- frame_ready \cap {MotionThread},
               capture_pc <- IF capture_pc = "unborn" THEN "loop" ELSE capture_pc,
               motion_pc <- IF motion_pc = "unborn" THEN "start" ELSE motion_pc
ImplementsMotionPath == Path!Spec

-----------------------------------------------------------------------------
(* Liveness.                                                                *)

\* However the end begins, with a signal at any moment, a failure of the server or
\* a second thread that cannot be created, the process exits, whatever its threads
\* and clients are doing.
StopEndsProcess ==
  (Stopping \/ http_result < 0 \/ main_pc \in {"abort", "abort_join"}) ~> ~Running

-----------------------------------------------------------------------------
(* What the documentation says and the code does not do.                    *)

\* docs/stage_summaries/M2_mjpeg_browser_stream.md: a client's thread is reclaimed
\* after the client disconnects.  Also while no camera is to be found.
DisconnectedClientReclaimed ==
  <>[](camera_state = "unavailable") =>
    \A c \in Clients : peer[c] # "open" ~> client_pc[c] = "free"

=============================================================================
