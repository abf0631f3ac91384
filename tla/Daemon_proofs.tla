----------------------------- MODULE Daemon_proofs -----------------------------
(***************************************************************************)
(* Theorems about Daemon, for any set of connection slots, any bounds, any *)
(* set of pictures, any cooldown and any limit of the event count.         *)
(***************************************************************************)
EXTENDS Daemon, Threads_proofs, FiniteSetTheorems

USE DEF cameraVars, frameVars, motionVars, countVars, stopVars, appVars,
        cameraEnvVars, captureVars, motionThreadVars, workerVars,
        serverVars, clientVars, httpVars, vars

-----------------------------------------------------------------------------
(* Types.                                                                   *)

LEMMA InitTypes == Init => TypeOK
<1> SUFFICES ASSUME Init PROVE TypeOK
  OBVIOUS
<1>1. AppTypeOK /\ CaptureTypeOK /\ MotionTypeOK
  BY AppInitTypes, CaptureInitTypes, MotionInitTypes DEF Init, CapturePCs, MotionPCs
<1>2. HttpTypeOK
  BY DEF Init, HttpInit, HttpTypeOK, MainPCs, ClientPCs, Peers, NoExit
<1> QED
  BY <1>1, <1>2 DEF TypeOK

\* Moving one client thread on keeps the type of the places they are at.
LEMMA PlacesKeepType ==
  ASSUME HttpTypeOK, NEW c \in Clients, NEW to \in ClientPCs
  PROVE  [client_pc EXCEPT ![c] = to] \in [Clients -> ClientPCs]
BY DEF HttpTypeOK

LEMMA ServerKeepsTypes ==
  ASSUME AppTypeOK, HttpTypeOK, ServerStep
  PROVE  AppTypeOK' /\ HttpTypeOK'
<1> USE DEF ServerStep, MainGoes, Exit
<1>1. AppTypeOK'
  <2>1. UNCHANGED appVars \/ RequestStop \/ AddWorker \/ RemoveWorker \/ SleepOnClientsDone
    BY DEF NoCaptureThread, NoMotionThread, Abort, Listen, Serve, NoConnection, PollFails,
           AcceptClient, SpawnClient, NoClientThread, StopDaemon, WaitForClients, Destroy
  <2> QED
    BY <2>1, AppOperationsKeepTypes
<1>2. HttpTypeOK'
  <2>1. CASE \/ NoCaptureThread \/ NoMotionThread \/ Abort \/ Listen \/ Serve \/ NoConnection
             \/ PollFails \/ StopDaemon \/ WaitForClients \/ Destroy
    <3>1. main_pc' \in MainPCs
      BY <2>1 DEF HttpTypeOK, NoCaptureThread, NoMotionThread, Abort, Listen, Serve, NoConnection,
                  PollFails, StopDaemon, WaitForClients, Destroy, MainPCs
    <3>2. /\ http_result' \in {http_result, -1}
          /\ exit_code' \in {exit_code, SENSE_EXIT_OK, SENSE_EXIT_FATAL}
          /\ UNCHANGED clientVars
      BY <2>1 DEF NoCaptureThread, NoMotionThread, Abort, Listen, Serve, NoConnection,
                  PollFails, StopDaemon, WaitForClients, Destroy
    <3> QED
      BY <3>1, <3>2 DEF HttpTypeOK
  <2>2. ASSUME NEW c \in Clients, AcceptClient(c) \/ SpawnClient(c)
        PROVE  HttpTypeOK'
    <3>1. client_pc' \in [Clients -> ClientPCs]
      BY <2>2, PlacesKeepType DEF AcceptClient, SpawnClient, ClientPCs
    <3> QED
      BY <2>2, <3>1 DEF AcceptClient, SpawnClient, HttpTypeOK, MainPCs
  <2>3. ASSUME NEW c \in Clients, NoClientThread(c)
        PROVE  HttpTypeOK'
    <3>1. client_pc' \in [Clients -> ClientPCs]
      BY <2>3, PlacesKeepType DEF NoClientThread, ClientPCs
    <3> QED
      BY <2>3, <3>1 DEF NoClientThread, HttpTypeOK, MainPCs, Peers
  <2> QED
    BY <2>1, <2>2, <2>3
<1> QED
  BY <1>1, <1>2

LEMMA ClientsKeepTypes ==
  ASSUME AppTypeOK, HttpTypeOK, NEW c \in Clients, ClientStep(c), UNCHANGED serverVars
  PROVE  AppTypeOK' /\ HttpTypeOK'
<1> USE DEF ClientStep, ClientGoes
<1>1. AppTypeOK'
  <2>1. \/ UNCHANGED appVars \/ SleepOnFrameReady(c) \/ TimeOutOnFrameReady(c)
        \/ AddStreamClient \/ RemoveStreamClient \/ RemoveWorker
    BY DEF Receive, Respond, SendHeader, JoinStream, StreamLoop, FrameSleep, FrameTimeout,
           FrameRefused, TakeFrame, SendFrame, LeaveStream, CloseClient
  <2>2. c \in Threads
    BY DEF Threads
  <2> QED
    BY <2>1, <2>2, AppOperationsKeepTypes
<1>2. HttpTypeOK'
  <2>1. client_pc' \in [Clients -> ClientPCs]
    <3>1. client_pc' = client_pc \/ \E to \in ClientPCs : client_pc' = [client_pc EXCEPT ![c] = to]
      BY DEF Receive, Respond, SendHeader, JoinStream, StreamLoop, FrameSleep, FrameTimeout,
             FrameRefused, TakeFrame, SendFrame, LeaveStream, CloseClient, ClientPCs
    <3> QED
      BY <3>1, PlacesKeepType DEF HttpTypeOK
  <2>2. sequence' \in [Clients -> Nat]
    <3>1. \/ sequence' = sequence
          \/ \E n \in {0, frame_sequence} : sequence' = [sequence EXCEPT ![c] = n]
      BY DEF Receive, Respond, SendHeader, JoinStream, StreamLoop, FrameSleep, FrameTimeout,
             FrameRefused, TakeFrame, SendFrame, LeaveStream, CloseClient
    <3> QED
      BY <3>1 DEF HttpTypeOK, AppTypeOK
  <2>3. peer' \in [Clients -> Peers]
    <3>1. \/ peer' = peer
          \/ \E p \in {"open", "reset", peer[c]} : peer' = [peer EXCEPT ![c] = p]
      BY DEF Receive, Respond, SendHeader, JoinStream, StreamLoop, FrameSleep, FrameTimeout,
             FrameRefused, TakeFrame, SendFrame, LeaveStream, CloseClient, Sends, SendFails
    <3> QED
      BY <3>1 DEF HttpTypeOK, Peers
  <2> QED
    BY <2>1, <2>2, <2>3 DEF HttpTypeOK
<1> QED
  BY <1>1, <1>2

LEMMA StepTypes ==
  ASSUME TypeOK, [Next]_vars
  PROVE  TypeOK'
<1> USE DEF TypeOK
<1>1. CASE ServerStep /\ UNCHANGED <<captureVars, workerVars>>
  BY <1>1, ServerKeepsTypes DEF CaptureTypeOK, MotionTypeOK
<1>2. CASE SpawnCapture \/ SpawnMotion
  <2>1. AppTypeOK'
    BY <1>2, AppOperationsKeepTypes DEF SpawnCapture, SpawnMotion
  <2>2. CaptureTypeOK' /\ MotionTypeOK'
    BY <1>2 DEF SpawnCapture, SpawnMotion, CaptureTypeOK, CapturePCs, MotionTypeOK, MotionPCs
  <2>3. HttpTypeOK'
    BY <1>2 DEF SpawnCapture, SpawnMotion, MainGoes, HttpTypeOK, MainPCs
  <2> QED
    BY <2>1, <2>2, <2>3
<1>3. CASE JoinCapture \/ AbortJoin \/ JoinMotion
  <2>1. AppTypeOK'
    BY <1>3, AppOperationsKeepTypes DEF JoinCapture, AbortJoin, JoinMotion, Exit
  <2>2. CaptureTypeOK' /\ MotionTypeOK'
    BY <1>3 DEF JoinCapture, AbortJoin, JoinMotion, CaptureTypeOK, MotionTypeOK
  <2>3. HttpTypeOK'
    BY <1>3 DEF JoinCapture, AbortJoin, JoinMotion, Exit, MainGoes, HttpTypeOK, MainPCs
  <2> QED
    BY <2>1, <2>2, <2>3
<1>4. CASE CaptureThread
  BY <1>4, CaptureKeepsTypes DEF CaptureThread, MotionTypeOK, HttpTypeOK
<1>5. CASE MotionWorkerThread
  BY <1>5, MotionKeepsTypes DEF MotionWorkerThread, CaptureTypeOK, HttpTypeOK
<1>6. CASE \E c \in Clients : ClientThread(c)
  BY <1>6, ClientsKeepTypes DEF ClientThread, CaptureTypeOK, MotionTypeOK
<1>7. CASE Camera
  BY <1>7, CameraKeepsTypes, AppOperationsKeepTypes
     DEF Camera, CameraEnvironment, PlugIn, Unplug, MotionTypeOK, HttpTypeOK
<1>8. CASE Clock
  BY <1>8, TickKeepsTypes, AppOperationsKeepTypes DEF Clock, Tick, CaptureTypeOK, HttpTypeOK
<1>9. CASE Network
  <2>1. HttpTypeOK'
    BY <1>9 DEF Network, PeerLeaves, HttpTypeOK, Peers
  <2> QED
    BY <1>9, <2>1, AppOperationsKeepTypes DEF Network, PeerLeaves, CaptureTypeOK, MotionTypeOK
<1>10. CASE Signal \/ Exited \/ UNCHANGED vars
  BY <1>10, AppOperationsKeepTypes
     DEF Signal, Exited, CaptureTypeOK, MotionTypeOK, HttpTypeOK
<1> QED
  BY <1>1, <1>2, <1>3, <1>4, <1>5, <1>6, <1>7, <1>8, <1>9, <1>10 DEF Next, Main

\* Every reachable state of the whole daemon is well typed, for any number of
\* connection slots.
THEOREM TypeCorrect == Spec => []TypeOK
BY InitTypes, StepTypes, PTL DEF Spec

-----------------------------------------------------------------------------
(* What the steps leave alone.                                              *)

\* A step of main and its server touches no thread of the camera's side, no
\* picture and no sleeper but itself, except that its stop request wakes them all.
LEMMA ServerEffects ==
  ASSUME ServerStep
  PROVE  /\ UNCHANGED <<cameraVars, frameVars, motion_enabled, motionVars, event_log_state,
                        client_count, g_signal_stop, sequence>>
         /\ \/ UNCHANGED <<stop, frame_ready>>
            \/ stop' = TRUE /\ frame_ready' = {} /\ UNCHANGED <<countVars, clients_done>>
BY DEF ServerStep, NoCaptureThread, NoMotionThread, Abort, Listen, Serve, NoConnection, PollFails,
       AcceptClient, SpawnClient, NoClientThread, StopDaemon, WaitForClients, Destroy, Exit,
       RequestStop, BroadcastFrameReady, AddWorker, RemoveWorker, SleepOnClientsDone

\* A step of a client thread moves that thread only, and only that one falls
\* asleep or wakes up.
LEMMA ClientEffects ==
  ASSUME HttpTypeOK, NEW c \in Clients, ClientStep(c)
  PROVE  /\ client_pc[c] \notin {"free", "accepted"}
         /\ \E to \in ClientPCs : client_pc' = [client_pc EXCEPT ![c] = to]
         /\ UNCHANGED <<cameraVars, frameVars, motion_enabled, motionVars, event_log_state, stopVars>>
         /\ \A d \in Clients \ {c} : sequence'[d] = sequence[d]
         /\ \A t \in Threads \ {c} : t \in frame_ready' <=> t \in frame_ready
<1>1. /\ client_pc[c] \notin {"free", "accepted"}
      /\ UNCHANGED <<cameraVars, frameVars, motion_enabled, motionVars, event_log_state, stopVars>>
      /\ frame_ready' \in {frame_ready, frame_ready \cup {c}, frame_ready \ {c}}
  BY DEF ClientStep, ClientGoes, Receive, Respond, SendHeader, JoinStream, StreamLoop, FrameSleep,
         InFrameWait, FrameTimeout, FrameRefused, TakeFrame, SendFrame, LeaveStream, CloseClient,
         SleepOnFrameReady, TimeOutOnFrameReady, AddStreamClient, RemoveStreamClient, RemoveWorker
<1>2. \E to \in ClientPCs : client_pc' = [client_pc EXCEPT ![c] = to]
  <2>1. CASE FrameSleep(c)
    <3>1. client_pc' = [client_pc EXCEPT ![c] = client_pc[c]]
      BY <2>1 DEF FrameSleep, HttpTypeOK
    <3> QED
      BY <3>1 DEF HttpTypeOK
  <2>2. CASE ~FrameSleep(c)
    BY <2>2 DEF ClientStep, ClientGoes, Receive, Respond, SendHeader, JoinStream, StreamLoop,
                FrameTimeout, FrameRefused, TakeFrame, SendFrame, LeaveStream, CloseClient, ClientPCs
  <2> QED
    BY <2>1, <2>2
<1>3. \A d \in Clients \ {c} : sequence'[d] = sequence[d]
  BY DEF ClientStep, ClientGoes, Receive, Respond, SendHeader, JoinStream, StreamLoop, FrameSleep,
         FrameTimeout, FrameRefused, TakeFrame, SendFrame, LeaveStream, CloseClient, HttpTypeOK
<1> QED
  BY <1>1, <1>2, <1>3

-----------------------------------------------------------------------------
(* The life of the threads.                                                 *)

AllFree == \A c \in Clients : client_pc[c] = "free"

\* StateOutlivesThreads with what carries it: how far main has come says which
\* threads there can be.  No thread but main exists before main creates it, and
\* main leaves each join only behind the thread it joined.
LifeInv ==
  /\ main_pc = "spawn_capture" => capture_pc = "unborn"
  /\ main_pc \in {"spawn_capture", "spawn_motion", "abort", "abort_join"} =>
       motion_pc = "unborn" /\ AllFree
  /\ main_pc \in {"join_motion", "wait_clients", "destroy"} => capture_pc = "done"
  /\ main_pc \in {"wait_clients", "destroy"} => motion_pc = "done"
  /\ StateOutlivesThreads

Busy == {c \in Clients : client_pc[c] # "free"}
Streamers == {c \in Clients : Streaming(c)}

\* ClientsCounted with what the count of a set needs: only finitely many slots are
\* in use, however many there are.
CountInv ==
  /\ IsFiniteSet(Busy) /\ IsFiniteSet(Streamers)
  /\ ClientsCounted

\* A set counts one more with a new element, one less without an old one.
LEMMA CountOne ==
  ASSUME NEW S, IsFiniteSet(S), NEW x
  PROVE  /\ Cardinality(S) \in Nat
         /\ IsFiniteSet(S \cup {x}) /\ IsFiniteSet(S \ {x})
         /\ x \notin S => Cardinality(S \cup {x}) = Cardinality(S) + 1
         /\ x \in S => /\ Cardinality(S) > 0
                       /\ Cardinality(S \ {x}) = Cardinality(S) - 1
         /\ x \in S => S \cup {x} = S
         /\ x \notin S => S \ {x} = S
<1>1. Cardinality(S) \in Nat
  BY FS_CardinalityType
<1>2. /\ IsFiniteSet(S \cup {x})
      /\ Cardinality(S \cup {x}) = IF x \in S THEN Cardinality(S) ELSE Cardinality(S) + 1
  BY FS_AddElement
<1>3. /\ IsFiniteSet(S \ {x})
      /\ Cardinality(S \ {x}) = IF x \in S THEN Cardinality(S) - 1 ELSE Cardinality(S)
  BY FS_RemoveElement
<1>4. x \in S => Cardinality(S) > 0
  BY <1>1, FS_EmptySet
<1> QED
  BY <1>1, <1>2, <1>3, <1>4

\* Where a client thread goes decides which of the two sets it is in.
LEMMA MoveChangesSets ==
  ASSUME HttpTypeOK, NEW c \in Clients, NEW to \in ClientPCs,
         client_pc' = [client_pc EXCEPT ![c] = to]
  PROVE  /\ Busy' = IF to = "free" THEN Busy \ {c} ELSE Busy \cup {c}
         /\ Streamers' = IF to \in {"stream", "wait", "send", "leave"}
                         THEN Streamers \cup {c} ELSE Streamers \ {c}
<1>1. \A d \in Clients : client_pc'[d] = IF d = c THEN to ELSE client_pc[d]
  BY DEF HttpTypeOK
<1> QED
  BY <1>1 DEF Busy, Streamers, Streaming

\* The four moves that change a count, and those that change none.
LEMMA CountMoves ==
  ASSUME HttpTypeOK, AppTypeOK, CountInv, NEW c \in Clients, NEW to \in ClientPCs,
         client_pc' = [client_pc EXCEPT ![c] = to],
         LET streams(pc) == pc \in {"stream", "wait", "send", "leave"}
         IN  /\ worker_count' =
                  IF client_pc[c] = "free" /\ to # "free" THEN worker_count + 1
                  ELSE IF client_pc[c] # "free" /\ to = "free"
                  THEN IF worker_count > 0 THEN worker_count - 1 ELSE 0
                  ELSE worker_count
             /\ client_count' =
                  IF ~streams(client_pc[c]) /\ streams(to) THEN client_count + 1
                  ELSE IF streams(client_pc[c]) /\ ~streams(to)
                  THEN IF client_count > 0 THEN client_count - 1 ELSE 0
                  ELSE client_count
  PROVE  CountInv'
<1>1. /\ worker_count = Cardinality(Busy) /\ IsFiniteSet(Busy)
      /\ client_count = Cardinality(Streamers) /\ IsFiniteSet(Streamers)
  BY DEF CountInv, ClientsCounted, Busy, Streamers
<1>2. /\ c \in Busy <=> client_pc[c] # "free"
      /\ c \in Streamers <=> client_pc[c] \in {"stream", "wait", "send", "leave"}
  BY DEF Busy, Streamers, Streaming
<1>3. IsFiniteSet(Busy') /\ worker_count' = Cardinality(Busy')
  <2>1. Busy' = IF to = "free" THEN Busy \ {c} ELSE Busy \cup {c}
    BY MoveChangesSets
  <2> HIDE DEF Busy
  <2> QED
    BY <1>1, <1>2, <2>1, CountOne
<1>4. IsFiniteSet(Streamers') /\ client_count' = Cardinality(Streamers')
  <2>1. Streamers' = IF to \in {"stream", "wait", "send", "leave"}
                     THEN Streamers \cup {c} ELSE Streamers \ {c}
    BY MoveChangesSets
  <2> HIDE DEF Streamers
  <2> QED
    BY <1>1, <1>2, <2>1, CountOne
<1> QED
  BY <1>3, <1>4 DEF CountInv, ClientsCounted, Busy, Streamers

\* Accepting, handing over and giving up a connection.
LEMMA ServerCounts ==
  ASSUME TypeOK, CountInv, NEW c \in Clients,
         AcceptClient(c) \/ SpawnClient(c) \/ NoClientThread(c)
  PROVE  CountInv'
<1> USE DEF TypeOK
<1>1. CASE AcceptClient(c)
  BY <1>1, CountMoves DEF AcceptClient, AddWorker, ClientPCs
<1>2. CASE SpawnClient(c)
  BY <1>2, CountMoves DEF SpawnClient, ClientPCs
<1>3. CASE NoClientThread(c)
  BY <1>3, CountMoves DEF NoClientThread, RemoveWorker, ClientPCs
<1> QED
  BY <1>1, <1>2, <1>3

\* On every way through a client thread, and out of it.
LEMMA ClientCounts ==
  ASSUME TypeOK, CountInv, NEW c \in Clients, ClientStep(c)
  PROVE  CountInv'
<1> USE DEF TypeOK, ClientGoes, ClientPCs
<1>1. CASE Receive(c) \/ Respond(c) \/ SendHeader(c) \/ StreamLoop(c)
  BY <1>1, CountMoves DEF Receive, Respond, SendHeader, StreamLoop
<1>2. CASE JoinStream(c)
  BY <1>2, CountMoves DEF JoinStream, AddStreamClient
<1>3. CASE FrameSleep(c)
  BY <1>3 DEF FrameSleep, SleepOnFrameReady, CountInv, ClientsCounted, Busy, Streamers, Streaming
<1>4. CASE FrameTimeout(c)
  BY <1>4, CountMoves DEF FrameTimeout, TimeOutOnFrameReady
<1>5. CASE FrameRefused(c) \/ TakeFrame(c) \/ SendFrame(c)
  BY <1>5, CountMoves DEF FrameRefused, TakeFrame, SendFrame
<1>6. CASE LeaveStream(c)
  BY <1>6, CountMoves DEF LeaveStream, RemoveStreamClient
<1>7. CASE CloseClient(c)
  BY <1>7, CountMoves DEF CloseClient, RemoveWorker
<1> QED
  BY <1>1, <1>2, <1>3, <1>4, <1>5, <1>6, <1>7 DEF ClientStep

LEMMA CountStep == TypeOK /\ CountInv /\ [Next]_vars => CountInv'
<1> SUFFICES ASSUME TypeOK, CountInv, [Next]_vars PROVE CountInv'
  OBVIOUS
<1>1. CASE UNCHANGED <<client_pc, worker_count, client_count>>
  BY <1>1 DEF CountInv, ClientsCounted, Busy, Streamers, Streaming
<1>2. CASE ServerStep
  <2>1. CASE \E c \in Clients : AcceptClient(c) \/ SpawnClient(c) \/ NoClientThread(c)
    BY <2>1, ServerCounts
  <2>2. CASE ~\E c \in Clients : AcceptClient(c) \/ SpawnClient(c) \/ NoClientThread(c)
    BY <1>1, <1>2, <2>2
       DEF ServerStep, NoCaptureThread, NoMotionThread, Abort, Listen, Serve, NoConnection,
           PollFails, StopDaemon, WaitForClients, Destroy, Exit, RequestStop, SleepOnClientsDone
  <2> QED
    BY <2>1, <2>2
<1>3. CASE SpawnCapture \/ SpawnMotion \/ JoinCapture \/ AbortJoin \/ JoinMotion
  BY <1>1, <1>3 DEF SpawnCapture, SpawnMotion, JoinCapture, AbortJoin, JoinMotion, Exit
<1>4. CASE CaptureThread
  BY <1>1, <1>4, CaptureEffects DEF CaptureThread
<1>5. CASE MotionWorkerThread
  BY <1>1, <1>5, MotionEffects DEF MotionWorkerThread
<1>6. CASE \E c \in Clients : ClientThread(c)
  BY <1>6, ClientCounts DEF ClientThread
<1>7. CASE Signal \/ Camera \/ Clock \/ Network \/ Exited \/ UNCHANGED vars
  BY <1>1, <1>7 DEF Signal, RaiseSignal, Camera, CameraEnvironment, PlugIn, Unplug, Clock, Tick,
                    Network, PeerLeaves, Exited
<1> QED
  BY <1>2, <1>3, <1>4, <1>5, <1>6, <1>7 DEF Next, Main

LEMMA CountInit == Init => CountInv
<1> SUFFICES ASSUME Init PROVE CountInv
  OBVIOUS
<1>1. Busy = {} /\ Streamers = {}
  BY DEF Init, HttpInit, Busy, Streamers, Streaming
<1>2. worker_count = 0 /\ client_count = 0
  BY DEF Init, AppInit
<1> QED
  BY <1>1, <1>2, FS_EmptySet DEF CountInv, ClientsCounted, Busy, Streamers

\* Both client counters are exact, for any number of connection slots and however
\* each connection ends: main's wait for the clients can rely on the one, the
\* reader of /status on the other.
THEOREM CountersExact == Spec => []ClientsCounted
<1>1. CountInv => ClientsCounted
  BY DEF CountInv
<1> QED
  BY <1>1, CountInit, CountStep, TypeCorrect, PTL DEF Spec

-----------------------------------------------------------------------------
(* The end of the state.                                                    *)

\* Steps that leave main where it is, and free slots free.
LEMMA LifeKept ==
  ASSUME LifeInv, UNCHANGED main_pc, AllFree => AllFree',
         capture_pc \in {"unborn", "done"} => UNCHANGED capture_pc,
         motion_pc \in {"unborn", "done"} => UNCHANGED motion_pc
  PROVE  LifeInv'
BY DEF LifeInv, StateOutlivesThreads, CaptureGone, MotionGone, AllFree

LEMMA LifeStep == TypeOK /\ CountInv /\ LifeInv /\ [Next]_vars => LifeInv'
<1> SUFFICES ASSUME TypeOK, CountInv, LifeInv, [Next]_vars PROVE LifeInv'
  OBVIOUS
<1>1. CASE ServerStep /\ UNCHANGED <<captureVars, workerVars>>
  <2>1. CASE NoCaptureThread \/ NoMotionThread \/ Abort \/ Destroy
    BY <1>1, <2>1
       DEF NoCaptureThread, NoMotionThread, Abort, Destroy, Exit, MainGoes, LifeInv, AllFree,
           StateOutlivesThreads, CaptureGone, MotionGone
  <2>2. CASE Listen \/ Serve \/ NoConnection \/ PollFails \/ StopDaemon
    BY <1>1, <2>2
       DEF Listen, Serve, NoConnection, PollFails, StopDaemon, MainGoes, LifeInv, StateOutlivesThreads
  <2>3. CASE \E c \in Clients : AcceptClient(c) \/ SpawnClient(c) \/ NoClientThread(c)
    BY <1>1, <2>3
       DEF AcceptClient, SpawnClient, NoClientThread, MainGoes, LifeInv, StateOutlivesThreads
  <2>4. CASE WaitForClients
    <3>1. CASE worker_count > 0
      BY <1>1, <2>4, <3>1, LifeKept DEF WaitForClients, AllFree
    <3>2. CASE ~(worker_count > 0)
      <4>1. Busy = {}
        <5>1. worker_count = 0
          BY <3>2 DEF TypeOK, AppTypeOK
        <5>2. worker_count = Cardinality(Busy) /\ IsFiniteSet(Busy)
          BY DEF CountInv, ClientsCounted, Busy
        <5> QED
          BY <5>1, <5>2, FS_EmptySet
      <4>2. AllFree
        BY <4>1 DEF Busy, AllFree
      <4> QED
        BY <1>1, <2>4, <3>2, <4>2
           DEF WaitForClients, LifeInv, AllFree, StateOutlivesThreads, CaptureGone, MotionGone
    <3> QED
      BY <3>1, <3>2
  <2> QED
    BY <1>1, <2>1, <2>2, <2>3, <2>4 DEF ServerStep
<1>2. CASE SpawnCapture \/ SpawnMotion \/ JoinCapture \/ AbortJoin \/ JoinMotion
  BY <1>2 DEF SpawnCapture, SpawnMotion, JoinCapture, AbortJoin, JoinMotion, Exit, MainGoes,
              LifeInv, AllFree, StateOutlivesThreads, CaptureGone, MotionGone
<1>3. CASE CaptureThread
  BY <1>3, CaptureEffects, LifeKept DEF CaptureThread, AllFree
<1>4. CASE MotionWorkerThread
  BY <1>4, MotionEffects, LifeKept DEF MotionWorkerThread, AllFree
<1>5. CASE \E c \in Clients : ClientThread(c)
  BY <1>5, ClientEffects, LifeKept DEF ClientThread, AllFree, TypeOK
<1>6. CASE Signal \/ Camera \/ Clock \/ Network \/ Exited \/ UNCHANGED vars
  BY <1>6, LifeKept
     DEF Signal, Camera, CameraEnvironment, PlugIn, Unplug, Clock, Tick, Network, PeerLeaves, Exited,
         AllFree
<1> QED
  BY <1>1, <1>2, <1>3, <1>4, <1>5, <1>6 DEF Next, Main

LEMMA LifeInit == Init => LifeInv
BY DEF Init, CaptureInit, MotionInit, HttpInit, LifeInv, AllFree, StateOutlivesThreads

\* No thread outlives the state it uses, for any number of clients: the exact
\* count of the client threads and the two joins are enough.
THEOREM StateIsLast == Spec => []StateOutlivesThreads
<1>1. LifeInv => StateOutlivesThreads
  BY DEF LifeInv
<1> QED
  BY <1>1, CountInit, LifeInit, CountStep, LifeStep, TypeCorrect, PTL DEF Spec

-----------------------------------------------------------------------------
(* The exit code.                                                           *)

\* ExitCodeHonest with what carries it: the stop flag is main's own, set behind
\* http_server_run, which returns without an error only for a signal; and main
\* does not get there without a motion worker.
ExitInv ==
  /\ stop => main_pc \in {"abort_join", "join_capture", "join_motion", "wait_clients",
                          "destroy", "exited"}
  /\ main_pc \in {"request_stop", "join_capture", "join_motion", "wait_clients", "destroy"} =>
       http_result < 0 \/ g_signal_stop
  /\ motion_pc = "unborn" => main_pc \in {"spawn_capture", "spawn_motion", "abort", "abort_join",
                                          "exited"}
  /\ ExitCodeHonest

LEMMA ExitKept ==
  ASSUME ExitInv, UNCHANGED <<main_pc, http_result, exit_code, stop>>,
         motion_pc = "unborn" <=> motion_pc' = "unborn",
         \/ UNCHANGED g_signal_stop
         \/ Running /\ g_signal_stop'
  PROVE  ExitInv'
BY DEF ExitInv, ExitCodeHonest, Ran, Running

LEMMA ExitStep == TypeOK /\ LifeInv /\ ExitInv /\ [Next]_vars => ExitInv'
<1> SUFFICES ASSUME TypeOK, LifeInv, ExitInv, [Next]_vars PROVE ExitInv'
  OBVIOUS
<1> USE DEF SENSE_EXIT_OK, SENSE_EXIT_FATAL
<1>1. CASE ServerStep /\ UNCHANGED <<captureVars, workerVars>>
  <2>1. CASE NoCaptureThread
    BY <1>1, <2>1 DEF NoCaptureThread, Exit, MainGoes, LifeInv, ExitInv, ExitCodeHonest, Ran, Running
  <2>2. CASE NoMotionThread \/ Abort \/ StopDaemon
    BY <1>1, <2>2
       DEF NoMotionThread, Abort, StopDaemon, RequestStop, MainGoes, LifeInv, ExitInv,
           ExitCodeHonest, Running
  <2>3. CASE Listen \/ Serve \/ NoConnection \/ PollFails
    BY <1>1, <2>3
       DEF Listen, Serve, NoConnection, PollFails, MainGoes, ExitInv, ExitCodeHonest, Running, Stopping
  <2>4. CASE \E c \in Clients : AcceptClient(c) \/ SpawnClient(c) \/ NoClientThread(c)
    BY <1>1, <2>4
       DEF AcceptClient, SpawnClient, NoClientThread, AddWorker, RemoveWorker, MainGoes,
           ExitInv, ExitCodeHonest, Running
  <2>5. CASE WaitForClients
    BY <1>1, <2>5 DEF WaitForClients, SleepOnClientsDone, ExitInv, ExitCodeHonest, Running
  <2>6. CASE Destroy
    <3>1. http_result < 0 \/ g_signal_stop
      BY <2>6 DEF Destroy, Exit, MainGoes, ExitInv
    <3>2. motion_pc # "unborn" /\ UNCHANGED <<motion_pc, stop, g_signal_stop>>
      BY <1>1, <2>6 DEF Destroy, Exit, MainGoes, ExitInv
    <3> QED
      BY <2>6, <3>1, <3>2 DEF Destroy, Exit, MainGoes, ExitInv, ExitCodeHonest, Ran, Running
  <2> QED
    BY <1>1, <2>1, <2>2, <2>3, <2>4, <2>5, <2>6 DEF ServerStep
<1>2. CASE SpawnCapture \/ SpawnMotion \/ JoinCapture \/ JoinMotion
  BY <1>2 DEF SpawnCapture, SpawnMotion, JoinCapture, JoinMotion, MainGoes, ExitInv, ExitCodeHonest,
              Running
<1>3. CASE AbortJoin
  BY <1>3 DEF AbortJoin, Exit, MainGoes, LifeInv, ExitInv, ExitCodeHonest, Ran, Running
<1>4. CASE CaptureThread
  BY <1>4, CaptureEffects, ExitKept DEF CaptureThread
<1>5. CASE MotionWorkerThread
  BY <1>5, MotionEffects, ExitKept DEF MotionWorkerThread
<1>6. CASE \E c \in Clients : ClientThread(c)
  BY <1>6, ClientEffects, ExitKept DEF ClientThread, TypeOK
<1>7. CASE Signal
  BY <1>7, ExitKept DEF Signal, RaiseSignal
<1>8. CASE Camera \/ Clock \/ Network \/ Exited \/ UNCHANGED vars
  BY <1>8, ExitKept
     DEF Camera, CameraEnvironment, PlugIn, Unplug, Clock, Tick, Network, PeerLeaves, Exited
<1> QED
  BY <1>1, <1>2, <1>3, <1>4, <1>5, <1>6, <1>7, <1>8 DEF Next, Main

LEMMA ExitInit == Init => ExitInv
BY DEF Init, AppInit, MotionInit, HttpInit, ExitInv, ExitCodeHonest, Running

\* Exit code 0 means a daemon that ran and was told to stop, and only that.
THEOREM ExitCodesHonest == Spec => []ExitCodeHonest
<1>1. ExitInv => ExitCodeHonest
  BY DEF ExitInv
<1> QED
  BY <1>1, CountInit, LifeInit, ExitInit, CountStep, LifeStep, ExitStep, TypeCorrect, PTL DEF Spec

-----------------------------------------------------------------------------
(* No wake-up is lost.                                                      *)

\* The four parts of NoLostWakeup: the clients, the motion worker, and both
\* condition variables once main is stopping.
ClientsAwake ==
  \A c \in frame_ready \cap Clients : client_pc[c] = "wait" /\ frame_sequence <= sequence[c]
WorkerAwake ==
  MotionThread \in frame_ready =>
    motion_pc = "snapshot" /\ frame_sequence <= snapshot.sequence /\ camera_state = "active"
StopAwake == frame_ready # {} => ~stop
MainAwake == clients_done => main_pc = "wait_clients" /\ worker_count > 0

\* A worker that goes wakes main if it is the last.
LEMMA RemovalWakes ==
  ASSUME AppTypeOK, RemoveWorker, clients_done'
  PROVE  clients_done /\ (worker_count > 0 => worker_count' > 0)
<1>1. clients_done /\ worker_count # 1
  BY Zenon DEF RemoveWorker
<1>2. worker_count' = IF worker_count > 0 THEN worker_count - 1 ELSE 0
  BY DEF RemoveWorker
<1>3. worker_count \in Nat
  BY DEF AppTypeOK
<1> QED
  BY <1>1, <1>2, <1>3

\* Whoever leaves the sleepers and what they wait for alone, or wakes them all.
LEMMA SleepersKept ==
  ASSUME NoLostWakeup,
         \/ frame_ready' = {}
         \/ UNCHANGED <<frame_ready, frame_sequence, camera_state, stop>>,
         UNCHANGED <<client_pc, sequence, motion_pc, snapshot, main_pc, worker_count, clients_done>>
  PROVE  NoLostWakeup'
BY DEF NoLostWakeup

\* A sleeping client is nobody's to move but its own, and it moves by its timeout.
LEMMA ClientWakeups ==
  ASSUME TypeOK, NoLostWakeup, NEW c \in Clients, ClientThread(c)
  PROVE  NoLostWakeup'
<1> USE DEF TypeOK, ClientThread
<1>1. /\ UNCHANGED <<cameraVars, frameVars, stopVars>>
      /\ \A d \in Clients \ {c} : sequence'[d] = sequence[d]
      /\ \A t \in Threads \ {c} : t \in frame_ready' <=> t \in frame_ready
  BY ClientEffects
<1>2. \A d \in Clients \ {c} : client_pc'[d] = client_pc[d]
  BY ClientEffects DEF HttpTypeOK
<1>3. c \in frame_ready' => /\ client_pc'[c] = "wait" /\ frame_sequence <= sequence'[c]
                            /\ c \in frame_ready \/ ~stop
  <2>1. CASE FrameSleep(c)
    BY <2>1 DEF FrameSleep, InFrameWait, FrameWaitBlocks, Stopping, SleepOnFrameReady
  <2>2. CASE FrameTimeout(c)
    BY <2>2 DEF FrameTimeout, TimeOutOnFrameReady
  <2>3. CASE FrameRefused(c) \/ TakeFrame(c)
    BY <2>3 DEF FrameRefused, TakeFrame, InFrameWait
  <2>4. CASE \/ Receive(c) \/ Respond(c) \/ SendHeader(c) \/ JoinStream(c) \/ StreamLoop(c)
             \/ SendFrame(c) \/ LeaveStream(c) \/ CloseClient(c)
    <3>1. client_pc[c] # "wait" /\ UNCHANGED frame_ready
      BY <2>4 DEF Receive, Respond, SendHeader, JoinStream, StreamLoop, SendFrame, LeaveStream,
                  CloseClient, ClientGoes, AddStreamClient, RemoveStreamClient, RemoveWorker
    <3> QED
      BY <3>1 DEF NoLostWakeup
  <2> QED
    BY <2>1, <2>2, <2>3, <2>4 DEF ClientStep
<1>4. ClientsAwake'
  BY <1>1, <1>2, <1>3 DEF NoLostWakeup, ClientsAwake, Threads
<1>5. WorkerAwake'
  <2>1. MotionThread \in Threads \ {c}
    BY ThreadAssumption DEF Threads
  <2> QED
    BY <1>1, <2>1 DEF NoLostWakeup, WorkerAwake
<1>6. StopAwake'
  <2>1. frame_ready' \subseteq Threads
    BY ClientsKeepTypes DEF AppTypeOK
  <2> QED
    BY <1>1, <1>3, <2>1 DEF NoLostWakeup, StopAwake
<1>7. MainAwake'
  <2>1. \/ UNCHANGED <<worker_count, clients_done>>
        \/ RemoveWorker
    BY DEF ClientStep, Receive, Respond, SendHeader, JoinStream, StreamLoop, FrameSleep,
           FrameTimeout, FrameRefused, TakeFrame, SendFrame, LeaveStream, CloseClient,
           SleepOnFrameReady, TimeOutOnFrameReady, AddStreamClient, RemoveStreamClient
  <2>2. clients_done' => clients_done /\ (worker_count > 0 => worker_count' > 0)
    BY <2>1, RemovalWakes
  <2> QED
    BY <2>2 DEF NoLostWakeup, MainAwake
<1> QED
  BY <1>4, <1>5, <1>6, <1>7 DEF NoLostWakeup, ClientsAwake, WorkerAwake, StopAwake, MainAwake

\* main sleeps only where a client thread is left to wake it, and moves only
\* while it is awake.
LEMMA ServerWakeups ==
  ASSUME TypeOK, NoLostWakeup, ServerStep, UNCHANGED workerVars
  PROVE  NoLostWakeup'
<1> USE DEF TypeOK
<1>1. /\ UNCHANGED <<cameraVars, frameVars, sequence, motion_pc, snapshot>>
      /\ UNCHANGED <<stop, frame_ready>> \/ frame_ready' = {}
  BY ServerEffects
<1>2. \A d \in Clients : client_pc[d] = "wait" => client_pc'[d] = "wait"
  <2>1. CASE \E c \in Clients : AcceptClient(c) \/ SpawnClient(c) \/ NoClientThread(c)
    BY <2>1 DEF AcceptClient, SpawnClient, NoClientThread, HttpTypeOK
  <2>2. CASE ~\E c \in Clients : AcceptClient(c) \/ SpawnClient(c) \/ NoClientThread(c)
    BY <2>2 DEF ServerStep, NoCaptureThread, NoMotionThread, Abort, Listen, Serve, NoConnection,
                PollFails, StopDaemon, WaitForClients, Destroy, Exit
  <2> QED
    BY <2>1, <2>2
<1>3. ClientsAwake' /\ WorkerAwake' /\ StopAwake'
  BY <1>1, <1>2 DEF NoLostWakeup, ClientsAwake, WorkerAwake, StopAwake
<1>4. MainAwake'
  <2>1. CASE WaitForClients
    BY <2>1 DEF WaitForClients, SleepOnClientsDone, MainAwake, NoLostWakeup
  <2>2. CASE ~WaitForClients
    <3>1. main_pc # "wait_clients"
      BY <2>2 DEF ServerStep, NoCaptureThread, NoMotionThread, Abort, Listen, Serve, NoConnection,
                  PollFails, AcceptClient, SpawnClient, NoClientThread, StopDaemon, Destroy, Exit,
                  MainGoes
    <3>2. UNCHANGED clients_done \/ RemoveWorker
      BY <2>2 DEF ServerStep, NoCaptureThread, NoMotionThread, Abort, Listen, Serve, NoConnection,
                  PollFails, AcceptClient, SpawnClient, NoClientThread, StopDaemon, Destroy, Exit,
                  RequestStop, AddWorker
    <3> QED
      BY <3>1, <3>2, RemovalWakes DEF NoLostWakeup, MainAwake
  <2> QED
    BY <2>1, <2>2
<1> QED
  BY <1>3, <1>4 DEF NoLostWakeup, ClientsAwake, WorkerAwake, StopAwake, MainAwake

\* The motion worker, with others asleep on the same condition variable.
LEMMA WorkerWakeups ==
  ASSUME TypeOK, NoLostWakeup, MotionWorkerThread
  PROVE  NoLostWakeup'
<1> USE DEF TypeOK, MotionWorkerThread
<1>1. UNCHANGED <<cameraVars, frameVars, countVars, stopVars, clients_done>>
  BY MotionEffects
<1>2. CASE SnapshotSleep
  <2>1. /\ frame_ready' = frame_ready \cup {MotionThread}
        /\ ~stop /\ motion_pc = "snapshot"
        /\ frame_sequence <= snapshot.sequence /\ camera_state = "active"
        /\ UNCHANGED <<motion_pc, snapshot>>
    BY <1>2 DEF SnapshotSleep, InSnapshotWait, SnapshotWaitBlocks, FrameWaitBlocks, Stopping,
                SleepOnFrameReady
  <2>2. frame_ready' \cap Clients = frame_ready \cap Clients
    BY <2>1, ThreadAssumption
  <2> QED
    BY <1>1, <2>1, <2>2 DEF NoLostWakeup
<1>3. CASE SnapshotTimeout
  BY <1>1, <1>3 DEF SnapshotTimeout, TimeOutOnFrameReady, NoLostWakeup
<1>4. CASE ~SnapshotSleep /\ ~SnapshotTimeout
  <2>1. UNCHANGED frame_ready
    BY <1>4, MotionEffects
  <2>2. motion_pc # "snapshot" \/ MotionThread \notin frame_ready
    BY <1>4 DEF MotionStep, MotionDisabled, MotionEnabled, SampleDue, SnapshotStopped,
                SnapshotUnavailable, SnapshotNoMemory, SnapshotReady, InSnapshotWait, ClearSample,
                SampleFails, ProcessQuietSample, EmitMotionEvent, Compare, ReportHealth,
                PublishResult, MotionExit
  <2> QED
    BY <1>1, <2>1, <2>2 DEF NoLostWakeup
<1> QED
  BY <1>2, <1>3, <1>4

LEMMA WakeupStep == TypeOK /\ LifeInv /\ NoLostWakeup /\ [Next]_vars => NoLostWakeup'
<1> SUFFICES ASSUME TypeOK, LifeInv, NoLostWakeup, [Next]_vars PROVE NoLostWakeup'
  OBVIOUS
<1>1. CASE ServerStep /\ UNCHANGED <<captureVars, workerVars>>
  BY <1>1, ServerWakeups
<1>2. CASE SpawnCapture \/ SpawnMotion \/ JoinCapture \/ AbortJoin \/ JoinMotion
  <2>1. UNCHANGED <<appVars, clientVars, snapshot>> /\ main_pc # "wait_clients"
    <3>1. CASE SpawnCapture \/ SpawnMotion
      BY <3>1 DEF SpawnCapture, SpawnMotion, MainGoes
    <3>2. CASE JoinCapture \/ AbortJoin \/ JoinMotion
      BY <3>2 DEF JoinCapture, AbortJoin, JoinMotion, Exit, MainGoes
    <3> QED
      BY <1>2, <3>1, <3>2
  <2>2. UNCHANGED motion_pc \/ motion_pc = "unborn"
    BY <1>2 DEF SpawnCapture, SpawnMotion, JoinCapture, AbortJoin, JoinMotion, MainGoes, LifeInv
  <2> QED
    BY <2>1, <2>2 DEF NoLostWakeup
<1>3. CASE CaptureThread
  BY <1>3, CaptureEffects, SleepersKept DEF CaptureThread
<1>4. CASE MotionWorkerThread
  BY <1>4, WorkerWakeups
<1>5. CASE \E c \in Clients : ClientThread(c)
  BY <1>5, ClientWakeups
<1>6. CASE Signal \/ Camera \/ Clock \/ Network \/ Exited \/ UNCHANGED vars
  BY <1>6, SleepersKept
     DEF Signal, RaiseSignal, Camera, CameraEnvironment, PlugIn, Unplug, Clock, Tick, Network,
         PeerLeaves, Exited
<1> QED
  BY <1>1, <1>2, <1>3, <1>4, <1>5, <1>6 DEF Next, Main

\* No thread sleeps on a condition that no longer holds, with any number of
\* clients on frame_ready next to the motion worker, and main on clients_done.
THEOREM WakeupsKept == Spec => []NoLostWakeup
<1>1. Init => NoLostWakeup
  BY DEF Init, AppInit, NoLostWakeup
<1> QED
  BY <1>1, CountInit, LifeInit, CountStep, LifeStep, WakeupStep, TypeCorrect, PTL DEF Spec

-----------------------------------------------------------------------------
(* The daemon is a MotionPath to the threads of the camera's side.          *)

USE DEF Path!cameraVars, Path!frameVars, Path!motionVars, Path!countVars, Path!stopVars,
        Path!appVars, Path!cameraEnvVars, Path!captureVars, Path!motionThreadVars,
        Path!workerVars, Path!vars

LEMMA PathInit == Init => Path!Init
BY DEF Init, AppInit, CaptureInit, MotionInit, HttpInit,
       Path!Init, Path!AppInit, Path!CaptureInit, Path!MotionInit,
       NoPicture, NewGate, NoResult, Path!NoPicture, Path!NewGate, Path!NoResult

\* A step of the capture thread is one there: a thread that takes a step is born.
LEMMA PathCapture ==
  ASSUME CaptureThread
  PROVE  Path!CaptureThread
<1> USE DEF CaptureThread, Path!CaptureThread
<1>1. UNCHANGED Path!workerVars
  OBVIOUS
<1>2. UNCHANGED <<worker_count, client_count, clients_done>>
  BY CaptureEffects
<1>3. capture_pc # "unborn" /\ capture_pc' # "unborn"
  BY DEF CaptureStep, CaptureLoop, FrameLoop, NoCamera, OpenCamera, SetupFails, StartStreaming,
         DeliverFrame, Dequeue, Requeue, NoFrameYet, StreamFails, Cleanup, MarkUnavailable
<1>4. Path!CaptureStep
  <2>1. CASE CaptureLoop \/ FrameLoop \/ Cleanup
    BY <1>3, <2>1 DEF CaptureLoop, FrameLoop, Cleanup, Stopping, Path!CaptureStep,
                      Path!CaptureLoop, Path!FrameLoop, Path!Cleanup, Path!Stopping
  <2>2. CASE NoCamera
    BY <1>3, <2>2 DEF NoCamera, CameraFault, SetCameraUnavailable, BroadcastFrameReady,
                      Path!CaptureStep, Path!NoCamera, Path!CameraFault,
                      Path!SetCameraUnavailable, Path!BroadcastFrameReady
  <2>3. CASE OpenCamera \/ Dequeue \/ Requeue \/ NoFrameYet
    BY <1>3, <2>3 DEF OpenCamera, Dequeue, Requeue, NoFrameYet, Path!CaptureStep,
                      Path!OpenCamera, Path!Dequeue, Path!Requeue, Path!NoFrameYet
  <2>4. CASE SetupFails \/ StreamFails
    BY <1>3, <2>4 DEF SetupFails, StreamFails, CameraFault, Path!CaptureStep,
                      Path!SetupFails, Path!StreamFails, Path!CameraFault
  <2>5. CASE StartStreaming
    BY <1>3, <2>5 DEF StartStreaming, SetCaptureActive, BroadcastFrameReady, Path!CaptureStep,
                      Path!StartStreaming, Path!SetCaptureActive, Path!BroadcastFrameReady
  <2>6. ASSUME NEW scene \in Scenes, DeliverFrame(scene)
        PROVE  Path!CaptureStep
    BY <1>3, <2>6 DEF DeliverFrame, PublishFrame, BroadcastFrameReady, Path!CaptureStep,
                      Path!DeliverFrame, Path!PublishFrame, Path!BroadcastFrameReady
  <2>7. CASE MarkUnavailable
    BY <1>3, <2>7 DEF MarkUnavailable, SetCameraUnavailable, BroadcastFrameReady, Path!CaptureStep,
                      Path!MarkUnavailable, Path!SetCameraUnavailable, Path!BroadcastFrameReady
  <2> QED
    BY <2>1, <2>2, <2>3, <2>4, <2>5, <2>6, <2>7 DEF CaptureStep
<1> QED
  BY <1>1, <1>4

\* Gate, log and pictures are the same ones on both sides.
LEMMA PathOperators ==
  /\ Path!NoPicture = NoPicture /\ Path!NoResult = NoResult /\ Path!NewGate = NewGate
  /\ Path!MotionDetected = MotionDetected
  /\ \A g, d, t : Path!Emits(g, d, t) <=> Emits(g, d, t)
  /\ \A g, d, t : Path!GateUpdate(g, d, t) = GateUpdate(g, d, t)
  /\ \A file, event : Path!AppendMotion(file, event) = AppendMotion(file, event)
  /\ \A logged : Path!NewEvent(logged) = NewEvent(logged)
<1>1. Path!NoPicture = NoPicture /\ Path!NoResult = NoResult /\ Path!NewGate = NewGate
  BY DEF NoPicture, NoResult, NewGate, Path!NoPicture, Path!NoResult, Path!NewGate
<1>2. Path!MotionDetected = MotionDetected
  BY <1>1 DEF MotionDetected, BaselineReady, Path!MotionDetected, Path!BaselineReady
<1>3. \A g, d, t : Path!Emits(g, d, t) <=> Emits(g, d, t)
  BY DEF Emits, CooldownOver, Path!Emits, Path!CooldownOver
<1>4. \A g, t : Path!EmitEvent(g, t) = EmitEvent(g, t)
  BY DEF EmitEvent, Path!EmitEvent
<1>5. \A g, d, t : Path!GateUpdate(g, d, t) = GateUpdate(g, d, t)
  BY <1>3, <1>4 DEF GateUpdate, CooldownOver, Path!GateUpdate, Path!CooldownOver
<1>6. \A file, event : Path!AppendMotion(file, event) = AppendMotion(file, event)
  BY DEF AppendMotion, Piece, Path!AppendMotion, Path!Piece
<1>7. \A logged : Path!NewEvent(logged) = NewEvent(logged)
  BY DEF NewEvent, Path!NewEvent
<1> QED
  BY <1>1, <1>2, <1>3, <1>5, <1>6, <1>7

\* Of the sleepers only the worker is visible there.
LEMMA PathWaits ==
  /\ Path!InSnapshotWait <=> InSnapshotWait /\ motion_pc # "unborn"
  /\ \A seq : Path!SnapshotWaitBlocks(seq) <=> SnapshotWaitBlocks(seq)
  /\ Path!Stopping <=> Stopping
  /\ Path!FrameIsCurrent <=> FrameIsCurrent
BY DEF InSnapshotWait, SnapshotWaitBlocks, FrameWaitBlocks, Stopping, FrameIsCurrent,
       Path!InSnapshotWait, Path!SnapshotWaitBlocks, Path!FrameWaitBlocks, Path!Stopping,
       Path!FrameIsCurrent

LEMMA PathWorker ==
  ASSUME MotionWorkerThread
  PROVE  Path!MotionWorkerThread
<1> USE DEF MotionWorkerThread, Path!MotionWorkerThread
<1>1. UNCHANGED Path!captureVars
  OBVIOUS
<1>2. motion_pc # "unborn" /\ motion_pc' # "unborn"
  BY MotionEffects
<1>3. UNCHANGED appVars => UNCHANGED Path!appVars
  OBVIOUS
<1>4. ResetMotionSample => Path!ResetMotionSample
  BY DEF ResetMotionSample, Path!ResetMotionSample
<1>5. Path!MotionStep
  <2>1. CASE MotionDisabled
    BY <1>2, <1>4, <2>1 DEF MotionDisabled, Path!MotionStep, Path!MotionDisabled
  <2>2. CASE MotionEnabled
    BY <1>2, <1>3, <2>2 DEF MotionEnabled, Path!MotionStep, Path!MotionEnabled
  <2>3. CASE SampleDue
    BY <1>2, <1>3, <2>3, PathWaits DEF SampleDue, Path!MotionStep, Path!SampleDue
  <2>4. CASE SnapshotSleep
    <3>1. Path!SleepOnFrameReady(MotionThread)
      BY <2>4 DEF SnapshotSleep, SleepOnFrameReady, Path!SleepOnFrameReady
    <3> QED
      BY <1>2, <2>4, <3>1, PathWaits DEF SnapshotSleep, Path!MotionStep, Path!SnapshotSleep
  <2>5. CASE SnapshotTimeout
    <3>1. Path!TimeOutOnFrameReady(MotionThread)
      BY <2>5 DEF SnapshotTimeout, TimeOutOnFrameReady, Path!TimeOutOnFrameReady
    <3> QED
      BY <1>2, <2>5, <3>1, PathOperators
         DEF SnapshotTimeout, Path!MotionStep, Path!SnapshotTimeout
  <2>6. CASE SnapshotStopped
    BY <1>2, <1>3, <2>6, PathWaits DEF SnapshotStopped, Path!MotionStep, Path!SnapshotStopped
  <2>7. CASE SnapshotUnavailable
    BY <1>2, <1>3, <2>7, PathWaits, PathOperators
       DEF SnapshotUnavailable, Path!MotionStep, Path!SnapshotUnavailable
  <2>8. CASE SnapshotNoMemory
    BY <1>2, <1>3, <2>8, PathWaits DEF SnapshotNoMemory, Path!MotionStep, Path!SnapshotNoMemory
  <2>9. CASE SnapshotReady
    BY <1>2, <1>3, <2>9, PathWaits, PathOperators
       DEF SnapshotReady, Path!MotionStep, Path!SnapshotReady
  <2>10. CASE ClearSample
    BY <1>2, <1>4, <2>10 DEF ClearSample, Path!MotionStep, Path!ClearSample
  <2>11. CASE SampleFails
    BY <1>2, <1>3, <2>11, PathOperators DEF SampleFails, Path!MotionStep, Path!SampleFails
  <2>12. Compare => Path!Compare
    BY <1>2, <1>3, PathOperators DEF Compare, Path!Compare
  <2>13. CASE ProcessQuietSample
    BY <2>12, <2>13, PathOperators
       DEF ProcessQuietSample, Path!MotionStep, Path!ProcessQuietSample
  <2>14. CASE EmitMotionEvent
    BY <2>12, <2>14, PathOperators DEF EmitMotionEvent, Path!MotionStep, Path!EmitMotionEvent
  <2>15. CASE ReportHealth
    BY <1>2, <1>3, <2>15
       DEF ReportHealth, SetEventLogState, Path!MotionStep, Path!ReportHealth, Path!SetEventLogState
  <2>16. CASE PublishResult
    <3>1. UpdateMotion(result.motion_detected, gate.event_count) =>
            Path!UpdateMotion(result.motion_detected, gate.event_count)
      BY DEF UpdateMotion, Path!UpdateMotion
    <3> QED
      BY <1>2, <1>4, <2>16, <3>1, PathOperators
         DEF PublishResult, Path!MotionStep, Path!PublishResult
  <2>17. CASE MotionExit
    BY <1>2, <1>4, <2>17, PathOperators DEF MotionExit, Path!MotionStep, Path!MotionExit
  <2> QED
    BY <2>1, <2>2, <2>3, <2>4, <2>5, <2>6, <2>7, <2>8, <2>9, <2>10, <2>11, <2>13, <2>14, <2>15,
       <2>16, <2>17 DEF MotionStep
<1> QED
  BY <1>1, <1>5

\* Of main only its stop request is a step there; the creation of the two threads
\* is none, as they are there from the start.
LEMMA PathMain ==
  ASSUME LifeInv, ExitInv, Main
  PROVE  Path!StopThreads \/ UNCHANGED Path!vars
<1>1. CASE (StopDaemon \/ Abort) /\ UNCHANGED <<captureVars, workerVars>>
  <2>1. ~stop
    BY <1>1 DEF StopDaemon, Abort, MainGoes, ExitInv
  <2> QED
    BY <1>1, <2>1 DEF StopDaemon, Abort, RequestStop, BroadcastFrameReady,
                      Path!StopThreads, Path!RequestStop, Path!BroadcastFrameReady
<1>2. CASE ServerStep /\ ~StopDaemon /\ ~Abort /\ UNCHANGED <<captureVars, workerVars>>
  <2>1. UNCHANGED <<cameraVars, frameVars, motion_enabled, motionVars, event_log_state, stopVars,
                    frame_ready>>
    BY <1>2 DEF ServerStep, NoCaptureThread, NoMotionThread, Listen, Serve, NoConnection, PollFails,
                AcceptClient, SpawnClient, NoClientThread, WaitForClients, Destroy, Exit,
                AddWorker, RemoveWorker, SleepOnClientsDone
  <2> QED
    BY <1>2, <2>1
<1>3. CASE SpawnCapture
  BY <1>3 DEF SpawnCapture, MainGoes, LifeInv
<1>4. CASE SpawnMotion
  BY <1>4 DEF SpawnMotion, MainGoes, LifeInv
<1>5. CASE JoinCapture \/ AbortJoin \/ JoinMotion
  BY <1>5 DEF JoinCapture, AbortJoin, JoinMotion, Exit
<1> QED
  BY <1>1, <1>2, <1>3, <1>4, <1>5 DEF Main

\* Clients change nothing that is visible there.
LEMMA PathClients ==
  ASSUME TypeOK, NEW c \in Clients, ClientThread(c)
  PROVE  UNCHANGED Path!vars
<1>1. /\ UNCHANGED <<cameraVars, frameVars, motion_enabled, motionVars, event_log_state, stopVars>>
      /\ \A t \in Threads \ {c} : t \in frame_ready' <=> t \in frame_ready
  BY ClientEffects DEF ClientThread, TypeOK
<1>2. MotionThread \in Threads \ {c}
  BY ThreadAssumption DEF Threads
<1>3. UNCHANGED (frame_ready \cap {MotionThread})
  BY <1>1, <1>2
<1> QED
  BY <1>1, <1>3 DEF ClientThread

LEMMA PathStep == TypeOK /\ LifeInv /\ ExitInv /\ [Next]_vars => [Path!Next]_Path!vars
<1> SUFFICES ASSUME TypeOK, LifeInv, ExitInv, [Next]_vars PROVE Path!Next \/ UNCHANGED Path!vars
  OBVIOUS
<1> USE DEF Path!Next
<1>1. CASE Main
  BY <1>1, PathMain
<1>2. CASE CaptureThread
  BY <1>2, PathCapture
<1>3. CASE MotionWorkerThread
  BY <1>3, PathWorker
<1>4. CASE \E c \in Clients : ClientThread(c)
  BY <1>4, PathClients
<1>5. CASE Signal
  BY <1>5 DEF Signal, RaiseSignal, Path!Signal, Path!RaiseSignal
<1>6. CASE Camera
  BY <1>6 DEF Camera, CameraEnvironment, PlugIn, Unplug,
              Path!Camera, Path!CameraEnvironment, Path!PlugIn, Path!Unplug
<1>7. CASE Clock
  BY <1>7 DEF Clock, Tick, Path!Clock, Path!Tick
<1>8. CASE Network \/ Exited \/ UNCHANGED vars
  BY <1>8 DEF Network, PeerLeaves, Exited
<1> QED
  BY <1>1, <1>2, <1>3, <1>4, <1>5, <1>6, <1>7, <1>8 DEF Next

\* The daemon implements MotionPath for any number of clients: what is proved of
\* MotionPath holds of the capture thread and the motion worker inside the daemon.
THEOREM DaemonIsMotionPath == Spec => ImplementsMotionPath
BY PathInit, PathStep, CountInit, LifeInit, ExitInit, CountStep, LifeStep, ExitStep, TypeCorrect, PTL
   DEF Spec, ImplementsMotionPath, Path!Spec

=============================================================================
