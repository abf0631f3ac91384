------------------------------ MODULE HttpServer ------------------------------
(***************************************************************************)
(* The main thread (main.c and http_server_run) and the client threads of  *)
(* the HTTP server (client_thread_main in http_server.c).                  *)
(*                                                                         *)
(* A step ends where a thread takes the lock of AppState or may block.     *)
(* Clients are connection slots: a slot is used again once its thread has  *)
(* ended.  The peer behind a connection may leave at any time, and says so *)
(* only to a thread that touches the socket: the first send after that may *)
(* still succeed, the next one fails.                                      *)
(*                                                                         *)
(* Left out: what requests and responses look like.  A request is for the  *)
(* stream, for anything else (one response, then the connection closes),   *)
(* or none at all (silence for 3 s, an early close, garbage).              *)
(***************************************************************************)
EXTENDS AppState, Integers

VARIABLES
  main_pc,      \* where main is
  http_result,  \* what http_server_run returned
  exit_code,    \* of the process, NoExit while it runs
  client_pc,    \* where each client thread is
  sequence,     \* the last frame each client was handed
  peer          \* the other end of each connection

serverVars == <<main_pc, http_result, exit_code>>
clientVars == <<client_pc, sequence, peer>>
httpVars == <<serverVars, clientVars>>

\* The spawn steps create a thread; "abort" and "abort_join" are the way out
\* when the second one cannot be created; "serve" is the condition of the loop
\* in http_server_run, "poll" its poll; "spawn_client" creates a client thread;
\* the rest is the end of main.
MainPCs == {"spawn_capture", "spawn_motion", "abort", "abort_join", "listen", "serve", "poll",
            "spawn_client", "request_stop", "join_capture", "join_motion", "wait_clients",
            "destroy", "exited"}

\* "accepted" is a connection whose thread is not created yet.  In a client
\* thread: "recv" for the request; "respond" to it; or send the "header" of a
\* stream, "join" the stream's clients, and then the loop of handle_stream:
\* its condition "stream", state_wait_frame "wait", "send"; "leave" behind the
\* loop; "close" the end of the thread.
ClientPCs == {"free", "accepted", "recv", "respond", "header", "join", "stream", "wait", "send",
              "leave", "close"}
Peers == {"open", "closed", "reset"}

NoExit == -1
SENSE_EXIT_OK == 0
SENSE_EXIT_FATAL == 1

HttpTypeOK ==
  /\ main_pc \in MainPCs
  /\ http_result \in {0, -1}
  /\ exit_code \in {NoExit, SENSE_EXIT_OK, SENSE_EXIT_FATAL}
  /\ client_pc \in [Clients -> ClientPCs]
  /\ sequence \in [Clients -> Nat]
  /\ peer \in [Clients -> Peers]

HttpInit ==
  /\ main_pc = "spawn_capture"
  /\ http_result = 0
  /\ exit_code = NoExit
  /\ client_pc = [c \in Clients |-> "free"]
  /\ sequence = [c \in Clients |-> 0]
  /\ peer = [c \in Clients |-> "open"]

-----------------------------------------------------------------------------
(* main, up to http_server_run.  The creation of the two threads involves   *)
(* their variables and is in Daemon.                                        *)

MainGoes(from, to) == main_pc = from /\ main_pc' = to

\* The process ends: no thread is left, and nobody can be asleep.
Exit(from, code) ==
  /\ MainGoes(from, "exited")
  /\ exit_code' = code
  /\ UNCHANGED <<http_result, appVars, clientVars>>

\* pthread_create fails for the capture thread
NoCaptureThread == Exit("spawn_capture", SENSE_EXIT_FATAL)

\* pthread_create fails for the motion worker: the capture thread has to end
NoMotionThread ==
  /\ MainGoes("spawn_motion", "abort")
  /\ UNCHANGED <<http_result, exit_code, appVars, clientVars>>

Abort ==
  /\ MainGoes("abort", "abort_join")
  /\ RequestStop
  /\ UNCHANGED <<http_result, exit_code, clientVars>>

\* socket, bind and listen, one of which may fail
Listen ==
  /\ main_pc = "listen"
  /\ \/ main_pc' = "serve" /\ UNCHANGED http_result
     \/ main_pc' = "request_stop" /\ http_result' = -1
  /\ UNCHANGED <<exit_code, appVars, clientVars>>

-----------------------------------------------------------------------------
(* http_server_run.                                                         *)

Serve ==
  /\ main_pc = "serve"
  /\ main_pc' = IF Stopping THEN "request_stop" ELSE "poll"
  /\ UNCHANGED <<http_result, exit_code, appVars, clientVars>>

\* poll times out after 500 ms or is interrupted; or there is a connection, but
\* no memory, no descriptor or no timeout for it
NoConnection ==
  /\ MainGoes("poll", "serve")
  /\ UNCHANGED <<http_result, exit_code, appVars, clientVars>>

\* poll fails, or the listening socket has an error
PollFails ==
  /\ MainGoes("poll", "request_stop")
  /\ http_result' = -1
  /\ UNCHANGED <<exit_code, appVars, clientVars>>

AcceptClient(c) ==
  /\ MainGoes("poll", "spawn_client")
  /\ client_pc[c] = "free"
  /\ AddWorker
  /\ client_pc' = [client_pc EXCEPT ![c] = "accepted"]
  /\ UNCHANGED <<http_result, exit_code, sequence, peer>>

SpawnClient(c) ==
  /\ MainGoes("spawn_client", "serve")
  /\ client_pc[c] = "accepted"
  /\ client_pc' = [client_pc EXCEPT ![c] = "recv"]
  /\ UNCHANGED <<http_result, exit_code, appVars, sequence, peer>>

\* pthread_create fails for the client thread
NoClientThread(c) ==
  /\ MainGoes("spawn_client", "serve")
  /\ client_pc[c] = "accepted"
  /\ RemoveWorker
  /\ client_pc' = [client_pc EXCEPT ![c] = "free"]
  /\ peer' = [peer EXCEPT ![c] = "open"]
  /\ UNCHANGED <<http_result, exit_code, sequence>>

-----------------------------------------------------------------------------
(* main, after http_server_run.  The joins are in Daemon.                   *)

\* Mutant: main sets the flag itself, and wakes nobody.
StopDaemon_FlagOnly ==
  /\ MainGoes("request_stop", "join_capture")
  /\ stop' = TRUE
  /\ UNCHANGED <<http_result, exit_code, clientVars, cameraVars, frameVars, motion_enabled,
                 motionVars, event_log_state, countVars, g_signal_stop, frame_ready, clients_done>>

StopDaemon ==
  /\ MainGoes("request_stop", "join_capture")
  /\ RequestStop
  /\ UNCHANGED <<http_result, exit_code, clientVars>>

\* Mutant: main waits for the streams only.
WaitForClients_StreamsOnly ==
  /\ main_pc = "wait_clients"
  /\ ~clients_done
  /\ IF client_count > 0
     THEN SleepOnClientsDone /\ UNCHANGED main_pc
     ELSE main_pc' = "destroy" /\ UNCHANGED appVars
  /\ UNCHANGED <<http_result, exit_code, clientVars>>

\* state_wait_for_clients, which has no timeout
WaitForClients ==
  /\ main_pc = "wait_clients"
  /\ ~clients_done
  /\ IF worker_count > 0
     THEN SleepOnClientsDone /\ UNCHANGED main_pc
     ELSE main_pc' = "destroy" /\ UNCHANGED appVars
  /\ UNCHANGED <<http_result, exit_code, clientVars>>

\* Mutants: the exit code of a configuration error; the signal forgotten.
Destroy_WrongCode ==
  Exit("destroy", IF http_result < 0 /\ ~g_signal_stop THEN 78 ELSE SENSE_EXIT_OK)
Destroy_ForgetsSignal ==
  Exit("destroy", IF http_result < 0 THEN SENSE_EXIT_FATAL ELSE SENSE_EXIT_OK)

\* state_destroy and the exit code
Destroy ==
  Exit("destroy", IF http_result < 0 /\ ~g_signal_stop THEN SENSE_EXIT_FATAL ELSE SENSE_EXIT_OK)

ServerStep ==
  \/ NoCaptureThread \/ NoMotionThread \/ Abort
  \/ Listen \/ Serve \/ NoConnection \/ PollFails
  \/ \E c \in Clients : AcceptClient(c) \/ SpawnClient(c) \/ NoClientThread(c)
  \/ StopDaemon \/ WaitForClients \/ Destroy

-----------------------------------------------------------------------------
(* The client threads.                                                      *)

ClientGoes(c, from, to) ==
  /\ client_pc[c] = from
  /\ client_pc' = [client_pc EXCEPT ![c] = to]

\* recv waits for 3 s at most; a peer that is gone has sent its request or not
Receive(c) ==
  /\ \E request \in {"respond", "header", "close"} : ClientGoes(c, "recv", request)
  /\ UNCHANGED <<appVars, sequence, peer>>

\* handle_status, the index page, 404 and 405: the connection closes either way
Respond(c) ==
  /\ ClientGoes(c, "respond", "close")
  /\ UNCHANGED <<appVars, sequence, peer>>

\* send_all: with the peer there, it succeeds, or the peer takes too long to
\* read (3 s); with the peer gone, it fails sooner or later
Sends(c) == peer[c] # "reset" /\ peer' = [peer EXCEPT ![c] = IF @ = "closed" THEN "reset" ELSE @]
SendFails(c) == UNCHANGED peer

SendHeader(c) ==
  /\ \/ Sends(c) /\ ClientGoes(c, "header", "join")
     \/ SendFails(c) /\ ClientGoes(c, "header", "close")
  /\ UNCHANGED <<appVars, sequence>>

JoinStream(c) ==
  /\ ClientGoes(c, "join", "stream")
  /\ AddStreamClient
  /\ UNCHANGED <<sequence, peer>>

StreamLoop(c) ==
  /\ ClientGoes(c, "stream", IF Stopping THEN "leave" ELSE "wait")
  /\ UNCHANGED <<appVars, sequence, peer>>

InFrameWait(c) == client_pc[c] = "wait" /\ c \notin frame_ready

FrameSleep(c) ==
  /\ InFrameWait(c)
  /\ FrameWaitBlocks(sequence[c])
  /\ SleepOnFrameReady(c)
  /\ UNCHANGED clientVars

\* back to the loop condition, the socket untouched
FrameTimeout(c) ==
  /\ ClientGoes(c, "wait", "stream")
  /\ TimeOutOnFrameReady(c)
  /\ UNCHANGED <<sequence, peer>>

\* the daemon is stopping, or there is no memory for the frame
FrameRefused(c) ==
  /\ InFrameWait(c)
  /\ ~FrameWaitBlocks(sequence[c])
  /\ ClientGoes(c, "wait", "leave")
  /\ UNCHANGED <<appVars, sequence, peer>>

TakeFrame(c) ==
  /\ InFrameWait(c)
  /\ ~FrameWaitBlocks(sequence[c])
  /\ ~Stopping
  /\ ClientGoes(c, "wait", "send")
  /\ sequence' = [sequence EXCEPT ![c] = frame_sequence]
  /\ UNCHANGED <<appVars, peer>>

\* Mutant: a failed send skips the end of handle_stream.
SendFrame_Returns(c) ==
  /\ \/ Sends(c) /\ ClientGoes(c, "send", "stream")
     \/ SendFails(c) /\ ClientGoes(c, "send", "close")
  /\ UNCHANGED <<appVars, sequence>>

SendFrame(c) ==
  /\ \/ Sends(c) /\ ClientGoes(c, "send", "stream")
     \/ SendFails(c) /\ ClientGoes(c, "send", "leave")
  /\ UNCHANGED <<appVars, sequence>>

LeaveStream(c) ==
  /\ ClientGoes(c, "leave", "close")
  /\ RemoveStreamClient
  /\ sequence' = [sequence EXCEPT ![c] = 0]
  /\ UNCHANGED peer

\* The last use of the state by this thread.  The slot is ready for another
\* peer.
CloseClient(c) ==
  /\ ClientGoes(c, "close", "free")
  /\ RemoveWorker
  /\ peer' = [peer EXCEPT ![c] = "open"]
  /\ UNCHANGED sequence

ClientStep(c) ==
  \/ Receive(c) \/ Respond(c)
  \/ SendHeader(c) \/ JoinStream(c) \/ StreamLoop(c)
  \/ FrameSleep(c) \/ FrameTimeout(c) \/ FrameRefused(c) \/ TakeFrame(c)
  \/ SendFrame(c) \/ LeaveStream(c) \/ CloseClient(c)

\* The environment: a peer leaves.
PeerLeaves(c) ==
  /\ client_pc[c] \notin {"free", "close"}
  /\ peer[c] = "open"
  /\ peer' = [peer EXCEPT ![c] = "closed"]
  /\ UNCHANGED <<appVars, serverVars, client_pc, sequence>>

=============================================================================
