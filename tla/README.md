# The sense daemon in TLA+

`app/daemon` is a small C daemon for an i.MX6ULL board. It reads MJPEG frames from a
UVC camera, serves them and a `/status` document over HTTP, looks for motion in them
and appends motion events to a log file. It survives the loss of its camera and of its
log, and systemd restarts it when it fails. This directory models it in TLA+: the
modules are translated from the C code, TLC checks them on small instances, and TLAPS
proves every invariant and every refinement the runs check, for instances of every size. Beside the threads it
models the memory the pictures move through, the sample clock, the configuration, and
systemd with its restarts.

Source paths below are relative to the repository, files without a directory are in
`app/daemon/`.

## 1. The system

### Threads

| thread | code | loop | blocks in |
|---|---|---|---|
| main | `main.c`, `http_server_run` | poll, accept, create a client thread; then the shutdown | `poll` (500 ms), `pthread_join`, `clients_done` |
| capture thread | `capture_v4l2.c` | find a camera, set it up, publish frames; after a failure start over | `select` (2 s), the retry delay (2 s in steps of 200 ms) |
| motion worker | `motion_worker.c` with `motion_pipeline.c` | wait for the next sample, copy the latest JPEG, decode, compare, emit, log, report | `nanosleep`, `frame_ready` (1 s) |
| client thread, one per connection, detached | `client_thread_main` in `http_server.c` | read a request, respond; or send frames for as long as the stream lasts | `recv`, `send` (3 s), `frame_ready` (1 s) |

They meet in one place, `AppState` (`state.c`, `sense.h`): one mutex, two condition
variables, a slot that holds the latest JPEG, and what `/status` shows. A signal handler
sets `g_signal_stop`, without a lock and without waking anybody.

### Components

| component | state | operations | what makes it correct |
|---|---|---|---|
| Shared state, `state.c` | frame slot with sequence and generation, camera and event log health, motion result, two counters, stop flags, `frame_ready`, `clients_done` | publish, wait (two kinds), camera active / unavailable, log ok / unavailable, update / reset motion, count up / down, request stop, wait for clients | no lost wake-up; counters exact; nobody uses it after `state_destroy` |
| Capture thread, `capture_v4l2.c` | descriptor, mapped buffers, `streaming` | scan, set up, dequeue, publish, requeue, clean up, mark unavailable, retry | every failure leads back to the scan; a stop ends it; what was set up is undone |
| Motion worker, `motion_worker.c` | its snapshot, generation of the last sample, sample deadline, measured rate | one loop iteration, with five answers of the snapshot wait | never compares two sessions; a stale verdict does not stay; its reports are honest |
| Motion pipeline, `motion_pipeline.c` | decoder buffer, detector, gate, log path | process a JPEG, reset the baseline, destroy | a reset forgets the baseline and nothing else; a failed step leaves no half result |
| Motion detector, `motion_detector.c` | previous grey picture and its buffer, which only grows | compare, reset, destroy | its extent checks are exact in 32-bit arithmetic; it compares whole pictures of one size |
| JPEG decoder, `jpeg_decoder.c` | grey buffer, used again if large enough | decode, release | an error in any row leaves no block behind and no half picture to compare |
| Event gate, `motion_event_gate.c` | phase, start of the cooldown, count | update | events at least a cooldown apart; count saturates |
| Event log, `event_log.c` | the file | append one line | a logged event stays in the file, what breaks off harms one other at most; the caller learns of a failure |
| HTTP server, `http_server.c` | listening socket, connections | accept, status, index, stream | a thread counted is a thread that ends and is counted down; a failure ends the server, not the process's manners |
| Main, `main.c` | exit code | create, serve, stop, join, destroy | ends whatever happens; exit code 0 only when told to stop |
| Status JSON, `status_json.c` | none | escape a text, format a snapshot | stays inside its buffers, cuts only between characters |
| Configuration, `config.c` | none after start | parse, validate | the daemon runs with what the file says; what is accepted the threads can work with |
| systemd unit, `systemd/imx6ull-sense.service` | restart timer, start limit | restart on failure after 3 s, at most 3 starts in 30 s, never after exit code 78 | a daemon told to stop stays down, a failed one comes back, none is restarted in a storm |
| scripts, benchmark tool, site, tests | | | not part of the running daemon |

### How they interact

* Capture publishes into the slot and broadcasts `frame_ready`; client threads and the
  motion worker wait for it there, each with the sequence number of the frame it had last.
  A slow reader skips frames, it never delays the camera.
* Every capture session has a generation. The slot keeps the last frame of a lost camera,
  and its `frame_generation` tells the worker that this frame is from another session.
* The worker works on a private copy. Between the copy and its report the lock is free: the
  capture thread may lose the camera, clear `motion_state` and find the camera again.
* main counts a connection before it creates its thread. The thread counts itself down as
  its last act. main waits for zero before it destroys the state.
* In the worker a picture passes three buffers: the snapshot, the decoder's grey frame, the
  detector's baseline. Each is kept from sample to sample and grows when it has to.
* The process talks to systemd by its exit code alone; what outlives it is the event log.
* A stop is requested once, by main, after `http_server_run` returned; it is the
  broadcast of that request which follows up a signal.

### What is hard to test here

Interleavings around the two condition variables; a report that arrives after the world
changed; camera sessions that come and go between two samples; failures half way (the
second thread cannot be created, a write stops in the middle of a line, a buffer cannot be
mapped, a JPEG breaks off in any row, an allocation fails); buffers used again for pictures
of another size; arithmetic that wraps; the end of the process with clients in any state, or in
the middle of a line of the log. The list, line by line and with the properties that cover it, is `hazards` in `PROJECT.json`.

## 2. The modules

```
EventGate   EventLog          AppState
      \        |             /   |    \
       `--- MotionWorker ---'  Capture  HttpServer
                 |   \           |  \      /
                 |    `-- MotionPath  \   /        EventLimiter
                 |           :   |     Daemon      (implemented by MotionPath)
                 |           :   |       | `---- Daemon_proofs
                 |           :  MotionPath_proofs     /
                 |           :        |              /
                 |           :  Threads_proofs -----'
                 `--------------------'
AppState <- CaptureV4L2 (implements Capture) <- CaptureV4L2_proofs
AppState <- StatusReport <- StatusReport_proofs

FrameLayout <- Heap <- JpegDecoder, MotionDetector <- PicturePath (implements PictureDifference)
PicturePath <- PicturePath_proofs
EventGate <- GateClock        EventLog <- Supervisor <- Supervisor_proofs
FrameLayout, GateClock, JsonEscape, Configuration <- MCFunctions
SampleClock, MCFunctions <- PureFunctions_proofs
```

`Daemon` also implements `MotionPath` (`ImplementsMotionPath`, model-checked and proved): what is
proved of the daemon without HTTP holds, as far as safety goes, of the whole.

| module | models | correspondence |
|---|---|---|
| `AppState` | `state.c` | one operator per `state_*` function. A function holds the mutex for its whole body, so it is one atomic step; the two waits are split where `pthread_cond_timedwait` lets the mutex go. `frame_ready` is the set of threads asleep on that condition variable, a broadcast empties it. |
| `Capture` | `capture_v4l2.c`, control | `capture_pc` is the position in `capture_thread_main` / `capture_once`. A step ends where the thread takes the lock of `AppState` or may block. `plugged`, `attached` and `faults` are the camera: it can be unplugged and replugged at any time and can fail while plugged. |
| `CaptureV4L2` | `capture_v4l2.c`, resources | the same thread with one action per ioctl of the setup. `fd_open`, `mappings` and `queued` are what the kernel holds for the process; `start`, `mapped_count`, `index` and `streaming` are the locals of `capture_once`. `pc` "cleanup" is the exit path with result -1, "close" the one with 0. |
| `StatusReport` | error half of `state.c`, null rule of `status_json.c` | the four error fields, `CLOCK_REALTIME`, and `state_snapshot` as operators of the state; `latest` and `clock` are history |
| `EventGate` | `motion_event_gate.c` | pure operators on a gate record |
| `EventLog` | `event_log.c` | the file as the pieces of records in it, and the outcomes of an append: written, not opened, failed before or after the first byte, written but not closed. `IsLine`: a whole piece behind a torn one is no line of its own, as nothing writes a newline first |
| `MotionWorker` | `motion_worker.c`, `motion_pipeline.c` | `motion_pc` is the position in the loop; `snapshot`, `last_generation`, `baseline`, `gate` the thread's own data; `result` what the pipeline returned |
| `MotionPath` | capture thread, worker and camera together | the daemon without HTTP; the signal and the stop request of main are actions |
| `HttpServer` | `main.c`, `http_server.c` | `main_pc`, and one `client_pc` per connection slot |
| `Daemon` | all threads | adds thread creation, joins and the process's end |
| `FrameLayout` | size arithmetic of `motion_detector.c` and `jpeg_decoder.c` | the guards and products in a `size_t` of `SizeMax + 1` values; `Fits` is the reference in whole numbers |
| `Heap` | `malloc`, `realloc`, `free` (external) | the allocated blocks and what each byte holds: of which picture, row and column, or garbage |
| `JpegDecoder` | `jpeg_decoder.c` | `gray` is the output frame, `decoding` the locals of `jpeg_gray_decode`; one step per scanline; `DecodeFails` is every way out that is no success |
| `MotionDetector` | `motion_detector.c` | `detector` is the struct; `compared` records which pairs of bytes the loop looked at |
| `PicturePath` | `motion_pipeline.c`, the pixels | decoder and detector on one heap, `path_pc` the position in `motion_pipeline_process_jpeg` |
| `PictureDifference` | the promise of the two | abstract: a picture is compared with the last one accepted, whole with whole, or not at all |
| `SampleClock` | `wait_until_sample`, `advance_sample_deadline`, `observe_sample_rate` and the loop around them | `clock_pc` is the position in the loop; a sample is an outcome and takes any time |
| `GateClock` | `motion_event_gate.c`, as written | `UpdateAt` is `motion_event_gate_update` in unsigned arithmetic, one case per return statement, for any `now_ms` |
| `Configuration` | `config.c`, the arguments of `main` | `Starts` is one function from the arguments and the file to the configuration or the exit code; `ParseConfigJson` folds `ReadMember`, one turn of the parser's loop, over the members |
| `JsonEscape` | `json_escape` of `status_json.c` | `Escaped` folds `EscapeCharacter`, one turn of the loop, over the characters |
| `Supervisor` | `imx6ull-sense.service` | `unit` is systemd's state of the service, the daemon is reduced to loading, serving and writing an event; the log is on the disk; time is kept as ages (`restart_in`, `window`, `starts`), so the run of the service has no end |
| `EventLimiter` | the promise of the gate | abstract: two events are at least `Cooldown` apart |
| `MCMotionPath`, `MCDaemon` | | symmetry sets, and the two instances `DaemonSafety` goes through |
| `MCFunctions` | | calls of the pure functions with every argument of small instances, one after the other; `call` is the last one with its result, and `Calls` the specification |
| `MotionPath_proofs`, `Daemon_proofs`, `CaptureV4L2_proofs`, `StatusReport_proofs`, `PicturePath_proofs`, `Supervisor_proofs` | | the theorems about the module in their name |
| `PureFunctions_proofs` | | the theorems about `SampleClock` and about the calls of `MCFunctions` |
| `Threads_proofs` | | what the operations of `AppState`, `Capture` and `MotionWorker` do to types, for `MotionPath_proofs` and `Daemon_proofs` |

Definitions keep the names of the C code where there is one. Operators named
`Action_Something` with a comment that starts with "Mutant" are deliberately wrong versions
of the definition that follows them; no specification uses them. They document which bug
each property would catch.

Abstractions. A picture is a member of `Scenes`; two pictures show motion exactly when they
differ, so thresholds, scores, JPEG bytes and sizes are gone. What reached the log file of an
event's record is a *piece*, whole or torn; a line of the file ends with a whole piece. A request is one of: for the stream, for something else, none.
The peer of a connection is open, closed or reset: after it left, one more `send` may
succeed, then they fail. Of an error text only its origin is kept, and only in
`StatusReport`; the camera's frame rate and resolution are left out. The scan of `/dev/video*` is one step that
ends with an open descriptor or with none.

`Capture` is what the composed models use, `CaptureV4L2` what the code does: the first has
one "setup" step where the second has one per ioctl and buffer, and no retry delay. That the
second implements the first (`ImplementsCapture`, model-checked and proved) is what entitles
`MotionPath` and `Daemon` to the smaller one for safety.

## 3. The runs

| run | instance | question |
|---|---|---|
| `MotionPathSafety` | 2 pictures, 4 frames, 1 camera fault, clock 0..2, cooldown 2, count limit 1, motion on or off | `TypeOK`, `NoLostWakeup`, `SessionFence`, `CountHonest`, `LogHealthHonest`, `TornLineAnnounced`, `LateEventsBounded`, and that `MotionPath` implements `EventLimiter` (`EventsLimited`) |
| `MotionPathLiveness` | 2 pictures, 2 frames, 1 fault, with fairness | `StaleMotionCleared`, `CameraRecovers`, `SignalStopsThreads` |
| `CaptureV4L2` | 4 buffers, 2 naps per retry delay, 3 frames, 2 faults | `NothingLeaks`, `BuffersAccounted`, `RetriesPaced`, and that it implements `Capture` (`ImplementsCapture`) |
| `StatusReport` | 3 sessions, clock 1..4, which may be set | `DegradedExplained`, `ErrorsInOrder` |
| `StatusReportClockSet` | the same, clock may be set | violation: of two errors the older one is shown |
| `DaemonSafety` | all threads; with motion detection 1 connection, 1 frame, 1 fault, clock 0..1; without it any three of 2 connections, 2 frames and 1 fault together | `TypeOK`, `ClientsCounted`, `StateOutlivesThreads`, `NoLostWakeup`, `ExitCodeHonest`, and that it implements `MotionPath` (`ImplementsMotionPath`) |
| `DaemonLiveness` | 1 connection, motion on, with fairness but without timeouts of `frame_ready` | `StopEndsProcess`: also when it is the second thread that cannot be created; with `ExitCodeHonest` this says that a signal ends the daemon with exit code 0, also if its server fails meanwhile |
| `PureFunctions` | `size_t` and clock of 4 bits, cooldown 4; texts to 5 characters, buffers to 12 bytes; files of up to 2 members, values at every bound, a wide and a narrow `long` | `LayoutExact`, `ActsLikeEventGate`, `LongestPrefix`, `ConfigIsWhatTheFileSays`, `AcceptedIsUsable` |
| `PicturePath` | 3 pictures up to 3x3, `size_t` of 3 bits, 3 blocks | `TypeOK` (with `CapacitiesTrue`: a recorded capacity is the size of its block), `InBounds`, `BlocksOwnedOnce`, and that it implements `PictureDifference` (`ComparesWholePictures`) |
| `SampleClock` | interval 3, start 0..2, clock to 13 | `OneSamplePerSlot`, `NextSlotIsDeadline`, `RateHonest` |
| `Supervisor` | restart after 1, at most 2 starts in 4, 3 events, with fairness | `StaysDown`, `NoRestartStorm`, `LogDamageBounded`, `CrashedComesBack` |
| `DaemonReclaim` | 1 connection, motion off, with fairness | violation: a stream whose peer left is not reclaimed while there is no camera |

### Bounds

* `MaxFrames` bounds the frames a camera delivers. The hazards of the worker need a
  baseline, a changed picture, and a frame of another session after it: three frames. Four
  leave room for a skipped one. With clients, two frames make a reader skip one.
* `MaxFaults` bounds unplugs and faults of a plugged camera together. One fault is enough
  for a second session; a camera that is merely absent costs nothing, so the retry loop is
  never cut short.
* `Cooldown = 2` with a clock of 0..2 gives samples before, at and after the end of a
  cooldown, and a second event. The clock stops at `MaxTime`; nothing waits for it.
* `CountLimit = 1` stands for `UINT64_MAX`: the second event meets the saturated counter.
* `BufferCount = 4` is `CAPTURE_BUFFER_COUNT`; the driver may grant two to four, so that a
  setup can fail after any number of buffers. Three frames take every position of a buffer
  in hand, two faults make a failed session after a failed session. `RetryNaps = 2` stands for
  10: a delay can be cut short by a stop before, between and after its naps.
* In `StatusReport` four readings of the clock put an error before, at and after another one,
  with room for a recovery between them.
* Symmetry is used in the safety runs only: pictures, and connection slots, are
  interchangeable there and no property names one. The liveness runs have none.
* `DaemonSafety` goes through two instances in one run, which `SmallInstance` (`MCDaemon`)
  separates: `motion_enabled` never changes, and a state at the edge of an instance is checked
  but not continued. With motion detection the threads of every kind meet, one of each. Without
  it two clients overtake each other at every point of their life; connections open at a time,
  frames published and faults may be any three together, and the clock stands still, as only
  events are dated by it. A slot is used again by the next connection, so their number over a run is
  not bounded. One picture: what the worker sees in it is the subject of the other runs.
* `PureFunctions`, the layout check: with `SizeMax = 15` it has every relation of product, extent and limit, off by one
  on both sides. In `PicturePath` `SizeMax = 7` makes 3x3 wrap to a small number while 2x3 and 1x3
  fit, and two pictures of 1x2 and 2x1 have as many pixels; three pictures are a baseline, one
  that fails or changes the size, and one that is compared. Three blocks are the most that are
  alive at once (grey frame, new target, baseline), so that `malloc` can only fail by choice.
* `SampleClock`: with an interval of 3 a sample can end before, at and after a deadline, in the
  next slot or the one after; 13 ticks are four slots, enough for a late sample after a
  late sample and for a rate over two intervals on both sides of a reset.
* `PureFunctions`, the gate: every call has any of the 16 times, before and after the last, on
  any gate the type allows, so the gate's history is not bounded.
* `PureFunctions`, the configuration: a member repeated needs two; the validation is a conjunction
  over fields, so that two fields out of range are no more than one. TLC's integers have 32 bits, so
  the model's `int` has 25; the largest documented bound, 3600000, is below it. The wide `long` holds
  numbers that would wrap into a valid one (`UINT_MAX + 2`).
* `PureFunctions`, `json_escape`: 12 bytes are twice five characters and two NULs, from "nothing fits"
  to "all fits".
* `Supervisor`: `UnitAssumption` is what matters of 3 s, 30 s and 3, that a daemon which fails at once
  runs into the limit. Ages stop growing past the interval, so the service may run for ever. Three events are
  one that breaks off, the one on the same line, and the next, which has a line of its own again.
* Deadlock is checked in every run but `SampleClock`, which stops at the bound of its clock.
  `Stopped`, `Exited` and `Destroyed` are the only states in which nothing happens any more, and they
  stutter explicitly; in `PureFunctions` a call is always followed by the next one.

### Fairness

Weak fairness of each thread, and one strong fairness. A thread that can take a step takes it
because the kernel runs it; its waits end by themselves: `frame_ready` after 1 s, `select`
after 2 s, `poll` after 500 ms, `recv` and `send` after 3 s. The two waits without a
timeout, `pthread_join` and `clients_done`, are not enabled until what they wait for has
happened. The strong one is that a thread which comes back again and again to a descriptor
whose camera is gone is told so at last (`StreamFails` with `~attached`): `select` on it may be
interrupted, but not for ever, and times out after 2 s. In `MotionPath`, where main is absent, `g_signal_stop /\ StopThreads` is fair: main
polls the flag every 500 ms. `DaemonLiveness` uses the weaker `UntimedFairSpec`: the deadlines of
`frame_ready` are `CLOCK_REALTIME`, and while somebody sets that clock back a wait may last; a thread
asleep there is owed nothing until it is woken. The process ends all the same, on the broadcast
of the stop request. `DaemonReclaim`, which has to refute more, keeps the stronger one.

In `Supervisor` the clock goes on, a restart that is due happens, and a daemon that loads gets
through its start or ends; no fairness for crashes, the user, or a serving daemon.

No fairness for the camera, the clock, the user or the peers:
`CameraRecovers` asks for nothing but a camera that stays plugged in. Faults of a plugged
camera are bounded by `MaxFaults`, which is the usual reading of *recovers*: a camera that
fails for ever is not promised anything.

### What the violations mean

Two statements of the documentation do not agree with the code, and TLC shows how.

* `docs/stage_summaries/M2_mjpeg_browser_stream.md:42`: with the socket timeouts, the thread of
  a client that disconnects can be reclaimed. `handle_stream` touches the socket only with a
  frame in hand; without a camera it goes from timeout to timeout.
* `docs/reference/http-api.md:67`: `last_error_at` is the monotonic time of the most recent error.
  `realtime_ms` reads `CLOCK_REALTIME`, and `state_snapshot` takes the greater stamp for the later
  error. On a board whose clock is set back after the first of two errors, `/status` keeps
  showing the first. `ErrorsInOrder` shows that this is the only way: the comparison is right
  as long as nobody sets the clock back while an error persists.

Three more do not agree with it either. For these a passing property says what does hold.

* `docs/reference/http-api.md:66`: `last_error` is null when there is no capture error.
  `state_snapshot` also reports the error of the event log, so it is not null while the camera
  streams and only the log is unavailable. `tests/test_state.c:47-52` expects that, and it is what
  `DegradedExplained` states and the run shows, against the sentence of the table.
* `docs/explanation/motion-detection.md:40`: each event is one line of JSON, for parsing line by
  line and for the records kept after a failure. The log is opened with `O_APPEND` and nothing looks
  at its last byte. When the beginning of a line is all that reached the file, because the daemon was
  killed between two writes of it (or within one, at a page boundary) or because a write failed,
  the next record continues that line, `event_log_append_motion` reports success, and no parser finds the
  event on a line of its own. Two invariants say how bad it can get.
  `LogDamageBounded`: the record itself stays in the file, in order, and only an event
  behind a broken-off record loses its line; each interruption costs one logged event at most.
  `TornLineAnnounced`: while the log ends in half a line torn by *this* process, the worker says that the log
  is unavailable, from its next report on. In `MotionPath` the log starts empty, so it says nothing
  of a tail that an earlier process left: of that the new process knows nothing, and `/status` says "ok".
* `docs/architecture/runtime.md:54`: the motion worker produces no event while the camera is
  degraded. It may produce one when the camera is lost between its copy and its emission: the
  event is of a picture taken before the loss, written after it. `LateEventsBounded`: at most one
  such event of each capture session.

## 4. The theorems

Every invariant and every refinement a passing run checks is a theorem. Eight are about `MotionPath`, for every set of pictures, every bound, cooldown
and count limit; six about `Daemon`, for any set of connection slots too, finite or not; four about
`CaptureV4L2`, for every number of buffers from two up, every length of the retry delay and
every number of frames and faults; two about `StatusReport`, for clocks and histories of any
length; four about `PicturePath`, for pictures of every size and every width of `size_t`;
three about `SampleClock`, for every interval and delays of any length; five about the calls of
`MCFunctions`, for every width of `size_t`, clock, `int` and `long`, texts, buffers and files of any length; three about
`Supervisor`, for every setting of the unit file and any number of kills. The types of all
these modules are proved too (`TypeCorrect` in each).

The assumptions are those the modules declare:

* the worker is no connection, `Scenes` is not empty and does not contain the empty slot, motion
  settings are Booleans, `Null` is no block; the bounds of an instance are naturals;
* there are two buffers or more (`capture_once` refuses fewer), a retry delay has a nap or more;
* cooldown, count limit, sample interval and start limit are positive (`config_is_valid` refuses a
  cooldown of 0 and a rate of 0), a cooldown can be told by the clock, and the starts of one burst,
  `RestartSec` apart, fit into the interval of the start limit;
* `SIZE_MAX` is positive, a dimension fits a `size_t`, and `UINT_MAX = 2 * INT_MAX + 1`.

| theorem | states | argument |
|---|---|---|
| `TypeCorrect` | `Spec => []TypeOK` | inductive as it stands; one lemma per module, one step per action |
| `WakeupsKept` | `Spec => []NoLostWakeup` | inductive with `TypeOK`: whoever falsifies a conjunct (publish, end of a session, stop request) empties `frame_ready` in the same step, and the worker's own data do not change while it sleeps |
| `SessionsFenced` | `Spec => []SessionFence` | `FenceInv`: a baseline belongs to `last_generation` in every state, and the worker passes the fence with an empty one; the wait returns only a frame newer than the snapshot |
| `CountsHonest` | `Spec => []CountHonest` | `CountInv`: the gate's count is the capped number of events for as long as the worker lives, and the shared count may lag only while a result that reached the gate is unreported |
| `LogHealthIsHonest` | `Spec => []LogHealthHonest` | `LogInv`: at "health" the result agrees with the last event, and a result without an event means the shared state already did |
| `EventsAreLimited` | `Spec => EventsLimited` | refinement: `LimiterInv` says that a gate in cooldown remembers the last event, and that the cooldown of the last event is over when the gate is idle; an emission is then an `Emit` of the limiter, a tick its `Advance`, everything else a stutter |
| `TornLinesAnnounced` | `Spec => []TornLineAnnounced` | `TornInv`: a file this process left in half a line has had no event logged since, because an append that succeeds leaves a whole line at the end; with `LogInv` the worker's report says so |
| `LateEventsAreBounded` | `Spec => []LateEventsBounded` | `LateInv`: the session of a late event is over, its camera gone or the next session begun, and the worker does not hold a second picture of it, since the wait hands out only pictures of a camera that is active |
| `TypeCorrect` | `Daemon: Spec => []TypeOK` | one lemma for main with its server, one for the clients, and those of `MotionPath` for the other two threads |
| `CountersExact` | `Daemon: Spec => []ClientsCounted` | `CountInv` adds that the slots in use are finitely many. A client thread enters or leaves each of the two sets in the step that counts it up or down; the rest is the cardinality of a set with one element more or less |
| `StateIsLast` | `Daemon: Spec => []StateOutlivesThreads` | `LifeInv`: how far main has come says which threads there are; it passes a join only behind the thread it joined, and the wait for clients only when `CountersExact` says there are none |
| `ExitCodesHonest` | `Daemon: Spec => []ExitCodeHonest` | `ExitInv`: the stop flag is set by main alone, behind `http_server_run`, which returns 0 only for a signal; and main gets there only with a worker |
| `WakeupsKept` | `Daemon: Spec => []NoLostWakeup` | one lemma per kind of thread: a sleeper moves only itself, and what it waits for changes only in a step that broadcasts; main sleeps on `clients_done` only while there is a client left to wake it |
| `DaemonIsMotionPath` | `Daemon: Spec => ImplementsMotionPath` | a step of the capture thread or the worker is the same step there, main's stop request is one there, and everything else of main and the clients, wake-ups among themselves included, is a stutter; needs `LifeInv`, as in `MotionPath` both threads are there from the start |
| `NoLeak` | `CaptureV4L2: Spec => []NothingLeaks` | `ResourceInv`: at every position of the setup it says which buffers are mapped and which queued, so that the exit path, which knows only `start` and `mapped_count`, releases all of them |
| `NoBufferLost` | `CaptureV4L2: Spec => []BuffersAccounted` | the same invariant: once the setup is over both sets are `Mapped`, and the loop takes one buffer out and puts it back |
| `RetriesArePaced` | `CaptureV4L2: Spec => []RetriesPaced` | `PaceInv`: every failure leads to "check", and the only way from there to a scan is a full count of naps, since a stop that cuts the delay short stays requested |
| `CaptureImplemented` | `CaptureV4L2: Spec => ImplementsCapture` | one step per action: it is a step of `Capture` under the mapping of `pc`, or a stutter |
| `DegradedIsExplained` | `StatusReport: Spec => []DegradedExplained` | `ErrorInv`: an error and its time are there while its part of the daemon is down, and the camera's are cleared when it is up |
| `LatestErrorIsShown` | `StatusReport: Spec => []ErrorsInOrder` | `StampInv`: while the clock is steady no stamp is in its future, and the latest of two persisting errors has the greater one |
| `TypeCorrect` | `PicturePath: Spec => []TypeOK` | of `Shape`, with the next two: between two steps the rows go to a block that is large enough, the frame fits its block and the baseline fits its own |
| `OneOwnerEach` | `PicturePath: Spec => []BlocksOwnedOnce` | the rest of `Shape`: a block changes hands in the step that clears the hand it was in, an error path frees what the decoder holds |
| `NoRowLeavesItsBlock` | `PicturePath: Spec => []InBounds` | from `Shape` and the arithmetic of rows: row `r` of an accepted picture begins at `r * width`, without a wrap, and ends before `width * height` |
| `ComparesPictures` | `PicturePath: Spec => ComparesWholePictures` | `Contents`: the rows read so far, the decoded frame and the baseline each hold the pixels of one picture; with it a comparison is that of `PictureDifference`, and decoding, growing, failing are stutters there |
| `DeadlineIsNextSlot` | `SampleClock: Spec => []NextSlotIsDeadline` | `GridInv`: the deadline is a point of the grid in every state, and `catch_up` goes on as long as it is not after the time read |
| `NoBurst` | `SampleClock: Spec => []OneSamplePerSlot` | a sample begins before the next deadline is set and the next one not before it; two lemmas place a time before or after a grid point in its slot |
| `RateIsHonest` | `SampleClock: Spec => []RateHonest` | `TakenInv` ties the worker's two numbers to the samples; `Paced`: if the first of `n` samples was in slot `k`, the last was not before slot `k + n - 1`, whatever was skipped between |
| `LayoutIsAlwaysExact` | `MCFunctions: Calls => []LayoutExact` | `ProductGuard`: `w > max / h` holds exactly when `w * h` exceeds `max`, so the guard is exact and no product behind it wraps |
| `GateIsExact` | `MCFunctions: Calls => []ActsLikeEventGate` | `UpdateCases`: the four returns of the update in whole numbers; a difference is taken only where it is not negative |
| `EscapesAreWhole` | `MCFunctions: Calls => []LongestPrefix` | `WriteInv`, turn by turn: all that was read has been written while it fits with a NUL, and from the first character that does not fit nothing more is written; a longer prefix is no shorter in JSON |
| `ConfigIsRead` | `MCFunctions: Calls => []ConfigIsWhatTheFileSays` | `ReadInv`, turn by turn: each field has the last word of the members read, or its default; a number that passes the range checks is the same after the casts |
| `ConfigIsUsable` | `MCFunctions: Calls => []AcceptedIsUsable` | `validate_config` leaves each number in the range its thread works with, and a string that `parse_string` accepted is shorter than its field |
| `RestartsAreWanted` | `Supervisor: Spec => []StaysDown` | inductive with `TypeOK`: only the end of a daemon of an active unit leads to a restart, and a stop takes the unit out of both states in the same step |
| `LogDamageIsBounded` | `Supervisor: Spec => []LogDamageBounded` | `LogInv`: the file only holds pieces of events already counted, none of the event being written, and a torn piece is of an event that was lost or reported; so the piece that a return or a kill adds comes last, and what it continues, if anything, is of such an event |
| `NoStorm` | `Supervisor: Spec => []NoRestartStorm` | `WindowInv`: the starts since the current window began are counted by systemd, those before it are of one window before and at most a burst; a reset of the limit starts the history afresh |

The refinements are what connects the theorems: `CaptureImplemented` entitles `MotionPath` to its
`Capture`, `DaemonIsMotionPath` carries the invariants of `MotionPath` to the daemon. That last step
is an argument on paper, as tlapm does not instantiate theorems along with a module; `NoLostWakeup`,
which means more with clients asleep, is therefore proved of both.

Most strengthenings were model-checked as invariants of the instances of section 3 before they were
proved: `FenceInv`, `LimiterInv`, `CountInv`, `LogInv`, `TornInv`, `LateInv`, `LifeInv` and `ExitInv`,
`ResourceInv` and `PaceInv`, `ErrorInv`, `StampInv`, `Shape` and `Contents`, `WindowInv`. Not those that
speak of some natural number (parts of `GridInv`, `Paced`) nor those about folds (`ReadInv`,
`WriteInv`), whose recursive functions TLC cannot choose. In `MotionPath`, `CountInv` and
`LogInv` also need that without motion detection the worker never leaves its first
step; and `Capped` moves with the gate because both stop at the same limit.

Induction over data. The parser's loop, the escaping loop and the sum over the ages of starts are folds of
the community modules, and the induction theorems of the prover's library take an operator as their
parameter, which no installed back end can instantiate. The proofs therefore use induction on *sets*: a
set of naturals that contains 0 and is closed under + 1 is `Nat` (`AllNaturals`, from the
well-foundedness of `<`), and the same for finite subsets (`AllSubsets`). With it a fold is shown to be a
recursive function that exists (`ReadingExists`, `WritingExists`, `FlatExists`,
`SumsExist`), which is then followed turn by turn; `SumsAdd` shows that the order of a sum does not
matter. No module a theorem is about declares a RECURSIVE operator.

The theorems about `Calls` are for every bound on texts, buffers and files; the values of a member
are those of `Members`, at every bound of its field and of the integer types and beside it. The lemma the second
one rests on (`MemberRead`) is about any member the parsers can meet (`IsMember`).

Only model-checked: the liveness properties, as fairness and ENABLED are out of the prover's reach.
These are `StaleMotionCleared`, `CameraRecovers`, `SignalStopsThreads`, `StopEndsProcess` and
`CrashedComesBack`.

## 5. What is not modelled, and the plan

Done: all modules of section 2, the runs of section 3 and the theorems of section 4.

To come, in this order:

1. The fence, the count and the log's health for `Daemon` directly, if the refinement is not to be relied on:
   each needs the lemmas of `MotionPath_proofs` about a worker step, with the clients' steps as
   stutters.
2. `IsMember` as the set of values of the configuration runs, which would make the two theorems about
   it independent of the chosen values.
3. Safety lemmas liveness rests on: that a retry, a nap or a wait that goes on comes nearer to its end with
   every step. The eventualities themselves stay with TLC.

Abstracted on purpose, with the hazards that stay open: libjpeg's warnings (a truncated picture
that it fills with grey counts as decoded), the length of a printed floating-point number in the
status document, and what a client that connects without a camera should see first.

Not modelled for good: the wording of responses and log lines, the HTML page, scripts and
Makefile, the benchmark tool, the site and the unit tests (read as evidence of what is
intended). `g_signal_stop` is a `volatile sig_atomic_t` read with and without the lock; it is
an atomic flag here, which is what it is on the one core of the board.
