----------------------------- MODULE SampleClock -----------------------------
(***************************************************************************)
(* The sample clock of motion_worker.c: when the worker takes its samples, *)
(* and the sample rate it reports.  MotionWorker has what a sample does;   *)
(* here it only has an outcome and takes time, any amount of it.           *)
(***************************************************************************)
EXTENDS Naturals, Sequences

CONSTANTS Interval,    \* 1 s / motion_sample_fps, in units of the model's clock
          MaxStart,    \* bound on the time at which the thread starts
          MaxTime      \* bound on the clock

ASSUME IntervalAssumption == Interval \in Nat \ {0}
ASSUME BoundAssumption == MaxStart \in Nat /\ MaxTime \in Nat

VARIABLES
  now,            \* CLOCK_MONOTONIC
  clock_pc,       \* where motion_worker_thread_main is
  next_sample,    \* next_sample_ns
  advance_now,    \* the time advance_sample_deadline read
  rate_started,   \* sample_rate_started_ns
  completed,      \* completed_samples
  sample_fps,     \* the rate in /status: samples per elapsed time
  origin,         \* when the thread started (history)
  woken,          \* when it woke for its samples (history)
  taken           \* the samples completed since the last reset (history)

rateVars == <<rate_started, completed, sample_fps, taken>>
vars == <<now, clock_pc, next_sample, advance_now, rateVars, origin, woken>>

NoRate == [samples |-> 0, elapsed |-> 0]

TypeOK ==
  /\ now \in Nat /\ origin \in Nat /\ next_sample \in Nat /\ advance_now \in Nat
  /\ clock_pc \in {"sleep", "snapshot", "process", "advance", "catch_up", "done"}
  /\ rate_started \in Nat /\ completed \in Nat
  /\ sample_fps \in [samples : Nat, elapsed : Nat]
  /\ woken \in Seq(Nat) /\ taken \in Seq(Nat)

Init ==
  /\ now \in 0..MaxStart
  /\ origin = now /\ next_sample = now
  /\ clock_pc = "sleep"
  /\ advance_now = 0
  /\ rate_started = 0 /\ completed = 0
  /\ sample_fps = NoRate
  /\ woken = <<>> /\ taken = <<>>

-----------------------------------------------------------------------------
\* time passes while the worker sleeps, waits, decodes or is not scheduled
Tick ==
  /\ now < MaxTime
  /\ now' = now + 1
  /\ UNCHANGED <<clock_pc, next_sample, advance_now, rateVars, origin, woken>>

\* wait_until_sample: clock_nanosleep returns at the deadline or later
WakeForSample ==
  /\ clock_pc = "sleep" /\ now >= next_sample
  /\ clock_pc' = "snapshot"
  /\ woken' = Append(woken, now)
  /\ UNCHANGED <<now, next_sample, advance_now, rateVars, origin>>

\* Mutant: the count goes on over the gap.
ResetRate_KeepCount ==
  /\ rate_started' = 0
  /\ sample_fps' = NoRate
  /\ taken' = <<>>
  /\ UNCHANGED completed

\* A new measurement begins, and /status shows no rate.
ResetRate ==
  /\ rate_started' = 0 /\ completed' = 0
  /\ sample_fps' = NoRate
  /\ taken' = <<>>

\* state_reset_motion_sample alone: the measurement goes on, unseen
HideRate ==
  /\ sample_fps' = NoRate
  /\ UNCHANGED <<rate_started, completed, taken>>

\* state_wait_jpeg_snapshot finds no camera, or no frame in time
NoSnapshot ==
  /\ clock_pc = "snapshot"
  /\ ResetRate
  /\ clock_pc' = "advance"
  /\ UNCHANGED <<now, next_sample, advance_now, origin, woken>>

\* state_wait_jpeg_snapshot has no memory for the frame
SnapshotFails ==
  /\ clock_pc = "snapshot"
  /\ HideRate
  /\ clock_pc' = "advance"
  /\ UNCHANGED <<now, next_sample, advance_now, origin, woken>>

\* a frame, of the session of the last one or of another
SnapshotReady ==
  /\ clock_pc = "snapshot"
  /\ ResetRate \/ UNCHANGED rateVars
  /\ clock_pc' = "process"
  /\ UNCHANGED <<now, next_sample, advance_now, origin, woken>>

\* observe_sample_rate: the first sample starts the measurement
ObserveSampleRate(started) ==
  IF completed' <= 1 \/ now <= started THEN NoRate
  ELSE [samples |-> completed' - 1, elapsed |-> now - started]

\* the pipeline succeeded, or only the log failed; the time is the one read
\* before the pipeline ran, and the clock stands still in this step
SampleCompleted ==
  /\ clock_pc = "process"
  /\ rate_started' = IF completed = 0 THEN now ELSE rate_started
  /\ completed' = completed + 1
  /\ sample_fps' = ObserveSampleRate(rate_started')
  /\ taken' = Append(taken, now)
  /\ clock_pc' = "advance"
  /\ UNCHANGED <<now, next_sample, advance_now, origin, woken>>

SampleFails ==
  /\ clock_pc = "process"
  /\ HideRate
  /\ clock_pc' = "advance"
  /\ UNCHANGED <<now, next_sample, advance_now, origin, woken>>

\* advance_sample_deadline reads the clock once,
ReadClock ==
  /\ clock_pc = "advance"
  /\ advance_now' = now
  /\ clock_pc' = "catch_up"
  /\ UNCHANGED <<now, next_sample, rateVars, origin, woken>>

\* Mutant: the deadline moves on by one interval, however late it is.
AdvanceDeadline_Once ==
  /\ clock_pc = "catch_up"
  /\ next_sample' = next_sample + Interval
  /\ clock_pc' = "sleep"
  /\ UNCHANGED <<now, advance_now, rateVars, origin, woken>>

\* Mutant: the next sample is an interval from now, off the grid.
AdvanceDeadline_FromNow ==
  /\ clock_pc = "catch_up"
  /\ next_sample' = advance_now + Interval
  /\ clock_pc' = "sleep"
  /\ UNCHANGED <<now, advance_now, rateVars, origin, woken>>

\* and adds intervals until the deadline is later
AdvanceDeadline ==
  /\ clock_pc = "catch_up"
  /\ next_sample' = next_sample + Interval
  /\ clock_pc' = IF next_sample' <= advance_now THEN "catch_up" ELSE "sleep"
  /\ UNCHANGED <<now, advance_now, rateVars, origin, woken>>

\* a stop request, seen before the sleep, after it or by the snapshot; or the
\* sleep fails.  On the way out the motion sample is reset.
StopSampling ==
  /\ clock_pc \in {"sleep", "snapshot"}
  /\ HideRate
  /\ clock_pc' = "done"
  /\ UNCHANGED <<now, next_sample, advance_now, origin, woken>>

Next ==
  \/ Tick
  \/ WakeForSample \/ NoSnapshot \/ SnapshotFails \/ SnapshotReady
  \/ SampleCompleted \/ SampleFails
  \/ ReadClock \/ AdvanceDeadline
  \/ StopSampling

Spec == Init /\ [][Next]_vars

-----------------------------------------------------------------------------
\* The slots of the sample grid, which begins with the thread.
Slot(t) == (t - origin) \div Interval

\* However late a sample is and however long it takes, no two samples begin in
\* the same slot of the grid: a backlog is skipped, never worked off in a burst.
OneSamplePerSlot ==
  \A i \in 1..Len(woken) - 1 : Slot(woken[i]) < Slot(woken[i + 1])

\* The worker goes to sleep until the first slot that begins after the time it
\* read: no slot is skipped that could still be met, and the grid never drifts.
NextSlotIsDeadline ==
  clock_pc = "sleep" /\ woken # <<>> =>
    /\ (next_sample - origin) % Interval = 0
    /\ next_sample > advance_now
    /\ next_sample <= advance_now + Interval

\* The rate in /status is that of the samples completed since the last gap or
\* change of session, over the time they took: samples on both sides of a gap
\* are never counted together.  It exceeds motion_sample_fps by less than one
\* sample: n - 1 intervals between n samples take more than n - 2 slots.
RateHonest ==
  sample_fps # NoRate =>
    /\ sample_fps.samples = Len(taken) - 1
    /\ sample_fps.elapsed = taken[Len(taken)] - taken[1]
    /\ sample_fps.elapsed > (sample_fps.samples - 1) * Interval

=============================================================================
