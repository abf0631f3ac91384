------------------------- MODULE PureFunctions_proofs -------------------------
(***************************************************************************)
(* Theorems about what the daemon computes: SampleClock for every interval, *)
(* every start and samples of any length, the layout check for every width *)
(* of size_t, the event gate for every cooldown and every width of its     *)
(* clock, json_escape for texts and buffers of any size, the configuration *)
(* for files of any length and every width of int and long.                *)
(***************************************************************************)
EXTENDS SampleClock, MCFunctions, WellFoundedInduction, NaturalsInduction, TLAPS

USE DEF rateVars, vars

-----------------------------------------------------------------------------
(* Types.                                                                   *)

LEMMA StepTypes ==
  ASSUME TypeOK, [Next]_vars
  PROVE  TypeOK'
<1> USE IntervalAssumption DEF TypeOK, NoRate
<1>1. CASE Tick
  BY <1>1 DEF Tick
<1>2. CASE WakeForSample
  BY <1>2 DEF WakeForSample
<1>3. CASE NoSnapshot
  BY <1>3 DEF NoSnapshot, ResetRate
<1>7. CASE SnapshotFails
  BY <1>7 DEF SnapshotFails, HideRate
<1>8. CASE SnapshotReady
  <2>1. CASE ResetRate
    BY <1>8, <2>1 DEF SnapshotReady, ResetRate
  <2>2. CASE UNCHANGED rateVars
    BY <1>8, <2>2 DEF SnapshotReady
  <2> QED
    BY <1>8, <2>1, <2>2 DEF SnapshotReady
<1>4. CASE SampleCompleted
  BY <1>4 DEF SampleCompleted, ObserveSampleRate
<1>5. CASE SampleFails \/ ReadClock \/ AdvanceDeadline \/ StopSampling
  BY <1>5 DEF SampleFails, ReadClock, AdvanceDeadline, StopSampling, HideRate
<1>6. CASE UNCHANGED vars
  BY <1>6
<1> QED
  BY <1>1, <1>2, <1>3, <1>4, <1>5, <1>6, <1>7, <1>8 DEF Next

\* The clock arithmetic stays in the naturals: no difference of two times is taken
\* the wrong way round.
THEOREM TypeCorrect == Spec => []TypeOK
<1>1. Init => TypeOK
  BY BoundAssumption DEF Init, TypeOK, NoRate
<1> QED
  BY <1>1, StepTypes, PTL DEF Spec

-----------------------------------------------------------------------------
(* The grid.                                                                *)

\* A time after the k-th point of the grid is in its slot or a later one,
LEMMA SlotAfter ==
  ASSUME NEW i \in Nat \ {0}, NEW k \in Nat, NEW t \in Nat, t >= k * i
  PROVE  t \div i >= k
<1> DEFINE q == t \div i
<1>1. t = i * q + (t % i) /\ t % i \in 0..i - 1
  OBVIOUS
<1>2. q \in Nat
  OBVIOUS
<1> HIDE DEF q
<1>3. ~(q < k)
  <2> SUFFICES ASSUME q < k PROVE FALSE
    OBVIOUS
  <2>1. i * (q + 1) <= i * k
    BY <1>2
  <2> QED
    BY <1>1, <1>2, <2>1
<1>4. q >= k
  BY <1>2, <1>3, SMT
<1> QED
  BY <1>4 DEF q

\* and a time before it in an earlier one.
LEMMA SlotBefore ==
  ASSUME NEW i \in Nat \ {0}, NEW k \in Nat, NEW t \in Nat, t < k * i
  PROVE  t \div i < k
OBVIOUS

\* A point of the grid is a multiple of the interval away from its beginning.
LEMMA GridPoint ==
  ASSUME NEW i \in Nat \ {0}, NEW k \in Nat
  PROVE  (k * i) % i = 0
OBVIOUS

\* What an appended time leaves as first and last.
LEMMA AppendedIsLast ==
  ASSUME NEW s \in Seq(Nat), NEW t \in Nat
  PROVE  /\ Append(s, t) # <<>> /\ Append(s, t)[Len(Append(s, t))] = t
         /\ Len(Append(s, t)) = Len(s) + 1 /\ Len(s) \in Nat
         /\ Append(s, t)[1] = IF s = <<>> THEN t ELSE s[1]
<1>1. s # <<>> => 1 \in 1..Len(s)
  OBVIOUS
<1> QED
  BY <1>1

OnGrid == \E k \in Nat : next_sample = origin + k * Interval

LEMMA OnGridKept ==
  ASSUME OnGrid, UNCHANGED <<next_sample, origin>>
  PROVE  OnGrid'
BY DEF OnGrid

LastWoken == woken[Len(woken)]

Awake == clock_pc \in {"snapshot", "process", "advance", "catch_up"}

\* The deadline is on the grid.  While the worker is awake its sample began at the
\* deadline or later; when it sleeps the deadline is the next one after the time
\* it read, which is not before the sample began.
GridInv ==
  /\ origin <= now /\ origin <= next_sample
  /\ OnGrid
  /\ woken # <<>> => origin <= LastWoken /\ LastWoken <= now
  /\ Awake => woken # <<>>
  /\ clock_pc \in {"snapshot", "process", "advance"} => next_sample <= LastWoken
  /\ clock_pc = "catch_up" =>
       LastWoken <= advance_now /\ advance_now <= now /\ next_sample <= advance_now
  /\ clock_pc = "sleep" /\ woken # <<>> =>
       /\ LastWoken <= advance_now
       /\ advance_now < next_sample /\ next_sample <= advance_now + Interval

\* The history holds no two samples of one slot.
SlotInv ==
  /\ \A i \in 1..Len(woken) : origin <= woken[i]
  /\ OneSamplePerSlot

LEMMA GridStep ==
  ASSUME TypeOK, GridInv, [Next]_vars
  PROVE  GridInv'
<1> USE IntervalAssumption, OnGridKept DEF TypeOK, GridInv, LastWoken, Awake
<1>1. CASE Tick
  BY <1>1 DEF Tick
<1>2. CASE WakeForSample
  <2>1. woken' # <<>> /\ woken'[Len(woken')] = now
    BY <1>2, AppendedIsLast DEF WakeForSample
  <2> QED
    BY <1>2, <2>1 DEF WakeForSample
<1>3. CASE NoSnapshot \/ SnapshotFails \/ SnapshotReady
  BY <1>3 DEF NoSnapshot, SnapshotFails, SnapshotReady
<1>4. CASE SampleCompleted \/ SampleFails
  BY <1>4 DEF SampleCompleted, SampleFails
<1>5. CASE ReadClock
  <2>1. LastWoken \in Nat
    BY <1>5 DEF ReadClock
  <2> QED
    BY <1>5, <2>1 DEF ReadClock
<1>6. CASE AdvanceDeadline
  <2>1. PICK k \in Nat : next_sample = origin + k * Interval
    BY DEF OnGrid
  <2>2. next_sample' = next_sample + Interval
    BY <1>6 DEF AdvanceDeadline
  <2>3. k + 1 \in Nat /\ next_sample' = origin + (k + 1) * Interval
    BY <2>1, <2>2
  <2>4. UNCHANGED <<now, advance_now, origin, woken>>
    BY <1>6 DEF AdvanceDeadline
  <2>5. OnGrid'
    BY <2>3, <2>4 DEF OnGrid
  <2>6. /\ clock_pc = "catch_up"
        /\ clock_pc' = IF next_sample' <= advance_now THEN "catch_up" ELSE "sleep"
    BY <1>6 DEF AdvanceDeadline
  <2> QED
    BY <2>2, <2>4, <2>5, <2>6
<1>7. CASE StopSampling
  BY <1>7 DEF StopSampling
<1>8. CASE UNCHANGED vars
  BY <1>8
<1> QED
  BY <1>1, <1>2, <1>3, <1>4, <1>5, <1>6, <1>7, <1>8 DEF Next

LEMMA GridFollows == Spec => []GridInv
<1>1. Init => GridInv
  <2> SUFFICES ASSUME Init PROVE GridInv
    OBVIOUS
  <2>1. now \in Nat /\ next_sample = origin + 0 * Interval
    BY BoundAssumption, IntervalAssumption DEF Init
  <2> QED
    BY <2>1 DEF Init, GridInv, OnGrid, Awake
<1> QED
  BY <1>1, GridStep, TypeCorrect, PTL DEF Spec

\* advance_sample_deadline ends at the next point of the grid, whatever the delay.
THEOREM DeadlineIsNextSlot == Spec => []NextSlotIsDeadline
<1>1. TypeOK /\ GridInv => NextSlotIsDeadline
  <2> SUFFICES ASSUME TypeOK, GridInv PROVE NextSlotIsDeadline
    OBVIOUS
  <2>1. PICK k \in Nat : next_sample = origin + k * Interval
    BY DEF GridInv, OnGrid
  <2>2. (k * Interval) % Interval = 0
    BY GridPoint, IntervalAssumption
  <2>3. next_sample - origin = k * Interval
    BY <2>1, IntervalAssumption DEF TypeOK
  <2> QED
    BY <2>2, <2>3 DEF GridInv, NextSlotIsDeadline
<1> QED
  BY <1>1, GridFollows, TypeCorrect, PTL

LEMMA SlotStep ==
  ASSUME TypeOK, GridInv, SlotInv, [Next]_vars
  PROVE  SlotInv'
<1>1. CASE WakeForSample
  <2>1. /\ woken' = Append(woken, now) /\ woken \in Seq(Nat) /\ now \in Nat
        /\ clock_pc = "sleep" /\ now >= next_sample /\ origin' = origin /\ origin \in Nat
    BY <1>1 DEF WakeForSample, TypeOK
  <2>2. /\ Len(woken) \in Nat /\ Len(woken') = Len(woken) + 1
        /\ woken'[Len(woken) + 1] = now
        /\ \A i \in 1..Len(woken) : woken'[i] = woken[i] /\ woken[i] \in Nat
    BY <2>1
  <2>3. \A i \in 1..Len(woken') : origin' <= woken'[i]
    BY <2>1, <2>2 DEF SlotInv, GridInv
  <2>4. ASSUME woken # <<>>
        PROVE  Slot(LastWoken) < Slot(now)
    <3>1. PICK k \in Nat : next_sample = origin + k * Interval
      BY DEF GridInv, OnGrid
    <3>2. LastWoken \in Nat /\ origin <= LastWoken /\ LastWoken < next_sample
      BY <2>1, <2>2, <2>4 DEF GridInv, LastWoken, TypeOK
    <3>3. k * Interval \in Nat
      BY IntervalAssumption
    <3>4. LastWoken - origin \in Nat /\ now - origin \in Nat
          /\ LastWoken - origin < k * Interval /\ now - origin >= k * Interval
      BY <2>1, <3>1, <3>2, <3>3
    <3>5. (LastWoken - origin) \div Interval < k /\ (now - origin) \div Interval >= k
      BY <3>4, SlotAfter, SlotBefore, IntervalAssumption
    <3>6. (LastWoken - origin) \div Interval \in Int /\ (now - origin) \div Interval \in Int
      BY <3>4, IntervalAssumption
    <3> QED
      BY <3>5, <3>6 DEF Slot
  <2>5. SUFFICES ASSUME NEW i \in 1..Len(woken') - 1
                 PROVE  (woken'[i] - origin') \div Interval < (woken'[i + 1] - origin') \div Interval
    BY <2>3 DEF SlotInv, OneSamplePerSlot, Slot
  <2>6. CASE i = Len(woken)
    BY <2>1, <2>2, <2>4, <2>6 DEF Slot, LastWoken
  <2>7. CASE i # Len(woken)
    <3>1. i \in 1..Len(woken) - 1 /\ i + 1 \in 1..Len(woken)
      BY <2>2, <2>7
    <3> QED
      BY <2>1, <2>2, <3>1 DEF SlotInv, OneSamplePerSlot, Slot
  <2> QED
    BY <2>6, <2>7
<1>2. CASE ~WakeForSample
  <2>1. UNCHANGED <<woken, origin>>
    BY <1>2 DEF Next, Tick, NoSnapshot, SnapshotFails, SnapshotReady, SampleCompleted, SampleFails,
                ReadClock, AdvanceDeadline, StopSampling
  <2> QED
    BY <2>1 DEF SlotInv, OneSamplePerSlot, Slot
<1> QED
  BY <1>1, <1>2

\* A backlog of samples is never worked off in a burst, however long it is.
THEOREM NoBurst == Spec => []OneSamplePerSlot
<1>1. Init => SlotInv
  BY DEF Init, SlotInv, OneSamplePerSlot
<1>2. SlotInv => OneSamplePerSlot
  BY DEF SlotInv
<1> QED
  BY <1>1, <1>2, SlotStep, GridFollows, TypeCorrect, PTL DEF Spec

-----------------------------------------------------------------------------
(* The rate.                                                                *)

\* The n-th point of the grid.
Point(begin, n) == begin + n * Interval

LEMMA Points ==
  ASSUME NEW begin \in Nat, NEW m \in Nat, NEW n \in Nat
  PROVE  /\ Point(begin, n) \in Nat
         /\ Point(begin, n + 1) = Point(begin, n) + Interval
         /\ m <= n => Point(begin, m) <= Point(begin, n)
         /\ Point(begin, m + n) = Point(begin, m) + n * Interval
<1> USE IntervalAssumption DEF Point
<1>1. Point(begin, n) \in Nat /\ Point(begin, n + 1) = Point(begin, n) + Interval
  OBVIOUS
<1>2. ASSUME m <= n PROVE Point(begin, m) <= Point(begin, n)
  BY <1>2
<1>3. Point(begin, m + n) = Point(begin, m) + n * Interval
  OBVIOUS
<1> QED
  BY <1>1, <1>2, <1>3

\* Every time belongs to a slot.
LEMMA SlotOf ==
  ASSUME NEW begin \in Nat, NEW t \in Nat, begin <= t
  PROVE  \E k \in Nat : Point(begin, k) <= t /\ t < Point(begin, k) + Interval
<1> DEFINE k == (t - begin) \div Interval
<1>1. t - begin \in Nat
  OBVIOUS
<1>2. t - begin = Interval * k + ((t - begin) % Interval)
      /\ (t - begin) % Interval \in 0..Interval - 1
  BY <1>1, IntervalAssumption
<1>3. k \in Nat
  BY <1>1, IntervalAssumption
<1> HIDE DEF k
<1>4. k * Interval <= t - begin /\ t - begin < k * Interval + Interval
  BY <1>2, <1>3, IntervalAssumption
<1>5. Point(begin, k) <= t /\ t < Point(begin, k) + Interval
  BY <1>3, <1>4, IntervalAssumption DEF Point
<1> QED
  BY <1>3, <1>5

LastTaken == taken[Len(taken)]

\* The worker's two numbers are about the samples taken since the last reset.
TakenInv ==
  /\ completed = Len(taken)
  /\ taken # <<>> =>
       rate_started = taken[1] /\ rate_started <= LastTaken /\ LastTaken <= now
  /\ sample_fps # NoRate =>
       /\ taken # <<>>
       /\ sample_fps = [samples |-> completed - 1, elapsed |-> LastTaken - rate_started]

\* The first of them was in slot k, and with each the grid moved on by a slot.
PacedFrom(k) ==
  LET reached == Point(origin, k + completed)
  IN  /\ rate_started < Point(origin, k) + Interval
      /\ LastTaken + Interval >= reached
      /\ clock_pc \in {"sleep", "snapshot", "process"} => next_sample >= reached
      /\ clock_pc = "advance" => now + Interval >= reached
      /\ clock_pc = "catch_up" => advance_now + Interval >= reached
Paced == taken # <<>> => \E k \in Nat : PacedFrom(k)

LEMMA TakenStep ==
  ASSUME TypeOK, TakenInv, [Next]_vars
  PROVE  TakenInv'
<1> USE DEF TypeOK, TakenInv, LastTaken
<1>1. CASE Tick
  BY <1>1 DEF Tick
<1>2. CASE NoSnapshot
  BY <1>2 DEF NoSnapshot, ResetRate
<1>3. CASE SnapshotFails \/ SampleFails \/ StopSampling
  BY <1>3 DEF SnapshotFails, SampleFails, StopSampling, HideRate
<1>4. CASE SnapshotReady
  <2>1. CASE ResetRate
    BY <1>4, <2>1 DEF SnapshotReady, ResetRate
  <2>2. CASE UNCHANGED rateVars
    BY <1>4, <2>2 DEF SnapshotReady
  <2> QED
    BY <1>4, <2>1, <2>2 DEF SnapshotReady
<1>5. CASE SampleCompleted
  <2>1. /\ taken' = Append(taken, now) /\ completed' = completed + 1 /\ now' = now
        /\ rate_started' = IF completed = 0 THEN now ELSE rate_started
        /\ sample_fps' = ObserveSampleRate(rate_started')
    BY <1>5 DEF SampleCompleted
  <2>2. /\ taken' # <<>> /\ LastTaken' = now /\ completed' = Len(taken')
        /\ taken'[1] = IF taken = <<>> THEN now ELSE taken[1]
        /\ completed \in Nat
    BY <2>1, AppendedIsLast
  <2>3. completed = 0 <=> taken = <<>>
    OBVIOUS
  <2>4. rate_started' = taken'[1] /\ rate_started' <= now
    BY <2>1, <2>2, <2>3
  <2>5. sample_fps' # NoRate =>
          sample_fps' = [samples |-> completed' - 1, elapsed |-> now - rate_started']
    BY <2>1 DEF ObserveSampleRate
  <2> QED
    BY <2>1, <2>2, <2>4, <2>5 DEF NoRate
<1>6. CASE WakeForSample \/ ReadClock \/ AdvanceDeadline \/ UNCHANGED vars
  BY <1>6 DEF WakeForSample, ReadClock, AdvanceDeadline
<1> QED
  BY <1>1, <1>2, <1>3, <1>4, <1>5, <1>6 DEF Next

\* A sample does not begin before its deadline.
LEMMA DeadlineReached ==
  ASSUME TypeOK, GridInv, clock_pc \in {"snapshot", "process"}
  PROVE  next_sample <= now /\ origin <= now
<1>1. woken # <<>> /\ next_sample <= LastWoken /\ LastWoken <= now /\ origin <= now
  BY DEF GridInv, Awake
<1>2. woken \in Seq(Nat) /\ now \in Nat /\ next_sample \in Nat
  BY DEF TypeOK
<1>3. LastWoken \in Nat
  BY <1>1, <1>2 DEF LastWoken
<1> QED
  BY <1>1, <1>2, <1>3

LEMMA PacedStep ==
  ASSUME TypeOK, GridInv, TakenInv, Paced, [Next]_vars
  PROVE  Paced'
<1>1. CASE SampleCompleted
  <2>1. /\ taken' = Append(taken, now) /\ completed' = completed + 1
        /\ rate_started' = IF completed = 0 THEN now ELSE rate_started
        /\ UNCHANGED <<now, origin, next_sample>>
        /\ clock_pc = "process" /\ clock_pc' = "advance"
    BY <1>1 DEF SampleCompleted
  <2>2. /\ now \in Nat /\ origin \in Nat /\ next_sample \in Nat /\ completed \in Nat
        /\ taken \in Seq(Nat) /\ origin <= now /\ next_sample <= now
    BY <2>1, DeadlineReached DEF TypeOK
  <2>3. LastTaken' = now
    BY <2>1, <2>2, AppendedIsLast DEF LastTaken
  <2>4. CASE completed = 0
    <3>1. PICK k \in Nat : Point(origin, k) <= now /\ now < Point(origin, k) + Interval
      BY <2>2, SlotOf
    <3>2. Point(origin, k + 1) = Point(origin, k) + Interval /\ Point(origin, k) \in Nat
      BY <2>2, Points
    <3>3. completed' = 1 /\ rate_started' = now /\ origin' = origin /\ now' = now
      BY <2>1, <2>4
    <3>4. PacedFrom(k)'
      BY <2>1, <2>2, <2>3, <3>1, <3>2, <3>3, IntervalAssumption DEF PacedFrom
    <3> QED
      BY <3>4 DEF Paced
  <2>5. CASE completed # 0
    <3>1. taken # <<>>
      BY <2>2, <2>5 DEF TakenInv
    <3>2. PICK k \in Nat : PacedFrom(k)
      BY <3>1 DEF Paced
    <3>3. next_sample >= Point(origin, k + completed)
      BY <2>1, <3>2 DEF PacedFrom
    <3>4. Point(origin, k + completed + 1) = Point(origin, k + completed) + Interval
          /\ Point(origin, k + completed) \in Nat /\ Point(origin, k) \in Nat
      <4>1. k + completed \in Nat
        BY <2>2
      <4> QED
        BY <2>2, <4>1, Points
    <3>5. k + (completed + 1) = k + completed + 1
      BY <2>2
    <3>6. rate_started < Point(origin, k) + Interval
      BY <3>2 DEF PacedFrom
    <3>7. PacedFrom(k)'
      BY <2>1, <2>2, <2>3, <2>5, <3>3, <3>4, <3>5, <3>6, IntervalAssumption DEF PacedFrom
    <3> QED
      BY <3>7 DEF Paced
  <2> QED
    BY <2>4, <2>5
<1>2. CASE ~SampleCompleted
  <2> SUFFICES ASSUME taken' # <<>> PROVE \E k \in Nat : PacedFrom(k)'
    BY DEF Paced
  <2>1. UNCHANGED <<taken, completed, rate_started, origin, LastTaken>>
    BY <1>2 DEF Next, Tick, WakeForSample, NoSnapshot, SnapshotFails, SnapshotReady, SampleFails,
                ReadClock, AdvanceDeadline, StopSampling, ResetRate, HideRate, LastTaken
  <2>2. PICK k \in Nat : PacedFrom(k)
    BY <2>1 DEF Paced
  <2> DEFINE reached == Point(origin, k + completed)
  <2>3. /\ reached \in Nat /\ reached' = reached
        /\ now \in Nat /\ next_sample \in Nat /\ advance_now \in Nat
        /\ Point(origin, k) \in Nat /\ Point(origin, k)' = Point(origin, k)
    <3>1. /\ origin \in Nat /\ completed \in Nat
          /\ now \in Nat /\ next_sample \in Nat /\ advance_now \in Nat
      BY DEF TypeOK
    <3>2. k + completed \in Nat
      BY <3>1
    <3>3. reached \in Nat /\ Point(origin, k) \in Nat
      BY <3>1, <3>2, Points
    <3>4. Point(origin, k)' = Point(origin, k) /\ reached' = reached
      BY <2>1 DEF Point
    <3> QED
      BY <3>1, <3>3, <3>4
  <2>4. /\ rate_started < Point(origin, k) + Interval
        /\ LastTaken + Interval >= reached
        /\ clock_pc \in {"sleep", "snapshot", "process"} => next_sample >= reached
        /\ clock_pc = "advance" => now + Interval >= reached
        /\ clock_pc = "catch_up" => advance_now + Interval >= reached
    BY <2>2 DEF PacedFrom
  <2>5. SUFFICES /\ clock_pc' \in {"sleep", "snapshot", "process"} => next_sample' >= reached
                 /\ clock_pc' = "advance" => now' + Interval >= reached
                 /\ clock_pc' = "catch_up" => advance_now' + Interval >= reached
    <3>1. PacedFrom(k)'
      BY <2>1, <2>3, <2>4, <2>5 DEF PacedFrom
    <3> QED
      BY <3>1
  <2>6. clock_pc \in {"snapshot", "process"} => next_sample <= now
    BY DeadlineReached
  <2> HIDE DEF reached
  <2> USE IntervalAssumption
  <2>7. CASE AdvanceDeadline
    <3>1. /\ clock_pc = "catch_up" /\ next_sample' = next_sample + Interval
          /\ UNCHANGED <<now, advance_now>>
          /\ clock_pc' = IF next_sample' <= advance_now THEN "catch_up" ELSE "sleep"
      BY <2>7 DEF AdvanceDeadline
    <3>2. CASE clock_pc' = "catch_up"
      BY <2>4, <3>1, <3>2
    <3>3. CASE clock_pc' = "sleep"
      <4>1. PICK m \in Nat : next_sample = origin + m * Interval
        BY DEF GridInv, OnGrid
      <4>2. origin \in Nat /\ completed \in Nat
        BY DEF TypeOK
      <4>3. next_sample = Point(origin, m)
        BY <4>1 DEF Point
      <4>4. Point(origin, m + 1) = Point(origin, m) + Interval
            /\ Point(origin, (m + 1) + 1) = Point(origin, m + 1) + Interval
        BY <4>2, Points
      <4>5. CASE k + completed <= m + 1
        <5>1. reached <= Point(origin, m + 1)
          <6>1. k + completed \in Nat /\ m + 1 \in Nat
            BY <4>2
          <6> QED
            BY <4>2, <4>5, <6>1, Points DEF reached
        <5> QED
          BY <2>3, <3>1, <3>3, <4>3, <4>4, <5>1
      <4>6. CASE ~(k + completed <= m + 1)
        <5>1. (m + 1) + 1 <= k + completed
          BY <4>2, <4>6
        <5>2. Point(origin, (m + 1) + 1) <= reached
          <6>1. k + completed \in Nat /\ (m + 1) + 1 \in Nat
            BY <4>2
          <6> QED
            BY <4>2, <5>1, <6>1, Points DEF reached
        <5>3. Point(origin, m) \in Nat
          BY <4>2, Points
        <5> QED
          BY <2>3, <2>4, <3>1, <3>3, <4>3, <4>4, <5>2, <5>3
      <4> QED
        BY <4>5, <4>6
    <3> QED
      BY <3>1, <3>2, <3>3
  <2>8. CASE Tick
    BY <2>3, <2>4, <2>8 DEF Tick
  <2>9. CASE WakeForSample \/ SnapshotReady
    BY <2>3, <2>4, <2>9 DEF WakeForSample, SnapshotReady
  <2>10. CASE SnapshotFails \/ SampleFails
    BY <2>3, <2>4, <2>6, <2>10 DEF SnapshotFails, SampleFails
  <2>11. CASE NoSnapshot
    BY <2>11 DEF NoSnapshot, ResetRate
  <2>12. CASE ReadClock
    BY <2>3, <2>4, <2>12 DEF ReadClock
  <2>13. CASE StopSampling \/ UNCHANGED vars
    BY <2>3, <2>4, <2>13 DEF StopSampling
  <2> QED
    BY <1>2, <2>7, <2>8, <2>9, <2>10, <2>11, <2>12, <2>13 DEF Next
<1> QED
  BY <1>1, <1>2

\* The reported rate is that of the samples since the last gap, and never exceeds
\* motion_sample_fps by as much as one sample, for any interval.
THEOREM RateIsHonest == Spec => []RateHonest
<1>1. Init => TakenInv /\ Paced
  BY DEF Init, TakenInv, Paced, NoRate
<1>2. TypeOK /\ TakenInv /\ Paced => RateHonest
  <2> SUFFICES ASSUME TypeOK, TakenInv, Paced, sample_fps # NoRate
               PROVE  /\ sample_fps.samples = Len(taken) - 1
                      /\ sample_fps.elapsed = taken[Len(taken)] - taken[1]
                      /\ sample_fps.elapsed > (sample_fps.samples - 1) * Interval
    BY DEF RateHonest
  <2>1. /\ taken # <<>> /\ completed = Len(taken) /\ rate_started = taken[1]
        /\ sample_fps.samples = completed - 1
        /\ sample_fps.elapsed = LastTaken - rate_started
    BY DEF TakenInv
  <2>2. PICK k \in Nat : PacedFrom(k)
    BY <2>1 DEF Paced
  <2>3. /\ rate_started \in Nat /\ LastTaken \in Nat /\ completed \in Nat /\ origin \in Nat
    BY <2>1 DEF TypeOK, LastTaken
  <2>4. /\ Point(origin, k + completed) = Point(origin, k) + completed * Interval
        /\ Point(origin, k) \in Nat
    BY <2>3, Points
  <2>5. /\ rate_started < Point(origin, k) + Interval
        /\ LastTaken + Interval >= Point(origin, k) + completed * Interval
    BY <2>2, <2>4 DEF PacedFrom
  <2>6. ((completed - 1) - 1) * Interval = completed * Interval - Interval - Interval
    BY <2>3, IntervalAssumption
  <2>7. completed * Interval \in Nat
    BY <2>3, IntervalAssumption
  <2>8. LastTaken - rate_started > ((completed - 1) - 1) * Interval
    BY <2>3, <2>4, <2>5, <2>6, <2>7, IntervalAssumption
  <2> QED
    BY <2>1, <2>8 DEF LastTaken
<1> QED
  BY <1>1, <1>2, TakenStep, PacedStep, GridFollows, TypeCorrect, PTL DEF Spec

-----------------------------------------------------------------------------
(* Sizes.                                                                   *)

\* The guard before a product is exact: it lets a product pass if and only if it
\* fits, without ever computing it.
LEMMA ProductGuard ==
  ASSUME NEW w \in Nat, NEW h \in Nat \ {0}, NEW max \in Nat
  PROVE  w > max \div h <=> w * h > max
<1>1. CASE w * h > max
  BY <1>1, SlotBefore
<1>2. CASE ~(w * h > max)
  <2>1. w * h \in Nat
    OBVIOUS
  <2>2. max \div h >= w
    BY <1>2, <2>1, SlotAfter
  <2>3. max \div h \in Nat
    OBVIOUS
  <2> QED
    BY <1>2, <2>1, <2>2, <2>3
<1> QED
  BY <1>1, <1>2

\* What does not reach the width does not wrap.
LEMMA NoWrap ==
  ASSUME NEW n \in 0..SizeMax
  PROVE  Wrap(n) = n
BY SizeMaxAssumption DEF Wrap

\* The rows before the last one begin before it.
LEMMA RowsOrdered ==
  ASSUME NEW stride \in Nat, NEW a \in Nat, NEW b \in Nat, a <= b
  PROVE  a * stride <= b * stride /\ a * stride \in Nat /\ b * stride \in Nat
OBVIOUS

LEMMA LayoutIsExact ==
  ASSUME NEW width \in SizeT, NEW height \in SizeT, NEW stride \in SizeT
  PROVE  LayoutStatus(width, height, stride) = "ok" <=> Fits(width, height, stride)
<1>1. width \in Nat /\ height \in Nat /\ stride \in Nat /\ SizeMax \in Nat /\ width <= SizeMax
  BY SizeMaxAssumption DEF SizeT
<1>2. CASE width = 0 \/ height = 0 \/ stride < width
  BY <1>1, <1>2 DEF LayoutStatus, Fits
<1>3. CASE ~(width = 0 \/ height = 0 \/ stride < width)
  <2>1. ProductOverflows(width, height) <=> ~(width * height <= SizeMax)
    <3>1. width > SizeMax \div height <=> width * height > SizeMax
      BY <1>1, <1>3, ProductGuard
    <3>2. width * height \in Nat
      BY <1>1
    <3> QED
      BY <1>1, <3>1, <3>2 DEF ProductOverflows
  <2>2. ExtentOverflows(width, height, stride) <=> ~((height - 1) * stride + width <= SizeMax)
    <3>1. CASE height = 1
      <4>1. (height - 1) * stride = 0
        BY <1>1, <3>1
      <4> QED
        BY <1>1, <3>1, <4>1 DEF ExtentOverflows
    <3>2. CASE height # 1
      <4>1. height - 1 \in Nat \ {0} /\ SizeMax - width \in Nat
        BY <1>1, <1>3, <3>2
      <4>2. stride > (SizeMax - width) \div (height - 1) <=> stride * (height - 1) > SizeMax - width
        BY <1>1, <4>1, ProductGuard
      <4>3. stride * (height - 1) \in Nat /\ (height - 1) * stride = stride * (height - 1)
        BY <1>1, <4>1
      <4>4. ExtentOverflows(width, height, stride) <=> stride * (height - 1) > SizeMax - width
        BY <1>1, <4>1, <4>2 DEF ExtentOverflows
      <4> QED
        BY <1>1, <4>3, <4>4
    <3> QED
      BY <3>1, <3>2
  <2>3. LayoutStatus(width, height, stride) = "ok" <=>
          ~ProductOverflows(width, height) /\ ~ExtentOverflows(width, height, stride)
    BY <1>3 DEF LayoutStatus
  <2>4. Fits(width, height, stride) <=>
          width * height <= SizeMax /\ (height - 1) * stride + width <= SizeMax
    BY <1>1, <1>3 DEF Fits
  <2> QED
    BY <2>1, <2>2, <2>3, <2>4
<1> QED
  BY <1>2, <1>3

LEMMA LayoutOffsets ==
  ASSUME NEW width \in SizeT, NEW height \in SizeT, NEW stride \in SizeT,
         Fits(width, height, stride)
  PROVE  /\ PixelCount(width, height) = width * height
         /\ \A row \in 0..height - 1 : RowOffset(row, stride) = row * stride
<1>1. width \in Nat /\ height \in Nat /\ stride \in Nat /\ SizeMax \in Nat
  BY SizeMaxAssumption DEF SizeT
<1>2. width * height \in 0..SizeMax
  <2>1. width * height \in Nat
    BY <1>1
  <2> QED
    BY <1>1, <2>1 DEF Fits
<1>3. ASSUME NEW row \in 0..height - 1
      PROVE  row * stride \in 0..SizeMax
  <2>1. row \in Nat /\ height - 1 \in Nat /\ row <= height - 1
    BY <1>1
  <2>2. row * stride <= (height - 1) * stride /\ row * stride \in Nat /\ (height - 1) * stride \in Nat
    BY <1>1, <2>1, RowsOrdered
  <2>3. (height - 1) * stride + width <= SizeMax
    BY DEF Fits
  <2> QED
    BY <1>1, <2>2, <2>3
<1> QED
  BY <1>2, <1>3, NoWrap DEF PixelCount, RowOffset

\* The layout check refuses exactly the frames that do not fit, and behind it no
\* product wraps, for every width of size_t.
THEOREM LayoutIsAlwaysExact == Calls => []LayoutExact
<1> USE DEF LayoutExact
<1>1. CallInit => LayoutExact
  BY DEF CallInit, NoCall
<1>2. LayoutExact /\ [CallNext]_call => LayoutExact'
  <2> SUFFICES ASSUME LayoutExact, [CallNext]_call PROVE LayoutExact'
    OBVIOUS
  <2>1. CASE ValidateFrameLayout
    <3>1. PICK width, height, stride \in SizeT :
            call' = [function |-> "validate_frame_layout",
                     width |-> width, height |-> height, stride |-> stride,
                     status |-> LayoutStatus(width, height, stride),
                     pixel_count |-> PixelCount(width, height)]
      BY <2>1 DEF ValidateFrameLayout
    <3>2. LayoutStatus(width, height, stride) = "ok" <=> Fits(width, height, stride)
      BY LayoutIsExact
    <3>3. Fits(width, height, stride) =>
            /\ PixelCount(width, height) = width * height
            /\ \A row \in 0..height - 1 : RowOffset(row, stride) = row * stride
      BY LayoutOffsets
    <3> QED
      BY <3>1, <3>2, <3>3
  <2>2. CASE GateUpdateCall \/ Escape \/ Start \/ Return
    BY <2>2 DEF GateUpdateCall, Escape, Start, Return, NoCall
  <2>3. CASE UNCHANGED call
    BY <2>3
  <2> QED
    BY <2>1, <2>2, <2>3 DEF CallNext
<1> QED
  BY <1>1, <1>2, PTL DEF Calls

-----------------------------------------------------------------------------
(* The event gate.                                                          *)

\* Where a whole number would not go below zero, the unsigned difference is it.
LEMMA UnsignedDifference ==
  ASSUME NEW a \in Times, NEW b \in Times, b <= a
  PROVE  Minus(a, b) = a - b /\ a - b \in Times
BY ClockMaxAssumption DEF Minus, Times

LEMMA CooldownIsATime == Cooldown \in Times /\ Cooldown # 0 /\ ClockMax \in Nat
BY GateAssumption, ClockMaxAssumption DEF Times

\* What a call of the gate comes to, its four cases in whole numbers.
LEMMA UpdateCases ==
  ASSUME NEW gate \in ClockGates, NEW detected \in BOOLEAN, NEW at \in Times
  PROVE  /\ gate.phase \in {"idle", "cooldown"} /\ gate.cooldown_started \in Times
         /\ gate.phase = "idle" =>
              UpdateAt(gate, detected, at) =
                IF detected THEN Emitted(gate, at) ELSE Outcome(gate, FALSE, 0)
         /\ gate.phase = "cooldown" /\ at < gate.cooldown_started =>
              UpdateAt(gate, detected, at) = Outcome(gate, FALSE, Cooldown)
         /\ gate.phase = "cooldown" /\ at >= gate.cooldown_started
              /\ at - gate.cooldown_started < Cooldown =>
              UpdateAt(gate, detected, at) =
                Outcome(gate, FALSE, Cooldown - (at - gate.cooldown_started))
         /\ gate.phase = "cooldown" /\ at >= gate.cooldown_started
              /\ at - gate.cooldown_started >= Cooldown =>
              UpdateAt(gate, detected, at) =
                IF detected THEN Emitted(gate, at)
                ELSE Outcome([gate EXCEPT !.phase = "idle"], FALSE, 0)
<1> DEFINE started == gate.cooldown_started
<1>1. gate.phase \in {"idle", "cooldown"} /\ started \in Times
  BY DEF ClockGates
<1>2. gate.phase = "idle" =>
        UpdateAt(gate, detected, at) =
          IF detected THEN Emitted(gate, at) ELSE Outcome(gate, FALSE, 0)
  BY DEF UpdateAt
<1>3. ASSUME gate.phase = "cooldown", at < started
      PROVE  UpdateAt(gate, detected, at) = Outcome(gate, FALSE, Cooldown)
  BY <1>3 DEF UpdateAt, ClockBehind
<1>4. at \in Int /\ started \in Int
  BY <1>1, ClockMaxAssumption DEF Times
<1>5. ASSUME gate.phase = "cooldown", at >= started
      PROVE  /\ Elapsed(gate, at) = at - started /\ at - started \in Times
             /\ ~ClockBehind(gate, at)
  BY <1>1, <1>4, <1>5, UnsignedDifference DEF Elapsed, ClockBehind
<1>6. ASSUME gate.phase = "cooldown", at >= started, at - started < Cooldown
      PROVE  UpdateAt(gate, detected, at) = Outcome(gate, FALSE, Cooldown - (at - started))
  <2>1. Remaining(gate, at) = Cooldown - (at - started)
    <3>1. at - started <= Cooldown
      BY <1>4, <1>6, CooldownIsATime DEF Times
    <3> QED
      BY <1>5, <1>6, <3>1, UnsignedDifference, CooldownIsATime DEF Remaining
  <2>2. UpdateAt(gate, detected, at) = Outcome(gate, FALSE, Remaining(gate, at))
    BY <1>5, <1>6 DEF UpdateAt
  <2> QED
    BY <2>1, <2>2
<1>7. ASSUME gate.phase = "cooldown", at >= started, at - started >= Cooldown
      PROVE  UpdateAt(gate, detected, at) =
               IF detected THEN Emitted(gate, at)
               ELSE Outcome([gate EXCEPT !.phase = "idle"], FALSE, 0)
  <2>1. ~(Elapsed(gate, at) < Cooldown)
    BY <1>4, <1>5, <1>7, CooldownIsATime DEF Times
  <2> QED
    BY <1>5, <1>7, <2>1 DEF UpdateAt
<1> QED
  BY <1>1, <1>2, <1>3, <1>6, <1>7

\* The gate in unsigned arithmetic is the gate in whole numbers.
LEMMA GateActsLike ==
  ASSUME NEW gate \in ClockGates, NEW detected \in BOOLEAN, NEW at \in Times
  PROVE  ActsLike(gate, detected, at)
<1> DEFINE outcome == UpdateAt(gate, detected, at)
<1>1. gate.phase \in {"idle", "cooldown"} /\ gate.cooldown_started \in Times
  BY UpdateCases
<1>2. at \in Int /\ gate.cooldown_started \in Int /\ Cooldown \in Int
  BY <1>1, CooldownIsATime DEF Times
<1>3. CooldownOver(gate, at) <=>
        at >= gate.cooldown_started /\ at - gate.cooldown_started >= Cooldown
  BY DEF CooldownOver
<1>4. SUFFICES /\ outcome.gate = GateUpdate(gate, detected, at)
               /\ outcome.event_emitted <=> Emits(gate, detected, at)
  BY DEF ActsLike
<1>5. CASE gate.phase = "idle"
  <2>1. outcome = IF detected THEN Emitted(gate, at) ELSE Outcome(gate, FALSE, 0)
    BY <1>5, UpdateCases
  <2> QED
    BY <1>5, <2>1 DEF Outcome, Emitted, GateUpdate, Emits
<1>6. CASE gate.phase = "cooldown" /\ at < gate.cooldown_started
  <2>1. outcome = Outcome(gate, FALSE, Cooldown)
    BY <1>6, UpdateCases
  <2>2. ~CooldownOver(gate, at)
    BY <1>2, <1>3, <1>6
  <2> QED
    BY <1>6, <2>1, <2>2 DEF Outcome, GateUpdate, Emits
<1>7. CASE /\ gate.phase = "cooldown" /\ at >= gate.cooldown_started
           /\ at - gate.cooldown_started < Cooldown
  <2>1. outcome = Outcome(gate, FALSE, Cooldown - (at - gate.cooldown_started))
    BY <1>7, UpdateCases
  <2>2. ~CooldownOver(gate, at)
    BY <1>2, <1>3, <1>7
  <2> QED
    BY <1>7, <2>1, <2>2 DEF Outcome, GateUpdate, Emits
<1>8. CASE gate.phase = "cooldown" /\ CooldownOver(gate, at)
  <2>1. outcome = IF detected THEN Emitted(gate, at)
                  ELSE Outcome([gate EXCEPT !.phase = "idle"], FALSE, 0)
    BY <1>3, <1>8, UpdateCases
  <2> QED
    BY <1>8, <2>1 DEF Outcome, Emitted, GateUpdate, Emits
<1> QED
  BY <1>1, <1>2, <1>3, <1>5, <1>6, <1>7, <1>8

\* The remaining time a decision reports is kept by the next call.
LEMMA GateKeepsRemaining ==
  ASSUME NEW gate \in ClockGates, NEW detected \in BOOLEAN, NEW at \in Times
  PROVE  KeepsRemaining(gate, detected, at)
<1> DEFINE first == UpdateAt(gate, detected, at)
           Second(later) == UpdateAt(first.gate, TRUE, later)
           started == gate.cooldown_started
<1>1. gate.phase \in {"idle", "cooldown"} /\ started \in Times /\ gate.event_count \in 0..CountLimit
  BY DEF ClockGates
<1>2. at \in Int /\ started \in Int /\ Cooldown \in Int /\ ClockMax \in Int /\ Cooldown > 0
      /\ at >= 0
  BY <1>1, CooldownIsATime DEF Times
<1> SUFFICES ASSUME NEW later \in at..ClockMax
             PROVE  LET waited == later - at >= first.cooldown_remaining
                    IN  /\ Second(later).event_emitted => waited
                        /\ waited /\ ~ClockBehind(gate, at) => Second(later).event_emitted
  BY DEF KeepsRemaining
<1>3. later \in Times /\ later \in Int /\ later >= at
  BY <1>2 DEF Times
<1>4. ASSUME NEW g \in ClockGates
      PROVE  UpdateAt(g, TRUE, later).event_emitted <=>
               g.phase = "idle" \/ (later >= g.cooldown_started
                                     /\ later - g.cooldown_started >= Cooldown)
  <2>1. ActsLike(g, TRUE, later)
    BY <1>3, GateActsLike
  <2> QED
    BY <2>1 DEF ActsLike, Emits, CooldownOver
<1>5. ASSUME first = Emitted(gate, at)
      PROVE  /\ Second(later).event_emitted <=> later - at >= Cooldown
             /\ first.cooldown_remaining = Cooldown
  <2>1. first.gate = EmitEvent(gate, at) /\ first.cooldown_remaining = Cooldown
    BY <1>5 DEF Emitted, Outcome
  <2>2. /\ EmitEvent(gate, at) \in ClockGates
        /\ EmitEvent(gate, at).phase = "cooldown"
        /\ EmitEvent(gate, at).cooldown_started = at
    BY <1>1, GateAssumption DEF EmitEvent, ClockGates
  <2> HIDE DEF first
  <2> QED
    BY <1>3, <1>4, <2>1, <2>2
<1>6. ASSUME NEW g \in ClockGates, g.phase = "idle", first = Outcome(g, FALSE, 0)
      PROVE  Second(later).event_emitted /\ first.cooldown_remaining = 0
  <2>1. first.gate = g /\ first.cooldown_remaining = 0
    BY <1>6 DEF Outcome
  <2> HIDE DEF first
  <2> QED
    BY <1>4, <1>6, <2>1
<1>7. CASE gate.phase = "idle" \/ (gate.phase = "cooldown" /\ at >= started
                                    /\ at - started >= Cooldown)
  <2>1. CASE detected
    <3>1. first = Emitted(gate, at)
      BY <1>7, <2>1, UpdateCases
    <3> HIDE DEF first, Second
    <3> QED
      BY <1>5, <3>1
  <2>2. CASE ~detected
    <3> DEFINE g == [gate EXCEPT !.phase = "idle"]
    <3>1. g \in ClockGates /\ g.phase = "idle" /\ (gate.phase = "idle" => g = gate)
      BY <1>1 DEF ClockGates
    <3>2. first = Outcome(g, FALSE, 0)
      BY <1>7, <2>2, <3>1, UpdateCases
    <3>3. Second(later).event_emitted /\ first.cooldown_remaining = 0
      BY <1>6, <3>1, <3>2
    <3> HIDE DEF first, Second
    <3> QED
      BY <1>2, <1>3, <3>3
  <2> QED
    BY <2>1, <2>2
<1>8. CASE gate.phase = "cooldown" /\ at < started
  <2>1. first = Outcome(gate, FALSE, Cooldown)
    BY <1>8, UpdateCases
  <2>2. first.gate = gate /\ first.cooldown_remaining = Cooldown
    BY <2>1 DEF Outcome
  <2>3. ClockBehind(gate, at)
    BY <1>8 DEF ClockBehind
  <2> HIDE DEF first
  <2>4. Second(later).event_emitted <=> later >= started /\ later - started >= Cooldown
    BY <1>4, <1>8, <2>2
  <2> HIDE DEF Second
  <2> QED
    BY <1>2, <1>3, <1>8, <2>2, <2>3, <2>4
<1>9. CASE gate.phase = "cooldown" /\ at >= started /\ at - started < Cooldown
  <2>1. first = Outcome(gate, FALSE, Cooldown - (at - started))
    BY <1>9, UpdateCases
  <2>2. first.gate = gate /\ first.cooldown_remaining = Cooldown - (at - started)
    BY <2>1 DEF Outcome
  <2> HIDE DEF first
  <2>3. Second(later).event_emitted <=> later >= started /\ later - started >= Cooldown
    BY <1>4, <1>9, <2>2
  <2> HIDE DEF Second
  <2> QED
    BY <1>2, <1>3, <1>9, <2>2, <2>3
<1>10. \/ gate.phase = "idle" \/ (gate.phase = "cooldown" /\ at >= started /\ at - started >= Cooldown)
       \/ gate.phase = "cooldown" /\ at < started
       \/ gate.phase = "cooldown" /\ at >= started /\ at - started < Cooldown
  BY <1>1, <1>2
<1> HIDE DEF first, Second
<1> QED
  BY <1>7, <1>8, <1>9, <1>10

\* No clock makes the gate's unsigned arithmetic differ from whole numbers, and
\* the remaining cooldown it reports is kept, for every cooldown and every width
\* of the clock.
THEOREM GateIsExact == Calls => []ActsLikeEventGate
<1> USE DEF ActsLikeEventGate
<1>1. CallInit => ActsLikeEventGate
  BY DEF CallInit, NoCall
<1>2. ActsLikeEventGate /\ [CallNext]_call => ActsLikeEventGate'
  <2> SUFFICES ASSUME ActsLikeEventGate, [CallNext]_call PROVE ActsLikeEventGate'
    OBVIOUS
  <2>1. CASE GateUpdateCall
    <3>1. PICK gate \in ClockGates, detected \in BOOLEAN, at \in Times :
            call' = [function |-> "motion_event_gate_update",
                     before |-> gate, detected |-> detected, now |-> at,
                     outcome |-> UpdateAt(gate, detected, at)]
      BY <2>1 DEF GateUpdateCall
    <3>2. ActsLike(gate, detected, at) /\ KeepsRemaining(gate, detected, at)
      BY GateActsLike, GateKeepsRemaining
    <3> QED
      BY <3>1, <3>2
  <2>2. CASE ValidateFrameLayout \/ Escape \/ Start \/ Return
    BY <2>2 DEF ValidateFrameLayout, Escape, Start, Return, NoCall
  <2>3. CASE UNCHANGED call
    BY <2>3
  <2> QED
    BY <2>1, <2>2, <2>3 DEF CallNext
<1> QED
  BY <1>1, <1>2, PTL DEF Calls

-----------------------------------------------------------------------------
(* Induction, for the folds.                                                *)

Less == {pair \in Nat \X Nat : pair[1] < pair[2]}

LEMMA NaturalsWellFounded == IsWellFoundedOn(Less, Nat)
BY NatLessThanWellFounded DEF OpToRel, Less

\* A set of naturals that has 0, and with a number the next one, has them all.
LEMMA AllNaturals ==
  ASSUME NEW S, 0 \in S, \A n \in Nat : n \in S => n + 1 \in S
  PROVE  \A n \in Nat : n \in S
<1> SUFFICES ASSUME NEW k \in Nat, k \notin S PROVE FALSE
  OBVIOUS
<1> DEFINE Missing == Nat \ S
<1>2. PICK x \in Missing : \A y \in Missing : ~(<<y, x>> \in Less)
  <2>1. Missing \subseteq Nat /\ Missing # {}
    OBVIOUS
  <2> HIDE DEF Missing
  <2> QED
    BY NaturalsWellFounded, <2>1, WFMin, Zenon
<1>3. x \in Nat /\ x # 0
  BY <1>2
<1>4. x - 1 \in Nat /\ x - 1 < x /\ (x - 1) + 1 = x
  BY <1>3
<1>5. <<x - 1, x>> \in Less
  BY <1>3, <1>4 DEF Less
<1>6. x - 1 \in S
  BY <1>2, <1>4, <1>5
<1> QED
  BY <1>2, <1>4, <1>6

\* A set of numbers up to n has a largest one, if it has any.
LEMMA MaxOfSome ==
  ASSUME NEW n \in Nat, NEW s \in SUBSET (1..n), s # {}
  PROVE  Max(s) \in s /\ \A i \in s : i <= Max(s)
<1> DEFINE HasMax(t) == \E m \in t : \A i \in t : m >= i
           K == {k \in Nat : \A t \in SUBSET (1..k) : t # {} => HasMax(t)}
<1>1. 0 \in K
  <2>1. \A t \in SUBSET (1..0) : t = {}
    OBVIOUS
  <2> HIDE DEF HasMax
  <2> QED
    BY <2>1
<1>2. ASSUME NEW k \in Nat, k \in K
      PROVE  k + 1 \in K
  <2>1. ASSUME NEW t \in SUBSET (1..k + 1), t # {}
        PROVE  HasMax(t)
    <3>1. CASE k + 1 \in t
      <4>1. \A i \in t : k + 1 >= i
        OBVIOUS
      <4> QED
        BY <3>1, <4>1
    <3>2. CASE k + 1 \notin t
      <4>1. t \in SUBSET (1..k)
        BY <3>2
      <4> HIDE DEF HasMax
      <4> QED
        BY <1>2, <2>1, <4>1
    <3> QED
      BY <3>1, <3>2
  <2> HIDE DEF HasMax
  <2> QED
    BY <2>1
<1>3. n \in K
  <2> HIDE DEF K
  <2> QED
    BY <1>1, <1>2, AllNaturals
<1>4. HasMax(s)
  <2> HIDE DEF HasMax
  <2> QED
    BY <1>3
<1>5. PICK m \in s : \A i \in s : m >= i
  BY <1>4
<1>6. Max(s) \in s /\ \A i \in s : Max(s) >= i
  BY <1>5, Zenon DEF Max
<1>7. s \subseteq Nat
  OBVIOUS
<1> QED
  BY <1>6, <1>7

LEMMA WithoutLast ==
  ASSUME NEW k \in Nat, NEW s \in SUBSET (1..k + 1), NEW m \in s, \A i \in s : i <= m
  PROVE  s \ {m} \in SUBSET (1..k)
OBVIOUS

\* The first k numbers without the last are the first k - 1.
LEMMA FirstNumbers ==
  ASSUME NEW n \in Nat, NEW k \in 1..n
  PROVE  /\ 1..k \in SUBSET (1..n) /\ 1..k # {} /\ Max(1..k) = k
         /\ (1..k) \ {k} = 1..k - 1
<1>1. 1..k \in SUBSET (1..k) /\ k \in 1..k /\ k \in Nat
  OBVIOUS
<1>2. Max(1..k) \in 1..k /\ \A i \in 1..k : i <= Max(1..k)
  BY <1>1, MaxOfSome
<1>3. Max(1..k) = k
  BY <1>1, <1>2
<1> QED
  BY <1>1, <1>3

-----------------------------------------------------------------------------
(* The parser's loop.                                                       *)

NothingRead == [config |-> Defaults, read |-> TRUE]

\* What the loop has read of the members in s, once it has read the others of them.
ReadLast(g, s, members, long_max) ==
  IF s = {} THEN NothingRead
  ELSE ReadMember(g[s \ {Max(s)}], members[Max(s)], long_max)

\* The fold of ParseConfigJson.
IsReading(g, members, long_max, D) == g = [s \in SUBSET D |-> ReadLast(g, s, members, long_max)]

Reading(members, long_max) == CHOOSE g : IsReading(g, members, long_max, DOMAIN members)

LEMMA ReadingExists ==
  ASSUME NEW members, NEW long_max, NEW n \in Nat
  PROVE  \E g : IsReading(g, members, long_max, 1..n)
<1> DEFINE Value(g, s) == ReadLast(g, s, members, long_max)
           K == {k \in Nat : \E g : \A s \in SUBSET (1..k) : g[s] = Value(g, s)}
<1>1. 0 \in K
  <2> DEFINE g == [s \in {{}} |-> NothingRead]
  <2>1. \A s \in SUBSET (1..0) : s = {}
    OBVIOUS
  <2>2. g[{}] = Value(g, {})
    BY DEF ReadLast
  <2> HIDE DEF g, Value
  <2> QED
    BY <2>1, <2>2
<1>2. ASSUME NEW k \in Nat, k \in K
      PROVE  k + 1 \in K
  <2>1. PICK g : \A s \in SUBSET (1..k) : g[s] = Value(g, s)
    BY <1>2
  <2> DEFINE h == [s \in SUBSET (1..k + 1) |-> Value(g, s)]
  <2>2. ASSUME NEW s \in SUBSET (1..k + 1)
        PROVE  h[s] = Value(h, s)
    <3>1. CASE s = {}
      BY <3>1 DEF ReadLast
    <3>2. CASE s # {}
      <4>0. k + 1 \in Nat
        OBVIOUS
      <4>1. Max(s) \in s /\ \A i \in s : i <= Max(s)
        BY ONLY <2>2, <3>2, <4>0, MaxOfSome
      <4>2. s \ {Max(s)} \in SUBSET (1..k)
        BY <2>2, <4>1, WithoutLast
      <4>3. s \ {Max(s)} \in SUBSET (1..k + 1)
        OBVIOUS
      <4>4. h[s \ {Max(s)}] = g[s \ {Max(s)}]
        BY <2>1, <4>2, <4>3, Zenon
      <4> QED
        BY <4>4, Zenon DEF ReadLast
    <3> QED
      BY <3>1, <3>2
  <2> HIDE DEF h, Value
  <2> QED
    BY <2>2
<1>3. n \in K
  <2> HIDE DEF K
  <2> QED
    BY <1>1, <1>2, AllNaturals
<1>4. PICK g : \A s \in SUBSET (1..n) : g[s] = Value(g, s)
  BY <1>3
<1> DEFINE h == [s \in SUBSET (1..n) |-> g[s]]
<1>5. ASSUME NEW s \in SUBSET (1..n)
      PROVE  g[s] = Value(h, s)
  <2>1. s \ {Max(s)} \in SUBSET (1..n)
    OBVIOUS
  <2> QED
    BY <1>4, <2>1, Zenon DEF ReadLast
<1>6. IsReading(h, members, long_max, 1..n)
  BY <1>5, Zenon DEF IsReading
<1> QED
  BY <1>6, Zenon

\* What is read of the first k members.
ReadOf(members, long_max, k) == Reading(members, long_max)[1..k]

\* The loop, turn by turn.
LEMMA ReadingTurns ==
  ASSUME NEW M, NEW members \in Seq(M), NEW long_max
  PROVE  /\ ReadOf(members, long_max, 0) = NothingRead
         /\ \A k \in 1..Len(members) :
              ReadOf(members, long_max, k)
                = ReadMember(ReadOf(members, long_max, k - 1), members[k], long_max)
<1> DEFINE g == Reading(members, long_max)
           n == Len(members)
<1>1. n \in Nat /\ DOMAIN members = 1..n
  OBVIOUS
<1>2. IsReading(g, members, long_max, 1..n)
  BY <1>1, ReadingExists, Zenon DEF Reading
<1> HIDE DEF g, n
<1>3. \A s \in SUBSET (1..n) : g[s] = ReadLast(g, s, members, long_max)
  BY <1>2, Zenon DEF IsReading
<1>4. g[1..0] = NothingRead
  <2>1. 1..0 = {} /\ 1..0 \in SUBSET (1..n)
    BY <1>1
  <2> QED
    BY <1>3, <2>1, Zenon DEF ReadLast
<1>5. ASSUME NEW k \in 1..n
      PROVE  g[1..k] = ReadMember(g[1..k - 1], members[k], long_max)
  <2>1. /\ 1..k \in SUBSET (1..n) /\ 1..k # {} /\ Max(1..k) = k
        /\ (1..k) \ {k} = 1..k - 1
    BY <1>1, FirstNumbers
  <2> QED
    BY <1>3, <2>1, Zenon DEF ReadLast
<1> QED
  BY <1>4, <1>5, Zenon DEF ReadOf, g, n

LEMMA ParsesAll ==
  ASSUME NEW M, NEW file, file.members \in Seq(M), NEW long_max
  PROVE  ParseConfigJson(file, long_max)
           = LET last == ReadOf(file.members, long_max, Len(file.members))
             IN  [last EXCEPT !.read = @ /\ file.well_formed]
<1>1. ParseConfigJson(file, long_max)
        = LET last == Reading(file.members, long_max)[DOMAIN file.members]
          IN  [last EXCEPT !.read = @ /\ file.well_formed]
  BY Zenon DEF ParseConfigJson, FoldLeft, MapThenFoldSet, Reading, IsReading, ReadLast, NothingRead
<1>2. DOMAIN file.members = 1..Len(file.members)
  <2> DEFINE m == file.members
  <2>1. m \in Seq(M)
    OBVIOUS
  <2> HIDE DEF m
  <2>2. DOMAIN m = 1..Len(m)
    BY <2>1
  <2> QED
    BY <2>2 DEF m
<1> QED
  BY <1>1, <1>2, Zenon DEF ReadOf

-----------------------------------------------------------------------------
(* What is read is what the file says.                                      *)

\* A member of a file, as far as the parsers look at its value.
IsMember(member) ==
  /\ member.value.kind = "integer" => member.value.is \in Int
  /\ member.value.kind = "string" => member.value.is \in Nat
  /\ member.value.kind = "fraction" => member.value.is \in RatioClasses

\* what Says makes of the last member on a field
Word(member, field) ==
  IF field = "motion_changed_ratio_threshold" THEN RatioOf(member.value) ELSE member.value.is

LEMMA FitsUnchanged ==
  ASSUME NEW field, NEW number \in Int, IntegerFitsField(field, number)
  PROVE  NumberSet(field, number) = number
<1>1. INT_MAX \in Nat /\ UINT_MAX = 2 * INT_MAX + 1
  BY WidthAssumption
<1>2. ASSUME NEW n \in Int, NEW m \in Nat, n >= 0, n < m
      PROVE  n % m = n
  BY ONLY <1>2
<1>3. CASE field = "http_port"
  <2>1. -INT_MAX - 1 <= number /\ number <= INT_MAX
    BY <1>1, <1>3 DEF IntegerFitsField
  <2>2. (number + INT_MAX + 1) % (UINT_MAX + 1) = number + INT_MAX + 1
    BY <1>1, <1>2, <2>1
  <2> QED
    BY <1>1, <1>3, <2>1, <2>2 DEF NumberSet
<1>4. CASE field # "http_port"
  <2>1. 0 <= number /\ number <= UINT_MAX
    BY <1>1, <1>4 DEF IntegerFitsField
  <2>2. number % (UINT_MAX + 1) = number
    BY <1>1, <1>2, <2>1
  <2> QED
    BY <1>4, <2>2 DEF NumberSet
<1> QED
  BY <1>3, <1>4

LEMMA StoredAsSaid ==
  ASSUME NEW member, IsMember(member), NEW long_max,
         member.key \in Fields, Readable(member, long_max)
  PROVE  Stored(member) = Word(member, member.key)
<1>1. CASE member.key \in IntegerFields
  <2>1. ReadsInteger(member.value, long_max) /\ IntegerFitsField(member.key, member.value.is)
    BY <1>1 DEF Readable, IntegerFields, StringFields
  <2>2. member.value.is \in Int
    BY <2>1 DEF ReadsInteger, IsMember
  <2>3. NumberSet(member.key, member.value.is) = member.value.is
    BY <2>1, <2>2, FitsUnchanged
  <2>4. member.key # "motion_changed_ratio_threshold"
    BY <1>1 DEF IntegerFields
  <2> QED
    BY <1>1, <2>3, <2>4 DEF Stored, Word
<1>2. CASE member.key \notin IntegerFields
  BY <1>2 DEF Stored, Word
<1> QED
  BY <1>1, <1>2

\* The last word of the first k members on a field, or its default.
Told(word, members, long_max, k, field) ==
  \/ word = Defaults[field] /\ \A i \in 1..k : members[i].key # field
  \/ \E i \in 1..k :
       /\ members[i].key = field /\ Readable(members[i], long_max)
       /\ word = Word(members[i], field)
       /\ \A later \in 1..k : later > i => members[later].key # field

LEMMA ToldByTheNext ==
  ASSUME NEW members, NEW long_max, NEW k \in Nat, NEW field,
         members[k + 1].key = field, Readable(members[k + 1], long_max)
  PROVE  Told(Word(members[k + 1], field), members, long_max, k + 1, field)
<1>1. k + 1 \in 1..k + 1 /\ \A later \in 1..k + 1 : ~(later > k + 1)
  OBVIOUS
<1> QED
  BY <1>1, Zenon DEF Told

LEMMA ToldBefore ==
  ASSUME NEW word, NEW members, NEW long_max, NEW k \in Nat, NEW field,
         members[k + 1].key # field, Told(word, members, long_max, k, field)
  PROVE  Told(word, members, long_max, k + 1, field)
<1>1. \A i \in 1..k + 1 : i = k + 1 \/ i \in 1..k
  OBVIOUS
<1>2. \A i \in 1..k : i \in 1..k + 1
  OBVIOUS
<1>3. CASE word = Defaults[field] /\ \A i \in 1..k : members[i].key # field
  BY <1>1, <1>3, Zenon DEF Told
<1>4. CASE \E i \in 1..k :
             /\ members[i].key = field /\ Readable(members[i], long_max)
             /\ word = Word(members[i], field)
             /\ \A later \in 1..k : later > i => members[later].key # field
  <2>1. PICK i \in 1..k :
             /\ members[i].key = field /\ Readable(members[i], long_max)
             /\ word = Word(members[i], field)
             /\ \A later \in 1..k : later > i => members[later].key # field
    BY <1>4
  <2> QED
    BY <1>1, <1>2, <2>1, Zenon DEF Told
<1> QED
  BY <1>3, <1>4, Zenon DEF Told

IsRead(so_far) ==
  /\ so_far = [config |-> so_far.config, read |-> so_far.read]
  /\ DOMAIN so_far.config = Fields
  /\ so_far.read \in BOOLEAN

ReadInv(so_far, members, long_max, k) ==
  /\ IsRead(so_far)
  /\ so_far.read => \A field \in Fields : Told(so_far.config[field], members, long_max, k, field)

LEMMA NothingToldYet ==
  ASSUME NEW members, NEW long_max
  PROVE  ReadInv(NothingRead, members, long_max, 0)
<1>1. \A i \in 1..0 : FALSE
  OBVIOUS
<1>2. ASSUME NEW field \in Fields
      PROVE  Told(Defaults[field], members, long_max, 0, field)
  BY <1>1, Zenon DEF Told
<1>3. DOMAIN Defaults = Fields
  BY DEF Defaults, Fields, IntegerFields, StringFields
<1>4. NothingRead.config = Defaults /\ NothingRead.read = TRUE
  BY DEF NothingRead
<1>5. NothingRead = [config |-> NothingRead.config, read |-> NothingRead.read]
  BY <1>4, Zenon DEF NothingRead
<1> QED
  BY <1>2, <1>3, <1>4, <1>5, Zenon DEF ReadInv, IsRead

LEMMA MemberRead ==
  ASSUME NEW so_far, NEW members, NEW long_max, NEW k \in Nat,
         IsMember(members[k + 1]), ReadInv(so_far, members, long_max, k)
  PROVE  ReadInv(ReadMember(so_far, members[k + 1], long_max), members, long_max, k + 1)
<1> DEFINE member == members[k + 1]
           after == ReadMember(so_far, member, long_max)
<1>1. CASE ~so_far.read
  BY <1>1, Zenon DEF ReadMember, ReadInv
<1>2. CASE so_far.read /\ ~Readable(member, long_max)
  <2>1. after = [so_far EXCEPT !.read = FALSE]
    BY <1>2, Zenon DEF ReadMember
  <2>2. after = [config |-> so_far.config, read |-> FALSE]
    BY <2>1 DEF ReadInv, IsRead
  <2>3. after.config = so_far.config /\ after.read = FALSE
    BY <2>2
  <2> HIDE DEF after
  <2>4. ReadInv(after, members, long_max, k + 1)
    BY <2>2, <2>3, Zenon DEF ReadInv, IsRead
  <2> QED
    BY <2>4, Zenon DEF after
<1>3. CASE so_far.read /\ Readable(member, long_max) /\ member.key \notin Fields
  <2>1. after = so_far
    BY <1>3, Zenon DEF ReadMember
  <2>2. ASSUME NEW field \in Fields
        PROVE  Told(so_far.config[field], members, long_max, k + 1, field)
    BY <1>3, ToldBefore DEF ReadInv
  <2> HIDE DEF after
  <2>3. ReadInv(after, members, long_max, k + 1)
    BY <2>1, <2>2, Zenon DEF ReadInv
  <2> QED
    BY <2>3, Zenon DEF after
<1>4. CASE so_far.read /\ Readable(member, long_max) /\ member.key \in Fields
  <2>1. after = [so_far EXCEPT !.config[member.key] = Stored(member)]
    BY <1>4, Zenon DEF ReadMember
  <2>2. after = [config |-> [so_far.config EXCEPT ![member.key] = Stored(member)], read |-> so_far.read]
    BY <2>1 DEF ReadInv, IsRead
  <2>3. Stored(member) = Word(member, member.key)
    BY <1>4, StoredAsSaid
  <2>4. ASSUME NEW field \in Fields, field = member.key
        PROVE  Told(Word(member, field), members, long_max, k + 1, field)
    BY <1>4, <2>4, ToldByTheNext
  <2>5. ASSUME NEW field \in Fields, field # member.key
        PROVE  Told(so_far.config[field], members, long_max, k + 1, field)
    BY <1>4, <2>5, ToldBefore DEF ReadInv
  <2> HIDE DEF after, member
  <2>6. /\ after.read = so_far.read /\ DOMAIN after.config = Fields
        /\ after = [config |-> after.config, read |-> after.read]
        /\ \A field \in Fields :
             after.config[field] = IF field = member.key THEN Word(member, field)
                                   ELSE so_far.config[field]
    BY <2>2, <2>3 DEF ReadInv, IsRead
  <2>7. ReadInv(after, members, long_max, k + 1)
    BY <1>4, <2>4, <2>5, <2>6, Zenon DEF ReadInv, IsRead
  <2> QED
    BY <2>7, Zenon DEF after, member
<1> QED
  BY <1>1, <1>2, <1>3, <1>4

LEMMA AllRead ==
  ASSUME NEW M, NEW members \in Seq(M), NEW long_max, \A m \in M : IsMember(m)
  PROVE  ReadInv(ReadOf(members, long_max, Len(members)), members, long_max, Len(members))
<1> DEFINE n == Len(members)
           So(k) == ReadInv(ReadOf(members, long_max, k), members, long_max, k)
           K == {k \in Nat : k <= n => So(k)}
<1>1. n \in Nat /\ \A k \in 1..n : members[k] \in M
  OBVIOUS
<1>2. /\ ReadOf(members, long_max, 0) = NothingRead
      /\ \A k \in 1..n : ReadOf(members, long_max, k)
                           = ReadMember(ReadOf(members, long_max, k - 1), members[k], long_max)
  BY ReadingTurns
<1> HIDE DEF n
<1>3. 0 \in K
  BY <1>2, NothingToldYet
<1>4. ASSUME NEW k \in Nat, k \in K
      PROVE  k + 1 \in K
  <2>1. ASSUME k + 1 <= n
        PROVE  So(k + 1)
    <3>1. k + 1 \in 1..n /\ (k + 1) - 1 = k /\ k <= n
      BY <1>1, <2>1
    <3>2. So(k) /\ IsMember(members[k + 1])
      BY <1>1, <1>4, <3>1
    <3>3. ReadOf(members, long_max, k + 1) = ReadMember(ReadOf(members, long_max, k), members[k + 1], long_max)
      BY <1>2, <3>1
    <3> QED
      BY <3>2, <3>3, MemberRead, Zenon
  <2> HIDE DEF So
  <2> QED
    BY <2>1
<1>5. n \in K
  <2> HIDE DEF K
  <2> QED
    BY <1>1, <1>3, <1>4, AllNaturals
<1> QED
  BY <1>1, <1>5 DEF n

LEMMA SaysTheLast ==
  ASSUME NEW M, NEW members \in Seq(M), NEW long_max, NEW field, NEW word,
         Told(word, members, long_max, Len(members), field)
  PROVE  Says(members, field) = word
<1> DEFINE n == Len(members)
           I == {i \in 1..n : members[i].key = field}
           at == IF I # {} THEN Max(I) ELSE 0
<1>1. Says(members, field) = CASE at = 0 -> Defaults[field]
        [] at > 0 /\ field = "motion_changed_ratio_threshold" -> RatioOf(members[at].value)
        [] OTHER -> members[at].value.is
  BY Zenon DEF Says, SelectLastInSeq
<1>2. n \in Nat /\ I \in SUBSET (1..n)
  OBVIOUS
<1> HIDE DEF n
<1>3. CASE word = Defaults[field] /\ \A i \in 1..n : members[i].key # field
  <2>1. I = {}
    BY <1>3
  <2>2. at = 0
    BY <2>1
  <2> QED
    BY <1>1, <1>3, <2>2
<1>4. CASE \E i \in 1..n :
             /\ members[i].key = field /\ Readable(members[i], long_max)
             /\ word = Word(members[i], field)
             /\ \A later \in 1..n : later > i => members[later].key # field
  <2>1. PICK i \in 1..n :
             /\ members[i].key = field /\ word = Word(members[i], field)
             /\ \A later \in 1..n : later > i => members[later].key # field
    BY <1>4
  <2>2. i \in I
    BY <2>1
  <2>3. I # {}
    BY <2>2
  <2> HIDE DEF I
  <2>4. Max(I) \in I /\ \A j \in I : j <= Max(I)
    BY <1>2, <2>3, MaxOfSome
  <2>5. Max(I) \in 1..n /\ members[Max(I)].key = field
    BY <2>4 DEF I
  <2>6. Max(I) = i
    BY <2>1, <2>2, <2>4, <2>5
  <2>7. at = i /\ i > 0 /\ i # 0
    BY <2>3, <2>6
  <2> HIDE DEF at
  <2> QED
    BY <1>1, <2>1, <2>7 DEF Word
<1> QED
  BY <1>3, <1>4 DEF Told, n

\* What config_load accepts, it read to the end and validated.
LEMMA Accepted ==
  ASSUME NEW M, NEW file, file.members \in Seq(M), NEW long_max, \A m \in M : IsMember(m),
         ConfigLoad(file, long_max).loaded
  PROVE  /\ ValidateConfig(ConfigLoad(file, long_max).config)
         /\ \A field \in Fields : Told(ConfigLoad(file, long_max).config[field], file.members,
                                       long_max, Len(file.members), field)
<1> DEFINE n == Len(file.members)
           last == ReadOf(file.members, long_max, n)
           parsed == ParseConfigJson(file, long_max)
           members == file.members
<1>1. parsed = [last EXCEPT !.read = @ /\ file.well_formed]
  BY ParsesAll, Zenon
<1>2. ReadInv(last, file.members, long_max, n)
  <2>1. members \in Seq(M)
    OBVIOUS
  <2> HIDE DEF members
  <2>2. ReadInv(ReadOf(members, long_max, Len(members)), members, long_max, Len(members))
    BY <2>1, AllRead
  <2> QED
    BY <2>2 DEF members
<1> HIDE DEF last, n, members
<1>3. parsed = [config |-> last.config, read |-> last.read /\ file.well_formed]
  BY <1>1, <1>2 DEF ReadInv, IsRead
<1>4. parsed.config = last.config /\ parsed.read = (last.read /\ file.well_formed)
  BY <1>3
<1> HIDE DEF parsed
<1>5. /\ ConfigLoad(file, long_max).config = parsed.config
      /\ ConfigLoad(file, long_max).loaded = (file.opened /\ parsed.read /\ ValidateConfig(parsed.config))
  BY Zenon DEF ConfigLoad, parsed
<1>6. parsed.read /\ ValidateConfig(parsed.config)
  BY <1>5, Zenon
<1>7. last.read
  BY <1>4, <1>6, Zenon
<1> QED
  BY <1>2, <1>4, <1>5, <1>6, <1>7, Zenon DEF ReadInv, n

LEMMA MembersAreMembers == \A member \in Members : IsMember(member)
<1>1. INT_MAX \in Int /\ UINT_MAX \in Int
  BY WidthAssumption
<1>2. \A field \in IntegerFields : Bounds[field] \in Int
  BY DEF IntegerFields, Bounds
<1>3. \A field \in StringFields : Capacity[field] \in Nat /\ Capacity[field] > 0
  BY DEF StringFields, Capacity
<1>4. ASSUME NEW field \in IntegerFields, NEW value \in IntegerValues(field)
      PROVE  IsMember([key |-> field, value |-> value])
  <2>1. value = Fraction("inside") \/ \E n \in Int : value = Number(n)
    BY <1>1, <1>2 DEF IntegerValues
  <2>2. CASE value = Fraction("inside")
    BY <2>2 DEF IsMember, Fraction, RatioClasses
  <2>3. CASE \E n \in Int : value = Number(n)
    BY <2>3 DEF IsMember, Number
  <2> QED
    BY <2>1, <2>2, <2>3
<1>5. ASSUME NEW field \in StringFields,
             NEW value \in {Text(0), Text(Capacity[field] - 1), Text(Capacity[field]), Number(1)}
      PROVE  IsMember([key |-> field, value |-> value])
  BY <1>3 DEF IsMember, Text, Number
<1>6. ASSUME NEW value \in {Boolean(TRUE), Boolean(FALSE), Number(1)}
      PROVE  IsMember([key |-> "motion_enabled", value |-> value])
  BY DEF IsMember, Boolean, Number
<1>7. ASSUME NEW value \in {Fraction(c) : c \in RatioClasses} \cup {Number(n) : n \in {-1, 0, 1, 2}}
                             \cup {Text(1)}
      PROVE  IsMember([key |-> "motion_changed_ratio_threshold", value |-> value])
  BY DEF IsMember, Fraction, Number, Text
<1>8. ASSUME NEW value \in {Text(511), Text(512), Number(7), Fraction("nan"), Boolean(TRUE), Nested}
      PROVE  IsMember([key |-> "unknown", value |-> value])
  BY DEF IsMember, Fraction, Number, Text, Boolean, Nested, RatioClasses
<1> DEFINE Texts(field) == {Text(0), Text(Capacity[field] - 1), Text(Capacity[field]), Number(1)}
           Flags == {Boolean(TRUE), Boolean(FALSE), Number(1)}
           Ratios == {Fraction(c) : c \in RatioClasses} \cup {Number(n) : n \in {-1, 0, 1, 2}}
                       \cup {Text(1)}
           Others == {Text(511), Text(512), Number(7), Fraction("nan"), Boolean(TRUE), Nested}
           Pairs(key, values) == {[key |-> key, value |-> value] : value \in values}
           OnIntegers == UNION {Pairs(field, IntegerValues(field)) : field \in IntegerFields}
           OnTexts == UNION {Pairs(field, Texts(field)) : field \in StringFields}
<1>9. Members = OnIntegers \cup OnTexts \cup Pairs("motion_enabled", Flags)
                  \cup Pairs("motion_changed_ratio_threshold", Ratios)
                  \cup Pairs("unknown", Others)
  BY Zenon DEF Members
<1>10. /\ \A field \in StringFields : \A value \in Texts(field) : IsMember([key |-> field, value |-> value])
       /\ \A value \in Flags : IsMember([key |-> "motion_enabled", value |-> value])
       /\ \A value \in Ratios : IsMember([key |-> "motion_changed_ratio_threshold", value |-> value])
       /\ \A value \in Others : IsMember([key |-> "unknown", value |-> value])
  BY <1>5, <1>6, <1>7, <1>8, Zenon
<1> HIDE DEF Texts, Flags, Ratios, Others
<1>11. ASSUME NEW key, NEW values, NEW member \in Pairs(key, values),
              \A value \in values : IsMember([key |-> key, value |-> value])
       PROVE  IsMember(member)
  BY <1>11
<1> HIDE DEF Pairs
<1>12. \A field \in IntegerFields : \A member \in Pairs(field, IntegerValues(field)) : IsMember(member)
  BY <1>4, <1>11, Zenon
<1>13. \A field \in StringFields : \A member \in Pairs(field, Texts(field)) : IsMember(member)
  BY <1>10, <1>11, Zenon
<1>14. \A member \in Pairs("motion_enabled", Flags)
         \cup Pairs("motion_changed_ratio_threshold", Ratios) \cup Pairs("unknown", Others) :
           IsMember(member)
  BY <1>10, <1>11, Zenon
<1>15. \A member \in OnIntegers : IsMember(member)
  BY ONLY <1>12
<1>16. \A member \in OnTexts : IsMember(member)
  BY ONLY <1>13
<1> HIDE DEF OnIntegers, OnTexts
<1> QED
  BY ONLY <1>9, <1>14, <1>15, <1>16, Zenon

LEMMA FilesHaveMembers ==
  ASSUME NEW file \in Files
  PROVE  file.members \in Seq(Members)
<1>1. ASSUME NEW s \in BoundedSeq(Members, MaxMembers)
      PROVE  s \in Seq(Members)
  BY <1>1 DEF BoundedSeq, SeqOf
<1>2. <<>> \in Seq(Members)
  OBVIOUS
<1>3. file.members \in BoundedSeq(Members, MaxMembers) \/ file.members = <<>>
  <2> DEFINE some == BoundedSeq(Members, MaxMembers)
  <2> HIDE DEF some
  <2>1. file.members \in some \/ file.members = <<>>
    BY DEF Files, some
  <2> QED
    BY <2>1 DEF some
<1> QED
  BY <1>1, <1>2, <1>3

LEMMA RunsOnlyLoaded ==
  ASSUME NEW argument \in {"help", "unknown", "config"}, NEW file, NEW long_max,
         Starts(argument, file, long_max).exit = Runs
  PROVE  ConfigLoad(file, long_max).loaded
<1> DEFINE loaded == ConfigLoad(file, long_max).loaded
<1>1. Starts(argument, file, long_max).exit
        = CASE argument = "help" -> SENSE_EXIT_OK
            [] argument = "unknown" -> SENSE_EXIT_USAGE
            [] argument = "config" /\ ~loaded -> SENSE_EXIT_CONFIG
            [] OTHER -> Runs
  BY Zenon DEF Starts
<1> HIDE DEF loaded
<1>2. loaded
  BY <1>1 DEF Runs, SENSE_EXIT_OK, SENSE_EXIT_USAGE, SENSE_EXIT_CONFIG
<1> QED
  BY <1>2 DEF loaded

LEMMA UsableWords ==
  ASSUME NEW config, NEW members, NEW long_max, NEW n \in Nat,
         \A i \in 1..n : IsMember(members[i]),
         \A field \in Fields : Told(config[field], members, long_max, n, field),
         ValidateConfig(config)
  PROVE  UsableByTheThreads(config)
<1>1. ASSUME NEW field \in StringFields
      PROVE  config[field] \in Nat /\ config[field] < Capacity[field]
  <2>1. Told(config[field], members, long_max, n, field)
    BY DEF Fields
  <2>2. CASE config[field] = Defaults[field]
    BY <2>2 DEF Defaults, StringFields, Capacity
  <2>3. CASE \E i \in 1..n :
               /\ members[i].key = field /\ Readable(members[i], long_max)
               /\ config[field] = Word(members[i], field)
    <3>1. PICK i \in 1..n :
               /\ members[i].key = field /\ Readable(members[i], long_max)
               /\ config[field] = Word(members[i], field)
      BY <2>3
    <3>2. ReadsString(members[i].value, Capacity[field])
      BY <3>1 DEF Readable, StringFields, IntegerFields
    <3>3. config[field] = members[i].value.is
      BY <3>1 DEF Word, StringFields
    <3> QED
      BY <3>2, <3>3 DEF ReadsString, IsMember
  <2> QED
    BY <2>1, <2>2, <2>3, Zenon DEF Told
<1>2. config["motion_changed_ratio_threshold"] \in RatioClasses
  <2> DEFINE field == "motion_changed_ratio_threshold"
  <2>1. Told(config[field], members, long_max, n, field)
    BY DEF Fields
  <2>2. CASE config[field] = Defaults[field]
    BY <2>2 DEF Defaults, RatioClasses
  <2>3. CASE \E i \in 1..n :
               /\ members[i].key = field /\ Readable(members[i], long_max)
               /\ config[field] = Word(members[i], field)
    <3>1. PICK i \in 1..n :
               /\ members[i].key = field /\ Readable(members[i], long_max)
               /\ config[field] = Word(members[i], field)
      BY <2>3
    <3>2. ReadsNumber(members[i].value)
      BY <3>1 DEF Readable, StringFields, IntegerFields
    <3>3. config[field] = RatioOf(members[i].value)
      BY <3>1 DEF Word
    <3> QED
      BY <3>2, <3>3 DEF ReadsNumber, RatioOf, IsMember, RatioClasses
  <2> QED
    BY <2>1, <2>2, <2>3, Zenon DEF Told
<1>3. config.motion_changed_ratio_threshold \in {"inside", "one"}
  BY <1>2 DEF RatioClasses, ValidateConfig
<1>4. \A field \in StringFields : config[field] \in 1..Capacity[field] - 1
  <2>1. config["device"] # 0 /\ config["event_log"] # 0
    BY DEF ValidateConfig
  <2>2. \A field \in StringFields : Capacity[field] \in Nat
    BY DEF StringFields, Capacity
  <2>3. \A field \in StringFields : config[field] # 0
    BY <2>1 DEF StringFields
  <2> QED
    BY <1>1, <2>2, <2>3
<1>5. ValidIntegers(config)
  BY DEF ValidateConfig
<1>6. /\ config.motion_jpeg_scale_denom \in {1, 2, 4, 8}
      /\ config.motion_pixel_delta_threshold \in 1..255
      /\ config.motion_cooldown_ms > 0
      /\ config.http_port > 0 /\ config.http_port <= 65535
  BY ONLY <1>5 DEF ValidIntegers
<1>7. config.motion_sample_fps > 0 /\ 1000000000 \div config.motion_sample_fps > 0
  <2>1. config.motion_sample_fps \in 1..30
    BY ONLY <1>5 DEF ValidIntegers
  <2>2. ASSUME NEW fps \in 1..30
        PROVE  fps > 0 /\ 1000000000 \div fps > 0
    BY ONLY <2>2
  <2> QED
    BY ONLY <2>1, <2>2
<1> QED
  BY ONLY <1>3, <1>4, <1>6, <1>7 DEF UsableByTheThreads

LEMMA StartedConfig ==
  ASSUME NEW argument \in {"help", "unknown", "config"}, NEW file \in Files, NEW long_max,
         Starts(argument, file, long_max).exit = Runs
  PROVE  LET config == Starts(argument, file, long_max).config
         IN  /\ \A field \in Fields : config[field] = Says(file.members, field)
             /\ UsableByTheThreads(config)
<1> DEFINE config == ConfigLoad(file, long_max).config
           members == file.members
<1>1. Starts(argument, file, long_max).config = config
  BY Zenon DEF Starts
<1>2. members \in Seq(Members)
  BY FilesHaveMembers
<1>3. ValidateConfig(config)
      /\ \A field \in Fields : Told(config[field], members, long_max, Len(members), field)
  BY <1>2, RunsOnlyLoaded, MembersAreMembers, Accepted, Zenon
<1> HIDE DEF config, members
<1>4. Len(members) \in Nat /\ \A i \in 1..Len(members) : IsMember(members[i])
  BY <1>2, MembersAreMembers
<1>5. UsableByTheThreads(config)
  BY <1>3, <1>4, UsableWords
<1>6. \A field \in Fields : config[field] = Says(members, field)
  BY <1>2, <1>3, SaysTheLast
<1> QED
  BY <1>1, <1>5, <1>6, Zenon DEF members

\* The two properties after a step.
LEMMA ConfigStep ==
  ASSUME ConfigIsWhatTheFileSays, AcceptedIsUsable, [CallNext]_call
  PROVE  ConfigIsWhatTheFileSays' /\ AcceptedIsUsable'
<1>1. CASE Start
  <2>1. PICK argument \in {"help", "unknown", "config"}, file \in Files, long_max \in LongMaxima :
          call' = [function |-> "main", argument |-> argument, file |-> file,
                   long_max |-> long_max, result |-> Starts(argument, file, long_max)]
    BY <1>1 DEF Start
  <2> DEFINE result == Starts(argument, file, long_max)
  <2>2. call'.file = file /\ call'.result = result
    BY <2>1
  <2>3. result.exit = Runs =>
          /\ \A field \in Fields : result.config[field] = Says(file.members, field)
          /\ UsableByTheThreads(result.config)
    BY StartedConfig, Zenon
  <2> HIDE DEF result
  <2> QED
    BY <2>2, <2>3, Zenon DEF ConfigIsWhatTheFileSays, AcceptedIsUsable, LoadedConfig
<1>2. CASE ValidateFrameLayout \/ GateUpdateCall \/ Escape \/ Return
  <2>1. call'.function # "main"
    BY <1>2 DEF ValidateFrameLayout, GateUpdateCall, Escape, Return, NoCall
  <2> QED
    BY <2>1 DEF ConfigIsWhatTheFileSays, AcceptedIsUsable, LoadedConfig
<1>3. CASE UNCHANGED call
  BY <1>3, Zenon DEF ConfigIsWhatTheFileSays, AcceptedIsUsable, LoadedConfig
<1> QED
  BY <1>1, <1>2, <1>3 DEF CallNext

LEMMA ConfigInit == CallInit => ConfigIsWhatTheFileSays /\ AcceptedIsUsable
BY DEF CallInit, NoCall, ConfigIsWhatTheFileSays, AcceptedIsUsable, LoadedConfig

\* The daemon runs with the last word of its file on each field, or the default.
THEOREM ConfigIsRead == Calls => []ConfigIsWhatTheFileSays
BY ConfigInit, ConfigStep, PTL DEF Calls

\* What validate_config lets pass is of use to every thread.
THEOREM ConfigIsUsable == Calls => []AcceptedIsUsable
BY ConfigInit, ConfigStep, PTL DEF Calls

-----------------------------------------------------------------------------
(* A text in JSON, character by character.                                  *)

Bytes == CharacterClasses \cup {"backslash", "nul"}

Code(value) ==
  CASE value = "special" -> <<"backslash", "special">>
    [] value = "control" -> <<>>
    [] OTHER -> <<value>>

Codes(source, k) == [i \in 1..k |-> Code(source[i])]

LEMMA CodeIsBytes ==
  ASSUME NEW value \in CharacterClasses
  PROVE  Code(value) \in Seq(Bytes) /\ Len(Code(value)) \in 0..2
<1>1. CASE value = "special"
  <2>1. <<"backslash", "special">> \in Seq({"backslash", "special"})
    OBVIOUS
  <2>2. Code(value) = <<"backslash", "special">>
    BY <1>1 DEF Code
  <2> QED
    BY <2>1, <2>2 DEF Bytes, CharacterClasses
<1>2. CASE value = "control"
  BY <1>2 DEF Code
<1>3. CASE value = "plain"
  BY <1>3 DEF Code, Bytes, CharacterClasses
<1> QED
  BY <1>1, <1>2, <1>3 DEF CharacterClasses

\* What the recursive function of FlattenSeq has to satisfy.
IsFlat(f, source, k) ==
  f = [i \in 1..k |-> IF i = 1 THEN Code(source[i]) ELSE f[i - 1] \o Code(source[i])]

Flat(source, k) == CHOOSE f : IsFlat(f, source, k)

LEMMA FlatExists ==
  ASSUME NEW source, NEW n \in Nat
  PROVE  IsFlat(Flat(source, n), source, n)
<1> DEFINE K == {k \in Nat : \E f : IsFlat(f, source, k)}
<1>1. 0 \in K
  <2> DEFINE f == [i \in 1..0 |-> <<>>]
  <2>1. \A i \in 1..0 : FALSE
    OBVIOUS
  <2>2. IsFlat(f, source, 0)
    BY <2>1, Zenon DEF IsFlat
  <2> QED
    BY <2>2, Zenon
<1>2. ASSUME NEW k \in Nat, k \in K
      PROVE  k + 1 \in K
  <2>1. PICK f : IsFlat(f, source, k)
    BY <1>2
  <2> DEFINE h == [i \in 1..k + 1 |-> IF i = 1 THEN Code(source[i]) ELSE f[i - 1] \o Code(source[i])]
  <2>2. ASSUME NEW i \in 1..k
        PROVE  h[i] = f[i]
    <3>1. i \in 1..k + 1
      OBVIOUS
    <3>2. f[i] = IF i = 1 THEN Code(source[i]) ELSE f[i - 1] \o Code(source[i])
      BY <2>1, Zenon DEF IsFlat
    <3> QED
      BY <3>1, <3>2, Zenon
  <2>3. ASSUME NEW i \in 1..k + 1, i # 1
        PROVE  h[i - 1] = f[i - 1]
    <3>1. i - 1 \in 1..k
      BY <2>3
    <3> HIDE DEF h
    <3> QED
      BY <2>2, <3>1
  <2>4. \A i \in 1..k + 1 : h[i] = IF i = 1 THEN Code(source[i]) ELSE h[i - 1] \o Code(source[i])
    BY <2>3, Zenon
  <2>5. IsFlat(h, source, k + 1)
    BY <2>4, Zenon DEF IsFlat
  <2> HIDE DEF h
  <2> QED
    BY <2>5
<1>3. n \in K
  <2> HIDE DEF K
  <2> QED
    BY <1>1, <1>2, AllNaturals
<1> QED
  BY <1>3, Zenon DEF Flat

LEMMA FlatAt ==
  ASSUME NEW source, NEW k \in Nat, NEW f, IsFlat(f, source, k), NEW i \in 1..k
  PROVE  /\ i = 1 => f[i] = Code(source[i])
         /\ i # 1 => f[i] = f[i - 1] \o Code(source[i])
<1>1. f[i] = IF i = 1 THEN Code(source[i]) ELSE f[i - 1] \o Code(source[i])
  BY Zenon DEF IsFlat
<1> QED
  BY <1>1, Zenon

LEMMA FlatGrows ==
  ASSUME NEW source, NEW n \in Nat
  PROVE  \A i \in 1..n : Flat(source, n + 1)[i] = Flat(source, n)[i]
<1> DEFINE f == Flat(source, n)
           h == Flat(source, n + 1)
           K == {k \in Nat : k \in 1..n => h[k] = f[k]}
<1>1. IsFlat(f, source, n) /\ IsFlat(h, source, n + 1)
  BY FlatExists
<1> HIDE DEF f, h
<1>2. 0 \in K
  OBVIOUS
<1>3. ASSUME NEW k \in Nat, k \in K
      PROVE  k + 1 \in K
  <2>1. CASE k + 1 \in 1..n
    <3>1. k + 1 \in 1..n + 1 /\ n + 1 \in Nat
      BY <2>1
    <3>2. CASE k = 0
      <4>1. k + 1 = 1
        BY <3>2
      <4>2. h[k + 1] = Code(source[k + 1]) /\ f[k + 1] = Code(source[k + 1])
        BY ONLY <1>1, <2>1, <3>1, <4>1, FlatAt, n \in Nat, Zenon
      <4> QED
        BY <4>2
    <3>3. CASE k # 0
      <4>1. k + 1 # 1 /\ (k + 1) - 1 = k /\ k \in 1..n
        BY <2>1, <3>3
      <4>2. h[k + 1] = h[(k + 1) - 1] \o Code(source[k + 1])
        BY ONLY <1>1, <3>1, <4>1, FlatAt, Zenon
      <4>3. f[k + 1] = f[(k + 1) - 1] \o Code(source[k + 1])
        BY ONLY <1>1, <2>1, <4>1, FlatAt, n \in Nat, Zenon
      <4>4. h[k] = f[k]
        BY <1>3, <4>1
      <4>5. h[k + 1] = f[k + 1]
        BY ONLY <4>1, <4>2, <4>3, <4>4, Zenon
      <4> QED
        BY <4>5
    <3> QED
      BY <3>2, <3>3
  <2> QED
    BY <2>1
<1>4. \A k \in Nat : k \in K
  <2> HIDE DEF K
  <2> QED
    BY <1>2, <1>3, AllNaturals
<1>5. \A i \in 1..n : i \in Nat
  OBVIOUS
<1> QED
  BY <1>4, <1>5 DEF f, h

LEMMA PrefixIsFlat ==
  ASSUME NEW source \in Seq(CharacterClasses), NEW k \in 0..Len(source)
  PROVE  PrefixInJson(source, k) = IF k = 0 THEN <<>> ELSE Flat(source, k)[k]
<1> DEFINE part == SubSeq(source, 1, k)
           codes == Codes(source, k)
<1>1. /\ part \in Seq(CharacterClasses) /\ Len(part) = k /\ DOMAIN part = 1..k
      /\ \A i \in 1..k : part[i] = source[i]
  OBVIOUS
<1> HIDE DEF part
<1>2. InJson(part) = FlattenSeq([i \in DOMAIN part |-> Code(part[i])])
  BY Zenon DEF InJson, Code
<1>3. [i \in DOMAIN part |-> Code(part[i])] = codes
  BY <1>1, Zenon DEF Codes
<1>4. Len(codes) = k /\ k \in Nat
  <2>1. \A i \in 1..k : Code(source[i]) \in Seq(Bytes)
    BY CodeIsBytes
  <2>2. codes \in Seq(Seq(Bytes)) /\ Len(codes) = k
    BY <2>1 DEF Codes
  <2> QED
    BY <2>2
<1>5. \A i \in 1..k : codes[i] = Code(source[i])
  BY DEF Codes
<1>6. FlattenSeq(codes)
        = IF k = 0 THEN codes
          ELSE (CHOOSE f : f = [i \in 1..k |-> IF i = 1 THEN codes[i] ELSE f[i - 1] \o codes[i]])[k]
  <2>1. FlattenSeq(codes)
          = IF Len(codes) = 0 THEN codes
            ELSE (CHOOSE f : f = [i \in 1..Len(codes) |->
                                    IF i = 1 THEN codes[i] ELSE f[i - 1] \o codes[i]])[Len(codes)]
    BY Zenon DEF FlattenSeq
  <2> QED
    BY <1>4, <2>1, Zenon
<1>7. ASSUME NEW f
      PROVE  [i \in 1..k |-> IF i = 1 THEN codes[i] ELSE f[i - 1] \o codes[i]]
               = [i \in 1..k |-> IF i = 1 THEN Code(source[i]) ELSE f[i - 1] \o Code(source[i])]
  BY <1>5, Zenon
<1>8. k = 0 => codes = <<>>
  BY DEF Codes
<1> HIDE DEF codes
<1>9. (CHOOSE f : f = [i \in 1..k |-> IF i = 1 THEN codes[i] ELSE f[i - 1] \o codes[i]])
        = Flat(source, k)
  BY <1>7, Zenon DEF Flat, IsFlat
<1> QED
  BY <1>2, <1>3, <1>6, <1>8, <1>9, Zenon DEF PrefixInJson, part

\* One character more adds its code.
LEMMA PrefixGrows ==
  ASSUME NEW source \in Seq(CharacterClasses)
  PROVE  /\ PrefixInJson(source, 0) = <<>>
         /\ \A k \in 1..Len(source) :
              PrefixInJson(source, k) = PrefixInJson(source, k - 1) \o Code(source[k])
<1>1. PrefixInJson(source, 0) = <<>>
  <2>1. 0 \in 0..Len(source)
    OBVIOUS
  <2> QED
    BY <2>1, PrefixIsFlat, Zenon
<1>2. ASSUME NEW k \in 1..Len(source)
      PROVE  PrefixInJson(source, k) = PrefixInJson(source, k - 1) \o Code(source[k])
  <2>1. k \in Nat /\ k - 1 \in Nat /\ k \in 0..Len(source) /\ k - 1 \in 0..Len(source) /\ k # 0
        /\ (k - 1) + 1 = k
    OBVIOUS
  <2>2. IsFlat(Flat(source, k), source, k)
    BY <2>1, FlatExists
  <2>3. PrefixInJson(source, k) = Flat(source, k)[k]
    BY <2>1, PrefixIsFlat, Zenon
  <2>4. k \in 1..k
    BY <2>1
  <2>5. CASE k = 1
    <3>1. k - 1 = 0
      BY <2>5
    <3>2. Flat(source, k)[k] = Code(source[k])
      BY <2>1, <2>2, <2>4, <2>5, FlatAt, Zenon
    <3>3. Code(source[k]) \in Seq(Bytes)
      BY CodeIsBytes
    <3>4. <<>> \o Code(source[k]) = Code(source[k])
      BY <3>3
    <3> QED
      BY <1>1, <2>3, <3>1, <3>2, <3>4
  <2>6. CASE k # 1
    <3>1. Flat(source, k)[k] = Flat(source, k)[k - 1] \o Code(source[k])
      BY <2>1, <2>2, <2>4, <2>6, FlatAt, Zenon
    <3>2. k - 1 \in 1..k - 1 /\ k - 1 # 0
      BY <2>1, <2>6
    <3>3. Flat(source, k)[k - 1] = Flat(source, k - 1)[k - 1]
      <4>1. \A i \in 1..k - 1 : Flat(source, (k - 1) + 1)[i] = Flat(source, k - 1)[i]
        BY <2>1, FlatGrows, Zenon
      <4> QED
        BY <2>1, <3>2, <4>1, Zenon
    <3>4. PrefixInJson(source, k - 1) = Flat(source, k - 1)[k - 1]
      BY <2>1, <3>2, PrefixIsFlat, Zenon
    <3> QED
      BY <2>3, <3>1, <3>3, <3>4, Zenon
  <2> QED
    BY <2>5, <2>6
<1> QED
  BY <1>1, <1>2

-----------------------------------------------------------------------------
(* The loop of json_escape.                                                 *)

NothingWritten == [bytes |-> <<>>, full |-> FALSE]

\* What the loop has written of the characters in s, once it has read the others of them.
WriteLast(g, s, source, size) ==
  IF s = {} THEN NothingWritten
  ELSE EscapeCharacter(g[s \ {Max(s)}], source[Max(s)], size)

\* The fold of Escaped.
IsWriting(g, source, size, D) == g = [s \in SUBSET D |-> WriteLast(g, s, source, size)]

Writing(source, size) == CHOOSE g : IsWriting(g, source, size, DOMAIN source)

LEMMA WritingExists ==
  ASSUME NEW source, NEW size, NEW n \in Nat
  PROVE  \E g : IsWriting(g, source, size, 1..n)
<1> DEFINE Value(g, s) == WriteLast(g, s, source, size)
           K == {k \in Nat : \E g : \A s \in SUBSET (1..k) : g[s] = Value(g, s)}
<1>1. 0 \in K
  <2> DEFINE g == [s \in {{}} |-> NothingWritten]
  <2>1. \A s \in SUBSET (1..0) : s = {}
    OBVIOUS
  <2>2. g[{}] = Value(g, {})
    BY DEF WriteLast
  <2> HIDE DEF g, Value
  <2> QED
    BY <2>1, <2>2
<1>2. ASSUME NEW k \in Nat, k \in K
      PROVE  k + 1 \in K
  <2>1. PICK g : \A s \in SUBSET (1..k) : g[s] = Value(g, s)
    BY <1>2
  <2> DEFINE h == [s \in SUBSET (1..k + 1) |-> Value(g, s)]
  <2>2. ASSUME NEW s \in SUBSET (1..k + 1)
        PROVE  h[s] = Value(h, s)
    <3>1. CASE s = {}
      BY <3>1 DEF WriteLast
    <3>2. CASE s # {}
      <4>1. k + 1 \in Nat
        OBVIOUS
      <4>2. Max(s) \in s /\ \A i \in s : i <= Max(s)
        BY ONLY <2>2, <3>2, <4>1, MaxOfSome
      <4>3. s \ {Max(s)} \in SUBSET (1..k)
        BY <2>2, <4>2, WithoutLast
      <4>4. s \ {Max(s)} \in SUBSET (1..k + 1)
        OBVIOUS
      <4>5. h[s \ {Max(s)}] = g[s \ {Max(s)}]
        BY <2>1, <4>3, <4>4, Zenon
      <4> QED
        BY <4>5, Zenon DEF WriteLast
    <3> QED
      BY <3>1, <3>2
  <2> HIDE DEF h, Value
  <2> QED
    BY <2>2
<1>3. n \in K
  <2> HIDE DEF K
  <2> QED
    BY <1>1, <1>2, AllNaturals
<1>4. PICK g : \A s \in SUBSET (1..n) : g[s] = Value(g, s)
  BY <1>3
<1> DEFINE h == [s \in SUBSET (1..n) |-> g[s]]
<1>5. ASSUME NEW s \in SUBSET (1..n)
      PROVE  g[s] = Value(h, s)
  <2>1. s \ {Max(s)} \in SUBSET (1..n)
    OBVIOUS
  <2> QED
    BY <1>4, <2>1, Zenon DEF WriteLast
<1>6. IsWriting(h, source, size, 1..n)
  BY <1>5, Zenon DEF IsWriting
<1> QED
  BY <1>6, Zenon

\* What is written of the first k characters.
WrittenOf(source, size, k) == Writing(source, size)[1..k]

\* The loop, turn by turn.
LEMMA WritingTurns ==
  ASSUME NEW C, NEW source \in Seq(C), NEW size
  PROVE  /\ WrittenOf(source, size, 0) = NothingWritten
         /\ \A k \in 1..Len(source) :
              WrittenOf(source, size, k)
                = EscapeCharacter(WrittenOf(source, size, k - 1), source[k], size)
<1> DEFINE g == Writing(source, size)
           n == Len(source)
<1>1. n \in Nat /\ DOMAIN source = 1..n
  OBVIOUS
<1>2. IsWriting(g, source, size, 1..n)
  BY <1>1, WritingExists, Zenon DEF Writing
<1> HIDE DEF g, n
<1>3. \A s \in SUBSET (1..n) : g[s] = WriteLast(g, s, source, size)
  BY <1>2, Zenon DEF IsWriting
<1>4. g[1..0] = NothingWritten
  <2>1. 1..0 = {} /\ 1..0 \in SUBSET (1..n)
    BY <1>1
  <2> QED
    BY <1>3, <2>1, Zenon DEF WriteLast
<1>5. ASSUME NEW k \in 1..n
      PROVE  g[1..k] = EscapeCharacter(g[1..k - 1], source[k], size)
  <2>1. /\ 1..k \in SUBSET (1..n) /\ 1..k # {} /\ Max(1..k) = k
        /\ (1..k) \ {k} = 1..k - 1
    BY <1>1, FirstNumbers
  <2> QED
    BY <1>3, <2>1, Zenon DEF WriteLast
<1> QED
  BY <1>4, <1>5, Zenon DEF WrittenOf, g, n

LEMMA EscapesAll ==
  ASSUME NEW C, NEW source \in Seq(C), NEW size
  PROVE  Escaped(source, size)
           = IF size = 0 THEN <<>>
             ELSE Append(WrittenOf(source, size, Len(source)).bytes, "nul")
<1>1. Escaped(source, size)
        = IF size = 0 THEN <<>> ELSE Append(Writing(source, size)[DOMAIN source].bytes, "nul")
  BY Zenon DEF Escaped, FoldLeft, MapThenFoldSet, Writing, IsWriting, WriteLast, NothingWritten
<1>2. DOMAIN source = 1..Len(source)
  OBVIOUS
<1> QED
  BY <1>1, <1>2, Zenon DEF WrittenOf

-----------------------------------------------------------------------------
(* It writes the longest prefix that fits.                                  *)

\* The prefixes are texts of bytes, two for a character at most.
LEMMA PrefixIsBytes ==
  ASSUME NEW source \in Seq(CharacterClasses)
  PROVE  \A k \in 0..Len(source) : /\ PrefixInJson(source, k) \in Seq(Bytes)
                                   /\ Len(PrefixInJson(source, k)) \in 0..2 * k
<1> DEFINE n == Len(source)
           So(k) == /\ PrefixInJson(source, k) \in Seq(Bytes)
                    /\ Len(PrefixInJson(source, k)) \in 0..2 * k
           K == {k \in Nat : k <= n => So(k)}
<1>1. n \in Nat /\ \A k \in 1..n : source[k] \in CharacterClasses
  OBVIOUS
<1>2. /\ PrefixInJson(source, 0) = <<>>
      /\ \A k \in 1..n : PrefixInJson(source, k) = PrefixInJson(source, k - 1) \o Code(source[k])
  BY PrefixGrows
<1> HIDE DEF n
<1>3. 0 \in K
  <2>1. <<>> \in Seq(Bytes) /\ Len(<<>>) = 0
    OBVIOUS
  <2>2. 0 \in 0..2 * 0
    OBVIOUS
  <2>3. So(0)
    BY <1>2, <2>1, <2>2, Zenon
  <2> HIDE DEF So
  <2> QED
    BY <2>3
<1>4. ASSUME NEW k \in Nat, k \in K
      PROVE  k + 1 \in K
  <2>1. ASSUME k + 1 <= n
        PROVE  So(k + 1)
    <3>1. k + 1 \in 1..n /\ (k + 1) - 1 = k /\ k <= n
      BY <1>1, <2>1
    <3>2. So(k)
      BY <1>4, <3>1
    <3>3. Code(source[k + 1]) \in Seq(Bytes) /\ Len(Code(source[k + 1])) \in 0..2
      BY <1>1, <3>1, CodeIsBytes
    <3>4. PrefixInJson(source, k + 1) = PrefixInJson(source, k) \o Code(source[k + 1])
      BY <1>2, <3>1
    <3>5. ASSUME NEW s \in Seq(Bytes), NEW t \in Seq(Bytes)
          PROVE  s \o t \in Seq(Bytes) /\ Len(s \o t) = Len(s) + Len(t)
                 /\ Len(s) \in Nat /\ Len(t) \in Nat
      OBVIOUS
    <3>6. /\ PrefixInJson(source, k + 1) \in Seq(Bytes)
          /\ Len(PrefixInJson(source, k + 1))
               = Len(PrefixInJson(source, k)) + Len(Code(source[k + 1]))
      BY <3>2, <3>3, <3>4, <3>5, Zenon
    <3>7. ASSUME NEW a \in 0..2 * k, NEW b \in 0..2
          PROVE  a + b \in 0..2 * (k + 1)
      OBVIOUS
    <3> QED
      BY <3>2, <3>3, <3>6, <3>7, Zenon
  <2> HIDE DEF So
  <2> QED
    BY <2>1
<1>5. \A k \in Nat : k \in K
  <2> HIDE DEF K
  <2> QED
    BY <1>3, <1>4, AllNaturals
<1>6. \A k \in 0..n : k \in Nat /\ k <= n
  BY <1>1
<1> QED
  BY <1>5, <1>6 DEF n

\* A longer prefix is longer in JSON, or the same.
LEMMA PrefixesMonotone ==
  ASSUME NEW source \in Seq(CharacterClasses), NEW n \in 0..Len(source)
  PROVE  \A longer \in n..Len(source) :
           \/ PrefixInJson(source, longer) = PrefixInJson(source, n)
           \/ Len(PrefixInJson(source, longer)) > Len(PrefixInJson(source, n))
<1> DEFINE m == Len(source)
           J(k) == PrefixInJson(source, k)
           So(k) == J(k) = J(n) \/ Len(J(k)) > Len(J(n))
           K == {d \in Nat : n + d <= m => So(n + d)}
<1>1. m \in Nat /\ n \in Nat /\ n <= m /\ \A k \in 1..m : source[k] \in CharacterClasses
  OBVIOUS
<1>2. \A k \in 1..m : J(k) = J(k - 1) \o Code(source[k])
  BY PrefixGrows
<1>3. \A k \in 0..m : J(k) \in Seq(Bytes) /\ Len(J(k)) \in Nat
  BY PrefixIsBytes
<1> HIDE DEF m, J
<1>4. 0 \in K
  BY <1>1
<1>5. ASSUME NEW d \in Nat, d \in K
      PROVE  d + 1 \in K
  <2>1. ASSUME n + (d + 1) <= m
        PROVE  So(n + (d + 1))
    <3> DEFINE k == n + d
    <3>1. k + 1 \in 1..m /\ (k + 1) - 1 = k /\ k <= m /\ n + (d + 1) = k + 1 /\ k \in 0..m /\ n \in 0..m
      BY <1>1, <2>1
    <3>2. So(k)
      BY <1>5, <3>1
    <3> HIDE DEF k
    <3>3. Code(source[k + 1]) \in Seq(Bytes)
      BY <1>1, <3>1, CodeIsBytes
    <3>4. J(k + 1) = J(k) \o Code(source[k + 1])
      BY <1>2, <3>1
    <3>5. ASSUME NEW s \in Seq(Bytes), NEW t \in Seq(Bytes)
          PROVE  s \o t = s \/ Len(s \o t) > Len(s)
      OBVIOUS
    <3>6. J(k + 1) = J(k) \/ Len(J(k + 1)) > Len(J(k))
      BY <1>3, <3>1, <3>3, <3>4, <3>5
    <3>7. Len(J(k)) \in Nat /\ Len(J(k + 1)) \in Nat /\ Len(J(n)) \in Nat
      BY <1>1, <1>3, <3>1
    <3>8. So(k + 1)
      BY <3>2, <3>6, <3>7
    <3> QED
      BY <3>1, <3>8
  <2> HIDE DEF So
  <2> QED
    BY <2>1
<1>6. \A d \in Nat : d \in K
  <2> HIDE DEF K
  <2> QED
    BY <1>4, <1>5, AllNaturals
<1>7. ASSUME NEW k \in n..m
      PROVE  So(k)
  <2>1. k - n \in Nat /\ n + (k - n) = k /\ n + (k - n) <= m
    BY <1>1
  <2> QED
    BY <1>6, <2>1
<1> QED
  BY <1>7 DEF m, J

\* What the loop has written: all that it has read, if that fits with a NUL, or the
\* longest prefix that does.
Cut(source, size, k, n) ==
  /\ n < k /\ Len(PrefixInJson(source, n)) < size
  /\ \/ Len(PrefixInJson(source, n)) + 1 = size
     \/ Len(PrefixInJson(source, n + 1)) >= size

WriteInv(so_far, source, size, k) ==
  /\ so_far = [bytes |-> so_far.bytes, full |-> so_far.full]
  /\ so_far.full \in BOOLEAN
  /\ ~so_far.full => /\ so_far.bytes = PrefixInJson(source, k)
                     /\ Len(PrefixInJson(source, k)) < size
  /\ so_far.full => \E n \in 0..k : /\ so_far.bytes = PrefixInJson(source, n)
                                    /\ Cut(source, size, k, n)

LEMMA NothingWrittenYet ==
  ASSUME NEW source \in Seq(CharacterClasses), NEW size \in Nat \ {0}
  PROVE  WriteInv(NothingWritten, source, size, 0)
<1>1. PrefixInJson(source, 0) = <<>>
  BY PrefixGrows
<1>2. Len(<<>>) = 0
  OBVIOUS
<1>3. NothingWritten.bytes = <<>> /\ NothingWritten.full = FALSE
      /\ NothingWritten = [bytes |-> NothingWritten.bytes, full |-> NothingWritten.full]
  BY DEF NothingWritten
<1>4. 0 < size
  OBVIOUS
<1> QED
  BY <1>1, <1>2, <1>3, <1>4, Zenon DEF WriteInv

LEMMA CutStays ==
  ASSUME NEW source, NEW size, NEW k \in Nat, NEW n \in 0..k, Cut(source, size, k, n)
  PROVE  n \in 0..k + 1 /\ Cut(source, size, k + 1, n)
<1>1. n < k => n < k + 1 /\ n \in 0..k + 1
  OBVIOUS
<1> QED
  BY <1>1, Zenon DEF Cut

LEMMA CharacterWritten ==
  ASSUME NEW source \in Seq(CharacterClasses), NEW size \in Nat \ {0},
         NEW k \in Nat, k + 1 <= Len(source), NEW so_far, WriteInv(so_far, source, size, k)
  PROVE  WriteInv(EscapeCharacter(so_far, source[k + 1], size), source, size, k + 1)
<1> DEFINE value == source[k + 1]
           after == EscapeCharacter(so_far, value, size)
           J(i) == PrefixInJson(source, i)
           used == Len(so_far.bytes)
<1>0. size \in Nat
  OBVIOUS
<1>1. k + 1 \in 1..Len(source) /\ (k + 1) - 1 = k /\ k \in 0..Len(source)
  OBVIOUS
<1>2. value \in CharacterClasses
  BY <1>1
<1>3. J(k + 1) = J(k) \o Code(value)
  BY <1>1, PrefixGrows
<1>4. J(k) \in Seq(Bytes) /\ Len(J(k)) \in Nat
  BY <1>1, PrefixIsBytes
<1>5. Code(value) \in Seq(Bytes) /\ Len(J(k + 1)) = Len(J(k)) + Len(Code(value))
  BY <1>2, <1>3, <1>4, CodeIsBytes
<1> HIDE DEF value, J
<1>6. CASE so_far.full
  <2>1. after = [so_far EXCEPT !.full = TRUE]
    BY <1>6, Zenon DEF EscapeCharacter
  <2>2. after.full = TRUE /\ after.bytes = so_far.bytes /\ after = [bytes |-> after.bytes, full |-> after.full]
    BY <2>1 DEF WriteInv
  <2>3. PICK n \in 0..k : so_far.bytes = PrefixInJson(source, n) /\ Cut(source, size, k, n)
    BY <1>6 DEF WriteInv
  <2>4. n \in 0..k + 1 /\ Cut(source, size, k + 1, n)
    BY <2>3, CutStays
  <2> HIDE DEF after
  <2>5. WriteInv(after, source, size, k + 1)
    BY <2>2, <2>3, <2>4, Zenon DEF WriteInv
  <2> QED
    BY <2>5, Zenon DEF after, value
<1>7. ASSUME ~so_far.full, after = [so_far EXCEPT !.full = TRUE],
             Len(J(k)) + 1 = size \/ Len(J(k + 1)) >= size
      PROVE  WriteInv(after, source, size, k + 1)
  <2>1. after.full = TRUE /\ after.bytes = so_far.bytes /\ after = [bytes |-> after.bytes, full |-> after.full]
    BY <1>7 DEF WriteInv
  <2>2. so_far.bytes = J(k) /\ Len(J(k)) < size
    BY <1>7, Zenon DEF WriteInv, J
  <2>3. k \in 0..k + 1 /\ k < k + 1
    OBVIOUS
  <2>4. Cut(source, size, k + 1, k)
    BY <1>7, <2>2, <2>3, Zenon DEF Cut, J
  <2> HIDE DEF after
  <2> QED
    BY <2>1, <2>2, <2>3, <2>4, Zenon DEF WriteInv, J
<1>8. ASSUME ~so_far.full, after = [so_far EXCEPT !.bytes = J(k + 1)], Len(J(k + 1)) < size
      PROVE  WriteInv(after, source, size, k + 1)
  <2>1. after.full = FALSE /\ after.bytes = J(k + 1) /\ after = [bytes |-> after.bytes, full |-> after.full]
    BY <1>8 DEF WriteInv
  <2> HIDE DEF after
  <2> QED
    BY <1>8, <2>1, Zenon DEF WriteInv, J
<1>9. CASE ~so_far.full
  <2>1. so_far.bytes = J(k) /\ used = Len(J(k)) /\ used < size
    BY <1>9, Zenon DEF WriteInv, J
  <2>2. used \in Nat
    BY <1>4, <2>1
  <2> HIDE DEF used
  <2>3. CASE used + 1 >= size
    <3>1. after = [so_far EXCEPT !.full = TRUE]
      BY <2>3, Zenon DEF EscapeCharacter, used
    <3>2. Len(J(k)) + 1 = size
      BY <2>1, <2>2, <2>3
    <3> QED
      BY <1>7, <1>9, <3>1, <3>2, Zenon DEF value
  <2>4. CASE ~(used + 1 >= size) /\ value = "special"
    <3>1. Code(value) = <<"backslash", "special">> /\ Len(Code(value)) = 2
      BY <2>4 DEF Code
    <3>2. CASE NoRoomForTwo(used, size)
      <4>1. after = [so_far EXCEPT !.full = TRUE]
        BY <1>9, <2>4, <3>2, Zenon DEF EscapeCharacter, used
      <4>2. Len(J(k + 1)) >= size
        BY <1>5, <2>1, <2>2, <3>1, <3>2 DEF NoRoomForTwo
      <4> QED
        BY <1>7, <1>9, <4>1, <4>2, Zenon DEF value
    <3>3. CASE ~NoRoomForTwo(used, size)
      <4>1. after = [so_far EXCEPT !.bytes = so_far.bytes \o <<"backslash", "special">>]
        BY <1>9, <2>4, <3>3, Zenon DEF EscapeCharacter, used
      <4>2. after = [so_far EXCEPT !.bytes = J(k + 1)]
        BY <1>3, <2>1, <3>1, <4>1, Zenon
      <4>3. Len(J(k + 1)) < size
        BY <1>5, <2>1, <2>2, <3>1, <3>3 DEF NoRoomForTwo
      <4> QED
        BY <1>8, <1>9, <4>2, <4>3, Zenon DEF value
    <3> QED
      BY <3>2, <3>3
  <2>5. CASE ~(used + 1 >= size) /\ value = "control"
    <3>1. Code(value) = <<>>
      BY <2>5 DEF Code
    <3>2. J(k + 1) = J(k)
      BY <1>3, <1>4, <3>1
    <3>3. after = so_far
      BY <1>9, <2>5 DEF EscapeCharacter, used
    <3>4. WriteInv(so_far, source, size, k + 1)
      BY <1>9, <2>1, <3>2, Zenon DEF WriteInv, J, used
    <3> QED
      BY <3>3, <3>4, Zenon DEF value
  <2>6. CASE ~(used + 1 >= size) /\ value = "plain"
    <3>1. Code(value) = <<value>> /\ Len(Code(value)) = 1
      BY <2>6 DEF Code
    <3>2. after = [so_far EXCEPT !.bytes = Append(so_far.bytes, value)]
      BY <1>9, <2>6 DEF EscapeCharacter, used
    <3>3. Append(J(k), value) = J(k) \o <<value>>
      BY <1>2, <1>4 DEF Bytes
    <3>4. after = [so_far EXCEPT !.bytes = J(k + 1)]
      BY <1>3, <2>1, <3>1, <3>2, <3>3, Zenon
    <3>5. Len(J(k + 1)) < size
      <4>1. Len(Code(value)) = 1 /\ Len(J(k + 1)) = Len(J(k)) + Len(Code(value)) /\ used = Len(J(k))
        BY <1>5, <2>1, <3>1
      <4>2. ASSUME NEW a \in Nat, ~(a + 1 >= size)
            PROVE  a + 1 < size
        BY ONLY <1>0, <4>2
      <4>3. used + 1 < size
        BY <2>2, <2>6, <4>2
      <4> QED
        BY <4>1, <4>3, Zenon
    <3> QED
      BY <1>8, <1>9, <3>4, <3>5, Zenon DEF value
  <2> QED
    BY <1>2, <2>3, <2>4, <2>5, <2>6 DEF CharacterClasses
<1> QED
  BY <1>6, <1>9

LEMMA AllWritten ==
  ASSUME NEW source \in Seq(CharacterClasses), NEW size \in Nat \ {0}
  PROVE  WriteInv(WrittenOf(source, size, Len(source)), source, size, Len(source))
<1> DEFINE n == Len(source)
           So(k) == WriteInv(WrittenOf(source, size, k), source, size, k)
           K == {k \in Nat : k <= n => So(k)}
<1>1. n \in Nat
  OBVIOUS
<1>2. /\ WrittenOf(source, size, 0) = NothingWritten
      /\ \A k \in 1..n : WrittenOf(source, size, k)
                           = EscapeCharacter(WrittenOf(source, size, k - 1), source[k], size)
  BY WritingTurns
<1>3. 0 \in K
  <2>1. So(0)
    BY <1>2, NothingWrittenYet, Zenon
  <2> HIDE DEF So, n
  <2> QED
    BY <2>1
<1>4. ASSUME NEW k \in Nat, k \in K
      PROVE  k + 1 \in K
  <2>1. ASSUME k + 1 <= n
        PROVE  So(k + 1)
    <3>1. k + 1 \in 1..n /\ (k + 1) - 1 = k /\ k <= n
      BY <1>1, <2>1
    <3>2. So(k)
      BY <1>4, <3>1
    <3>3. WrittenOf(source, size, k + 1) = EscapeCharacter(WrittenOf(source, size, k), source[k + 1], size)
      BY <1>2, <3>1
    <3> QED
      BY <2>1, <3>2, <3>3, CharacterWritten, Zenon
  <2> HIDE DEF So, n
  <2> QED
    BY <2>1
<1>5. n \in K
  <2> HIDE DEF K
  <2> QED
    BY <1>1, <1>3, <1>4, AllNaturals
<1> QED
  BY <1>1, <1>5

\* What json_escape promises of every text and every buffer.
LEMMA Escapes ==
  ASSUME NEW source \in Seq(CharacterClasses), NEW size \in Nat
  PROVE  /\ EscapesLongestPrefix(source, size)
         /\ size >= 2 * (Len(source) + 1) => Escaped(source, size) = Append(InJson(source), "nul")
<1> DEFINE n == Len(source)
           last == WrittenOf(source, size, n)
           J(k) == PrefixInJson(source, k)
<1>1. n \in Nat
  OBVIOUS
<1>2. \A k \in 0..n : J(k) \in Seq(Bytes) /\ Len(J(k)) \in 0..2 * k
  BY PrefixIsBytes
<1>3. J(n) = InJson(source)
  <2>1. SubSeq(source, 1, Len(source)) = source
    OBVIOUS
  <2> QED
    BY <2>1, Zenon DEF PrefixInJson
<1>4. ASSUME NEW k \in 0..n
      PROVE  Len(Append(J(k), "nul")) = Len(J(k)) + 1
  BY <1>2 DEF Bytes
<1>5. \A k \in 0..n : \A longer \in k..n : J(longer) = J(k) \/ Len(J(longer)) > Len(J(k))
  BY PrefixesMonotone
<1> HIDE DEF n, J
<1>6. CASE size = 0
  <2>1. Escaped(source, size) = <<>>
    BY <1>6, EscapesAll, Zenon
  <2>2. ~(size >= 2 * (n + 1)) /\ ~(size > 0)
    BY <1>1, <1>6
  <2>3. Len(<<>>) = 0 /\ 0 <= size
    BY <1>6
  <2> QED
    BY <2>1, <2>2, <2>3, Zenon DEF EscapesLongestPrefix, n
<1>7. CASE size # 0
  <2>1. Escaped(source, size) = Append(last.bytes, "nul")
    BY <1>7, EscapesAll, Zenon DEF n
  <2>2. WriteInv(last, source, size, n)
    <3>1. size \in Nat \ {0}
      BY <1>7
    <3> QED
      BY <3>1, AllWritten, Zenon DEF n
  <2> HIDE DEF last
  <2>3. CASE ~last.full
    <3>1. last.bytes = J(n) /\ Len(J(n)) < size
      BY <2>2, <2>3, Zenon DEF WriteInv, J
    <3>2. n \in 0..n /\ \A longer \in n + 1..n : FALSE
      BY <1>1
    <3>3. Len(Append(J(n), "nul")) <= size
      <4>1. Len(J(n)) \in Nat
        BY <1>2, <3>2
      <4> QED
        BY <1>4, <3>1, <3>2, <4>1
    <3>4. EscapesLongestPrefix(source, size)
      BY <2>1, <3>1, <3>2, <3>3, Zenon DEF EscapesLongestPrefix, J, n
    <3> QED
      BY <1>3, <2>1, <3>1, <3>4, Zenon
  <2>4. CASE last.full
    <3>1. PICK m \in 0..n : last.bytes = J(m) /\ Cut(source, size, n, m)
      BY <2>2, <2>4, Zenon DEF WriteInv, J
    <3>2. /\ m < n /\ Len(J(m)) < size
          /\ Len(J(m)) + 1 = size \/ Len(J(m + 1)) >= size
      BY <3>1, Zenon DEF Cut, J
    <3>3. m \in Nat /\ m + 1 \in 0..n /\ m + 1 <= n
      BY <1>1, <3>2
    <3>4. Len(J(m)) \in 0..2 * m /\ Len(J(m + 1)) \in 0..2 * (m + 1)
      BY <1>2, <3>3, Zenon
    <3>5. ASSUME NEW longer \in m + 1..n
          PROVE  Len(J(longer)) >= size \/ J(longer) = J(m)
      <4>1. longer \in m..n /\ longer \in 0..n
        BY <3>3
      <4>2. Len(J(longer)) \in 0..2 * longer
        BY <1>2, <4>1, Zenon
      <4>3. J(longer) = J(m) \/ Len(J(longer)) > Len(J(m))
        BY <1>5, <4>1, Zenon
      <4>4. J(longer) = J(m + 1) \/ Len(J(longer)) > Len(J(m + 1))
        BY <1>5, <3>3, <3>5, Zenon
      <4>5. CASE Len(J(m)) + 1 = size
        BY ONLY <3>4, <4>2, <4>3, <4>5, size \in Nat
      <4>6. CASE Len(J(m + 1)) >= size
        BY ONLY <3>4, <4>2, <4>4, <4>6, size \in Nat
      <4> QED
        BY <3>2, <4>5, <4>6
    <3>6. Len(Append(J(m), "nul")) <= size
      BY <1>4, <3>2, <3>4
    <3>7. EscapesLongestPrefix(source, size)
      BY <2>1, <3>1, <3>5, <3>6, Zenon DEF EscapesLongestPrefix, J, n
    <3>8. ~(size >= 2 * (n + 1))
      BY ONLY <1>1, <3>2, <3>3, <3>4, size \in Nat
    <3> QED
      BY <3>7, <3>8, Zenon DEF n
  <2> QED
    BY <2>3, <2>4
<1> QED
  BY <1>6, <1>7

\* json_escape cuts a text where it no longer fits, and nowhere else.
THEOREM EscapesAreWhole == Calls => []LongestPrefix
<1>1. CallInit => LongestPrefix
  BY DEF CallInit, NoCall, LongestPrefix
<1>2. ASSUME LongestPrefix, [CallNext]_call
      PROVE  LongestPrefix'
  <2>1. CASE Escape
    <3>1. PICK source \in BoundedSeq(CharacterClasses, MaxText), size \in 0..MaxSize :
            call' = [function |-> "json_escape", source |-> source, size |-> size,
                     bytes |-> Escaped(source, size)]
      BY <2>1 DEF Escape
    <3>2. source \in Seq(CharacterClasses) /\ size \in Nat
      BY DEF BoundedSeq, SeqOf
    <3> DEFINE bytes == Escaped(source, size)
    <3>3. call'.source = source /\ call'.size = size /\ call'.bytes = bytes
      BY <3>1
    <3>4. /\ EscapesLongestPrefix(source, size)
          /\ size >= 2 * (Len(source) + 1) => bytes = Append(InJson(source), "nul")
      BY <3>2, Escapes, Zenon
    <3> HIDE DEF bytes
    <3> QED
      BY <3>3, <3>4, Zenon DEF LongestPrefix
  <2>2. CASE ValidateFrameLayout \/ GateUpdateCall \/ Start \/ Return
    <3>1. call'.function # "json_escape"
      BY <2>2 DEF ValidateFrameLayout, GateUpdateCall, Start, Return, NoCall
    <3> QED
      BY <3>1 DEF LongestPrefix
  <2>3. CASE UNCHANGED call
    BY <1>2, <2>3, Zenon DEF LongestPrefix
  <2> QED
    BY <1>2, <2>1, <2>2, <2>3 DEF CallNext
<1> QED
  BY <1>1, <1>2, PTL DEF Calls

=============================================================================
