------------------------------- MODULE GateClock -------------------------------
(***************************************************************************)
(* motion_event_gate_update as it is written, in unsigned arithmetic of    *)
(* ClockMax + 1 values (2^64 in the code), with the decision it fills in.  *)
(* EventGate is the same gate in whole numbers, which the worker's model   *)
(* uses.                                                                   *)
(***************************************************************************)
EXTENDS EventGate, Integers

CONSTANT ClockMax    \* UINT64_MAX, in units of the model's clock

ASSUME ClockMaxAssumption == ClockMax \in Nat /\ Cooldown <= ClockMax

Times == 0..ClockMax
ClockGates == [phase : {"idle", "cooldown"}, cooldown_started : Times,
               event_count : 0..CountLimit]

Minus(a, b) == (a - b) % (ClockMax + 1)

Outcome(gate, emitted, remaining) ==
  [gate |-> gate, event_emitted |-> emitted, cooldown_remaining |-> remaining]

Emitted(gate, now) == Outcome(EmitEvent(gate, now), TRUE, Cooldown)

\* Mutant: nothing asks whether the clock is behind.
ClockBehind_Never(gate, now) == FALSE

\* now_ms < gate->cooldown_started_ms
ClockBehind(gate, now) == now < gate.cooldown_started

Elapsed(gate, now) == Minus(now, gate.cooldown_started)

Remaining(gate, now) == Minus(Cooldown, Elapsed(gate, now))

\* motion_event_gate_update
UpdateAt(gate, detected, now) ==
  CASE gate.phase = "idle" ->
         IF detected THEN Emitted(gate, now) ELSE Outcome(gate, FALSE, 0)
    [] gate.phase = "cooldown" /\ ClockBehind(gate, now) ->
         Outcome(gate, FALSE, Cooldown)
    [] gate.phase = "cooldown" /\ ~ClockBehind(gate, now)
         /\ Elapsed(gate, now) < Cooldown ->
         Outcome(gate, FALSE, Remaining(gate, now))
    [] OTHER ->
         IF detected THEN Emitted(gate, now)
         ELSE Outcome([gate EXCEPT !.phase = "idle"], FALSE, 0)

-----------------------------------------------------------------------------
\* The unsigned arithmetic differs nowhere from whole numbers.
ActsLike(gate, detected, now) ==
  LET outcome == UpdateAt(gate, detected, now)
  IN  /\ outcome.gate = GateUpdate(gate, detected, now)
      /\ outcome.event_emitted <=> Emits(gate, detected, now)

\* A second call, at a time no earlier than the first: it emits nothing before
\* the remaining time the first one reported, and does after it when asked to,
\* unless the first clock was behind and could only report a lower bound.
KeepsRemaining(gate, detected, now) ==
  LET first == UpdateAt(gate, detected, now)
  IN  \A later \in now..ClockMax :
        LET waited == later - now >= first.cooldown_remaining
            second == UpdateAt(first.gate, TRUE, later)
        IN  /\ second.event_emitted => waited
            /\ waited /\ ~ClockBehind(gate, now) => second.event_emitted

=============================================================================
