------------------------------- MODULE EventGate -------------------------------
(***************************************************************************)
(* The event gate, app/daemon/motion_event_gate.c: it turns a series of    *)
(* motion verdicts into events and lets at most one through per cooldown.  *)
(*                                                                         *)
(* The operators are pure, so that MotionWorker can use them inside its    *)
(* own steps; EventLimiter.tla says what comes out of a gate.              *)
(* Left out: the answers INVALID_ARGUMENT and INVALID_STATE, for calls the *)
(* pipeline never makes (config_is_valid refuses a cooldown of zero, and   *)
(* the detector's verdict is 0 or 1).  GateClock.tla has the unsigned      *)
(* arithmetic and the remaining time a decision reports.                   *)
(***************************************************************************)
EXTENDS Naturals

CONSTANTS
  Cooldown,    \* motion.cooldown_ms, in units of the model's clock
  CountLimit   \* UINT64_MAX

ASSUME GateAssumption == Cooldown \in Nat \ {0} /\ CountLimit \in Nat \ {0}

Gates == [phase : {"idle", "cooldown"}, cooldown_started : Nat, event_count : 0..CountLimit]

\* a gate set to zero, as MotionPipeline pipeline = {0} does
NewGate == [phase |-> "idle", cooldown_started |-> 0, event_count |-> 0]

\* Mutant: the count does not stop at its limit.
EmitEvent_NoLimit(gate, now) ==
  [phase            |-> "cooldown",
   cooldown_started |-> now,
   event_count      |-> gate.event_count + 1]

\* emit_event
EmitEvent(gate, now) ==
  [phase            |-> "cooldown",
   cooldown_started |-> now,
   event_count      |-> IF gate.event_count # CountLimit
                        THEN gate.event_count + 1 ELSE gate.event_count]

\* A clock that reads less than the start of the cooldown does not end it.
CooldownOver(gate, now) ==
  /\ now >= gate.cooldown_started
  /\ now - gate.cooldown_started >= Cooldown

\* motion_event_gate_update: is there an event, and the gate afterwards
Emits(gate, detected, now) ==
  /\ detected
  /\ gate.phase = "idle" \/ CooldownOver(gate, now)

GateUpdate(gate, detected, now) ==
  IF Emits(gate, detected, now) THEN EmitEvent(gate, now)
  ELSE IF gate.phase = "cooldown" /\ CooldownOver(gate, now)
       THEN [gate EXCEPT !.phase = "idle"]
       ELSE gate

=============================================================================
