----------------------------- MODULE EventLimiter -----------------------------
(***************************************************************************)
(* What the daemon promises about motion events, whatever the camera, the  *)
(* disk and the threads do: two events are at least Cooldown apart.  The   *)
(* abstract specification that MotionPath implements.                      *)
(***************************************************************************)
EXTENDS Naturals, Sequences

CONSTANT Cooldown

VARIABLES
  now,    \* the clock
  times   \* when each event so far was emitted

limiterVars == <<now, times>>

Init == now = 0 /\ times = <<>>

Advance == now' = now + 1 /\ UNCHANGED times

Emit ==
  /\ times # <<>> => now >= times[Len(times)] + Cooldown
  /\ times' = Append(times, now)
  /\ UNCHANGED now

Spec == Init /\ [][Advance \/ Emit]_limiterVars

=============================================================================
