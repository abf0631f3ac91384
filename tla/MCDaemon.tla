------------------------------- MODULE MCDaemon -------------------------------
(***************************************************************************)
(* Daemon on small instances.  The connection slots are interchangeable,   *)
(* so the safety run may use them symmetrically.  It goes through two      *)
(* instances in one: with motion detection, one connection at a time and   *)
(* one frame; without, two connections, two frames and a camera fault, any *)
(* three of these together, but the clock, which only events are dated by, *)
(* stands still.                                                           *)
(***************************************************************************)
EXTENDS Daemon, TLC

ClientSymmetry == Permutations(Clients)

SmallInstance ==
  IF motion_enabled
  THEN worker_count <= 1 /\ frame_sequence <= 1
  ELSE worker_count + frame_sequence + faults <= 3 /\ now = 0

=============================================================================
