----------------------------- MODULE MCMotionPath -----------------------------
(***************************************************************************)
(* MotionPath on small instances.  The pictures are interchangeable, so    *)
(* the safety runs may use them symmetrically.                             *)
(***************************************************************************)
EXTENDS MotionPath, TLC

SceneSymmetry == Permutations(Scenes)

=============================================================================
