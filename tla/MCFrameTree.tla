----------------------------- MODULE MCFrameTree ------------------------------
(***************************************************************************)
(* An instance of FrameTree: poses that do not commute, of which the       *)
(* rotations do not either.                                                *)
(***************************************************************************)
EXTENDS FrameTree, TLC

FrameSymmetry == Permutations(Frames)

At(x, y, z) == [x |-> x, y |-> y, z |-> z]

MCEdgePoses ==
  {[position |-> At(1, 2, 3), rotation |-> [w |-> 0, x |-> 1, y |-> 0, z |-> 0]],
   [position |-> At(0, 1, 0), rotation |-> [w |-> 0, x |-> 0, y |-> 0, z |-> 1]]}

MCVelocities == {[linear |-> At(1, 0, 2), angular |-> At(0, 1, 3)]}
=============================================================================
