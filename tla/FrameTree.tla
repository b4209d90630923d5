------------------------------ MODULE FrameTree -------------------------------
(***************************************************************************)
(* The frame tree of src/cpp/bosdyn/math/frame_helpers.cpp: a snapshot     *)
(* maps a frame to its parent and to its pose in the parent, in no order   *)
(* that guarantees a tree.  The program builds and changes it; whatever it *)
(* makes of it, the functions below are asked for every pair of frames.    *)
(***************************************************************************)
EXTENDS Poses, FiniteSets, Sequences

CONSTANTS
  Frames,        (* names of frames *)
  NoName,        (* the empty string: the parent of a root *)
  EdgePoses,     (* poses the program gives to an edge *)
  Velocities     (* velocities the program asks about *)

ASSUME PosesAssumption == EdgePoses \subseteq SE3Pose

ASSUME VelocitiesAssumption == Velocities \subseteq [linear : Vec3, angular : Vec3]

ASSUME NamesAssumption == NoName \notin Frames /\ IsFiniteSet(Frames)

VARIABLES
  tree,          (* child_to_parent_edge_map *)
  aborted        (* has the program ended by an uncaught error? *)

treeVars == <<tree, aborted>>

Names == Frames \union {NoName}

Edge(parent, pose) == [parent |-> parent, parent_tform_child |-> pose]

IsFrameInTree(frame) == frame \in DOMAIN tree

With(child, edge) == [f \in DOMAIN tree \union {child} |-> IF f = child THEN edge ELSE tree[f]]

-----------------------------------------------------------------------------
(* Walking up from a leaf: the frame that is n steps above it. *)
Above(snapshot, leaf) ==
  LET up[n \in 0 .. Cardinality(Frames)] ==
        IF n = 0 THEN leaf
        ELSE IF up[n - 1] \in DOMAIN snapshot \ {NoName}
             THEN snapshot[up[n - 1]].parent ELSE NoName
  IN up

(* How many frames of the tree the walk visits before it leaves it; more   *)
(* than there are means that it visits one twice.                          *)
Visited(snapshot, leaf) ==
  Cardinality({n \in DOMAIN Above(snapshot, leaf) :
                 Above(snapshot, leaf)[n] \in DOMAIN snapshot \ {NoName}})

FindTreeRoot(snapshot, leaf) ==
  LET up == Above(snapshot, leaf)
      visited == Visited(snapshot, leaf)
      Fails(status) == [status |-> status, root |-> NoName]
  IN IF leaf = NoName THEN Fails("EMPTY_CHILD_FRAME_NAME")
     ELSE IF visited > Cardinality(Frames) THEN Fails("CYCLE")
     ELSE IF up[visited] # NoName THEN Fails("UNKNOWN_PARENT_FRAME_NAME")
     ELSE [status |-> "VALID", root |-> up[visited - 1]]

(* A plausible slip: the roots are not compared. *)
ValidateWithoutRoots(snapshot) ==
  LET failures == {FindTreeRoot(snapshot, f).status : f \in DOMAIN snapshot} \ {"VALID"} IN
  IF DOMAIN snapshot = {} THEN {"EMPTY"}
  ELSE IF failures = {} THEN {"VALID"} ELSE failures

(* Which statuses ValidateFrameTreeSnapshot may return: its loop visits    *)
(* the frames in the order of a hash map, and the first failure counts.    *)
ValidateFrameTreeSnapshot(snapshot) ==
  LET found == {FindTreeRoot(snapshot, f) : f \in DOMAIN snapshot}
      failures == {r.status : r \in found} \ {"VALID"}
      disjoint == {"DISJOINT" : r \in {r \in found \X found :
                                        /\ r[1].status = "VALID" /\ r[2].status = "VALID"
                                        /\ r[1].root # r[2].root}}
  IN IF DOMAIN snapshot = {} THEN {"EMPTY"}
     ELSE IF failures \union disjoint = {} THEN {"VALID"} ELSE failures \union disjoint

(* The edges from a leaf to the root of a valid tree, and the pose of the  *)
(* leaf in the root.                                                       *)
WalkTreeToRoot(snapshot, leaf) ==
  [i \in 1 .. Visited(snapshot, leaf) - 1 |-> snapshot[Above(snapshot, leaf)[i - 1]]]

(* A plausible slip: the poses are multiplied in the order of the walk. *)
AccumulateDownwards(path_to_root) ==
  LET ret[i \in 0 .. Len(path_to_root)] ==
        IF i = 0 THEN Identity
        ELSE Product(ret[i - 1], path_to_root[i].parent_tform_child)
  IN ret[Len(path_to_root)]

AccumulateTransforms(path_to_root) ==
  LET ret[i \in 0 .. Len(path_to_root)] ==
        IF i = 0 THEN Identity
        ELSE Product(path_to_root[i].parent_tform_child, ret[i - 1])
  IN ret[Len(path_to_root)]

(* get_a_tform_b succeeds, and what it then gives. *)
HasTransform(snapshot, a, b) ==
  ValidateFrameTreeSnapshot(snapshot) = {"VALID"} /\ {a, b} \subseteq DOMAIN snapshot

ATformB(snapshot, a, b) ==
  Product(Inverted(AccumulateTransforms(WalkTreeToRoot(snapshot, a))),
          AccumulateTransforms(WalkTreeToRoot(snapshot, b)))

ExpressVelocityInNewFrame(snapshot, b, c, velocity) ==
  TransformVelocity(ATformB(snapshot, c, b), velocity)

-----------------------------------------------------------------------------
AddEdgeToFrameTree(parent, child, pose) ==
  /\ ~IsFrameInTree(child)
  /\ tree' = With(child, Edge(parent, pose))

(* No parent given stands for any parent. *)
SetPoseOnExistingEdge(parent, child, pose) ==
  /\ IsFrameInTree(child) /\ parent \in {NoName, tree[child].parent}
  /\ tree' = [tree EXCEPT ![child].parent_tform_child = pose]

(* No child given is meant to stand for any child, but the loop looks for  *)
(* the edge of the empty name, whichever edge it has come to.              *)
SetPoseAborts(child) ==
  /\ child = NoName /\ DOMAIN tree # {} /\ ~IsFrameInTree(child)
  /\ aborted' = TRUE
  /\ UNCHANGED tree

(* A plausible slip: the pose of the child in its new parent is inverted. *)
ReparentRootInverted(parent, child, pose) ==
  /\ IsFrameInTree(child) /\ tree[child].parent = NoName
  /\ tree' = IF parent \in DOMAIN tree \union {child}
             THEN With(child, Edge(parent, pose))
             ELSE [f \in DOMAIN tree \union {parent} |->
                     IF f = child THEN Edge(parent, Inverted(pose))
                     ELSE IF f = parent THEN Edge(NoName, Identity) ELSE tree[f]]

(* The child is the root: the new parent becomes the root, unless it is    *)
(* already in the tree.                                                    *)
ReparentRoot(parent, child, pose) ==
  /\ IsFrameInTree(child) /\ tree[child].parent = NoName
  /\ tree' = IF parent \in DOMAIN tree \union {child}
             THEN With(child, Edge(parent, pose))
             ELSE [f \in DOMAIN tree \union {parent} |->
                     IF f = child THEN Edge(parent, pose)
                     ELSE IF f = parent THEN Edge(NoName, Identity) ELSE tree[f]]

(* The references to the old parent's name and to the old pose refer to    *)
(* the edge, which has been overwritten when the new parent is added with  *)
(* them: it becomes its own parent.                                        *)
ReparentInner(parent, child, pose) ==
  /\ IsFrameInTree(child) /\ tree[child].parent # NoName
  /\ tree' = IF parent \in DOMAIN tree
             THEN With(child, Edge(parent, pose))
             ELSE [f \in DOMAIN tree \union {parent} |->
                     IF f = child THEN Edge(parent, pose)
                     ELSE IF f = parent THEN Edge(parent, Product(pose, Inverted(pose)))
                     ELSE tree[f]]

ReparentFrame(parent, child, pose) ==
  ReparentRoot(parent, child, pose) \/ ReparentInner(parent, child, pose)

TreeInit == tree = [f \in {} |-> Edge(NoName, Identity)] /\ aborted = FALSE

Changes(parent, child, pose) ==
  \/ AddEdgeToFrameTree(parent, child, pose)
  \/ SetPoseOnExistingEdge(parent, child, pose)
  \/ ReparentFrame(parent, child, pose)

TreeNext ==
  /\ ~aborted
  /\ \E parent, child \in Names, pose \in EdgePoses :
       \/ Changes(parent, child, pose) /\ UNCHANGED aborted
       \/ SetPoseAborts(child)

TreeSpec == TreeInit /\ [][TreeNext]_treeVars

-----------------------------------------------------------------------------
(* What a tree is: one root, every parent in it, and no set of frames that *)
(* are all each other's children.                                          *)
Roots(snapshot) == {f \in DOMAIN snapshot : snapshot[f].parent = NoName}

Parents(snapshot) == {snapshot[f].parent : f \in DOMAIN snapshot} \ {NoName}

Cyclic(snapshot, fs) == fs # {} /\ \A f \in fs : snapshot[f].parent \in fs

IsTree(snapshot) ==
  /\ NoName \notin DOMAIN snapshot
  /\ Cardinality(Roots(snapshot)) = 1
  /\ Parents(snapshot) \subseteq DOMAIN snapshot
  /\ \A fs \in SUBSET DOMAIN snapshot : ~Cyclic(snapshot, fs)

(* The validation accepts exactly the trees, in whatever order it visits   *)
(* the frames, and any other status names a defect the snapshot has        *)
(* (frame_helpers.cpp:51): what walk_tree_to_root takes for granted, that  *)
(* every walk ends at the root, holds whenever it runs.                    *)
ValidationIsExact ==
  \A status \in ValidateFrameTreeSnapshot(tree) :
    /\ status = "VALID" <=> IsTree(tree)
    /\ status = "EMPTY" => DOMAIN tree = {}
    /\ status = "CYCLE" => \E fs \in SUBSET (DOMAIN tree \ {NoName}) : Cyclic(tree, fs)
    /\ status = "DISJOINT" => Cardinality(Roots(tree)) > 1
    /\ status = "UNKNOWN_PARENT_FRAME_NAME" => ~(Parents(tree) \subseteq DOMAIN tree)
    /\ status = "EMPTY_CHILD_FRAME_NAME" => NoName \in DOMAIN tree

(* Transforms along different ways through a tree agree: an edge is what   *)
(* was given, going on from b to c is going to c, and so for velocities    *)
(* (get_a_tform_b, ExpressVelocityInNewFrame).                             *)
TransformsCompose ==
  \A a, b \in DOMAIN tree :
    HasTransform(tree, a, b) =>
      /\ tree[b].parent = a => Equals(ATformB(tree, a, b), tree[b].parent_tform_child)
      /\ \A c \in DOMAIN tree :
           /\ Equals(Product(ATformB(tree, a, b), ATformB(tree, b, c)), ATformB(tree, a, c))
           /\ \A velocity \in Velocities :
                ExpressVelocityInNewFrame(tree, b, c, ExpressVelocityInNewFrame(tree, a, b, velocity))
                  = ExpressVelocityInNewFrame(tree, a, c, velocity)

(* To put a new frame above the root makes it the root, with the pose that *)
(* was given, and leaves every other transform of the tree as it was       *)
(* (ReparentFrame, frame_helpers.cpp:292).                                 *)
RerootKeepsTransforms ==
  [][\A parent \in Frames, child \in Frames, pose \in EdgePoses :
       /\ IsTree(tree) /\ child \in Roots(tree) /\ parent \notin DOMAIN tree
       /\ ReparentRoot(parent, child, pose)
       => /\ IsTree(tree') /\ Roots(tree') = {parent}
          /\ Equals(ATformB(tree', parent, child), pose)
          /\ \A a, b \in DOMAIN tree : Equals(ATformB(tree', a, b), ATformB(tree, a, b))]_tree

(* The same of a frame inside the tree, as the comment at                  *)
(* frame_helpers.h:110 has it: "The new parent frame will become a child   *)
(* of the old parent frame."                                               *)
ReparentKeepsTree ==
  [][\A parent \in Frames, child \in Frames, pose \in EdgePoses :
       /\ IsTree(tree) /\ parent \notin DOMAIN tree
       /\ ReparentInner(parent, child, pose)
       => IsTree(tree') /\ tree'[parent].parent = tree[child].parent]_tree
=============================================================================
