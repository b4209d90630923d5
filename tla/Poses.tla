-------------------------------- MODULE Poses ---------------------------------
(***************************************************************************)
(* The poses of src/cpp/bosdyn/math/proto_math.cpp, with the arithmetic of *)
(* the code on vectors and quaternions of integers.  Unit quaternions of   *)
(* integers are the half turns about the three axes: the few rotations on  *)
(* which doubles are exact.                                                *)
(***************************************************************************)
EXTENDS Integers

Vec3 == [x : Int, y : Int, z : Int]

Plus(a, b) == [x |-> a.x + b.x, y |-> a.y + b.y, z |-> a.z + b.z]

Times(a, m) == [x |-> m * a.x, y |-> m * a.y, z |-> m * a.z]

(* Skew(a) applied to b. *)
Cross(a, b) ==
  [x |-> a.y * b.z - a.z * b.y, y |-> a.z * b.x - a.x * b.z, z |-> a.x * b.y - a.y * b.x]

UnitQuaternions ==
  {q \in [w : -1 .. 1, x : -1 .. 1, y : -1 .. 1, z : -1 .. 1] :
     q.w * q.w + q.x * q.x + q.y * q.y + q.z * q.z = 1}

Conjugate(q) == [w |-> q.w, x |-> -q.x, y |-> -q.y, z |-> -q.z]

QuaternionProduct(a, b) ==
  [w |-> a.w * b.w - a.x * b.x - a.y * b.y - a.z * b.z,
   x |-> a.w * b.x + a.x * b.w + a.y * b.z - a.z * b.y,
   y |-> a.w * b.y - a.x * b.z + a.y * b.w + a.z * b.x,
   z |-> a.w * b.z + a.x * b.y - a.y * b.x + a.z * b.w]

Rotate(q, p) ==
  LET r == QuaternionProduct(q, QuaternionProduct([w |-> 0, x |-> p.x, y |-> p.y, z |-> p.z],
                                                  Conjugate(q)))
  IN [x |-> r.x, y |-> r.y, z |-> r.z]

SE3Pose == [position : Vec3, rotation : UnitQuaternions]

Identity ==
  [position |-> [x |-> 0, y |-> 0, z |-> 0], rotation |-> [w |-> 1, x |-> 0, y |-> 0, z |-> 0]]

(* a_T_b * b_T_c *)
Product(a_T_b, b_T_c) ==
  [position |-> Plus(a_T_b.position, Rotate(a_T_b.rotation, b_T_c.position)),
   rotation |-> QuaternionProduct(a_T_b.rotation, b_T_c.rotation)]

(* ~a_T_b *)
Inverted(a_T_b) ==
  LET inv_rot == Conjugate(a_T_b.rotation) IN
  [position |-> Times(Rotate(inv_rot, a_T_b.position), -1), rotation |-> inv_rot]

(* A quaternion and its negative are the same rotation. *)
Equals(a, b) ==
  /\ a.position = b.position
  /\ a.rotation \in {b.rotation, QuaternionProduct([w |-> -1, x |-> 0, y |-> 0, z |-> 0], b.rotation)}

(* Adjoint(a_T_b) applied to a velocity. *)
TransformVelocity(a_T_b, velocity) ==
  LET angular == Rotate(a_T_b.rotation, velocity.angular) IN
  [linear |-> Plus(Rotate(a_T_b.rotation, velocity.linear), Cross(a_T_b.position, angular)),
   angular |-> angular]
=============================================================================
