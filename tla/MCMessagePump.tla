---------------------------- MODULE MCMessagePump ----------------------------
(* Instances of MessagePump for TLC: one call streams, the others are      *)
(* unary.  The calls that are alike are interchangeable.                   *)
EXTENDS MessagePump, TLC

CONSTANT stream

MCEvents == [c \in Calls |-> IF c = stream THEN 2 ELSE 1]

UnarySymmetry == Permutations(Calls \ {stream})
=============================================================================
