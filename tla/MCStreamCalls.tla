---------------------------- MODULE MCStreamCalls ----------------------------
(* Messages of one to four chunks; with 2, the last chunk may be empty.    *)
EXTENDS StreamCalls

MCLengths == {1, 4, 5}
=============================================================================
