---------------------------- MODULE MCLeaseSystem ----------------------------
(* Instances of LeaseSystem for TLC: the wallet is fed by the calls, so    *)
(* Grants and Answers, the inputs of LeaseWallet on its own, are empty.    *)
EXTENDS LeaseSystem, TLC

MCEpochs == 0 .. 1
OneEpoch == {0}
NoInput == {}

CallSymmetry == Permutations(Calls)
=============================================================================
