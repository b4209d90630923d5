---------------------------- MODULE MCLeaseWallet ----------------------------
(* LeaseWallet on its own, fed with a few grants and lease use results.    *)
EXTENDS LeaseWallet

CONSTANTS body, arm

Proto(r, e, s) == [resource |-> r, epoch |-> e, sequence |-> s]

MCGrants == {Proto(body, 0, <<1>>), Proto(body, 1, <<1>>), Proto(arm, 0, <<1>>)}

MCAnswers ==
  {a \in [status    : {"OK", "OLDER", "REVOKED", "WRONG_EPOCH"},
          attempted : {Proto(body, 0, <<1, 0>>), Proto(arm, 0, <<1, 1>>)},
          latest    : {Proto(body, 0, <<1, 1>>), Proto(body, 1, <<2>>),
                       Proto(arm, 0, <<1>>)}] :
     a.attempted.resource = a.latest.resource}
=============================================================================
