--------------------------- MODULE MCLeaseLineage ---------------------------
EXTENDS LeaseLineage, TLC

CONSTANT body

MCGranted == [resource |-> body, epoch |-> 0, sequence |-> <<0, 1>>]

DelegateSymmetry == Permutations(Delegates)
=============================================================================
