------------------------- MODULE MCDelegationLease -------------------------
(* DelegationLease for TLC.                                                  *)
EXTENDS DelegationLease, TLC

CONSTANTS r1, r2

TwoRunners == {r1, r2}
Everything == Premise

Symmetric == Permutations(TwoRunners)
=============================================================================
