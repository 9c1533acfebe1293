-------------------------- MODULE MCAppSupervisor --------------------------
(* AppSupervisor on small instances.                                       *)
EXTENDS AppSupervisor, TLC

CONSTANTS d1, d2

TwoDevices == {d1, d2}
OneBatch == {1}

Symmetry == Permutations(TwoDevices)

=============================================================================
