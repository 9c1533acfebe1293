--------------------------- MODULE MCDeviceActor ---------------------------
(* DeviceActor with two actors: the one registered and the one of a worker  *)
(* that still runs on a device deleted meanwhile.                          *)
EXTENDS DeviceActor, TLC

CONSTANTS a1, a2

TwoActors == {a1, a2}

Symmetry == Permutations(TwoActors)

=============================================================================
