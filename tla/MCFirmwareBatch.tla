-------------------------- MODULE MCFirmwareBatch --------------------------
(* FirmwareBatch on small instances.                                       *)
EXTENDS FirmwareBatch

CONSTANTS d1, d2

TwoDevices == {d1, d2}
FirstDevice == {d1}

=============================================================================
