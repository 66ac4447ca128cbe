------------------------ MODULE MCDeviceProvisioning ------------------------
(***************************************************************************)
(* Instances of DeviceProvisioning for TLC.  Three slots let a creation    *)
(* overlap another creation and a deletion; MaxMade leaves room for two    *)
(* creations in flight and one after them.                                 *)
(***************************************************************************)
EXTENDS DeviceProvisioning, TLC

(* Request slots are interchangeable. *)
Slots == Permutations(Requests)
=============================================================================
