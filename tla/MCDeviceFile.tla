---------------------------- MODULE MCDeviceFile ----------------------------
(* Instances of DeviceFile for TLC: the configurations give every constant. *)
EXTENDS DeviceFile, TLC

DeviceSymmetry == Permutations(Devices)
=============================================================================
