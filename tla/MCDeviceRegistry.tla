-------------------------- MODULE MCDeviceRegistry --------------------------
(* Small instances of DeviceRegistry for TLC.                              *)
EXTENDS DeviceRegistry, TLC

MCSymmetry == Permutations(Enrollments) \cup Permutations(Commands)
              \cup Permutations(Devices) \cup Permutations(Keys)
=============================================================================
