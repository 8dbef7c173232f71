---------------------------- MODULE MCDeviceHold ----------------------------
(* Drivers of one phone; they are interchangeable when none or all of them *)
(* force, so such runs of safety properties may use symmetry.              *)
EXTENDS DeviceHold, TLC

Symmetry == Permutations(Procs)
=============================================================================
