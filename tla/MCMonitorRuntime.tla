-------------------------- MODULE MCMonitorRuntime --------------------------
(***************************************************************************)
(* Small instances of MonitorRuntime.  Addresses are interchangeable.      *)
(***************************************************************************)
EXTENDS MonitorRuntime, TLC

Symmetry == Permutations(Endpoints) \cup Permutations(Transfers)
AddressSymmetry == Permutations(Transfers)
=============================================================================
