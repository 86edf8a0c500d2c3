---------------------------- MODULE MCMonitorCli ----------------------------
(* Small instances of MonitorCli.  Addresses are interchangeable.           *)
EXTENDS MonitorCli, TLC

AddressSymmetry == Permutations(Transfers)
=============================================================================
