---------------------------- MODULE MCAtomicGroup ----------------------------
(* Instances of AtomicGroup for TLC.                                        *)
EXTENDS AtomicGroup

CONSTANTS pos1, status

\* The group of config/tutorials/bridge-immediate-atomic.json.
PosStatus == <<pos1, status>>
=============================================================================
