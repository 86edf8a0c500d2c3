--------------------------- MODULE MCBridgeDaemon ---------------------------
(* Instances of BridgeDaemon for TLC.                                       *)
EXTENDS BridgeDaemon

CONSTANTS shm, ws, cmd, pos

\* A command that comes in from the web socket, and a second one beside it.
MCSource == [t \in {cmd, pos} |-> ws]
=============================================================================
