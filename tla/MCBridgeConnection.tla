------------------------- MODULE MCBridgeConnection -------------------------
(***************************************************************************)
(* Small instances of BridgeConnection.  A transfer's name says which      *)
(* policy it has; the interval is the same for all of them.                *)
(***************************************************************************)
EXTENDS BridgeConnection

CONSTANTS k1, Tickers, Throttles, Interval

MCKeyOf == [t \in Transfers |-> k1]
MCKindOf == [t \in Transfers |->
    CASE t \in Tickers -> "ticker" [] t \in Throttles -> "throttle" [] OTHER -> "immediate"]
MCIntervalOf == [t \in Transfers |-> Interval]
=============================================================================
