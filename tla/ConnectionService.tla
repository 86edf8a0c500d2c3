------------------------- MODULE ConnectionService -------------------------
(***************************************************************************)
(* What a BridgeConnection promises, with no threads, no mutex and no      *)
(* steps between a check and its use.  Its loop delivers only while the    *)
(* connection is active, only through transfers of the connection, and     *)
(* only PDUs of the epoch the connection has at that moment.  A receive    *)
(* callback promises less: its delivery may come after a pause, after a    *)
(* switch of the epoch and after the transfer has gone.                    *)
(***************************************************************************)
EXTENDS Integers

CONSTANTS
    Transfers,
    EventDriven,        \* the transfers that receive callbacks run
    EpochValidation,    \* whether the connection compares epochs
    EpochMod,           \* the number of epochs
    Deliveries,         \* records with the fields pdu, epoch and by
    NoDelivery

VARIABLES
    active,             \* is the connection active?
    epoch,              \* its epoch
    members,            \* its transfers
    delivered           \* the last delivery through each transfer

vars == <<active, epoch, members, delivered>>

Init ==
    /\ active = TRUE
    /\ epoch = 0
    /\ members \subseteq Transfers
    /\ delivered = [t \in Transfers |-> NoDelivery]

SetActive ==
    /\ active' \in BOOLEAN
    /\ UNCHANGED <<epoch, members, delivered>>

IncrementEpoch ==
    /\ epoch' = (epoch + 1) % EpochMod
    /\ UNCHANGED <<active, members, delivered>>

Join(t) ==
    /\ members' = members \cup {t}
    /\ UNCHANGED <<active, epoch, delivered>>

Leave(t) ==
    /\ members' = members \ {t}
    /\ UNCHANGED <<active, epoch, delivered>>

\* A delivery is marked with the epoch the connection has at that moment.
Deliver(t, d) ==
    /\ d.epoch = epoch
    /\ delivered' = [delivered EXCEPT ![t] = d]
    /\ UNCHANGED <<active, epoch, members>>

DeliverCyclic(t, d) ==
    /\ active
    /\ t \in members \ EventDriven
    /\ d.by = "cyclic"
    /\ EpochValidation => d.pdu = epoch
    /\ Deliver(t, d)

DeliverEvent(t, d) ==
    /\ t \in EventDriven
    /\ d.by = "event"
    /\ Deliver(t, d)

Next ==
    \/ SetActive
    \/ IncrementEpoch
    \/ \E t \in Transfers : Join(t) \/ Leave(t)
    \/ \E t \in Transfers, d \in Deliveries : DeliverCyclic(t, d) \/ DeliverEvent(t, d)

Spec == Init /\ [][Next]_vars
=============================================================================
