-------------------------- MODULE BridgeConnection --------------------------
(***************************************************************************)
(* One BridgeConnection of the bridge core with its TransferPdu objects,   *)
(* and the threads that run their methods at the same time:                *)
(*                                                                         *)
(*   Loop          the bridge loop; BridgeConnection::cyclic_trigger holds *)
(*                 transfer_mtx_ for a whole pass                          *)
(*   EventThreads  the threads on which the source endpoint runs its       *)
(*                 receive callbacks.  They call try_transfer WITHOUT the  *)
(*                 mutex.  A polled endpoint runs them on Loop, inside     *)
(*                 process_recv_events, before the pass                    *)
(*   Admin         a caller of set_connection_active and                   *)
(*                 increment_connection_epoch                              *)
(*   Monitor       the monitor runtime: create_monitor_transfer,           *)
(*                 deactivate_monitor_transfer, remove_monitor_transfer    *)
(*                                                                         *)
(* try_transfer is one action per read or write of shared state.  A PDU is *)
(* represented by the epoch in its header, the only content the bridge     *)
(* looks at.  The vector transfer_pdus_ is a set: a pass may visit its     *)
(* elements in any order.                                                  *)
(***************************************************************************)
EXTENDS TransferPolicy, FiniteSets

CONSTANTS
    Keys,               \* PDU keys of the connection's source endpoint
    Static,             \* transfers the builder created
    Monitored,          \* transfers monitor sessions may create
    KeyOf,              \* the key of each transfer
    KindOf,             \* the policy kind of each transfer
    IntervalOf,         \* the policy interval of each transfer
    EventThreads,
    Loop, Admin, Monitor,
    EpochValidation,    \* epoch_validation_ of the connection
    EpochMod,           \* 2^8 in the code: the epoch is a uint8_t
    SubscribeReplaces,  \* a later subscribe_on_recv_callback displaces the earlier one
    Unreliable,         \* transfers whose destination may stop and start
    MaxTime,            \* bound on the clock
    Free, NoPdu, NoDelivery, NoTransfer

Transfers == Static \cup Monitored
Threads == EventThreads \cup {Loop, Admin, Monitor}
Epochs == 0 .. EpochMod - 1
EventDriven == {t \in Transfers : ~IsCyclicTrigger(KindOf[t])}

ASSUME ConnectionAssumption ==
    /\ Static \cap Monitored = {}
    /\ KeyOf \in [Transfers -> Keys]
    /\ KindOf \in [Transfers -> PolicyKinds]
    /\ IntervalOf \in [Transfers -> Instants]
    /\ EpochValidation \in BOOLEAN
    /\ SubscribeReplaces \in BOOLEAN
    /\ EpochMod \in Nat \ {0}
    /\ Unreliable \subseteq Transfers
    /\ MaxTime \in Instants
    /\ Admin \notin EventThreads \cup {Loop, Monitor}
    /\ Monitor \notin EventThreads \cup {Loop}
    /\ Free \notin Threads
    /\ NoPdu \notin Epochs
    /\ NoTransfer \notin Transfers

VARIABLES
    conn_active,        \* BridgeConnection::is_active_
    conn_epoch,         \* BridgeConnection::epoch_
    transfer_mtx,       \* the holder of transfer_mtx_, or Free
    transfer_pdus,      \* transfer_pdus_
    life,               \* of each transfer object: none, constructed, listed, destroyed
    is_active,          \* TransferPdu::is_active_
    owner_epoch,        \* TransferPdu::owner_epoch_
    epoch_validation,   \* TransferPdu::epoch_validation_
    policy,             \* TransferPdu::policy_
    callbacks,          \* per key, the transfers whose callback the source endpoint holds
    cache,              \* per key, the latest PDU in the source endpoint's cache
    dst_running,        \* what the destination's is_running answers
    delivered,          \* the last PDU the destination got through the transfer
    now,                \* ITimeSource::get_microseconds
    pc,                 \* where each thread is
    cur,                \* the transfer whose method the thread executes
    todo,               \* transfers the thread's loop has not reached yet
    buffer              \* the PDU the thread has read

connVars == <<conn_active, conn_epoch>>
listVars == <<transfer_pdus, life>>
transferVars == <<is_active, owner_epoch, epoch_validation, policy>>
endpointVars == <<callbacks, cache, dst_running, delivered>>
vars == <<conn_active, conn_epoch, transfer_mtx, transfer_pdus, life, is_active,
          owner_epoch, epoch_validation, policy, callbacks, cache, dst_running,
          delivered, now, pc, cur, todo, buffer>>

Deliveries == [pdu : Epochs, epoch : Epochs, at : Instants, by : {"cyclic", "event"}]

\* The program points inside a method of a TransferPdu.
InTransfer == {"check", "policy", "read", "epoch", "send", "after"}

PCs == InTransfer \cup
       {"idle", "lock", "enter", "next", "set_active", "set_epoch", "add", "remove"}

TypeOK ==
    /\ conn_active \in BOOLEAN
    /\ conn_epoch \in Epochs
    /\ transfer_mtx \in Threads \cup {Free}
    /\ transfer_pdus \subseteq Transfers
    /\ life \in [Transfers -> {"none", "constructed", "listed", "destroyed"}]
    /\ is_active \in [Transfers -> BOOLEAN]
    /\ owner_epoch \in [Transfers -> Epochs]
    /\ epoch_validation \in [Transfers -> BOOLEAN]
    /\ policy \in [Transfers -> Policies]
    /\ callbacks \in [Keys -> SUBSET EventDriven]
    /\ cache \in [Keys -> Epochs \cup {NoPdu}]
    /\ dst_running \in [Transfers -> BOOLEAN]
    /\ delivered \in [Transfers -> Deliveries \cup {NoDelivery}]
    /\ now \in Instants
    /\ pc \in [Threads -> PCs]
    /\ cur \in [Threads -> Transfers \cup {NoTransfer}]
    /\ todo \in [Threads -> SUBSET Transfers]
    /\ buffer \in [Threads -> Epochs \cup {NoPdu}]

-----------------------------------------------------------------------------
(* The state the builder leaves.                                           *)

\* subscribe_on_recv_callback of the source endpoint, called by the
\* constructor of t.  A cyclic transfer registers an empty callback.
Subscribe(cbs, t) ==
    LET own  == IF IsCyclicTrigger(KindOf[t]) THEN {} ELSE {t}
        kept == IF SubscribeReplaces THEN {} ELSE cbs[KeyOf[t]]
    IN  [cbs EXCEPT ![KeyOf[t]] = kept \cup own]

\* The static transfers of key k whose callback survives construction: all the
\* event-driven ones, or the last one constructed.
SurvivingCallbacks(k) ==
    LET ofKey == {t \in Static : KeyOf[t] = k} IN
    IF SubscribeReplaces /\ ofKey # {}
    THEN {{t} \cap EventDriven : t \in ofKey}
    ELSE {ofKey \cap EventDriven}

Init ==
    /\ conn_active = TRUE
    /\ conn_epoch = 0
    /\ transfer_mtx = Free
    /\ transfer_pdus = Static
    /\ life = [t \in Transfers |-> IF t \in Static THEN "listed" ELSE "none"]
    /\ is_active = [t \in Transfers |-> TRUE]
    /\ owner_epoch = [t \in Transfers |-> 0]
    /\ epoch_validation = [t \in Transfers |-> t \in Static /\ EpochValidation]
    /\ policy = [t \in Transfers |-> NewPolicy(KindOf[t], IntervalOf[t])]
    /\ callbacks \in [Keys -> SUBSET EventDriven]
    /\ \A k \in Keys : callbacks[k] \in SurvivingCallbacks(k)
    /\ cache = [k \in Keys |-> NoPdu]
    /\ dst_running = [t \in Transfers |-> TRUE]
    /\ delivered = [t \in Transfers |-> NoDelivery]
    /\ now = 0
    /\ pc = [th \in Threads |-> "idle"]
    /\ cur = [th \in Threads |-> NoTransfer]
    /\ todo = [th \in Threads |-> {}]
    /\ buffer = [th \in Threads |-> NoPdu]

-----------------------------------------------------------------------------
(* TransferPdu::try_transfer and TransferPdu::transfer, run by thread th on *)
(* the transfer cur[th].                                                   *)

Goto(th, label) == pc' = [pc EXCEPT ![th] = label]

At(th, label) == pc[th] = label

\* What a method reads from a field of t: the field, or, once t has been
\* destroyed, whatever the freed memory holds.
Seen(t, field, values) == IF life[t] = "destroyed" THEN values ELSE {field[t]}

\* The thread's loop picks its next transfer.  In a pass of cyclic_trigger only
\* transfers with a cyclic policy go on to try_transfer.
EnterTransfer(th) ==
    /\ At(th, "next")
    /\ \E t \in todo[th] :
          /\ cur' = [cur EXCEPT ![th] = t]
          /\ todo' = [todo EXCEPT ![th] = @ \ {t}]
          /\ Goto(th, IF transfer_mtx = th /\ t \in EventDriven THEN "next" ELSE "check")
    /\ UNCHANGED <<connVars, transfer_mtx, listVars, transferVars, endpointVars, now, buffer>>

CheckActive(th) ==
    /\ At(th, "check")
    /\ \E active \in Seen(cur[th], is_active, BOOLEAN) :
          Goto(th, IF active THEN "policy" ELSE "next")
    /\ UNCHANGED <<connVars, transfer_mtx, listVars, transferVars, endpointVars,
                   now, cur, todo, buffer>>

CheckPolicy(th) ==
    LET t == cur[th] IN
    /\ At(th, "policy")
    /\ \E should \in IF life[t] = "destroyed" THEN BOOLEAN
                     ELSE {ShouldTransfer(policy[t], now)} :
          Goto(th, IF should THEN "read" ELSE "next")
    /\ policy' = [policy EXCEPT ![t] = AfterCheck(@, now)]
    /\ UNCHANGED <<connVars, transfer_mtx, listVars, is_active, owner_epoch,
                   epoch_validation, endpointVars, now, cur, todo, buffer>>

\* Mutant: an early return that also skips on_transferred.
ReadSourceOrQuit(th) ==
    LET pdu == cache[KeyOf[cur[th]]] IN
    /\ At(th, "read")
    /\ buffer' = [buffer EXCEPT ![th] = pdu]
    /\ Goto(th, IF pdu = NoPdu THEN "next" ELSE "epoch")
    /\ UNCHANGED <<connVars, transfer_mtx, listVars, transferVars, endpointVars,
                   now, cur, todo>>

\* An empty cache stands for every reason recv fails, a PDU of size 0 included.
ReadSource(th) ==
    LET pdu == cache[KeyOf[cur[th]]] IN
    /\ At(th, "read")
    /\ buffer' = [buffer EXCEPT ![th] = pdu]
    /\ Goto(th, IF pdu = NoPdu THEN "after" ELSE "epoch")
    /\ UNCHANGED <<connVars, transfer_mtx, listVars, transferVars, endpointVars,
                   now, cur, todo>>

\* Mutant: the comparison of the epochs is dropped.
CheckEpochIgnored(th) ==
    /\ At(th, "epoch")
    /\ Goto(th, "send")
    /\ UNCHANGED <<connVars, transfer_mtx, listVars, transferVars, endpointVars,
                   now, cur, todo, buffer>>

CheckEpoch(th) ==
    LET t == cur[th] IN
    /\ At(th, "epoch")
    /\ \E validate \in Seen(t, epoch_validation, BOOLEAN), own \in Seen(t, owner_epoch, Epochs) :
          Goto(th, IF validate /\ buffer[th] # own THEN "after" ELSE "send")
    /\ UNCHANGED <<connVars, transfer_mtx, listVars, transferVars, endpointVars,
                   now, cur, todo, buffer>>

\* A destination that does not run drops the PDU, before send or inside it.
SendToDestination(th) ==
    LET t == cur[th] IN
    /\ At(th, "send")
    /\ delivered' =
          IF dst_running[t]
          THEN [delivered EXCEPT ![t] =
                   [pdu |-> buffer[th], epoch |-> conn_epoch, at |-> now,
                    by |-> IF transfer_mtx = th THEN "cyclic" ELSE "event"]]
          ELSE delivered
    /\ Goto(th, "after")
    /\ UNCHANGED <<connVars, transfer_mtx, listVars, transferVars, callbacks, cache,
                   dst_running, now, cur, todo, buffer>>

\* on_transferred is called whatever transfer() did.
NotifyPolicy(th) ==
    /\ At(th, "after")
    /\ policy' = [policy EXCEPT ![cur[th]] = OnTransferred(@, now)]
    /\ buffer' = [buffer EXCEPT ![th] = NoPdu]
    /\ Goto(th, "next")
    /\ UNCHANGED <<connVars, transfer_mtx, listVars, is_active, owner_epoch,
                   epoch_validation, endpointVars, now, cur, todo>>

\* The thread's loop is over; a pass of cyclic_trigger releases the mutex.
LeaveLoop(th) ==
    /\ At(th, "next")
    /\ todo[th] = {}
    /\ transfer_mtx' = IF transfer_mtx = th THEN Free ELSE transfer_mtx
    /\ cur' = [cur EXCEPT ![th] = NoTransfer]
    /\ Goto(th, "idle")
    /\ UNCHANGED <<connVars, listVars, transferVars, endpointVars, now, todo, buffer>>

TryTransfer(th) ==
    \/ EnterTransfer(th) \/ CheckActive(th) \/ CheckPolicy(th) \/ ReadSource(th)
    \/ CheckEpoch(th) \/ SendToDestination(th) \/ NotifyPolicy(th) \/ LeaveLoop(th)

-----------------------------------------------------------------------------
(* What starts try_transfer: the source endpoint's receive callback, and    *)
(* the pass of the bridge loop.                                            *)

\* The source endpoint stores a PDU with epoch e and calls the callbacks
\* registered for its key.
SourceReceive(th, k, e) ==
    /\ At(th, "idle")
    /\ cache' = [cache EXCEPT ![k] = e]
    /\ todo' = [todo EXCEPT ![th] = callbacks[k]]
    /\ Goto(th, "next")
    /\ UNCHANGED <<connVars, transfer_mtx, listVars, transferVars, callbacks,
                   dst_running, delivered, now, cur, buffer>>

\* The loop has drained process_recv_events and turns to the connection.
BeginPass ==
    /\ At(Loop, "idle")
    /\ Goto(Loop, "lock")
    /\ UNCHANGED <<connVars, transfer_mtx, listVars, transferVars, endpointVars,
                   now, cur, todo, buffer>>

CyclicLock ==
    /\ At(Loop, "lock")
    /\ transfer_mtx = Free
    /\ transfer_mtx' = Loop
    /\ Goto(Loop, "enter")
    /\ UNCHANGED <<connVars, listVars, transferVars, endpointVars, now, cur, todo, buffer>>

\* A paused connection visits no transfer.
CyclicTrigger ==
    /\ At(Loop, "enter")
    /\ todo' = [todo EXCEPT ![Loop] = IF conn_active THEN transfer_pdus ELSE {}]
    /\ Goto(Loop, "next")
    /\ UNCHANGED <<connVars, transfer_mtx, listVars, transferVars, endpointVars,
                   now, cur, buffer>>

-----------------------------------------------------------------------------
(* BridgeConnection::set_active and increment_epoch.                        *)

\* Mutants: pausing does not reach the transfers; it does not take transfer_mtx_.
SetActiveConnectionOnly(active) ==
    /\ At(Admin, "idle")
    /\ transfer_mtx = Free
    /\ conn_active' = active
    /\ UNCHANGED <<conn_epoch, transfer_mtx, listVars, transferVars, endpointVars,
                   now, pc, cur, todo, buffer>>

SetActiveUnlocked(active) ==
    /\ At(Admin, "idle")
    /\ conn_active' = active
    /\ is_active' = [t \in Transfers |-> IF t \in transfer_pdus THEN active ELSE is_active[t]]
    /\ UNCHANGED <<conn_epoch, transfer_mtx, listVars, owner_epoch, epoch_validation,
                   policy, endpointVars, now, pc, cur, todo, buffer>>

SetActive(active) ==
    /\ At(Admin, "idle")
    /\ transfer_mtx = Free
    /\ transfer_mtx' = Admin
    /\ conn_active' = active
    /\ todo' = [todo EXCEPT ![Admin] = transfer_pdus]
    /\ Goto(Admin, "set_active")
    /\ UNCHANGED <<conn_epoch, listVars, transferVars, endpointVars, now, cur, buffer>>

SetTransferActive(t) ==
    /\ At(Admin, "set_active")
    /\ t \in todo[Admin]
    /\ is_active' = [is_active EXCEPT ![t] = conn_active]
    /\ todo' = [todo EXCEPT ![Admin] = @ \ {t}]
    /\ UNCHANGED <<connVars, transfer_mtx, listVars, owner_epoch, epoch_validation,
                   policy, endpointVars, now, pc, cur, buffer>>

\* Mutants: the epoch is not handed to the transfers; it grows past its width; it
\* is handed to them without taking transfer_mtx_.
IncrementEpochConnectionOnly ==
    /\ At(Admin, "idle")
    /\ transfer_mtx = Free
    /\ conn_epoch' = (conn_epoch + 1) % EpochMod
    /\ UNCHANGED <<conn_active, transfer_mtx, listVars, transferVars, endpointVars,
                   now, pc, cur, todo, buffer>>

IncrementEpochUnwrapped ==
    /\ At(Admin, "idle")
    /\ transfer_mtx = Free
    /\ conn_epoch' = conn_epoch + 1
    /\ UNCHANGED <<conn_active, transfer_mtx, listVars, transferVars, endpointVars,
                   now, pc, cur, todo, buffer>>

IncrementEpochUnlocked ==
    /\ At(Admin, "idle")
    /\ conn_epoch' = (conn_epoch + 1) % EpochMod
    /\ owner_epoch' = [t \in Transfers |->
          IF t \in transfer_pdus THEN conn_epoch' ELSE owner_epoch[t]]
    /\ UNCHANGED <<conn_active, transfer_mtx, listVars, is_active, epoch_validation,
                   policy, endpointVars, now, pc, cur, todo, buffer>>

IncrementEpoch ==
    /\ At(Admin, "idle")
    /\ transfer_mtx = Free
    /\ transfer_mtx' = Admin
    /\ conn_epoch' = (conn_epoch + 1) % EpochMod
    /\ todo' = [todo EXCEPT ![Admin] = transfer_pdus]
    /\ Goto(Admin, "set_epoch")
    /\ UNCHANGED <<conn_active, listVars, transferVars, endpointVars, now, cur, buffer>>

SetTransferEpoch(t) ==
    /\ At(Admin, "set_epoch")
    /\ t \in todo[Admin]
    /\ owner_epoch' = [owner_epoch EXCEPT ![t] = conn_epoch]
    /\ todo' = [todo EXCEPT ![Admin] = @ \ {t}]
    /\ UNCHANGED <<connVars, transfer_mtx, listVars, is_active, epoch_validation,
                   policy, endpointVars, now, pc, cur, buffer>>

AdminUnlock ==
    /\ pc[Admin] \in {"set_active", "set_epoch"}
    /\ todo[Admin] = {}
    /\ transfer_mtx' = Free
    /\ Goto(Admin, "idle")
    /\ UNCHANGED <<connVars, listVars, transferVars, endpointVars, now, cur, todo, buffer>>

-----------------------------------------------------------------------------
(* The monitor runtime's calls.                                             *)

\* create_monitor_transfer: the constructor starts the object active, with
\* epoch 0 and no validation, and subscribes its callback ...
ConstructMonitorTransfer(t) ==
    /\ At(Monitor, "idle")
    /\ life[t] = "none"
    /\ life' = [life EXCEPT ![t] = "constructed"]
    /\ callbacks' = Subscribe(callbacks, t)
    /\ cur' = [cur EXCEPT ![Monitor] = t]
    /\ Goto(Monitor, "add")
    /\ UNCHANGED <<connVars, transfer_mtx, transfer_pdus, transferVars, cache,
                   dst_running, delivered, now, todo, buffer>>

\* Mutants: the transfer keeps epoch 0; it keeps validation off.
AddMonitorTransferPduNoEpoch ==
    LET t == cur[Monitor] IN
    /\ At(Monitor, "add")
    /\ transfer_mtx = Free
    /\ epoch_validation' = [epoch_validation EXCEPT ![t] = EpochValidation]
    /\ transfer_pdus' = transfer_pdus \cup {t}
    /\ life' = [life EXCEPT ![t] = "listed"]
    /\ Goto(Monitor, "idle")
    /\ UNCHANGED <<connVars, transfer_mtx, is_active, owner_epoch, policy,
                   endpointVars, now, cur, todo, buffer>>

AddMonitorTransferPduNoValidation ==
    LET t == cur[Monitor] IN
    /\ At(Monitor, "add")
    /\ transfer_mtx = Free
    /\ owner_epoch' = [owner_epoch EXCEPT ![t] = conn_epoch]
    /\ transfer_pdus' = transfer_pdus \cup {t}
    /\ life' = [life EXCEPT ![t] = "listed"]
    /\ Goto(Monitor, "idle")
    /\ UNCHANGED <<connVars, transfer_mtx, is_active, epoch_validation, policy,
                   endpointVars, now, cur, todo, buffer>>

\* ... and only then does add_monitor_transfer_pdu give it the epoch.
AddMonitorTransferPdu ==
    LET t == cur[Monitor] IN
    /\ At(Monitor, "add")
    /\ transfer_mtx = Free
    /\ owner_epoch' = [owner_epoch EXCEPT ![t] = conn_epoch]
    /\ epoch_validation' = [epoch_validation EXCEPT ![t] = EpochValidation]
    /\ transfer_pdus' = transfer_pdus \cup {t}
    /\ life' = [life EXCEPT ![t] = "listed"]
    /\ Goto(Monitor, "idle")
    /\ UNCHANGED <<connVars, transfer_mtx, is_active, policy, endpointVars, now,
                   cur, todo, buffer>>

DeactivateMonitorTransfer(t) ==
    /\ At(Monitor, "idle")
    /\ life[t] = "listed"
    /\ is_active' = [is_active EXCEPT ![t] = FALSE]
    /\ cur' = [cur EXCEPT ![Monitor] = t]
    /\ Goto(Monitor, "remove")
    /\ UNCHANGED <<connVars, transfer_mtx, listVars, owner_epoch, epoch_validation,
                   policy, endpointVars, now, todo, buffer>>

\* Mutant: the removal does not wait for the bridge loop's pass.
RemoveMonitorTransferUnlocked ==
    LET t == cur[Monitor] IN
    /\ At(Monitor, "remove")
    /\ transfer_pdus' = transfer_pdus \ {t}
    /\ life' = [life EXCEPT ![t] = "destroyed"]
    /\ Goto(Monitor, "idle")
    /\ UNCHANGED <<connVars, transfer_mtx, transferVars, endpointVars, now, cur, todo, buffer>>

\* remove_transfer_pdu destroys the object; its callback stays registered.
RemoveMonitorTransfer ==
    LET t == cur[Monitor] IN
    /\ At(Monitor, "remove")
    /\ transfer_mtx = Free
    /\ transfer_pdus' = transfer_pdus \ {t}
    /\ life' = [life EXCEPT ![t] = "destroyed"]
    /\ Goto(Monitor, "idle")
    /\ UNCHANGED <<connVars, transfer_mtx, transferVars, endpointVars, now, cur, todo, buffer>>

-----------------------------------------------------------------------------
(* The environment.                                                         *)

Tick ==
    /\ now < MaxTime
    /\ now' = now + 1
    /\ UNCHANGED <<connVars, transfer_mtx, listVars, transferVars, endpointVars,
                   pc, cur, todo, buffer>>

\* A destination starts or stops running.
DestinationFlips(t) ==
    /\ dst_running' = [dst_running EXCEPT ![t] = ~@]
    /\ UNCHANGED <<connVars, transfer_mtx, listVars, transferVars, callbacks, cache,
                   delivered, now, pc, cur, todo, buffer>>

Transferring == EventThreads \cup {Loop}

AdminStep ==
    \/ \E active \in BOOLEAN : SetActive(active)
    \/ IncrementEpoch
    \/ \E t \in Transfers : SetTransferActive(t) \/ SetTransferEpoch(t)
    \/ AdminUnlock

MonitorStep ==
    \/ \E t \in Monitored : ConstructMonitorTransfer(t) \/ DeactivateMonitorTransfer(t)
    \/ AddMonitorTransferPdu
    \/ RemoveMonitorTransfer

Next ==
    \/ \E th \in Transferring : TryTransfer(th)
    \/ \E th \in EventThreads, k \in Keys, e \in Epochs : SourceReceive(th, k, e)
    \/ BeginPass
    \/ CyclicLock
    \/ CyclicTrigger
    \/ AdminStep
    \/ MonitorStep
    \/ Tick
    \/ \E t \in Unreliable : DestinationFlips(t)

Spec == Init /\ [][Next]_vars

\* Fairness.  The threads keep running: process_recv_events returns once it has
\* drained the events, the daemon's loop then calls the connection's cyclic_trigger,
\* and a thread blocked on a mutex that is released again and again gets it.
Fairness ==
    /\ \A th \in Transferring : WF_vars(TryTransfer(th))
    /\ SF_vars(BeginPass)
    /\ SF_vars(CyclicLock)
    /\ WF_vars(CyclicTrigger)
    /\ WF_vars(AdminUnlock \/ \E t \in Transfers : SetTransferActive(t) \/ SetTransferEpoch(t))

FairSpec == Spec /\ Fairness

-----------------------------------------------------------------------------
(* Properties.                                                              *)

EpochPending(t) == transfer_mtx = Admin /\ pc[Admin] = "set_epoch" /\ t \in todo[Admin]

\* Every transfer of the connection carries the connection's epoch, except the
\* ones the increment_epoch in progress has yet to reach; add_monitor_transfer_pdu
\* racing increment_epoch leaves no transfer behind.
EpochSync ==
    \A t \in transfer_pdus : owner_epoch[t] = conn_epoch \/ EpochPending(t)

\* A PDU sent by a pass of cyclic_trigger carries the epoch the connection has at
\* the moment of the send, although the epoch was compared some steps earlier.
CyclicFresh ==
    \A t \in Transfers :
        /\ EpochValidation
        /\ delivered[t] # NoDelivery
        /\ delivered[t].by = "cyclic"
        => delivered[t].pdu = delivered[t].epoch

\* A pass of cyclic_trigger never executes a method of a transfer that
\* remove_transfer_pdu has destroyed.
CyclicUsesLiveTransfers ==
    transfer_mtx = Loop /\ pc[Loop] \in InTransfer => life[cur[Loop]] = "listed"

\* Once set_active(false) has returned, none of the transfers the builder made is
\* active, so no receive callback starts one.  (A monitor's transfer starts active.)
PauseStopsTransfers ==
    transfer_mtx = Free /\ ~conn_active => \A t \in Static : ~is_active[t]

\* None of them starts from an active check on a paused connection, whichever
\* thread runs it, unless set_active is still on its way through the transfers.
PausedStartsNothing ==
    [][\A th \in Transferring :
          CheckActive(th) /\ cur[th] \in Static /\ pc'[th] = "policy"
          => conn_active \/ transfer_mtx = Admin]_vars

\* The epoch check of a transfer of the connection lets a PDU through only if its epoch
\* is the connection's, unless an increment_epoch is in progress at that moment.
AcceptsCurrentEpoch ==
    [][\A th \in Transferring :
          /\ EpochValidation
          /\ CheckEpoch(th)
          /\ cur[th] \in transfer_pdus
          /\ pc'[th] = "send"
          => buffer[th] = conn_epoch \/ transfer_mtx = Admin]_vars

\* Two PDUs that reach a destination through one throttled or ticking transfer
\* are at least an interval apart, as long as the transfer exists.
DeliveriesSpaced ==
    [][\A th \in Transferring :
          LET t == cur[th] IN
          /\ SendToDestination(th)
          /\ KindOf[t] # "immediate" /\ life[t] # "destroyed"
          /\ dst_running[t]
          /\ delivered[t] # NoDelivery
          => now - delivered[t].at >= IntervalOf[t]]_vars

Service == INSTANCE ConnectionService
           WITH active <- conn_active, epoch <- conn_epoch, members <- transfer_pdus

\* The threads of the connection together implement the service: a pass that has
\* begun cannot be overtaken by set_active, increment_epoch or a removal, so each
\* of its deliveries is one the connection allows at that moment.
ImplementsService == Service!Spec

TickDue(t) == KindOf[t] = "ticker" /\ policy[t].armed /\ now >= policy[t].mark

\* A tick that is due on a connection that stays active is eventually served,
\* whatever the other threads do with the mutex.
TickServed ==
    \A t \in Static : TickDue(t) ~> (~TickDue(t) \/ ~conn_active)

\* A PDU sent by a receive callback carries the epoch the connection has at the
\* moment of the send.
EventFresh ==
    \A t \in Transfers :
        /\ EpochValidation
        /\ delivered[t] # NoDelivery
        /\ delivered[t].by = "event"
        => delivered[t].pdu = delivered[t].epoch

\* After remove_monitor_transfer nothing reaches the destination through the
\* removed transfer.
NoDeliveryAfterDetach ==
    [][\A th \in Transferring :
          SendToDestination(th) /\ dst_running[cur[th]] => life[cur[th]] # "destroyed"]_vars
=============================================================================
