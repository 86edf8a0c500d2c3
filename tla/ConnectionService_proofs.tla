---------------------- MODULE ConnectionService_proofs ----------------------
(***************************************************************************)
(* The threads of a BridgeConnection implement ConnectionService, for any  *)
(* transfers, policies, threads, epoch width and clock.                    *)
(***************************************************************************)
EXTENDS BridgeConnection_proofs

-----------------------------------------------------------------------------
(* The invariant of the refinement.                                        *)

\* A pass that still has something to do belongs to an active connection.
ActiveOK ==
    /\ transfer_mtx = Loop
    /\ pc[Loop] \in InTransfer \/ (pc[Loop] = "next" /\ todo[Loop] # {})
    => conn_active

\* With OwnThread: a thread executes a cyclic transfer exactly when it holds
\* transfer_mtx_, that is in a pass.
ServiceInv == OwnThread /\ ActiveOK

LEMMA InitServiceInv == Init => ServiceInv
BY InitSpacing DEF SpacingInv, ServiceInv, ActiveOK, Init

\* The loop moves on within its pass.
LEMMA PassKeepsActiveOK ==
    ASSUME IInv, ActiveOK, TryTransfer(Loop)
    PROVE  ActiveOK'
<1>1. /\ pc \in [Threads -> PCs] /\ todo \in [Threads -> SUBSET Transfers]
      /\ Loop \in Threads /\ Loop # Free
    BY ConnectionAssumption DEF ConnectionAssumption, IInv, TypeOK, Threads
<1>2. CASE \/ CheckActive(Loop) \/ CheckPolicy(Loop) \/ ReadSource(Loop) \/ CheckEpoch(Loop)
           \/ SendToDestination(Loop) \/ NotifyPolicy(Loop)
  <2>1. pc[Loop] \in InTransfer /\ UNCHANGED <<conn_active, transfer_mtx>>
      BY <1>2 DEF CheckActive, CheckPolicy, ReadSource, CheckEpoch, SendToDestination,
         NotifyPolicy, At, InTransfer, connVars
  <2> QED BY <2>1 DEF ActiveOK
<1>3. CASE EnterTransfer(Loop)
  <2>1. /\ pc[Loop] = "next" /\ todo[Loop] # {}
        /\ UNCHANGED <<conn_active, transfer_mtx>>
      BY <1>3 DEF EnterTransfer, At, connVars
  <2> QED BY <2>1 DEF ActiveOK
<1>4. CASE LeaveLoop(Loop)
  <2>1. pc'[Loop] = "idle"
      BY <1>1, <1>4 DEF LeaveLoop, Goto
  <2> QED BY <2>1 DEF ActiveOK, InTransfer
<1> QED BY <1>2, <1>3, <1>4 DEF TryTransfer

\* Another receive thread, and a callback that the loop begins outside a pass.
LEMMA CallbackKeepsActiveOK ==
    ASSUME IInv, ActiveOK, NEW th \in Transferring,
           \/ th # Loop /\ TryTransfer(th)
           \/ \E k \in Keys, e \in Epochs : SourceReceive(th, k, e)
    PROVE  ActiveOK'
<1>1. /\ pc \in [Threads -> PCs] /\ todo \in [Threads -> SUBSET Transfers]
      /\ th \in Threads /\ Loop \in Threads /\ Free # Loop
    BY ConnectionAssumption DEF ConnectionAssumption, IInv, TypeOK, Threads, Transferring
<1>2. /\ UNCHANGED conn_active
      /\ transfer_mtx' = Loop => transfer_mtx = Loop
      /\ th # Loop => pc'[Loop] = pc[Loop] /\ todo'[Loop] = todo[Loop]
    BY <1>1 DEF TryTransfer, EnterTransfer, CheckActive, CheckPolicy, ReadSource, CheckEpoch,
       SendToDestination, NotifyPolicy, LeaveLoop, SourceReceive, Goto, connVars
<1>3. CASE th # Loop
    BY <1>2, <1>3 DEF ActiveOK
<1>4. CASE th = Loop
  <2>1. pc[Loop] = "idle"
      BY <1>4 DEF SourceReceive, At
  <2>2. transfer_mtx # Loop
      BY <2>1 DEF IInv, MutexOK, InTransfer
  <2> QED BY <1>2, <2>2 DEF ActiveOK
<1> QED BY <1>3, <1>4

\* A pass starts with the mutex and looks at the connection once.
LEMMA StartKeepsActiveOK ==
    ASSUME IInv, ActiveOK, BeginPass \/ CyclicLock \/ CyclicTrigger
    PROVE  ActiveOK'
<1>1. /\ pc \in [Threads -> PCs] /\ todo \in [Threads -> SUBSET Transfers]
      /\ Loop \in Threads
    BY DEF IInv, TypeOK, Threads
<1>2. CASE BeginPass \/ CyclicLock
  <2>1. pc'[Loop] \in {"lock", "enter"}
      BY <1>1, <1>2 DEF BeginPass, CyclicLock, Goto
  <2> QED BY <2>1 DEF ActiveOK, InTransfer
<1>3. CASE CyclicTrigger
  <2>1. /\ pc'[Loop] = "next" /\ conn_active' = conn_active
        /\ todo'[Loop] = IF conn_active THEN transfer_pdus ELSE {}
      BY <1>1, <1>3 DEF CyclicTrigger, Goto, connVars
  <2> QED BY <2>1 DEF ActiveOK, InTransfer
<1> QED BY <1>2, <1>3

\* The connection's flag changes only while no pass runs.
LEMMA OutsideKeepsActiveOK ==
    ASSUME IInv, ActiveOK,
           AdminStep \/ MonitorStep \/ \E t \in Unreliable : DestinationFlips(t)
    PROVE  ActiveOK'
<1>1. /\ pc'[Loop] = pc[Loop] /\ todo'[Loop] = todo[Loop]
      /\ transfer_mtx' = Loop <=> transfer_mtx = Loop
    BY OutsideLeavesThreads DEF Transferring
<1>2. transfer_mtx = Loop => conn_active' = conn_active
    BY ConnectionAssumption
       DEF ConnectionAssumption, Threads, AdminStep, SetActive, IncrementEpoch,
           SetTransferActive, SetTransferEpoch, AdminUnlock, MonitorStep,
           ConstructMonitorTransfer, AddMonitorTransferPdu, DeactivateMonitorTransfer,
           RemoveMonitorTransfer, DestinationFlips, connVars
<1> QED BY <1>1, <1>2 DEF ActiveOK

LEMMA ServiceInvStep ==
    ASSUME IInv, ServiceInv, [Next]_vars
    PROVE  ServiceInv'
<1> SUFFICES ActiveOK'
    BY OwnThreadStep DEF ServiceInv
<1>1. CASE \E th \in Transferring : TryTransfer(th)
    BY <1>1, PassKeepsActiveOK, CallbackKeepsActiveOK DEF ServiceInv
<1>2. CASE \E th \in EventThreads, k \in Keys, e \in Epochs : SourceReceive(th, k, e)
    BY <1>2, CallbackKeepsActiveOK DEF ServiceInv, Transferring
<1>3. CASE Tick \/ UNCHANGED vars
    BY <1>3 DEF Tick, vars, connVars, ServiceInv, ActiveOK
<1> QED BY <1>1, <1>2, <1>3, StartKeepsActiveOK, OutsideKeepsActiveOK DEF Next, ServiceInv

-----------------------------------------------------------------------------
(* Every step is one of the service's or a stutter.                         *)

\* What a thread sends is a delivery the service allows: of the pass if the thread
\* holds the mutex, of a callback if it does not.
LEMMA SendIsService ==
    ASSUME IInv, ServiceInv, NEW th \in Transferring, SendToDestination(th)
    PROVE  [Service!Next]_Service!vars
<1> DEFINE t == cur[th]
           d == [pdu |-> buffer[th], epoch |-> conn_epoch, at |-> now,
                 by |-> IF transfer_mtx = th THEN "cyclic" ELSE "event"]
<1>1. /\ pc[th] = "send" /\ UNCHANGED <<conn_active, conn_epoch, transfer_pdus>>
      /\ delivered' = IF dst_running[t] THEN [delivered EXCEPT ![t] = d] ELSE delivered
    BY DEF SendToDestination, At, connVars, listVars
<1>2. t \in Transfers /\ buffer[th] \in Epochs
    BY <1>1 DEF IInv, LocalsOK, InTransfer
<1>3. d \in Deliveries
    BY <1>2 DEF Deliveries, IInv, TypeOK
<1>4. t \in EventDriven <=> transfer_mtx # th
    BY <1>1 DEF ServiceInv, OwnThread, InTransfer
<1>5. CASE ~dst_running[t]
    BY <1>1, <1>5 DEF Service!vars
<1>6. CASE dst_running[t] /\ transfer_mtx # th
  <2>1. Service!DeliverEvent(t, d)
      BY <1>1, <1>4, <1>6 DEF Service!DeliverEvent, Service!Deliver
  <2> QED BY <1>2, <1>3, <2>1 DEF Service!Next
<1>7. CASE dst_running[t] /\ transfer_mtx = th
  <2>1. th = Loop
      BY <1>7, ConnectionAssumption
         DEF ConnectionAssumption, IInv, MutexOK, Transferring, Threads
  <2>2. conn_active /\ t \in transfer_pdus
      BY <1>1, <1>7, <2>1 DEF ServiceInv, ActiveOK, IInv, PassOK, InTransfer
  <2>3. EpochValidation => d.pdu = conn_epoch
      BY <1>1, <1>7, <2>1 DEF IInv, PassFresh
  <2>4. Service!DeliverCyclic(t, d)
      BY <1>1, <1>4, <1>7, <2>2, <2>3 DEF Service!DeliverCyclic, Service!Deliver
  <2> QED BY <1>2, <1>3, <2>4 DEF Service!Next
<1> QED BY <1>5, <1>6, <1>7

\* Every other step changes one thing the service knows, or nothing.
LEMMA StepIsService ==
    ASSUME IInv, ServiceInv, [Next]_vars
    PROVE  [Service!Next]_Service!vars
<1>1. ASSUME NEW th \in Transferring, TryTransfer(th)
      PROVE  [Service!Next]_Service!vars
  <2>1. CASE SendToDestination(th)
      BY <2>1, SendIsService
  <2>2. CASE \/ EnterTransfer(th) \/ CheckActive(th) \/ CheckPolicy(th) \/ ReadSource(th)
             \/ CheckEpoch(th) \/ NotifyPolicy(th) \/ LeaveLoop(th)
    <3>1. UNCHANGED <<conn_active, conn_epoch, transfer_pdus, delivered>>
        BY <2>2 DEF EnterTransfer, CheckActive, CheckPolicy, ReadSource, CheckEpoch,
           NotifyPolicy, LeaveLoop, connVars, listVars, endpointVars
    <3> QED BY <3>1 DEF Service!vars
  <2> QED BY <1>1, <2>1, <2>2 DEF TryTransfer
<1>2. CASE \/ \E th \in EventThreads, k \in Keys, e \in Epochs : SourceReceive(th, k, e)
           \/ BeginPass \/ CyclicLock \/ CyclicTrigger
           \/ Tick \/ \E t \in Unreliable : DestinationFlips(t)
           \/ UNCHANGED vars
  <2>1. UNCHANGED <<conn_active, conn_epoch, transfer_pdus, delivered>>
      BY <1>2 DEF SourceReceive, BeginPass, CyclicLock, CyclicTrigger, Tick,
         DestinationFlips, vars, connVars, listVars, endpointVars
  <2> QED BY <2>1 DEF Service!vars
<1>3. CASE AdminStep
  <2>1. CASE \E a \in BOOLEAN : SetActive(a)
    <3>1. Service!SetActive
        BY <2>1 DEF SetActive, Service!SetActive, listVars, endpointVars
    <3> QED BY <3>1 DEF Service!Next
  <2>2. CASE IncrementEpoch
    <3>1. Service!IncrementEpoch
        BY <2>2 DEF IncrementEpoch, Service!IncrementEpoch, listVars, endpointVars
    <3> QED BY <3>1 DEF Service!Next
  <2>3. CASE \/ \E t \in Transfers : SetTransferActive(t) \/ SetTransferEpoch(t)
             \/ AdminUnlock
    <3>1. UNCHANGED <<conn_active, conn_epoch, transfer_pdus, delivered>>
        BY <2>3 DEF SetTransferActive, SetTransferEpoch, AdminUnlock, connVars, listVars,
           endpointVars
    <3> QED BY <3>1 DEF Service!vars
  <2> QED BY <1>3, <2>1, <2>2, <2>3 DEF AdminStep
<1>4. CASE MonitorStep
  <2>1. CASE \E t \in Monitored : ConstructMonitorTransfer(t) \/ DeactivateMonitorTransfer(t)
    <3>1. UNCHANGED <<conn_active, conn_epoch, transfer_pdus, delivered>>
        BY <2>1 DEF ConstructMonitorTransfer, DeactivateMonitorTransfer, connVars, listVars,
           endpointVars
    <3> QED BY <3>1 DEF Service!vars
  <2>2. CASE AddMonitorTransferPdu
    <3>1. cur[Monitor] \in Transfers /\ Service!Join(cur[Monitor])
        BY <2>2 DEF AddMonitorTransferPdu, Service!Join, At, IInv, LocalsOK, connVars,
           endpointVars
    <3> QED BY <3>1 DEF Service!Next
  <2>3. CASE RemoveMonitorTransfer
    <3>1. cur[Monitor] \in Transfers /\ Service!Leave(cur[Monitor])
        BY <2>3 DEF RemoveMonitorTransfer, Service!Leave, At, IInv, LocalsOK, connVars,
           endpointVars
    <3> QED BY <3>1 DEF Service!Next
  <2> QED BY <1>4, <2>1, <2>2, <2>3 DEF MonitorStep
<1> QED BY <1>1, <1>2, <1>3, <1>4 DEF Next

\* A pass holds transfer_mtx_ from the moment it looks at the connection to its last
\* send, so nothing it relies on changes under it.
THEOREM ServiceInvariance == Spec => []ServiceInv
<1>1. IInv /\ ServiceInv /\ [Next]_vars => ServiceInv'
    BY ServiceInvStep
<1> QED BY <1>1, InitServiceInv, Invariance, PTL DEF Spec

\* The loop, the receive threads, the administrator and the monitor runtime together
\* implement the service the connection promises.
THEOREM ServiceImplemented == Spec => ImplementsService
<1>1. Init => Service!Init
    BY DEF Init, Service!Init, Transfers
<1>2. IInv /\ ServiceInv /\ [Next]_vars => [Service!Next]_Service!vars
    BY StepIsService
<1> QED BY <1>1, <1>2, Invariance, ServiceInvariance, PTL
       DEF Spec, ImplementsService, Service!Spec
=============================================================================
