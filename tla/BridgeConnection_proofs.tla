---------------------- MODULE BridgeConnection_proofs ----------------------
(***************************************************************************)
(* Proofs about BridgeConnection, for any transfers, policies, threads,    *)
(* epoch width and clock.                                                  *)
(***************************************************************************)
EXTENDS BridgeConnection, TLAPS

-----------------------------------------------------------------------------
(* Lemmas about the operators.                                              *)

\* A remainder by a positive number is below it.
LEMMA ModRange ==
    ASSUME NEW a \in Int, NEW n \in Nat \ {0}
    PROVE  a % n \in 0 .. n - 1
BY SMT

\* A new policy, a checked one and a notified one are well-formed policies.
LEMMA NewPolicyType ==
    ASSUME NEW kind \in PolicyKinds, NEW interval \in Instants
    PROVE  NewPolicy(kind, interval) \in Policies
BY ClockModAssumption DEF ClockModAssumption, NewPolicy, Policies, Instants

LEMMA PolicyType ==
    ASSUME NEW p \in Policies, NEW n \in Instants
    PROVE  AfterCheck(p, n) \in Policies /\ OnTransferred(p, n) \in Policies
<1>1. (n + p.interval) % ClockMod \in Instants
  <2>1. ClockMod \in Nat \ {0} /\ n + p.interval \in Int
      BY ClockModAssumption DEF ClockModAssumption, Policies, Instants
  <2> QED BY <2>1, ModRange DEF Instants
<1>2. AfterCheck(p, n) \in Policies
    BY <1>1 DEF AfterCheck, Policies
<1>3. OnTransferred(p, n) \in Policies
    BY <1>1 DEF OnTransferred, Policies, PolicyKinds
<1> QED BY <1>2, <1>3

-----------------------------------------------------------------------------
(* The inductive invariant.                                                 *)

\* A thread inside a method has a transfer, and a PDU once it has read one.
LocalsOK ==
    /\ \A th \in Transferring :
          /\ pc[th] \in InTransfer => cur[th] \in Transfers
          /\ pc[th] \in {"epoch", "send"} => buffer[th] \in Epochs
    /\ pc[Monitor] \in {"add", "remove"} => cur[Monitor] \in Transfers

\* Who holds transfer_mtx_ can be told from where the threads are.
MutexOK ==
    /\ transfer_mtx \in {Free, Loop, Admin}
    /\ transfer_mtx = Admin <=> pc[Admin] \in {"set_active", "set_epoch"}
    /\ transfer_mtx = Loop => pc[Loop] \in InTransfer \cup {"enter", "next"}
    /\ pc[Loop] = "enter" => transfer_mtx = Loop

\* The list holds exactly the objects that are listed.
ListOK == \A t \in Transfers : t \in transfer_pdus <=> life[t] = "listed"

\* A pass of the loop only knows transfers that are in the list.
PassOK ==
    transfer_mtx = Loop =>
        /\ pc[Loop] # "enter" => todo[Loop] \subseteq transfer_pdus
        /\ pc[Loop] \in InTransfer => cur[Loop] \in transfer_pdus

ValidationOK == \A t \in transfer_pdus : epoch_validation[t] = EpochValidation

\* The pass is about to send only what has the connection's epoch.
PassFresh ==
    transfer_mtx = Loop /\ pc[Loop] = "send" /\ EpochValidation => buffer[Loop] = conn_epoch

IInv ==
    /\ TypeOK
    /\ LocalsOK
    /\ MutexOK
    /\ ListOK
    /\ PassOK
    /\ ValidationOK
    /\ EpochSync
    /\ PassFresh
    /\ CyclicFresh

LEMMA InitIInv == Init => IInv
<1> SUFFICES ASSUME Init PROVE IInv
    OBVIOUS
<1> USE ClockModAssumption, ConnectionAssumption DEF ClockModAssumption, ConnectionAssumption
<1>1. TypeOK
  <2>1. policy \in [Transfers -> Policies]
      BY NewPolicyType DEF Init
  <2>2. now \in Instants /\ conn_epoch \in Epochs
      BY DEF Init, Instants, Epochs
  <2>3. owner_epoch \in [Transfers -> Epochs]
      BY DEF Init, Epochs
  <2>4. pc \in [Threads -> PCs]
      BY DEF Init, PCs
  <2> QED BY <2>1, <2>2, <2>3, <2>4 DEF Init, TypeOK, Transfers, Threads
<1>2. LocalsOK /\ MutexOK /\ PassOK /\ PassFresh
    BY DEF Init, LocalsOK, MutexOK, PassOK, PassFresh, Threads, Transferring, InTransfer
<1>3. ListOK /\ ValidationOK /\ EpochSync
    BY DEF Init, ListOK, ValidationOK, EpochSync, Transfers
<1>4. CyclicFresh
    BY DEF Init, CyclicFresh
<1> QED BY <1>1, <1>2, <1>3, <1>4 DEF IInv

-----------------------------------------------------------------------------
(* Every action preserves the invariant.                                    *)

LEMMA EnterTransferStep ==
    ASSUME IInv, NEW th \in Transferring, EnterTransfer(th)
    PROVE  IInv'
<1> USE ClockModAssumption, ConnectionAssumption DEF ClockModAssumption, ConnectionAssumption
<1>1. TypeOK'
    BY DEF IInv, EnterTransfer, connVars, listVars, transferVars, endpointVars, TypeOK, Goto, At, Threads, Transferring, PCs, InTransfer
<1>2. LocalsOK'
    BY DEF IInv, EnterTransfer, connVars, listVars, transferVars, endpointVars, LocalsOK, TypeOK, Goto, At, Threads, Transferring, InTransfer
<1>3. MutexOK'
    BY DEF IInv, EnterTransfer, connVars, listVars, transferVars, endpointVars, MutexOK, TypeOK, LocalsOK, Goto, At, Threads, Transferring, InTransfer
<1>4. ListOK'
    BY DEF IInv, EnterTransfer, connVars, listVars, transferVars, endpointVars, ListOK, TypeOK, LocalsOK, Transfers
<1>5. PassOK'
    BY DEF IInv, EnterTransfer, connVars, listVars, transferVars, endpointVars, PassOK, TypeOK, MutexOK, ListOK, Goto, At, Threads, Transferring, InTransfer
<1>6. ValidationOK'
    BY DEF IInv, EnterTransfer, connVars, listVars, transferVars, endpointVars, ValidationOK, TypeOK, LocalsOK
<1>7. EpochSync'
    BY DEF IInv, EnterTransfer, connVars, listVars, transferVars, endpointVars, EpochSync, EpochPending, TypeOK, LocalsOK, MutexOK, Goto, At, Threads, Transferring, InTransfer
<1>8. PassFresh'
    BY DEF IInv, EnterTransfer, connVars, listVars, transferVars, endpointVars, PassFresh, TypeOK, LocalsOK, MutexOK, PassOK, ListOK, ValidationOK, EpochSync, EpochPending, Seen, Goto, At, Threads, Transferring, InTransfer
<1>9. CyclicFresh'
    BY DEF IInv, EnterTransfer, connVars, listVars, transferVars, endpointVars, CyclicFresh, TypeOK, LocalsOK, MutexOK, PassFresh, At, Threads, Transferring, InTransfer
<1> QED BY <1>1, <1>2, <1>3, <1>4, <1>5, <1>6, <1>7, <1>8, <1>9 DEF IInv

LEMMA CheckActiveStep ==
    ASSUME IInv, NEW th \in Transferring, CheckActive(th)
    PROVE  IInv'
<1> USE ClockModAssumption, ConnectionAssumption DEF ClockModAssumption, ConnectionAssumption
<1>1. TypeOK'
    BY DEF IInv, CheckActive, connVars, listVars, transferVars, endpointVars, TypeOK, Goto, At, Threads, Transferring, PCs, InTransfer
<1>2. LocalsOK'
    BY DEF IInv, CheckActive, connVars, listVars, transferVars, endpointVars, LocalsOK, TypeOK, Goto, At, Threads, Transferring, InTransfer
<1>3. MutexOK'
    BY DEF IInv, CheckActive, connVars, listVars, transferVars, endpointVars, MutexOK, TypeOK, LocalsOK, Goto, At, Threads, Transferring, InTransfer
<1>4. ListOK'
    BY DEF IInv, CheckActive, connVars, listVars, transferVars, endpointVars, ListOK, TypeOK, LocalsOK, Transfers
<1>5. PassOK'
    BY DEF IInv, CheckActive, connVars, listVars, transferVars, endpointVars, PassOK, TypeOK, MutexOK, ListOK, Goto, At, Threads, Transferring, InTransfer
<1>6. ValidationOK'
    BY DEF IInv, CheckActive, connVars, listVars, transferVars, endpointVars, ValidationOK, TypeOK, LocalsOK
<1>7. EpochSync'
    BY DEF IInv, CheckActive, connVars, listVars, transferVars, endpointVars, EpochSync, EpochPending, TypeOK, LocalsOK, MutexOK, Goto, At, Threads, Transferring, InTransfer
<1>8. PassFresh'
    BY DEF IInv, CheckActive, connVars, listVars, transferVars, endpointVars, PassFresh, TypeOK, LocalsOK, MutexOK, PassOK, ListOK, ValidationOK, EpochSync, EpochPending, Seen, Goto, At, Threads, Transferring, InTransfer
<1>9. CyclicFresh'
    BY DEF IInv, CheckActive, connVars, listVars, transferVars, endpointVars, CyclicFresh, TypeOK, LocalsOK, MutexOK, PassFresh, At, Threads, Transferring, InTransfer
<1> QED BY <1>1, <1>2, <1>3, <1>4, <1>5, <1>6, <1>7, <1>8, <1>9 DEF IInv

LEMMA CheckPolicyStep ==
    ASSUME IInv, NEW th \in Transferring, CheckPolicy(th)
    PROVE  IInv'
<1> USE ClockModAssumption, ConnectionAssumption DEF ClockModAssumption, ConnectionAssumption
<1>1. TypeOK'
  <2>1. cur[th] \in Transfers
      BY DEF IInv, LocalsOK, CheckPolicy, At, InTransfer
  <2>2. AfterCheck(policy[cur[th]], now) \in Policies
      BY <2>1, PolicyType DEF IInv, TypeOK
  <2>3. policy' \in [Transfers -> Policies]
      BY <2>1, <2>2 DEF IInv, TypeOK, CheckPolicy
  <2> QED BY <2>3 DEF IInv, CheckPolicy, connVars, listVars, transferVars, endpointVars, TypeOK, Goto, At, Threads, Transferring, PCs, InTransfer
<1>2. LocalsOK'
    BY DEF IInv, CheckPolicy, connVars, listVars, transferVars, endpointVars, LocalsOK, TypeOK, Goto, At, Threads, Transferring, InTransfer
<1>3. MutexOK'
    BY DEF IInv, CheckPolicy, connVars, listVars, transferVars, endpointVars, MutexOK, TypeOK, LocalsOK, Goto, At, Threads, Transferring, InTransfer
<1>4. ListOK'
    BY DEF IInv, CheckPolicy, connVars, listVars, transferVars, endpointVars, ListOK, TypeOK, LocalsOK, Transfers
<1>5. PassOK'
    BY DEF IInv, CheckPolicy, connVars, listVars, transferVars, endpointVars, PassOK, TypeOK, MutexOK, ListOK, Goto, At, Threads, Transferring, InTransfer
<1>6. ValidationOK'
    BY DEF IInv, CheckPolicy, connVars, listVars, transferVars, endpointVars, ValidationOK, TypeOK, LocalsOK
<1>7. EpochSync'
    BY DEF IInv, CheckPolicy, connVars, listVars, transferVars, endpointVars, EpochSync, EpochPending, TypeOK, LocalsOK, MutexOK, Goto, At, Threads, Transferring, InTransfer
<1>8. PassFresh'
    BY DEF IInv, CheckPolicy, connVars, listVars, transferVars, endpointVars, PassFresh, TypeOK, LocalsOK, MutexOK, PassOK, ListOK, ValidationOK, EpochSync, EpochPending, Seen, Goto, At, Threads, Transferring, InTransfer
<1>9. CyclicFresh'
    BY DEF IInv, CheckPolicy, connVars, listVars, transferVars, endpointVars, CyclicFresh, TypeOK, LocalsOK, MutexOK, PassFresh, At, Threads, Transferring, InTransfer
<1> QED BY <1>1, <1>2, <1>3, <1>4, <1>5, <1>6, <1>7, <1>8, <1>9 DEF IInv

LEMMA ReadSourceStep ==
    ASSUME IInv, NEW th \in Transferring, ReadSource(th)
    PROVE  IInv'
<1> USE ClockModAssumption, ConnectionAssumption DEF ClockModAssumption, ConnectionAssumption
<1>1. TypeOK'
    BY DEF IInv, ReadSource, connVars, listVars, transferVars, endpointVars, TypeOK, LocalsOK, Goto, At, Threads, Transferring, PCs, InTransfer
<1>2. LocalsOK'
    BY DEF IInv, ReadSource, connVars, listVars, transferVars, endpointVars, LocalsOK, TypeOK, Goto, At, Threads, Transferring, InTransfer
<1>3. MutexOK'
    BY DEF IInv, ReadSource, connVars, listVars, transferVars, endpointVars, MutexOK, TypeOK, LocalsOK, Goto, At, Threads, Transferring, InTransfer
<1>4. ListOK'
    BY DEF IInv, ReadSource, connVars, listVars, transferVars, endpointVars, ListOK, TypeOK, LocalsOK, Transfers
<1>5. PassOK'
    BY DEF IInv, ReadSource, connVars, listVars, transferVars, endpointVars, PassOK, TypeOK, MutexOK, ListOK, Goto, At, Threads, Transferring, InTransfer
<1>6. ValidationOK'
    BY DEF IInv, ReadSource, connVars, listVars, transferVars, endpointVars, ValidationOK, TypeOK, LocalsOK
<1>7. EpochSync'
    BY DEF IInv, ReadSource, connVars, listVars, transferVars, endpointVars, EpochSync, EpochPending, TypeOK, LocalsOK, MutexOK, Goto, At, Threads, Transferring, InTransfer
<1>8. PassFresh'
    BY DEF IInv, ReadSource, connVars, listVars, transferVars, endpointVars, PassFresh, TypeOK, LocalsOK, MutexOK, PassOK, ListOK, ValidationOK, EpochSync, EpochPending, Seen, Goto, At, Threads, Transferring, InTransfer
<1>9. CyclicFresh'
    BY DEF IInv, ReadSource, connVars, listVars, transferVars, endpointVars, CyclicFresh, TypeOK, LocalsOK, MutexOK, PassFresh, At, Threads, Transferring, InTransfer
<1> QED BY <1>1, <1>2, <1>3, <1>4, <1>5, <1>6, <1>7, <1>8, <1>9 DEF IInv

LEMMA CheckEpochStep ==
    ASSUME IInv, NEW th \in Transferring, CheckEpoch(th)
    PROVE  IInv'
<1> USE ClockModAssumption, ConnectionAssumption DEF ClockModAssumption, ConnectionAssumption
<1>1. TypeOK'
    BY DEF IInv, CheckEpoch, connVars, listVars, transferVars, endpointVars, TypeOK, Goto, At, Threads, Transferring, PCs, InTransfer
<1>2. LocalsOK'
    BY DEF IInv, CheckEpoch, connVars, listVars, transferVars, endpointVars, LocalsOK, TypeOK, Goto, At, Threads, Transferring, InTransfer
<1>3. MutexOK'
    BY DEF IInv, CheckEpoch, connVars, listVars, transferVars, endpointVars, MutexOK, TypeOK, LocalsOK, Goto, At, Threads, Transferring, InTransfer
<1>4. ListOK'
    BY DEF IInv, CheckEpoch, connVars, listVars, transferVars, endpointVars, ListOK, TypeOK, LocalsOK, Transfers
<1>5. PassOK'
    BY DEF IInv, CheckEpoch, connVars, listVars, transferVars, endpointVars, PassOK, TypeOK, MutexOK, ListOK, Goto, At, Threads, Transferring, InTransfer
<1>6. ValidationOK'
    BY DEF IInv, CheckEpoch, connVars, listVars, transferVars, endpointVars, ValidationOK, TypeOK, LocalsOK
<1>7. EpochSync'
    BY DEF IInv, CheckEpoch, connVars, listVars, transferVars, endpointVars, EpochSync, EpochPending, TypeOK, LocalsOK, MutexOK, Goto, At, Threads, Transferring, InTransfer
<1>8. PassFresh'
  <2> SUFFICES ASSUME transfer_mtx' = Loop, pc'[Loop] = "send", EpochValidation
               PROVE  buffer'[Loop] = conn_epoch'
      BY DEF PassFresh
  <2>1. transfer_mtx = Loop /\ UNCHANGED <<buffer, conn_epoch>>
      BY DEF CheckEpoch, connVars
  <2>2. CASE th # Loop
      BY <2>1, <2>2 DEF IInv, PassFresh, TypeOK, CheckEpoch, Goto
  <2>3. CASE th = Loop
    <3>1. cur[Loop] \in transfer_pdus /\ cur[Loop] \in Transfers
        BY <2>1, <2>3 DEF IInv, PassOK, LocalsOK, CheckEpoch, At, InTransfer, Transferring
    <3>2. life[cur[Loop]] = "listed" /\ epoch_validation[cur[Loop]]
        BY <3>1 DEF IInv, ListOK, ValidationOK
    <3>3. owner_epoch[cur[Loop]] = conn_epoch
        BY <2>1, <3>1 DEF IInv, EpochSync, EpochPending
    <3>4. PICK validate \in Seen(cur[th], epoch_validation, BOOLEAN),
               own \in Seen(cur[th], owner_epoch, Epochs) :
             pc' = [pc EXCEPT ![th] = IF validate /\ buffer[th] # own THEN "after" ELSE "send"]
        BY DEF CheckEpoch, Goto
    <3>5. validate = TRUE /\ own = conn_epoch
        BY <2>3, <3>2, <3>3, <3>4 DEF Seen, IInv, ValidationOK
    <3>6. Loop \in Threads
        BY DEF Threads
    <3>7. buffer[Loop] = conn_epoch
        BY <2>3, <3>4, <3>5, <3>6 DEF IInv, TypeOK
    <3> QED BY <2>1, <3>7
  <2> QED BY <2>2, <2>3
<1>9. CyclicFresh'
    BY DEF IInv, CheckEpoch, connVars, listVars, transferVars, endpointVars, CyclicFresh, TypeOK, LocalsOK, MutexOK, PassFresh, At, Threads, Transferring, InTransfer
<1> QED BY <1>1, <1>2, <1>3, <1>4, <1>5, <1>6, <1>7, <1>8, <1>9 DEF IInv

LEMMA SendToDestinationStep ==
    ASSUME IInv, NEW th \in Transferring, SendToDestination(th)
    PROVE  IInv'
<1> USE ClockModAssumption, ConnectionAssumption DEF ClockModAssumption, ConnectionAssumption
<1>1. TypeOK'
  <2>1. cur[th] \in Transfers /\ buffer[th] \in Epochs
      BY DEF IInv, LocalsOK, SendToDestination, At, InTransfer
  <2>2. delivered' \in [Transfers -> Deliveries \cup {NoDelivery}]
      BY <2>1 DEF IInv, TypeOK, SendToDestination, Deliveries
  <2> QED BY <2>2 DEF IInv, SendToDestination, connVars, listVars, transferVars, endpointVars, TypeOK, Goto, At, Threads, Transferring, PCs, InTransfer
<1>2. LocalsOK'
    BY DEF IInv, SendToDestination, connVars, listVars, transferVars, endpointVars, LocalsOK, TypeOK, Goto, At, Threads, Transferring, InTransfer
<1>3. MutexOK'
    BY DEF IInv, SendToDestination, connVars, listVars, transferVars, endpointVars, MutexOK, TypeOK, LocalsOK, Goto, At, Threads, Transferring, InTransfer
<1>4. ListOK'
    BY DEF IInv, SendToDestination, connVars, listVars, transferVars, endpointVars, ListOK, TypeOK, LocalsOK, Transfers
<1>5. PassOK'
    BY DEF IInv, SendToDestination, connVars, listVars, transferVars, endpointVars, PassOK, TypeOK, MutexOK, ListOK, Goto, At, Threads, Transferring, InTransfer
<1>6. ValidationOK'
    BY DEF IInv, SendToDestination, connVars, listVars, transferVars, endpointVars, ValidationOK, TypeOK, LocalsOK
<1>7. EpochSync'
    BY DEF IInv, SendToDestination, connVars, listVars, transferVars, endpointVars, EpochSync, EpochPending, TypeOK, LocalsOK, MutexOK, Goto, At, Threads, Transferring, InTransfer
<1>8. PassFresh'
    BY DEF IInv, SendToDestination, connVars, listVars, transferVars, endpointVars, PassFresh, TypeOK, LocalsOK, MutexOK, PassOK, ListOK, ValidationOK, EpochSync, EpochPending, Seen, Goto, At, Threads, Transferring, InTransfer
<1>9. CyclicFresh'
    BY DEF IInv, SendToDestination, connVars, listVars, transferVars, endpointVars, CyclicFresh, TypeOK, LocalsOK, MutexOK, PassFresh, At, Threads, Transferring, InTransfer
<1> QED BY <1>1, <1>2, <1>3, <1>4, <1>5, <1>6, <1>7, <1>8, <1>9 DEF IInv

LEMMA NotifyPolicyStep ==
    ASSUME IInv, NEW th \in Transferring, NotifyPolicy(th)
    PROVE  IInv'
<1> USE ClockModAssumption, ConnectionAssumption DEF ClockModAssumption, ConnectionAssumption
<1>1. TypeOK'
  <2>1. cur[th] \in Transfers
      BY DEF IInv, LocalsOK, NotifyPolicy, At, InTransfer
  <2>2. OnTransferred(policy[cur[th]], now) \in Policies
      BY <2>1, PolicyType DEF IInv, TypeOK
  <2>3. policy' \in [Transfers -> Policies]
      BY <2>1, <2>2 DEF IInv, TypeOK, NotifyPolicy
  <2> QED BY <2>3 DEF IInv, NotifyPolicy, connVars, listVars, transferVars, endpointVars, TypeOK, Goto, At, Threads, Transferring, PCs, InTransfer
<1>2. LocalsOK'
    BY DEF IInv, NotifyPolicy, connVars, listVars, transferVars, endpointVars, LocalsOK, TypeOK, Goto, At, Threads, Transferring, InTransfer
<1>3. MutexOK'
    BY DEF IInv, NotifyPolicy, connVars, listVars, transferVars, endpointVars, MutexOK, TypeOK, LocalsOK, Goto, At, Threads, Transferring, InTransfer
<1>4. ListOK'
    BY DEF IInv, NotifyPolicy, connVars, listVars, transferVars, endpointVars, ListOK, TypeOK, LocalsOK, Transfers
<1>5. PassOK'
    BY DEF IInv, NotifyPolicy, connVars, listVars, transferVars, endpointVars, PassOK, TypeOK, MutexOK, ListOK, Goto, At, Threads, Transferring, InTransfer
<1>6. ValidationOK'
    BY DEF IInv, NotifyPolicy, connVars, listVars, transferVars, endpointVars, ValidationOK, TypeOK, LocalsOK
<1>7. EpochSync'
    BY DEF IInv, NotifyPolicy, connVars, listVars, transferVars, endpointVars, EpochSync, EpochPending, TypeOK, LocalsOK, MutexOK, Goto, At, Threads, Transferring, InTransfer
<1>8. PassFresh'
    BY DEF IInv, NotifyPolicy, connVars, listVars, transferVars, endpointVars, PassFresh, TypeOK, LocalsOK, MutexOK, PassOK, ListOK, ValidationOK, EpochSync, EpochPending, Seen, Goto, At, Threads, Transferring, InTransfer
<1>9. CyclicFresh'
    BY DEF IInv, NotifyPolicy, connVars, listVars, transferVars, endpointVars, CyclicFresh, TypeOK, LocalsOK, MutexOK, PassFresh, At, Threads, Transferring, InTransfer
<1> QED BY <1>1, <1>2, <1>3, <1>4, <1>5, <1>6, <1>7, <1>8, <1>9 DEF IInv

LEMMA LeaveLoopStep ==
    ASSUME IInv, NEW th \in Transferring, LeaveLoop(th)
    PROVE  IInv'
<1> USE ClockModAssumption, ConnectionAssumption DEF ClockModAssumption, ConnectionAssumption
<1>1. TypeOK'
    BY DEF IInv, LeaveLoop, connVars, listVars, transferVars, endpointVars, TypeOK, Goto, At, Threads, Transferring, PCs, InTransfer
<1>2. LocalsOK'
    BY DEF IInv, LeaveLoop, connVars, listVars, transferVars, endpointVars, LocalsOK, TypeOK, Goto, At, Threads, Transferring, InTransfer
<1>3. MutexOK'
    BY DEF IInv, LeaveLoop, connVars, listVars, transferVars, endpointVars, MutexOK, TypeOK, LocalsOK, Goto, At, Threads, Transferring, InTransfer
<1>4. ListOK'
    BY DEF IInv, LeaveLoop, connVars, listVars, transferVars, endpointVars, ListOK, TypeOK, LocalsOK, Transfers
<1>5. PassOK'
    BY DEF IInv, LeaveLoop, connVars, listVars, transferVars, endpointVars, PassOK, TypeOK, MutexOK, ListOK, Goto, At, Threads, Transferring, InTransfer
<1>6. ValidationOK'
    BY DEF IInv, LeaveLoop, connVars, listVars, transferVars, endpointVars, ValidationOK, TypeOK, LocalsOK
<1>7. EpochSync'
    BY DEF IInv, LeaveLoop, connVars, listVars, transferVars, endpointVars, EpochSync, EpochPending, TypeOK, LocalsOK, MutexOK, Goto, At, Threads, Transferring, InTransfer
<1>8. PassFresh'
    BY DEF IInv, LeaveLoop, connVars, listVars, transferVars, endpointVars, PassFresh, TypeOK, LocalsOK, MutexOK, PassOK, ListOK, ValidationOK, EpochSync, EpochPending, Seen, Goto, At, Threads, Transferring, InTransfer
<1>9. CyclicFresh'
    BY DEF IInv, LeaveLoop, connVars, listVars, transferVars, endpointVars, CyclicFresh, TypeOK, LocalsOK, MutexOK, PassFresh, At, Threads, Transferring, InTransfer
<1> QED BY <1>1, <1>2, <1>3, <1>4, <1>5, <1>6, <1>7, <1>8, <1>9 DEF IInv

LEMMA SourceReceiveStep ==
    ASSUME IInv, NEW th \in EventThreads, NEW k \in Keys, NEW e \in Epochs, SourceReceive(th, k, e)
    PROVE  IInv'
<1> USE ClockModAssumption, ConnectionAssumption DEF ClockModAssumption, ConnectionAssumption
<1>1. TypeOK'
    BY DEF IInv, SourceReceive, connVars, listVars, transferVars, endpointVars, TypeOK, EventDriven, Goto, At, Threads, Transferring, PCs, InTransfer
<1>2. LocalsOK'
    BY DEF IInv, SourceReceive, connVars, listVars, transferVars, endpointVars, LocalsOK, TypeOK, Goto, At, Threads, Transferring, InTransfer
<1>3. MutexOK'
    BY DEF IInv, SourceReceive, connVars, listVars, transferVars, endpointVars, MutexOK, TypeOK, LocalsOK, Goto, At, Threads, Transferring, InTransfer
<1>4. ListOK'
    BY DEF IInv, SourceReceive, connVars, listVars, transferVars, endpointVars, ListOK, TypeOK, LocalsOK, Transfers
<1>5. PassOK'
    BY DEF IInv, SourceReceive, connVars, listVars, transferVars, endpointVars, PassOK, TypeOK, MutexOK, ListOK, Goto, At, Threads, Transferring, InTransfer
<1>6. ValidationOK'
    BY DEF IInv, SourceReceive, connVars, listVars, transferVars, endpointVars, ValidationOK, TypeOK, LocalsOK
<1>7. EpochSync'
    BY DEF IInv, SourceReceive, connVars, listVars, transferVars, endpointVars, EpochSync, EpochPending, TypeOK, LocalsOK, MutexOK, Goto, At, Threads, Transferring, InTransfer
<1>8. PassFresh'
    BY DEF IInv, SourceReceive, connVars, listVars, transferVars, endpointVars, PassFresh, TypeOK, LocalsOK, MutexOK, PassOK, ListOK, ValidationOK, EpochSync, EpochPending, Seen, Goto, At, Threads, Transferring, InTransfer
<1>9. CyclicFresh'
    BY DEF IInv, SourceReceive, connVars, listVars, transferVars, endpointVars, CyclicFresh, TypeOK, LocalsOK, MutexOK, PassFresh, At, Threads, Transferring, InTransfer
<1> QED BY <1>1, <1>2, <1>3, <1>4, <1>5, <1>6, <1>7, <1>8, <1>9 DEF IInv

LEMMA BeginPassStep ==
    ASSUME IInv, BeginPass
    PROVE  IInv'
<1> USE ClockModAssumption, ConnectionAssumption DEF ClockModAssumption, ConnectionAssumption
<1>1. TypeOK'
    BY DEF IInv, BeginPass, connVars, listVars, transferVars, endpointVars, TypeOK, Goto, At, Threads, Transferring, PCs, InTransfer
<1>2. LocalsOK'
    BY DEF IInv, BeginPass, connVars, listVars, transferVars, endpointVars, LocalsOK, TypeOK, Goto, At, Threads, Transferring, InTransfer
<1>3. MutexOK'
    BY DEF IInv, BeginPass, connVars, listVars, transferVars, endpointVars, MutexOK, TypeOK, LocalsOK, Goto, At, Threads, Transferring, InTransfer
<1>4. ListOK'
    BY DEF IInv, BeginPass, connVars, listVars, transferVars, endpointVars, ListOK, TypeOK, LocalsOK, Transfers
<1>5. PassOK'
    BY DEF IInv, BeginPass, connVars, listVars, transferVars, endpointVars, PassOK, TypeOK, MutexOK, ListOK, Goto, At, Threads, Transferring, InTransfer
<1>6. ValidationOK'
    BY DEF IInv, BeginPass, connVars, listVars, transferVars, endpointVars, ValidationOK, TypeOK, LocalsOK
<1>7. EpochSync'
    BY DEF IInv, BeginPass, connVars, listVars, transferVars, endpointVars, EpochSync, EpochPending, TypeOK, LocalsOK, MutexOK, Goto, At, Threads, Transferring, InTransfer
<1>8. PassFresh'
    BY DEF IInv, BeginPass, connVars, listVars, transferVars, endpointVars, PassFresh, TypeOK, LocalsOK, MutexOK, PassOK, ListOK, ValidationOK, EpochSync, EpochPending, Seen, Goto, At, Threads, Transferring, InTransfer
<1>9. CyclicFresh'
    BY DEF IInv, BeginPass, connVars, listVars, transferVars, endpointVars, CyclicFresh, TypeOK, LocalsOK, MutexOK, PassFresh, At, Threads, Transferring, InTransfer
<1> QED BY <1>1, <1>2, <1>3, <1>4, <1>5, <1>6, <1>7, <1>8, <1>9 DEF IInv

LEMMA CyclicLockStep ==
    ASSUME IInv, CyclicLock
    PROVE  IInv'
<1> USE ClockModAssumption, ConnectionAssumption DEF ClockModAssumption, ConnectionAssumption
<1>1. TypeOK'
    BY DEF IInv, CyclicLock, connVars, listVars, transferVars, endpointVars, TypeOK, Goto, At, Threads, Transferring, PCs, InTransfer
<1>2. LocalsOK'
    BY DEF IInv, CyclicLock, connVars, listVars, transferVars, endpointVars, LocalsOK, TypeOK, Goto, At, Threads, Transferring, InTransfer
<1>3. MutexOK'
    BY DEF IInv, CyclicLock, connVars, listVars, transferVars, endpointVars, MutexOK, TypeOK, LocalsOK, Goto, At, Threads, Transferring, InTransfer
<1>4. ListOK'
    BY DEF IInv, CyclicLock, connVars, listVars, transferVars, endpointVars, ListOK, TypeOK, LocalsOK, Transfers
<1>5. PassOK'
    BY DEF IInv, CyclicLock, connVars, listVars, transferVars, endpointVars, PassOK, TypeOK, MutexOK, ListOK, Goto, At, Threads, Transferring, InTransfer
<1>6. ValidationOK'
    BY DEF IInv, CyclicLock, connVars, listVars, transferVars, endpointVars, ValidationOK, TypeOK, LocalsOK
<1>7. EpochSync'
    BY DEF IInv, CyclicLock, connVars, listVars, transferVars, endpointVars, EpochSync, EpochPending, TypeOK, LocalsOK, MutexOK, Goto, At, Threads, Transferring, InTransfer
<1>8. PassFresh'
    BY DEF IInv, CyclicLock, connVars, listVars, transferVars, endpointVars, PassFresh, TypeOK, LocalsOK, MutexOK, PassOK, ListOK, ValidationOK, EpochSync, EpochPending, Seen, Goto, At, Threads, Transferring, InTransfer
<1>9. CyclicFresh'
    BY DEF IInv, CyclicLock, connVars, listVars, transferVars, endpointVars, CyclicFresh, TypeOK, LocalsOK, MutexOK, PassFresh, At, Threads, Transferring, InTransfer
<1> QED BY <1>1, <1>2, <1>3, <1>4, <1>5, <1>6, <1>7, <1>8, <1>9 DEF IInv

LEMMA CyclicTriggerStep ==
    ASSUME IInv, CyclicTrigger
    PROVE  IInv'
<1> USE ClockModAssumption, ConnectionAssumption DEF ClockModAssumption, ConnectionAssumption
<1>1. TypeOK'
    BY DEF IInv, CyclicTrigger, connVars, listVars, transferVars, endpointVars, TypeOK, Goto, At, Threads, Transferring, PCs, InTransfer
<1>2. LocalsOK'
    BY DEF IInv, CyclicTrigger, connVars, listVars, transferVars, endpointVars, LocalsOK, TypeOK, Goto, At, Threads, Transferring, InTransfer
<1>3. MutexOK'
    BY DEF IInv, CyclicTrigger, connVars, listVars, transferVars, endpointVars, MutexOK, TypeOK, LocalsOK, Goto, At, Threads, Transferring, InTransfer
<1>4. ListOK'
    BY DEF IInv, CyclicTrigger, connVars, listVars, transferVars, endpointVars, ListOK, TypeOK, LocalsOK, Transfers
<1>5. PassOK'
    BY DEF IInv, CyclicTrigger, connVars, listVars, transferVars, endpointVars, PassOK, TypeOK, MutexOK, ListOK, Goto, At, Threads, Transferring, InTransfer
<1>6. ValidationOK'
    BY DEF IInv, CyclicTrigger, connVars, listVars, transferVars, endpointVars, ValidationOK, TypeOK, LocalsOK
<1>7. EpochSync'
    BY DEF IInv, CyclicTrigger, connVars, listVars, transferVars, endpointVars, EpochSync, EpochPending, TypeOK, LocalsOK, MutexOK, Goto, At, Threads, Transferring, InTransfer
<1>8. PassFresh'
    BY DEF IInv, CyclicTrigger, connVars, listVars, transferVars, endpointVars, PassFresh, TypeOK, LocalsOK, MutexOK, PassOK, ListOK, ValidationOK, EpochSync, EpochPending, Seen, Goto, At, Threads, Transferring, InTransfer
<1>9. CyclicFresh'
    BY DEF IInv, CyclicTrigger, connVars, listVars, transferVars, endpointVars, CyclicFresh, TypeOK, LocalsOK, MutexOK, PassFresh, At, Threads, Transferring, InTransfer
<1> QED BY <1>1, <1>2, <1>3, <1>4, <1>5, <1>6, <1>7, <1>8, <1>9 DEF IInv

LEMMA SetActiveStep ==
    ASSUME IInv, NEW active \in BOOLEAN, SetActive(active)
    PROVE  IInv'
<1> USE ClockModAssumption, ConnectionAssumption DEF ClockModAssumption, ConnectionAssumption
<1>1. TypeOK'
    BY DEF IInv, SetActive, connVars, listVars, transferVars, endpointVars, TypeOK, Goto, At, Threads, Transferring, PCs, InTransfer
<1>2. LocalsOK'
    BY DEF IInv, SetActive, connVars, listVars, transferVars, endpointVars, LocalsOK, TypeOK, Goto, At, Threads, Transferring, InTransfer
<1>3. MutexOK'
    BY DEF IInv, SetActive, connVars, listVars, transferVars, endpointVars, MutexOK, TypeOK, LocalsOK, Goto, At, Threads, Transferring, InTransfer
<1>4. ListOK'
    BY DEF IInv, SetActive, connVars, listVars, transferVars, endpointVars, ListOK, TypeOK, LocalsOK, Transfers
<1>5. PassOK'
    BY DEF IInv, SetActive, connVars, listVars, transferVars, endpointVars, PassOK, TypeOK, MutexOK, ListOK, Goto, At, Threads, Transferring, InTransfer
<1>6. ValidationOK'
    BY DEF IInv, SetActive, connVars, listVars, transferVars, endpointVars, ValidationOK, TypeOK, LocalsOK
<1>7. EpochSync'
    BY DEF IInv, SetActive, connVars, listVars, transferVars, endpointVars, EpochSync, EpochPending, TypeOK, LocalsOK, MutexOK, Goto, At, Threads, Transferring, InTransfer
<1>8. PassFresh'
    BY DEF IInv, SetActive, connVars, listVars, transferVars, endpointVars, PassFresh, TypeOK, LocalsOK, MutexOK, PassOK, ListOK, ValidationOK, EpochSync, EpochPending, Seen, Goto, At, Threads, Transferring, InTransfer
<1>9. CyclicFresh'
    BY DEF IInv, SetActive, connVars, listVars, transferVars, endpointVars, CyclicFresh, TypeOK, LocalsOK, MutexOK, PassFresh, At, Threads, Transferring, InTransfer
<1> QED BY <1>1, <1>2, <1>3, <1>4, <1>5, <1>6, <1>7, <1>8, <1>9 DEF IInv

LEMMA SetTransferActiveStep ==
    ASSUME IInv, NEW t \in Transfers, SetTransferActive(t)
    PROVE  IInv'
<1> USE ClockModAssumption, ConnectionAssumption DEF ClockModAssumption, ConnectionAssumption
<1>1. TypeOK'
    BY DEF IInv, SetTransferActive, connVars, listVars, transferVars, endpointVars, TypeOK, Goto, At, Threads, Transferring, PCs, InTransfer
<1>2. LocalsOK'
    BY DEF IInv, SetTransferActive, connVars, listVars, transferVars, endpointVars, LocalsOK, TypeOK, Goto, At, Threads, Transferring, InTransfer
<1>3. MutexOK'
    BY DEF IInv, SetTransferActive, connVars, listVars, transferVars, endpointVars, MutexOK, TypeOK, LocalsOK, Goto, At, Threads, Transferring, InTransfer
<1>4. ListOK'
    BY DEF IInv, SetTransferActive, connVars, listVars, transferVars, endpointVars, ListOK, TypeOK, LocalsOK, Transfers
<1>5. PassOK'
    BY DEF IInv, SetTransferActive, connVars, listVars, transferVars, endpointVars, PassOK, TypeOK, MutexOK, ListOK, Goto, At, Threads, Transferring, InTransfer
<1>6. ValidationOK'
    BY DEF IInv, SetTransferActive, connVars, listVars, transferVars, endpointVars, ValidationOK, TypeOK, LocalsOK
<1>7. EpochSync'
    BY DEF IInv, SetTransferActive, connVars, listVars, transferVars, endpointVars, EpochSync, EpochPending, TypeOK, LocalsOK, MutexOK, Goto, At, Threads, Transferring, InTransfer
<1>8. PassFresh'
    BY DEF IInv, SetTransferActive, connVars, listVars, transferVars, endpointVars, PassFresh, TypeOK, LocalsOK, MutexOK, PassOK, ListOK, ValidationOK, EpochSync, EpochPending, Seen, Goto, At, Threads, Transferring, InTransfer
<1>9. CyclicFresh'
    BY DEF IInv, SetTransferActive, connVars, listVars, transferVars, endpointVars, CyclicFresh, TypeOK, LocalsOK, MutexOK, PassFresh, At, Threads, Transferring, InTransfer
<1> QED BY <1>1, <1>2, <1>3, <1>4, <1>5, <1>6, <1>7, <1>8, <1>9 DEF IInv

LEMMA IncrementEpochStep ==
    ASSUME IInv, IncrementEpoch
    PROVE  IInv'
<1> USE ClockModAssumption, ConnectionAssumption DEF ClockModAssumption, ConnectionAssumption
<1>1. TypeOK'
  <2>1. conn_epoch + 1 \in Int
      BY DEF IInv, TypeOK, Epochs
  <2>2. conn_epoch' \in Epochs
      BY <2>1, ModRange DEF IncrementEpoch, Epochs
  <2> QED BY <2>2 DEF IInv, IncrementEpoch, connVars, listVars, transferVars, endpointVars, TypeOK, Goto, At, Threads, Transferring, PCs, InTransfer
<1>2. LocalsOK'
    BY DEF IInv, IncrementEpoch, connVars, listVars, transferVars, endpointVars, LocalsOK, TypeOK, Goto, At, Threads, Transferring, InTransfer
<1>3. MutexOK'
    BY DEF IInv, IncrementEpoch, connVars, listVars, transferVars, endpointVars, MutexOK, TypeOK, LocalsOK, Goto, At, Threads, Transferring, InTransfer
<1>4. ListOK'
    BY DEF IInv, IncrementEpoch, connVars, listVars, transferVars, endpointVars, ListOK, TypeOK, LocalsOK, Transfers
<1>5. PassOK'
    BY DEF IInv, IncrementEpoch, connVars, listVars, transferVars, endpointVars, PassOK, TypeOK, MutexOK, ListOK, Goto, At, Threads, Transferring, InTransfer
<1>6. ValidationOK'
    BY DEF IInv, IncrementEpoch, connVars, listVars, transferVars, endpointVars, ValidationOK, TypeOK, LocalsOK
<1>7. EpochSync'
    BY DEF IInv, IncrementEpoch, connVars, listVars, transferVars, endpointVars, EpochSync, EpochPending, TypeOK, LocalsOK, MutexOK, Goto, At, Threads, Transferring, InTransfer
<1>8. PassFresh'
    BY DEF IInv, IncrementEpoch, connVars, listVars, transferVars, endpointVars, PassFresh, TypeOK, LocalsOK, MutexOK, PassOK, ListOK, ValidationOK, EpochSync, EpochPending, Seen, Goto, At, Threads, Transferring, InTransfer
<1>9. CyclicFresh'
    BY DEF IInv, IncrementEpoch, connVars, listVars, transferVars, endpointVars, CyclicFresh, TypeOK, LocalsOK, MutexOK, PassFresh, At, Threads, Transferring, InTransfer
<1> QED BY <1>1, <1>2, <1>3, <1>4, <1>5, <1>6, <1>7, <1>8, <1>9 DEF IInv

LEMMA SetTransferEpochStep ==
    ASSUME IInv, NEW t \in Transfers, SetTransferEpoch(t)
    PROVE  IInv'
<1> USE ClockModAssumption, ConnectionAssumption DEF ClockModAssumption, ConnectionAssumption
<1>1. TypeOK'
    BY DEF IInv, SetTransferEpoch, connVars, listVars, transferVars, endpointVars, TypeOK, Goto, At, Threads, Transferring, PCs, InTransfer
<1>2. LocalsOK'
    BY DEF IInv, SetTransferEpoch, connVars, listVars, transferVars, endpointVars, LocalsOK, TypeOK, Goto, At, Threads, Transferring, InTransfer
<1>3. MutexOK'
    BY DEF IInv, SetTransferEpoch, connVars, listVars, transferVars, endpointVars, MutexOK, TypeOK, LocalsOK, Goto, At, Threads, Transferring, InTransfer
<1>4. ListOK'
    BY DEF IInv, SetTransferEpoch, connVars, listVars, transferVars, endpointVars, ListOK, TypeOK, LocalsOK, Transfers
<1>5. PassOK'
    BY DEF IInv, SetTransferEpoch, connVars, listVars, transferVars, endpointVars, PassOK, TypeOK, MutexOK, ListOK, Goto, At, Threads, Transferring, InTransfer
<1>6. ValidationOK'
    BY DEF IInv, SetTransferEpoch, connVars, listVars, transferVars, endpointVars, ValidationOK, TypeOK, LocalsOK
<1>7. EpochSync'
    BY DEF IInv, SetTransferEpoch, connVars, listVars, transferVars, endpointVars, EpochSync, EpochPending, TypeOK, LocalsOK, MutexOK, Goto, At, Threads, Transferring, InTransfer
<1>8. PassFresh'
    BY DEF IInv, SetTransferEpoch, connVars, listVars, transferVars, endpointVars, PassFresh, TypeOK, LocalsOK, MutexOK, PassOK, ListOK, ValidationOK, EpochSync, EpochPending, Seen, Goto, At, Threads, Transferring, InTransfer
<1>9. CyclicFresh'
    BY DEF IInv, SetTransferEpoch, connVars, listVars, transferVars, endpointVars, CyclicFresh, TypeOK, LocalsOK, MutexOK, PassFresh, At, Threads, Transferring, InTransfer
<1> QED BY <1>1, <1>2, <1>3, <1>4, <1>5, <1>6, <1>7, <1>8, <1>9 DEF IInv

LEMMA AdminUnlockStep ==
    ASSUME IInv, AdminUnlock
    PROVE  IInv'
<1> USE ClockModAssumption, ConnectionAssumption DEF ClockModAssumption, ConnectionAssumption
<1>1. TypeOK'
    BY DEF IInv, AdminUnlock, connVars, listVars, transferVars, endpointVars, TypeOK, Goto, At, Threads, Transferring, PCs, InTransfer
<1>2. LocalsOK'
    BY DEF IInv, AdminUnlock, connVars, listVars, transferVars, endpointVars, LocalsOK, TypeOK, Goto, At, Threads, Transferring, InTransfer
<1>3. MutexOK'
    BY DEF IInv, AdminUnlock, connVars, listVars, transferVars, endpointVars, MutexOK, TypeOK, LocalsOK, Goto, At, Threads, Transferring, InTransfer
<1>4. ListOK'
    BY DEF IInv, AdminUnlock, connVars, listVars, transferVars, endpointVars, ListOK, TypeOK, LocalsOK, Transfers
<1>5. PassOK'
    BY DEF IInv, AdminUnlock, connVars, listVars, transferVars, endpointVars, PassOK, TypeOK, MutexOK, ListOK, Goto, At, Threads, Transferring, InTransfer
<1>6. ValidationOK'
    BY DEF IInv, AdminUnlock, connVars, listVars, transferVars, endpointVars, ValidationOK, TypeOK, LocalsOK
<1>7. EpochSync'
    BY DEF IInv, AdminUnlock, connVars, listVars, transferVars, endpointVars, EpochSync, EpochPending, TypeOK, LocalsOK, MutexOK, Goto, At, Threads, Transferring, InTransfer
<1>8. PassFresh'
    BY DEF IInv, AdminUnlock, connVars, listVars, transferVars, endpointVars, PassFresh, TypeOK, LocalsOK, MutexOK, PassOK, ListOK, ValidationOK, EpochSync, EpochPending, Seen, Goto, At, Threads, Transferring, InTransfer
<1>9. CyclicFresh'
    BY DEF IInv, AdminUnlock, connVars, listVars, transferVars, endpointVars, CyclicFresh, TypeOK, LocalsOK, MutexOK, PassFresh, At, Threads, Transferring, InTransfer
<1> QED BY <1>1, <1>2, <1>3, <1>4, <1>5, <1>6, <1>7, <1>8, <1>9 DEF IInv

LEMMA ConstructMonitorTransferStep ==
    ASSUME IInv, NEW t \in Monitored, ConstructMonitorTransfer(t)
    PROVE  IInv'
<1> USE ClockModAssumption, ConnectionAssumption DEF ClockModAssumption, ConnectionAssumption
<1>1. TypeOK'
  <2>1. t \in Transfers
      BY DEF Transfers
  <2>2. callbacks' \in [Keys -> SUBSET EventDriven]
    <3>1. KeyOf[t] \in Keys
        BY <2>1
    <3>2. ~IsCyclicTrigger(KindOf[t]) => {t} \subseteq EventDriven
        BY <2>1 DEF EventDriven
    <3>3. callbacks \in [Keys -> SUBSET EventDriven]
        BY DEF IInv, TypeOK
    <3>4. callbacks[KeyOf[t]] \in SUBSET EventDriven
        BY <3>1, <3>3
    <3>5. PICK s \in SUBSET EventDriven : callbacks' = [callbacks EXCEPT ![KeyOf[t]] = s]
        BY <3>2, <3>4 DEF ConstructMonitorTransfer, Subscribe
    <3> QED BY <3>1, <3>3, <3>5
  <2> QED BY <2>1, <2>2 DEF IInv, ConstructMonitorTransfer, connVars, listVars, transferVars, endpointVars, TypeOK, Goto, At, Threads, Transferring, PCs, InTransfer
<1>2. LocalsOK'
    BY DEF IInv, ConstructMonitorTransfer, connVars, listVars, transferVars, endpointVars, LocalsOK, TypeOK, Transfers, Goto, At, Threads, Transferring, InTransfer
<1>3. MutexOK'
    BY DEF IInv, ConstructMonitorTransfer, connVars, listVars, transferVars, endpointVars, MutexOK, TypeOK, LocalsOK, Goto, At, Threads, Transferring, InTransfer
<1>4. ListOK'
    BY DEF IInv, ConstructMonitorTransfer, connVars, listVars, transferVars, endpointVars, ListOK, TypeOK, LocalsOK, Transfers
<1>5. PassOK'
    BY DEF IInv, ConstructMonitorTransfer, connVars, listVars, transferVars, endpointVars, PassOK, TypeOK, MutexOK, ListOK, Goto, At, Threads, Transferring, InTransfer
<1>6. ValidationOK'
    BY DEF IInv, ConstructMonitorTransfer, connVars, listVars, transferVars, endpointVars, ValidationOK, TypeOK, LocalsOK
<1>7. EpochSync'
    BY DEF IInv, ConstructMonitorTransfer, connVars, listVars, transferVars, endpointVars, EpochSync, EpochPending, TypeOK, LocalsOK, MutexOK, Goto, At, Threads, Transferring, InTransfer
<1>8. PassFresh'
    BY DEF IInv, ConstructMonitorTransfer, connVars, listVars, transferVars, endpointVars, PassFresh, TypeOK, LocalsOK, MutexOK, PassOK, ListOK, ValidationOK, EpochSync, EpochPending, Seen, Goto, At, Threads, Transferring, InTransfer
<1>9. CyclicFresh'
    BY DEF IInv, ConstructMonitorTransfer, connVars, listVars, transferVars, endpointVars, CyclicFresh, TypeOK, LocalsOK, MutexOK, PassFresh, At, Threads, Transferring, InTransfer
<1> QED BY <1>1, <1>2, <1>3, <1>4, <1>5, <1>6, <1>7, <1>8, <1>9 DEF IInv

LEMMA DeactivateMonitorTransferStep ==
    ASSUME IInv, NEW t \in Monitored, DeactivateMonitorTransfer(t)
    PROVE  IInv'
<1> USE ClockModAssumption, ConnectionAssumption DEF ClockModAssumption, ConnectionAssumption
<1>1. TypeOK'
    BY DEF IInv, DeactivateMonitorTransfer, connVars, listVars, transferVars, endpointVars, TypeOK, Transfers, Goto, At, Threads, Transferring, PCs, InTransfer
<1>2. LocalsOK'
    BY DEF IInv, DeactivateMonitorTransfer, connVars, listVars, transferVars, endpointVars, LocalsOK, TypeOK, Transfers, Goto, At, Threads, Transferring, InTransfer
<1>3. MutexOK'
    BY DEF IInv, DeactivateMonitorTransfer, connVars, listVars, transferVars, endpointVars, MutexOK, TypeOK, LocalsOK, Goto, At, Threads, Transferring, InTransfer
<1>4. ListOK'
    BY DEF IInv, DeactivateMonitorTransfer, connVars, listVars, transferVars, endpointVars, ListOK, TypeOK, LocalsOK, Transfers
<1>5. PassOK'
    BY DEF IInv, DeactivateMonitorTransfer, connVars, listVars, transferVars, endpointVars, PassOK, TypeOK, MutexOK, ListOK, Goto, At, Threads, Transferring, InTransfer
<1>6. ValidationOK'
    BY DEF IInv, DeactivateMonitorTransfer, connVars, listVars, transferVars, endpointVars, ValidationOK, TypeOK, LocalsOK
<1>7. EpochSync'
    BY DEF IInv, DeactivateMonitorTransfer, connVars, listVars, transferVars, endpointVars, EpochSync, EpochPending, TypeOK, LocalsOK, MutexOK, Goto, At, Threads, Transferring, InTransfer
<1>8. PassFresh'
    BY DEF IInv, DeactivateMonitorTransfer, connVars, listVars, transferVars, endpointVars, PassFresh, TypeOK, LocalsOK, MutexOK, PassOK, ListOK, ValidationOK, EpochSync, EpochPending, Seen, Goto, At, Threads, Transferring, InTransfer
<1>9. CyclicFresh'
    BY DEF IInv, DeactivateMonitorTransfer, connVars, listVars, transferVars, endpointVars, CyclicFresh, TypeOK, LocalsOK, MutexOK, PassFresh, At, Threads, Transferring, InTransfer
<1> QED BY <1>1, <1>2, <1>3, <1>4, <1>5, <1>6, <1>7, <1>8, <1>9 DEF IInv

LEMMA AddMonitorTransferPduStep ==
    ASSUME IInv, AddMonitorTransferPdu
    PROVE  IInv'
<1> USE ClockModAssumption, ConnectionAssumption DEF ClockModAssumption, ConnectionAssumption
<1>1. TypeOK'
    BY DEF IInv, AddMonitorTransferPdu, connVars, listVars, transferVars, endpointVars, TypeOK, LocalsOK, Goto, At, Threads, Transferring, PCs, InTransfer
<1>2. LocalsOK'
    BY DEF IInv, AddMonitorTransferPdu, connVars, listVars, transferVars, endpointVars, LocalsOK, TypeOK, Goto, At, Threads, Transferring, InTransfer
<1>3. MutexOK'
    BY DEF IInv, AddMonitorTransferPdu, connVars, listVars, transferVars, endpointVars, MutexOK, TypeOK, LocalsOK, Goto, At, Threads, Transferring, InTransfer
<1>4. ListOK'
    BY DEF IInv, AddMonitorTransferPdu, connVars, listVars, transferVars, endpointVars, ListOK, TypeOK, LocalsOK, Transfers
<1>5. PassOK'
    BY DEF IInv, AddMonitorTransferPdu, connVars, listVars, transferVars, endpointVars, PassOK, TypeOK, MutexOK, ListOK, Goto, At, Threads, Transferring, InTransfer
<1>6. ValidationOK'
    BY DEF IInv, AddMonitorTransferPdu, connVars, listVars, transferVars, endpointVars, ValidationOK, TypeOK, LocalsOK, At
<1>7. EpochSync'
    BY DEF IInv, AddMonitorTransferPdu, connVars, listVars, transferVars, endpointVars, EpochSync, EpochPending, TypeOK, LocalsOK, MutexOK, Goto, At, Threads, Transferring, InTransfer
<1>8. PassFresh'
    BY DEF IInv, AddMonitorTransferPdu, connVars, listVars, transferVars, endpointVars, PassFresh, TypeOK, LocalsOK, MutexOK, PassOK, ListOK, ValidationOK, EpochSync, EpochPending, Seen, Goto, At, Threads, Transferring, InTransfer
<1>9. CyclicFresh'
    BY DEF IInv, AddMonitorTransferPdu, connVars, listVars, transferVars, endpointVars, CyclicFresh, TypeOK, LocalsOK, MutexOK, PassFresh, At, Threads, Transferring, InTransfer
<1> QED BY <1>1, <1>2, <1>3, <1>4, <1>5, <1>6, <1>7, <1>8, <1>9 DEF IInv

LEMMA RemoveMonitorTransferStep ==
    ASSUME IInv, RemoveMonitorTransfer
    PROVE  IInv'
<1> USE ClockModAssumption, ConnectionAssumption DEF ClockModAssumption, ConnectionAssumption
<1>1. TypeOK'
    BY DEF IInv, RemoveMonitorTransfer, connVars, listVars, transferVars, endpointVars, TypeOK, Goto, At, Threads, Transferring, PCs, InTransfer
<1>2. LocalsOK'
    BY DEF IInv, RemoveMonitorTransfer, connVars, listVars, transferVars, endpointVars, LocalsOK, TypeOK, Goto, At, Threads, Transferring, InTransfer
<1>3. MutexOK'
    BY DEF IInv, RemoveMonitorTransfer, connVars, listVars, transferVars, endpointVars, MutexOK, TypeOK, LocalsOK, Goto, At, Threads, Transferring, InTransfer
<1>4. ListOK'
    BY DEF IInv, RemoveMonitorTransfer, connVars, listVars, transferVars, endpointVars, ListOK, TypeOK, LocalsOK, Transfers
<1>5. PassOK'
    BY DEF IInv, RemoveMonitorTransfer, connVars, listVars, transferVars, endpointVars, PassOK, TypeOK, MutexOK, ListOK, Goto, At, Threads, Transferring, InTransfer
<1>6. ValidationOK'
    BY DEF IInv, RemoveMonitorTransfer, connVars, listVars, transferVars, endpointVars, ValidationOK, TypeOK, LocalsOK
<1>7. EpochSync'
    BY DEF IInv, RemoveMonitorTransfer, connVars, listVars, transferVars, endpointVars, EpochSync, EpochPending, TypeOK, LocalsOK, MutexOK, Goto, At, Threads, Transferring, InTransfer
<1>8. PassFresh'
    BY DEF IInv, RemoveMonitorTransfer, connVars, listVars, transferVars, endpointVars, PassFresh, TypeOK, LocalsOK, MutexOK, PassOK, ListOK, ValidationOK, EpochSync, EpochPending, Seen, Goto, At, Threads, Transferring, InTransfer
<1>9. CyclicFresh'
    BY DEF IInv, RemoveMonitorTransfer, connVars, listVars, transferVars, endpointVars, CyclicFresh, TypeOK, LocalsOK, MutexOK, PassFresh, At, Threads, Transferring, InTransfer
<1> QED BY <1>1, <1>2, <1>3, <1>4, <1>5, <1>6, <1>7, <1>8, <1>9 DEF IInv

LEMMA TickStep ==
    ASSUME IInv, Tick
    PROVE  IInv'
<1> USE ClockModAssumption, ConnectionAssumption DEF ClockModAssumption, ConnectionAssumption
<1>1. TypeOK'
  <2>1. now' \in Instants
      BY DEF IInv, TypeOK, Tick, Instants
  <2> QED BY <2>1 DEF IInv, Tick, connVars, listVars, transferVars, endpointVars, TypeOK
<1>2. LocalsOK'
    BY DEF IInv, Tick, connVars, listVars, transferVars, endpointVars, LocalsOK, TypeOK, Goto, At, Threads, Transferring, InTransfer
<1>3. MutexOK'
    BY DEF IInv, Tick, connVars, listVars, transferVars, endpointVars, MutexOK, TypeOK, LocalsOK, Goto, At, Threads, Transferring, InTransfer
<1>4. ListOK'
    BY DEF IInv, Tick, connVars, listVars, transferVars, endpointVars, ListOK, TypeOK, LocalsOK, Transfers
<1>5. PassOK'
    BY DEF IInv, Tick, connVars, listVars, transferVars, endpointVars, PassOK, TypeOK, MutexOK, ListOK, Goto, At, Threads, Transferring, InTransfer
<1>6. ValidationOK'
    BY DEF IInv, Tick, connVars, listVars, transferVars, endpointVars, ValidationOK, TypeOK, LocalsOK
<1>7. EpochSync'
    BY DEF IInv, Tick, connVars, listVars, transferVars, endpointVars, EpochSync, EpochPending, TypeOK, LocalsOK, MutexOK, Goto, At, Threads, Transferring, InTransfer
<1>8. PassFresh'
    BY DEF IInv, Tick, connVars, listVars, transferVars, endpointVars, PassFresh, TypeOK, LocalsOK, MutexOK, PassOK, ListOK, ValidationOK, EpochSync, EpochPending, Seen, Goto, At, Threads, Transferring, InTransfer
<1>9. CyclicFresh'
    BY DEF IInv, Tick, connVars, listVars, transferVars, endpointVars, CyclicFresh, TypeOK, LocalsOK, MutexOK, PassFresh, At, Threads, Transferring, InTransfer
<1> QED BY <1>1, <1>2, <1>3, <1>4, <1>5, <1>6, <1>7, <1>8, <1>9 DEF IInv

LEMMA DestinationFlipsStep ==
    ASSUME IInv, NEW t \in Unreliable, DestinationFlips(t)
    PROVE  IInv'
<1> USE ClockModAssumption, ConnectionAssumption DEF ClockModAssumption, ConnectionAssumption
<1>1. TypeOK'
    BY DEF IInv, DestinationFlips, connVars, listVars, transferVars, endpointVars, TypeOK, Goto, At, Threads, Transferring, PCs, InTransfer
<1>2. LocalsOK'
    BY DEF IInv, DestinationFlips, connVars, listVars, transferVars, endpointVars, LocalsOK, TypeOK, Goto, At, Threads, Transferring, InTransfer
<1>3. MutexOK'
    BY DEF IInv, DestinationFlips, connVars, listVars, transferVars, endpointVars, MutexOK, TypeOK, LocalsOK, Goto, At, Threads, Transferring, InTransfer
<1>4. ListOK'
    BY DEF IInv, DestinationFlips, connVars, listVars, transferVars, endpointVars, ListOK, TypeOK, LocalsOK, Transfers
<1>5. PassOK'
    BY DEF IInv, DestinationFlips, connVars, listVars, transferVars, endpointVars, PassOK, TypeOK, MutexOK, ListOK, Goto, At, Threads, Transferring, InTransfer
<1>6. ValidationOK'
    BY DEF IInv, DestinationFlips, connVars, listVars, transferVars, endpointVars, ValidationOK, TypeOK, LocalsOK
<1>7. EpochSync'
    BY DEF IInv, DestinationFlips, connVars, listVars, transferVars, endpointVars, EpochSync, EpochPending, TypeOK, LocalsOK, MutexOK, Goto, At, Threads, Transferring, InTransfer
<1>8. PassFresh'
    BY DEF IInv, DestinationFlips, connVars, listVars, transferVars, endpointVars, PassFresh, TypeOK, LocalsOK, MutexOK, PassOK, ListOK, ValidationOK, EpochSync, EpochPending, Seen, Goto, At, Threads, Transferring, InTransfer
<1>9. CyclicFresh'
    BY DEF IInv, DestinationFlips, connVars, listVars, transferVars, endpointVars, CyclicFresh, TypeOK, LocalsOK, MutexOK, PassFresh, At, Threads, Transferring, InTransfer
<1> QED BY <1>1, <1>2, <1>3, <1>4, <1>5, <1>6, <1>7, <1>8, <1>9 DEF IInv

LEMMA NextStep ==
    ASSUME IInv, [Next]_vars
    PROVE  IInv'
<1>1. CASE \E th \in Transferring : TryTransfer(th)
    BY <1>1, EnterTransferStep, CheckActiveStep, CheckPolicyStep, ReadSourceStep,
       CheckEpochStep, SendToDestinationStep, NotifyPolicyStep, LeaveLoopStep
       DEF TryTransfer
<1>2. CASE \E th \in EventThreads, k \in Keys, e \in Epochs : SourceReceive(th, k, e)
    BY <1>2, SourceReceiveStep
<1>3. CASE BeginPass \/ CyclicLock \/ CyclicTrigger
    BY <1>3, BeginPassStep, CyclicLockStep, CyclicTriggerStep
<1>4. CASE AdminStep
    BY <1>4, SetActiveStep, IncrementEpochStep, SetTransferActiveStep, SetTransferEpochStep,
       AdminUnlockStep DEF AdminStep
<1>5. CASE MonitorStep
    BY <1>5, ConstructMonitorTransferStep, DeactivateMonitorTransferStep,
       AddMonitorTransferPduStep, RemoveMonitorTransferStep DEF MonitorStep
<1>6. CASE Tick \/ \E t \in Unreliable : DestinationFlips(t)
    BY <1>6, TickStep, DestinationFlipsStep
<1>7. CASE UNCHANGED vars
  <2> USE <1>7 DEF vars
  <2>1. TypeOK' /\ LocalsOK' /\ MutexOK'
      BY DEF IInv, TypeOK, LocalsOK, MutexOK
  <2>2. ListOK' /\ PassOK' /\ ValidationOK' /\ EpochSync'
      BY DEF IInv, ListOK, PassOK, ValidationOK, EpochSync, EpochPending
  <2>3. PassFresh' /\ CyclicFresh'
      BY DEF IInv, PassFresh, CyclicFresh
  <2> QED BY <2>1, <2>2, <2>3 DEF IInv
<1> QED BY <1>1, <1>2, <1>3, <1>4, <1>5, <1>6, <1>7 DEF Next

-----------------------------------------------------------------------------
(* The theorems.                                                            *)

\* The inductive invariant holds in every reachable state of BridgeConnection.
THEOREM Invariance == Spec => []IInv
<1>1. Init => IInv
    BY InitIInv
<1>2. IInv /\ [Next]_vars => IInv'
    BY NextStep
<1> QED BY <1>1, <1>2, PTL DEF Spec

\* Every variable of the connection, its transfers and its threads keeps its type.
THEOREM TypeCorrect == Spec => []TypeOK
<1>1. IInv => TypeOK
    BY DEF IInv
<1> QED BY <1>1, Invariance, PTL

\* However attach, detach, increment_epoch and the passes of the loop interleave, a
\* listed transfer has the connection's epoch unless increment_epoch is about to
\* give it to it.
THEOREM EpochsInSync == Spec => []EpochSync
<1>1. IInv => EpochSync
    BY DEF IInv
<1> QED BY <1>1, Invariance, PTL

\* With epoch validation, no pass of cyclic_trigger ever sends a PDU of an epoch
\* that is not the connection's at the moment of the send.
THEOREM CyclicSendsFresh == Spec => []CyclicFresh
<1>1. IInv => CyclicFresh
    BY DEF IInv
<1> QED BY <1>1, Invariance, PTL

\* A pass of cyclic_trigger executes methods of listed transfers only: what
\* remove_transfer_pdu destroys is out of its reach.
THEOREM CyclicUsesLive == Spec => []CyclicUsesLiveTransfers
<1>1. IInv => CyclicUsesLiveTransfers
  <2> SUFFICES ASSUME IInv, transfer_mtx = Loop, pc[Loop] \in InTransfer
               PROVE  life[cur[Loop]] = "listed"
      BY DEF CyclicUsesLiveTransfers
  <2>1. cur[Loop] \in transfer_pdus /\ cur[Loop] \in Transfers
      BY DEF IInv, PassOK, LocalsOK, Transferring
  <2> QED BY <2>1 DEF IInv, ListOK
<1> QED BY <1>1, Invariance, PTL

-----------------------------------------------------------------------------
(* Monitors come and go: what that leaves of the transfers the builder made,*)
(* and of pausing and the epoch check in the receive callbacks.             *)

\* What the builder made stays; the monitor runtime is at work on a transfer of its own,
\* which it lists once.
MonitorOK ==
    /\ \A t \in Static : life[t] = "listed"
    /\ pc[Monitor] \in {"add", "remove"} => cur[Monitor] \in Monitored
    /\ pc[Monitor] = "add" => life[cur[Monitor]] = "constructed"

\* A transfer the builder made follows the connection's flag unless set_active has
\* yet to reach it.
ActiveSync ==
    \A t \in Static :
        is_active[t] = conn_active \/ (pc[Admin] = "set_active" /\ t \in todo[Admin])

LEMMA InitStatic ==
    ASSUME Init
    PROVE  MonitorOK /\ ActiveSync
BY DEF Init, MonitorOK, ActiveSync, Transfers, Threads

\* The loop and the receive threads touch neither flag.
LEMMA TransferringKeepsActiveSync ==
    ASSUME IInv, MonitorOK, ActiveSync,
           \/ \E th \in Transferring : TryTransfer(th)
           \/ \E th \in EventThreads, k \in Keys, e \in Epochs : SourceReceive(th, k, e)
           \/ BeginPass \/ CyclicLock \/ CyclicTrigger
           \/ Tick \/ \E t \in Unreliable : DestinationFlips(t)
    PROVE  MonitorOK' /\ ActiveSync'
<1>1. PICK th \in Transferring :
          /\ \A o \in Threads \ {th} : pc'[o] = pc[o] /\ cur'[o] = cur[o] /\ todo'[o] = todo[o]
          /\ UNCHANGED <<conn_active, is_active, life>>
  <2> USE DEF IInv, TypeOK, Goto, connVars, transferVars, listVars, Transferring
  <2>1. ASSUME NEW th \in Transferring, TryTransfer(th)
        PROVE  /\ \A o \in Threads \ {th} : pc'[o] = pc[o] /\ cur'[o] = cur[o] /\ todo'[o] = todo[o]
               /\ UNCHANGED <<conn_active, is_active, life>>
    <3>1. CASE EnterTransfer(th) \/ CheckActive(th) \/ CheckPolicy(th) \/ ReadSource(th)
        BY <3>1 DEF EnterTransfer, CheckActive, CheckPolicy, ReadSource
    <3>2. CASE CheckEpoch(th) \/ SendToDestination(th) \/ NotifyPolicy(th) \/ LeaveLoop(th)
        BY <3>2 DEF CheckEpoch, SendToDestination, NotifyPolicy, LeaveLoop
    <3> QED BY <2>1, <3>1, <3>2 DEF TryTransfer
  <2>2. ASSUME NEW th \in EventThreads, NEW k \in Keys, NEW e \in Epochs, SourceReceive(th, k, e)
        PROVE  /\ \A o \in Threads \ {th} : pc'[o] = pc[o] /\ cur'[o] = cur[o] /\ todo'[o] = todo[o]
               /\ UNCHANGED <<conn_active, is_active, life>>
    BY <2>2 DEF SourceReceive
  <2>3. CASE BeginPass \/ CyclicLock \/ CyclicTrigger
    <3>1. /\ \A o \in Threads \ {Loop} : pc'[o] = pc[o] /\ cur'[o] = cur[o] /\ todo'[o] = todo[o]
          /\ UNCHANGED <<conn_active, is_active, life>>
        BY <2>3 DEF BeginPass, CyclicLock, CyclicTrigger
    <3> QED BY <3>1
  <2>4. CASE Tick \/ \E t \in Unreliable : DestinationFlips(t)
    <3>1. UNCHANGED <<pc, cur, todo, conn_active, is_active, life>>
        BY <2>4 DEF Tick, DestinationFlips
    <3> QED BY <3>1
  <2> QED BY <2>1, <2>2, <2>3, <2>4
<1>2. Admin \in Threads \ {th} /\ Monitor \in Threads \ {th}
    BY ConnectionAssumption DEF ConnectionAssumption, Threads, Transferring
<1> QED BY <1>1, <1>2 DEF MonitorOK, ActiveSync

LEMMA AdminKeepsActiveSync ==
    ASSUME IInv, MonitorOK, ActiveSync, AdminStep
    PROVE  MonitorOK' /\ ActiveSync'
<1> USE DEF IInv, TypeOK, Goto, At, connVars, transferVars, listVars
<1>1. MonitorOK'
  <2>1. Monitor # Admin /\ UNCHANGED <<life, cur>>
      BY ConnectionAssumption DEF ConnectionAssumption, AdminStep, SetActive, IncrementEpoch,
         SetTransferActive, SetTransferEpoch, AdminUnlock
  <2>2. pc'[Monitor] = pc[Monitor]
      BY <2>1 DEF AdminStep, SetActive, IncrementEpoch, SetTransferActive, SetTransferEpoch,
         AdminUnlock, Threads
  <2> QED BY <2>1, <2>2 DEF MonitorOK
<1>2. \A t \in Static : t \in transfer_pdus
    BY DEF MonitorOK, ListOK, Transfers
<1>3. Admin \in Threads /\ Static \subseteq Transfers
    BY DEF Threads, Transfers
<1>4. ASSUME NEW active \in BOOLEAN, SetActive(active)
      PROVE  ActiveSync'
    BY <1>2, <1>3, <1>4 DEF SetActive, ActiveSync
<1>5. CASE IncrementEpoch
  <2>1. \A t \in Static : is_active[t] = conn_active
      BY <1>5 DEF IncrementEpoch, ActiveSync
  <2>2. UNCHANGED <<is_active, conn_active>>
      BY <1>5 DEF IncrementEpoch
  <2> QED BY <1>1, <2>1, <2>2 DEF ActiveSync
<1>6. ASSUME NEW t \in Transfers, SetTransferActive(t)
      PROVE  ActiveSync'
    BY <1>3, <1>6 DEF SetTransferActive, ActiveSync
<1>7. ASSUME NEW t \in Transfers, SetTransferEpoch(t)
      PROVE  ActiveSync'
    BY <1>3, <1>7 DEF SetTransferEpoch, ActiveSync
<1>8. CASE AdminUnlock
  <2>1. \A t \in Static : is_active[t] = conn_active
      BY <1>8 DEF AdminUnlock, ActiveSync
  <2>2. UNCHANGED <<is_active, conn_active>>
      BY <1>8 DEF AdminUnlock
  <2> QED BY <1>1, <2>1, <2>2 DEF ActiveSync
<1> QED BY <1>1, <1>4, <1>5, <1>6, <1>7, <1>8 DEF AdminStep

\* The monitor runtime works on its own transfers only.
LEMMA MonitorKeepsActiveSync ==
    ASSUME IInv, MonitorOK, ActiveSync, MonitorStep
    PROVE  MonitorOK' /\ ActiveSync'
<1> USE ConnectionAssumption DEF ConnectionAssumption, Goto, At
<1>0. /\ life \in [Transfers -> {"none", "constructed", "listed", "destroyed"}]
      /\ pc \in [Threads -> PCs] /\ cur \in [Threads -> Transfers \cup {NoTransfer}]
      /\ is_active \in [Transfers -> BOOLEAN]
      /\ Monitor \in Threads /\ Admin \in Threads /\ Monitor # Admin
      /\ Static \subseteq Transfers /\ Monitored \subseteq Transfers
    BY DEF IInv, TypeOK, Threads, Transfers
<1>1. MonitorOK'
  <2>1. CASE \E t \in Monitored : ConstructMonitorTransfer(t)
      BY <1>0, <2>1 DEF ConstructMonitorTransfer, MonitorOK
  <2>2. CASE \E t \in Monitored : DeactivateMonitorTransfer(t)
      BY <1>0, <2>2 DEF DeactivateMonitorTransfer, MonitorOK, listVars
  <2>3. CASE AddMonitorTransferPdu
      BY <1>0, <2>3 DEF AddMonitorTransferPdu, MonitorOK
  <2>4. CASE RemoveMonitorTransfer
      BY <1>0, <2>4 DEF RemoveMonitorTransfer, MonitorOK
  <2> QED BY <2>1, <2>2, <2>3, <2>4 DEF MonitorStep
<1>2. /\ pc'[Admin] = pc[Admin] /\ UNCHANGED <<conn_active, todo>>
      /\ \A t \in Static : is_active'[t] = is_active[t]
    BY <1>0 DEF MonitorStep, ConstructMonitorTransfer, DeactivateMonitorTransfer,
       AddMonitorTransferPdu, RemoveMonitorTransfer, connVars, transferVars
<1>3. ActiveSync'
    BY <1>2 DEF ActiveSync
<1> QED BY <1>1, <1>3

LEMMA StaticStep ==
    ASSUME IInv, MonitorOK, ActiveSync, [Next]_vars
    PROVE  MonitorOK' /\ ActiveSync'
<1>1. CASE UNCHANGED vars
    BY <1>1 DEF vars, MonitorOK, ActiveSync
<1> QED BY <1>1, TransferringKeepsActiveSync, AdminKeepsActiveSync, MonitorKeepsActiveSync
        DEF Next

\* MonitorOK and ActiveSync hold in every reachable state of a connection.
THEOREM StaticInvariance == Spec => [](IInv /\ MonitorOK /\ ActiveSync)
<1>1. Init => IInv /\ MonitorOK /\ ActiveSync
    BY InitIInv, InitStatic
<1>2. IInv /\ MonitorOK /\ ActiveSync /\ [Next]_vars => (IInv /\ MonitorOK /\ ActiveSync)'
    BY NextStep, StaticStep
<1> QED BY <1>1, <1>2, PTL DEF Spec

\* set_active(false) has reached every transfer the builder made when it returns.
THEOREM PauseReachesTransfers == Spec => []PauseStopsTransfers
<1>1. IInv /\ MonitorOK /\ ActiveSync => PauseStopsTransfers
    BY ConnectionAssumption
       DEF IInv, TypeOK, MutexOK, ActiveSync, PauseStopsTransfers, ConnectionAssumption, Threads
<1> QED BY <1>1, StaticInvariance, PTL

\* No thread starts one of them on a paused connection once set_active is through:
\* neither the loop's pass nor a receive callback.
THEOREM PausedConnectionRests == Spec => PausedStartsNothing
<1>1. IInv /\ MonitorOK /\ ActiveSync =>
         [\A th \in Transferring :
            CheckActive(th) /\ cur[th] \in Static /\ pc'[th] = "policy"
            => conn_active \/ transfer_mtx = Admin]_vars
  <2> SUFFICES ASSUME IInv, MonitorOK, ActiveSync, NEW th \in Transferring,
                      CheckActive(th), cur[th] \in Static, pc'[th] = "policy"
               PROVE  conn_active \/ transfer_mtx = Admin
      OBVIOUS
  <2>1. th \in Threads
      BY DEF Transferring, Threads
  <2>2. is_active[cur[th]]
      BY <2>1 DEF CheckActive, Goto, Seen, MonitorOK, IInv, TypeOK
  <2> QED BY <2>1, <2>2 DEF ActiveSync, IInv, MutexOK
<1> QED BY <1>1, StaticInvariance, PTL DEF PausedStartsNothing

\* The epoch check of a pass and of a receive callback lets through only what carries
\* the connection's epoch, or one that is just being replaced.
THEOREM EpochChecksAreCurrent == Spec => AcceptsCurrentEpoch
<1>1. IInv =>
         [\A th \in Transferring :
            /\ EpochValidation
            /\ CheckEpoch(th)
            /\ cur[th] \in transfer_pdus
            /\ pc'[th] = "send"
            => buffer[th] = conn_epoch \/ transfer_mtx = Admin]_vars
  <2> SUFFICES ASSUME IInv, NEW th \in Transferring, EpochValidation, CheckEpoch(th),
                      cur[th] \in transfer_pdus, pc'[th] = "send"
               PROVE  buffer[th] = conn_epoch \/ transfer_mtx = Admin
      OBVIOUS
  <2>1. cur[th] \in Transfers /\ th \in Threads
      BY DEF CheckEpoch, At, IInv, LocalsOK, InTransfer, Transferring, Threads
  <2>2. life[cur[th]] = "listed" /\ epoch_validation[cur[th]]
      BY <2>1 DEF IInv, ListOK, ValidationOK
  <2>3. buffer[th] = owner_epoch[cur[th]]
      BY <2>1, <2>2 DEF CheckEpoch, Goto, Seen, IInv, TypeOK
  <2> QED BY <2>3 DEF IInv, EpochSync, EpochPending
<1> QED BY <1>1, Invariance, PTL DEF AcceptsCurrentEpoch

-----------------------------------------------------------------------------
(* With one receive thread: the intervals of the policies.                  *)

OneEventThread == \A th1, th2 \in EventThreads : th1 = th2

\* The clock is read long before it wraps.
NoWrap == \A t \in Transfers : MaxTime + IntervalOf[t] < ClockMod

\* A transfer has one thread: in a pass the loop runs cyclic transfers, and the receive
\* thread, which may be the same one outside a pass, runs the others.
OwnThread ==
    \A th \in Transferring :
        /\ pc[th] \in InTransfer =>
              IF transfer_mtx = th THEN cur[th] \notin EventDriven
              ELSE cur[th] \in EventDriven /\ th \in EventThreads
        /\ transfer_mtx # th /\ pc[th] \in InTransfer \cup {"next"} =>
              todo[th] \subseteq EventDriven /\ th \in EventThreads

PolicyOK ==
    /\ now <= MaxTime
    /\ \A t \in Transfers :
          /\ policy[t].kind = KindOf[t] /\ policy[t].interval = IntervalOf[t]
          /\ KindOf[t] = "throttle" /\ policy[t].armed => policy[t].mark <= now
          /\ \A th \in Transferring :
                /\ KindOf[t] = "ticker" /\ cur[th] = t
                /\ pc[th] \in {"read", "epoch", "send", "after"}
                => policy[t].armed

\* When the policy lets the next PDU of t through.
NextDue(t) == policy[t].mark + (IF KindOf[t] = "throttle" THEN IntervalOf[t] ELSE 0)

\* A thread that is past the check is an interval after the last delivery, and the policy
\* knows of that delivery, unless the thread that made it is about to tell.
Spaced ==
    \A t \in Transfers :
        KindOf[t] # "immediate" /\ delivered[t] # NoDelivery /\ life[t] # "destroyed" =>
            /\ delivered[t].at <= now
            /\ \/ \E th \in Transferring : pc[th] = "after" /\ cur[th] = t
               \/ policy[t].armed /\ delivered[t].at + IntervalOf[t] <= NextDue(t)
            /\ \A th \in Transferring :
                  cur[th] = t /\ pc[th] \in {"read", "epoch", "send"} =>
                      delivered[t].at + IntervalOf[t] <= now

SpacingInv == OwnThread /\ PolicyOK /\ Spaced

LEMMA Numbers ==
    ASSUME IInv
    PROVE  /\ now \in Nat /\ MaxTime \in Nat /\ ClockMod \in Nat \ {0}
           /\ \A t \in Transfers :
                 /\ IntervalOf[t] \in Nat /\ policy[t].mark \in Nat /\ policy[t].armed \in BOOLEAN
                 /\ delivered[t] # NoDelivery => delivered[t].at \in Nat
                 /\ KindOf[t] \in PolicyKinds
BY ConnectionAssumption, ClockModAssumption
   DEF ConnectionAssumption, ClockModAssumption, IInv, TypeOK, Instants, Policies, Deliveries

LEMMA OneThreadPerTransfer ==
    ASSUME OneEventThread, OwnThread, NEW th \in Transferring, NEW o \in Transferring,
           pc[th] \in InTransfer, pc[o] \in InTransfer, cur[th] = cur[o]
    PROVE  th = o
<1>1. CASE cur[th] \in EventDriven
    BY <1>1 DEF OwnThread, OneEventThread
<1>2. CASE cur[th] \notin EventDriven
    BY <1>2 DEF OwnThread
<1> QED BY <1>1, <1>2

LEMMA InitSpacing ==
    ASSUME Init
    PROVE  SpacingInv
<1> USE ConnectionAssumption DEF ConnectionAssumption, Init
<1>1. OwnThread
    BY DEF OwnThread, InTransfer, Transferring, Threads
<1>2. PolicyOK
  <2>1. now <= MaxTime
      BY ClockModAssumption DEF ClockModAssumption, Instants
  <2> QED BY <2>1 DEF PolicyOK, NewPolicy, Transferring, Threads
<1>3. Spaced
    BY DEF Spaced
<1> QED BY <1>1, <1>2, <1>3 DEF SpacingInv

\* A thread that moves on without touching policy, destination or clock.
Moves(th) ==
    /\ UNCHANGED <<policy, delivered, now, life>>
    /\ \A o \in Transferring \ {th} : pc'[o] = pc[o] /\ cur'[o] = cur[o]
    /\ pc[th] # "after"
    /\ pc'[th] \in {"read", "epoch", "send", "after"} =>
          cur'[th] = cur[th] /\ pc[th] \in {"read", "epoch", "send"}

LEMMA MoveKeepsSpacing ==
    ASSUME PolicyOK, Spaced, NEW th \in Transferring, Moves(th)
    PROVE  PolicyOK' /\ Spaced'
<1>1. PolicyOK'
    BY DEF Moves, PolicyOK
<1>2. Spaced'
  <2> SUFFICES ASSUME NEW t \in Transfers, KindOf[t] # "immediate", delivered[t] # NoDelivery,
                      life[t] # "destroyed"
      PROVE  /\ delivered[t].at <= now
             /\ \/ \E o \in Transferring : pc'[o] = "after" /\ cur'[o] = t
                \/ policy[t].armed /\ delivered[t].at + IntervalOf[t] <= NextDue(t)
             /\ \A o \in Transferring :
                   cur'[o] = t /\ pc'[o] \in {"read", "epoch", "send"} =>
                       delivered[t].at + IntervalOf[t] <= now
      BY DEF Moves, Spaced, NextDue
  <2>1. (\E o \in Transferring : pc[o] = "after" /\ cur[o] = t)
            => \E o \in Transferring : pc'[o] = "after" /\ cur'[o] = t
      BY DEF Moves
  <2> QED BY <2>1 DEF Spaced, Moves
<1> QED BY <1>1, <1>2

LEMMA MovesOfThreads ==
    ASSUME IInv, NEW th \in Transferring,
           \/ EnterTransfer(th) \/ CheckActive(th) \/ ReadSource(th) \/ CheckEpoch(th)
           \/ LeaveLoop(th) \/ (\E k \in Keys, e \in Epochs : SourceReceive(th, k, e))
           \/ (th = Loop /\ (BeginPass \/ CyclicLock \/ CyclicTrigger))
    PROVE  Moves(th)
<1> USE DEF Goto, At, transferVars, endpointVars, listVars
<1>0. pc \in [Threads -> PCs] /\ cur \in [Threads -> Transfers \cup {NoTransfer}]
      /\ Transferring \subseteq Threads
    BY DEF IInv, TypeOK, Transferring, Threads
<1>1. CASE EnterTransfer(th)
    BY <1>0, <1>1 DEF EnterTransfer, Moves
<1>2. CASE CheckActive(th)
    BY <1>0, <1>2 DEF CheckActive, Moves
<1>3. CASE ReadSource(th)
    BY <1>0, <1>3 DEF ReadSource, Moves
<1>4. CASE CheckEpoch(th)
    BY <1>0, <1>4 DEF CheckEpoch, Moves
<1>5. CASE LeaveLoop(th)
    BY <1>0, <1>5 DEF LeaveLoop, Moves
<1>6. CASE \E k \in Keys, e \in Epochs : SourceReceive(th, k, e)
    BY <1>0, <1>6 DEF SourceReceive, Moves
<1>7. CASE th = Loop /\ (BeginPass \/ CyclicLock \/ CyclicTrigger)
    BY <1>0, <1>7 DEF BeginPass, CyclicLock, CyclicTrigger, Moves
<1> QED BY <1>1, <1>2, <1>3, <1>4, <1>5, <1>6, <1>7

\* A step of one thread that leaves the mutex and the callbacks alone.
LEMMA StepKeepsOwnThread ==
    ASSUME IInv, OwnThread, NEW th \in Transferring,
           \/ CheckActive(th) \/ CheckPolicy(th) \/ ReadSource(th)
           \/ CheckEpoch(th) \/ SendToDestination(th) \/ NotifyPolicy(th)
    PROVE  OwnThread'
<1>0. pc \in [Threads -> PCs] /\ Transferring \subseteq Threads
    BY DEF IInv, TypeOK, Transferring, Threads
<1>1. /\ UNCHANGED <<transfer_mtx, cur, todo>>
      /\ pc[th] \in InTransfer
      /\ \E label \in InTransfer \cup {"next"} : pc' = [pc EXCEPT ![th] = label]
    BY DEF CheckActive, CheckPolicy, ReadSource, CheckEpoch, SendToDestination, NotifyPolicy,
       Goto, At, InTransfer
<1> QED BY <1>0, <1>1 DEF OwnThread, InTransfer

LEMMA LoopKeepsOwnThread ==
    ASSUME IInv, OwnThread, NEW th \in Transferring,
           \/ EnterTransfer(th) \/ LeaveLoop(th)
           \/ (th \in EventThreads /\ \E k \in Keys, e \in Epochs : SourceReceive(th, k, e))
           \/ (th = Loop /\ (BeginPass \/ CyclicLock \/ CyclicTrigger))
    PROVE  OwnThread'
<1> USE DEF Goto, At
<1>0. /\ pc \in [Threads -> PCs] /\ cur \in [Threads -> Transfers \cup {NoTransfer}]
      /\ todo \in [Threads -> SUBSET Transfers] /\ callbacks \in [Keys -> SUBSET EventDriven]
      /\ Transferring \subseteq Threads
    BY DEF IInv, TypeOK, Transferring, Threads
<1>1. CASE EnterTransfer(th)
    BY <1>0, <1>1 DEF EnterTransfer, OwnThread, InTransfer
<1>2. CASE LeaveLoop(th)
  <2>1. /\ transfer_mtx' = (IF transfer_mtx = th THEN Free ELSE transfer_mtx)
        /\ UNCHANGED todo /\ pc'[th] = "idle"
        /\ \A o \in Transferring \ {th} : pc'[o] = pc[o] /\ cur'[o] = cur[o]
      BY <1>0, <1>2 DEF LeaveLoop
  <2>2. \A o \in Transferring \ {th} : transfer_mtx' = o <=> transfer_mtx = o
      BY <1>0, <2>1, ConnectionAssumption DEF ConnectionAssumption
  <2> QED BY <2>1, <2>2 DEF OwnThread, InTransfer
<1>3. CASE th \in EventThreads /\ \E k \in Keys, e \in Epochs : SourceReceive(th, k, e)
    BY <1>0, <1>3 DEF SourceReceive, OwnThread, InTransfer
<1>4. CASE th = Loop /\ BeginPass
    BY <1>0, <1>4 DEF BeginPass, OwnThread, InTransfer
<1>5. CASE th = Loop /\ CyclicLock
  <2>1. transfer_mtx = Free /\ transfer_mtx' = Loop /\ Free \notin Transferring
      BY <1>0, <1>5, ConnectionAssumption DEF CyclicLock, ConnectionAssumption
  <2>2. /\ UNCHANGED <<cur, todo>> /\ pc'[Loop] = "enter"
        /\ \A o \in Transferring \ {Loop} : pc'[o] = pc[o]
      BY <1>0, <1>5 DEF CyclicLock
  <2> QED BY <1>5, <2>1, <2>2 DEF OwnThread, InTransfer
<1>6. CASE th = Loop /\ CyclicTrigger
  <2>1. transfer_mtx = Loop /\ transfer_mtx' = Loop
      BY <1>6 DEF CyclicTrigger, IInv, MutexOK
  <2>2. /\ UNCHANGED cur /\ pc'[Loop] = "next"
        /\ \A o \in Transferring \ {Loop} : pc'[o] = pc[o] /\ todo'[o] = todo[o]
      BY <1>0, <1>6 DEF CyclicTrigger
  <2> QED BY <1>6, <2>1, <2>2 DEF OwnThread, InTransfer
<1> QED BY <1>1, <1>2, <1>3, <1>4, <1>5, <1>6

LEMMA CheckPolicySpacing ==
    ASSUME IInv, SpacingInv, OneEventThread,
           NEW th \in Transferring, CheckPolicy(th)
    PROVE  PolicyOK' /\ Spaced'
<1> DEFINE t == cur[th]
<1>0. /\ pc \in [Threads -> PCs] /\ Transferring \subseteq Threads
      /\ policy \in [Transfers -> Policies]
    BY DEF IInv, TypeOK, Transferring, Threads
<1>1. /\ t \in Transfers /\ pc[th] = "policy"
      /\ UNCHANGED <<delivered, now, cur, life>>
    BY DEF CheckPolicy, At, IInv, LocalsOK, InTransfer, endpointVars, listVars
<1>2. /\ pc'[th] \in {"read", "next"}
      /\ life[t] # "destroyed" /\ pc'[th] = "read" => ShouldTransfer(policy[t], now)
      /\ \A o \in Transferring \ {th} : pc'[o] = pc[o]
      /\ policy'[t] = AfterCheck(policy[t], now)
      /\ \A u \in Transfers \ {t} : policy'[u] = policy[u]
    BY <1>0, <1>1 DEF CheckPolicy, Goto
<1>3. \A o \in Transferring \ {th} : pc[o] \in InTransfer => cur[o] # t
    BY <1>1, OneThreadPerTransfer DEF SpacingInv, InTransfer
<1>4. \A u \in Transfers : policy[u].armed => policy'[u] = policy[u]
    BY <1>1, <1>2 DEF AfterCheck
<1>5. policy'[t].kind = policy[t].kind /\ policy'[t].interval = policy[t].interval
    BY <1>0, <1>1, <1>2 DEF AfterCheck, Policies
<1>6. KindOf[t] = "ticker" => policy'[t].armed
  <2> SUFFICES ASSUME KindOf[t] = "ticker" PROVE AfterCheck(policy[t], now).armed
      BY <1>2
  <2>1. policy[t].kind = "ticker" /\ policy[t] \in Policies
      BY <1>0, <1>1 DEF SpacingInv, PolicyOK
  <2> QED BY <2>1 DEF AfterCheck, Policies
<1>7. KindOf[t] = "throttle" => policy'[t] = policy[t]
    BY <1>1, <1>2 DEF AfterCheck, SpacingInv, PolicyOK
<1>8. delivered[t] # NoDelivery /\ KindOf[t] # "immediate" /\ life[t] # "destroyed" =>
          policy[t].armed /\ delivered[t].at + IntervalOf[t] <= NextDue(t)
    BY <1>1, <1>3 DEF SpacingInv, Spaced, InTransfer
<1>9. /\ delivered[t] # NoDelivery /\ KindOf[t] # "immediate" /\ life[t] # "destroyed"
      /\ ShouldTransfer(policy[t], now)
      => delivered[t].at + IntervalOf[t] <= now
  <2> SUFFICES ASSUME delivered[t] # NoDelivery, KindOf[t] # "immediate",
                      life[t] # "destroyed", ShouldTransfer(policy[t], now)
      PROVE  NextDue(t) <= now
      BY <1>1, <1>8, Numbers DEF NextDue
  <2>1. CASE KindOf[t] = "throttle"
    <3>1. Elapsed(policy[t], now) >= IntervalOf[t] /\ policy[t].mark <= now
        BY <1>1, <1>8, <2>1 DEF ShouldTransfer, ThrottleDue, SpacingInv, PolicyOK
    <3>2. Elapsed(policy[t], now) = now - policy[t].mark
      <4>1. now \in Nat /\ policy[t].mark \in Nat /\ ClockMod \in Nat \ {0} /\ now < ClockMod
          BY <1>1, Numbers DEF IInv, TypeOK, Instants
      <4> QED BY <3>1, <4>1 DEF Elapsed
    <3> QED BY <1>1, <2>1, <3>1, <3>2, Numbers DEF NextDue
  <2>2. CASE KindOf[t] = "ticker"
    <3>1. policy[t].mark <= now
        BY <1>1, <2>2 DEF ShouldTransfer, TickerDue, SpacingInv, PolicyOK
    <3>2. NextDue(t) = policy[t].mark + 0 /\ policy[t].mark \in Nat
        BY <1>1, <2>2, Numbers DEF NextDue
    <3> QED BY <3>1, <3>2, Numbers
  <2> QED BY <1>1, <2>1, <2>2, Numbers DEF PolicyKinds
<1> HIDE DEF t
<1>10. PolicyOK'
  <2> SUFFICES ASSUME NEW u \in Transfers
      PROVE  /\ policy'[u].kind = KindOf[u] /\ policy'[u].interval = IntervalOf[u]
             /\ KindOf[u] = "throttle" /\ policy'[u].armed => policy'[u].mark <= now
             /\ \A o \in Transferring :
                   /\ KindOf[u] = "ticker" /\ cur[o] = u
                   /\ pc'[o] \in {"read", "epoch", "send", "after"}
                   => policy'[u].armed
      BY <1>1 DEF PolicyOK, SpacingInv
  <2>1. CASE u = t
    <3>1. \A o \in Transferring \ {th} :
              cur[o] = t => pc'[o] \notin {"read", "epoch", "send", "after"}
        BY <1>2, <1>3 DEF InTransfer
    <3>2. KindOf[t] = "ticker" /\ pc'[th] \in {"read", "epoch", "send", "after"} =>
              policy'[t].armed
        BY <1>6
    <3> QED BY <2>1, <1>1, <1>5, <1>7, <3>1, <3>2 DEF SpacingInv, PolicyOK
  <2>2. CASE u # t
    <3>1. policy'[u] = policy[u]
        BY <1>2, <2>2
    <3>2. \A o \in Transferring : cur[o] = u => pc'[o] = pc[o]
        BY <1>2, <2>2 DEF t
    <3> QED BY <3>1, <3>2 DEF SpacingInv, PolicyOK
  <2> QED BY <2>1, <2>2
<1>11. Spaced'
  <2> SUFFICES ASSUME NEW u \in Transfers, KindOf[u] # "immediate", delivered[u] # NoDelivery,
                      life[u] # "destroyed"
      PROVE  /\ delivered[u].at <= now
             /\ \/ \E o \in Transferring : pc'[o] = "after" /\ cur[o] = u
                \/ policy'[u].armed /\ delivered[u].at + IntervalOf[u] <= NextDue(u)'
             /\ \A o \in Transferring :
                   cur[o] = u /\ pc'[o] \in {"read", "epoch", "send"} =>
                       delivered[u].at + IntervalOf[u] <= now
      BY <1>1 DEF Spaced
  <2>1. CASE u = t
    <3>1. policy'[t] = policy[t] /\ policy[t].armed
        BY <1>1, <1>4, <1>8, <2>1
    <3>2. NextDue(u)' = NextDue(t)
        BY <2>1, <3>1 DEF NextDue
    <3>3. \A o \in Transferring : cur[o] = t /\ pc'[o] \in {"read", "epoch", "send"} => o = th
        BY <1>2, <1>3 DEF InTransfer
    <3>4. pc'[th] \in {"read", "epoch", "send"} => ShouldTransfer(policy[t], now)
        BY <1>2, <2>1
    <3>5. delivered[t].at <= now
        BY <1>1, <2>1 DEF SpacingInv, Spaced
    <3>6. policy'[t].armed /\ delivered[t].at + IntervalOf[t] <= NextDue(u)'
        BY <1>8, <2>1, <3>1, <3>2
    <3>7. \A o \in Transferring : cur[o] = t /\ pc'[o] \in {"read", "epoch", "send"} =>
              delivered[t].at + IntervalOf[t] <= now
        BY <1>9, <2>1, <3>3, <3>4
    <3> QED BY <2>1, <3>5, <3>6, <3>7
  <2>2. CASE u # t
    <3>1. policy'[u] = policy[u]
        BY <1>2, <2>2
    <3>2. \A o \in Transferring : cur[o] = u => pc'[o] = pc[o]
        BY <1>2, <2>2 DEF t
    <3> QED BY <3>1, <3>2 DEF SpacingInv, Spaced, NextDue
  <2> QED BY <2>1, <2>2
<1> QED BY <1>10, <1>11

LEMMA SendSpacing ==
    ASSUME IInv, SpacingInv, OneEventThread, NEW th \in Transferring, SendToDestination(th)
    PROVE  PolicyOK' /\ Spaced'
<1> DEFINE t == cur[th]
<1>0. /\ pc \in [Threads -> PCs] /\ Transferring \subseteq Threads
      /\ delivered \in [Transfers -> Deliveries \cup {NoDelivery}]
    BY DEF IInv, TypeOK, Transferring, Threads
<1>1. /\ t \in Transfers /\ pc[th] = "send" /\ UNCHANGED <<policy, now, cur, life>>
    BY DEF SendToDestination, At, IInv, LocalsOK, InTransfer, transferVars, listVars
<1>2. /\ pc'[th] = "after" /\ \A o \in Transferring \ {th} : pc'[o] = pc[o]
      /\ delivered'[t] = delivered[t] \/ delivered'[t].at = now
      /\ \A u \in Transfers \ {t} : delivered'[u] = delivered[u]
    BY <1>0, <1>1 DEF SendToDestination, Goto
<1>3. \A o \in Transferring \ {th} : pc[o] \in InTransfer => cur[o] # t
    BY <1>1, OneThreadPerTransfer DEF SpacingInv, InTransfer
<1> HIDE DEF t
<1>4. PolicyOK'
    BY <1>1, <1>2 DEF SpacingInv, PolicyOK
<1>5. Spaced'
  <2> SUFFICES ASSUME NEW u \in Transfers, KindOf[u] # "immediate", delivered'[u] # NoDelivery,
                      life[u] # "destroyed"
      PROVE  /\ delivered'[u].at <= now
             /\ \/ \E o \in Transferring : pc'[o] = "after" /\ cur[o] = u
                \/ policy[u].armed /\ delivered'[u].at + IntervalOf[u] <= NextDue(u)
             /\ \A o \in Transferring :
                   cur[o] = u /\ pc'[o] \in {"read", "epoch", "send"} =>
                       delivered'[u].at + IntervalOf[u] <= now
      BY <1>1 DEF Spaced, NextDue
  <2>1. CASE u = t
    <3>1. delivered'[t].at <= now
      <4>1. CASE delivered'[t] = delivered[t]
          BY <2>1, <4>1 DEF SpacingInv, Spaced
      <4>2. CASE delivered'[t].at = now
          BY <4>2, Numbers
      <4> QED BY <1>2, <4>1, <4>2
    <3>2. pc'[th] = "after" /\ cur[th] = t
        BY <1>2 DEF t
    <3>3. \A o \in Transferring : cur[o] = t => pc'[o] \notin {"read", "epoch", "send"}
        BY <1>2, <1>3 DEF InTransfer
    <3> QED BY <2>1, <3>1, <3>2, <3>3
  <2>2. CASE u # t
    <3>1. delivered'[u] = delivered[u]
        BY <1>2, <2>2
    <3>2. \A o \in Transferring : cur[o] = u => pc'[o] = pc[o]
        BY <1>2, <2>2 DEF t
    <3> QED BY <3>1, <3>2 DEF SpacingInv, Spaced
  <2> QED BY <2>1, <2>2
<1> QED BY <1>4, <1>5

LEMMA NotifySpacing ==
    ASSUME IInv, SpacingInv, OneEventThread, NoWrap, NEW th \in Transferring, NotifyPolicy(th)
    PROVE  PolicyOK' /\ Spaced'
<1> DEFINE t == cur[th]
<1>0. /\ pc \in [Threads -> PCs] /\ Transferring \subseteq Threads
      /\ policy \in [Transfers -> Policies]
    BY DEF IInv, TypeOK, Transferring, Threads
<1>1. /\ t \in Transfers /\ pc[th] = "after" /\ UNCHANGED <<delivered, now, cur, life>>
    BY DEF NotifyPolicy, At, IInv, LocalsOK, InTransfer, endpointVars, listVars
<1>2. /\ pc'[th] = "next" /\ \A o \in Transferring \ {th} : pc'[o] = pc[o]
      /\ policy'[t] = OnTransferred(policy[t], now)
      /\ \A u \in Transfers \ {t} : policy'[u] = policy[u]
    BY <1>0, <1>1 DEF NotifyPolicy, Goto
<1>3. \A o \in Transferring \ {th} : pc[o] \in InTransfer => cur[o] # t
    BY <1>1, OneThreadPerTransfer DEF SpacingInv, InTransfer
<1>4. /\ policy[t] \in Policies /\ policy[t].kind = KindOf[t]
      /\ policy[t].interval = IntervalOf[t]
      /\ KindOf[t] = "ticker" => policy[t].armed
    BY <1>0, <1>1 DEF SpacingInv, PolicyOK
<1>5. (now + IntervalOf[t]) % ClockMod = now + IntervalOf[t]
  <2>1. now + IntervalOf[t] \in 0 .. ClockMod - 1
      BY <1>1, Numbers DEF NoWrap, SpacingInv, PolicyOK
  <2>2. ClockMod \in Nat \ {0}
      BY Numbers
  <2> QED BY <2>1, <2>2
<1>6. /\ policy'[t].kind = KindOf[t] /\ policy'[t].interval = IntervalOf[t]
      /\ KindOf[t] = "throttle" => policy'[t].armed /\ policy'[t].mark = now
      /\ KindOf[t] = "ticker" => policy'[t].armed /\ policy'[t].mark = now + IntervalOf[t]
  <2>1. CASE KindOf[t] = "immediate"
      BY <1>2, <1>4, <2>1 DEF OnTransferred
  <2>2. CASE KindOf[t] = "throttle"
      BY <1>2, <1>4, <2>2 DEF OnTransferred, Policies
  <2>3. CASE KindOf[t] = "ticker"
      BY <1>2, <1>4, <1>5, <2>3 DEF OnTransferred, Policies
  <2> QED BY <1>1, <2>1, <2>2, <2>3, Numbers DEF PolicyKinds
<1> HIDE DEF t
<1>7. PolicyOK'
  <2> SUFFICES ASSUME NEW u \in Transfers
      PROVE  /\ policy'[u].kind = KindOf[u] /\ policy'[u].interval = IntervalOf[u]
             /\ KindOf[u] = "throttle" /\ policy'[u].armed => policy'[u].mark <= now
             /\ \A o \in Transferring :
                   /\ KindOf[u] = "ticker" /\ cur[o] = u
                   /\ pc'[o] \in {"read", "epoch", "send", "after"}
                   => policy'[u].armed
      BY <1>1 DEF PolicyOK, SpacingInv
  <2>1. CASE u = t
      BY <2>1, <1>6, Numbers
  <2>2. CASE u # t
    <3>1. policy'[u] = policy[u]
        BY <1>2, <2>2
    <3>2. \A o \in Transferring : cur[o] = u => pc'[o] = pc[o]
        BY <1>2, <2>2 DEF t
    <3> QED BY <3>1, <3>2 DEF SpacingInv, PolicyOK
  <2> QED BY <2>1, <2>2
<1>8. Spaced'
  <2> SUFFICES ASSUME NEW u \in Transfers, KindOf[u] # "immediate", delivered[u] # NoDelivery,
                      life[u] # "destroyed"
      PROVE  /\ delivered[u].at <= now
             /\ \/ \E o \in Transferring : pc'[o] = "after" /\ cur[o] = u
                \/ policy'[u].armed /\ delivered[u].at + IntervalOf[u] <= NextDue(u)'
             /\ \A o \in Transferring :
                   cur[o] = u /\ pc'[o] \in {"read", "epoch", "send"} =>
                       delivered[u].at + IntervalOf[u] <= now
      BY <1>1 DEF Spaced
  <2>1. delivered[u].at <= now /\ delivered[u].at \in Nat /\ now \in Nat /\ IntervalOf[u] \in Nat
      BY Numbers DEF SpacingInv, Spaced
  <2>2. CASE u = t
    <3>1. KindOf[u] \in {"throttle", "ticker"}
        BY Numbers DEF PolicyKinds
    <3>2. policy'[u].armed /\ NextDue(u)' = now + IntervalOf[u]
      <4>1. CASE KindOf[u] = "throttle"
          BY <1>6, <2>2, <4>1 DEF NextDue
      <4>2. CASE KindOf[u] = "ticker"
        <5>1. policy'[u].mark = now + IntervalOf[u] /\ policy'[u].armed
            BY <1>6, <2>2, <4>2
        <5>2. NextDue(u)' = policy'[u].mark + 0
            BY <4>2 DEF NextDue
        <5> QED BY <2>1, <5>1, <5>2
      <4> QED BY <3>1, <4>1, <4>2
    <3>3. \A o \in Transferring : cur[o] = t => pc'[o] \notin {"read", "epoch", "send"}
        BY <1>2, <1>3 DEF InTransfer
    <3> QED BY <2>1, <2>2, <3>2, <3>3
  <2>3. CASE u # t
    <3>1. policy'[u] = policy[u]
        BY <1>2, <2>3
    <3>2. \A o \in Transferring : cur[o] = u => pc'[o] = pc[o]
        BY <1>2, <2>3 DEF t
    <3> QED BY <3>1, <3>2 DEF SpacingInv, Spaced, NextDue
  <2> QED BY <2>2, <2>3
<1> QED BY <1>7, <1>8

LEMMA TickSpacing ==
    ASSUME IInv, SpacingInv, Tick
    PROVE  PolicyOK' /\ Spaced'
<1>1. now' = now + 1 /\ now < MaxTime /\ UNCHANGED <<policy, delivered, life, pc, cur>>
    BY DEF Tick, transferVars, endpointVars, listVars
<1>2. PolicyOK'
    BY <1>1, Numbers DEF SpacingInv, PolicyOK
<1>3. Spaced'
    BY <1>1, Numbers DEF SpacingInv, Spaced, NextDue
<1> QED BY <1>2, <1>3

\* The administrator, the monitor runtime and a destination that starts or stops.
LEMMA OutsideLeavesThreads ==
    ASSUME IInv, AdminStep \/ MonitorStep \/ \E t \in Unreliable : DestinationFlips(t)
    PROVE  /\ UNCHANGED <<policy, delivered, now>>
           /\ \A o \in Transferring :
                 /\ pc'[o] = pc[o] /\ cur'[o] = cur[o] /\ todo'[o] = todo[o]
                 /\ transfer_mtx' = o <=> transfer_mtx = o
<1>0. /\ pc \in [Threads -> PCs] /\ todo \in [Threads -> SUBSET Transfers]
      /\ cur \in [Threads -> Transfers \cup {NoTransfer}]
      /\ Transferring \subseteq Threads /\ Free \notin Transferring
      /\ Admin \notin Transferring /\ Monitor \notin Transferring
    BY ConnectionAssumption
       DEF ConnectionAssumption, IInv, TypeOK, Transferring, Threads, Transfers
<1>1. CASE AdminStep
    BY <1>0, <1>1 DEF AdminStep, SetActive, IncrementEpoch, SetTransferActive,
       SetTransferEpoch, AdminUnlock, Goto, transferVars, endpointVars, IInv, MutexOK
<1>2. CASE MonitorStep
    BY <1>0, <1>2 DEF MonitorStep, ConstructMonitorTransfer, DeactivateMonitorTransfer,
       AddMonitorTransferPdu, RemoveMonitorTransfer, Goto, transferVars, endpointVars
<1>3. CASE \E t \in Unreliable : DestinationFlips(t)
    BY <1>3 DEF DestinationFlips, transferVars
<1> QED BY <1>1, <1>2, <1>3

LEMMA OutsideSpacing ==
    ASSUME IInv, MonitorOK, SpacingInv,
           AdminStep \/ MonitorStep \/ \E t \in Unreliable : DestinationFlips(t)
    PROVE  PolicyOK' /\ Spaced'
<1>1. \A t \in Transfers : life'[t] # "destroyed" => life[t] # "destroyed"
  <2>1. CASE AdminStep \/ \E t \in Unreliable : DestinationFlips(t)
      BY <2>1 DEF AdminStep, SetActive, IncrementEpoch, SetTransferActive, SetTransferEpoch,
         AdminUnlock, DestinationFlips, listVars
  <2>2. CASE MonitorStep
    <3>1. life \in [Transfers -> {"none", "constructed", "listed", "destroyed"}]
          /\ Monitored \subseteq Transfers
        BY DEF IInv, TypeOK, Transfers
    <3> QED BY <2>2, <3>1 DEF MonitorStep, ConstructMonitorTransfer,
           DeactivateMonitorTransfer, AddMonitorTransferPdu, RemoveMonitorTransfer,
           MonitorOK, At, listVars
  <2> QED BY <2>1, <2>2
<1>2. PolicyOK'
    BY OutsideLeavesThreads DEF SpacingInv, PolicyOK
<1>3. Spaced'
    BY <1>1, OutsideLeavesThreads DEF SpacingInv, Spaced, NextDue
<1> QED BY <1>2, <1>3

LEMMA OwnThreadStep ==
    ASSUME IInv, OwnThread, [Next]_vars
    PROVE  OwnThread'
<1>1. CASE \E th \in Transferring : TryTransfer(th)
    BY <1>1, StepKeepsOwnThread, LoopKeepsOwnThread DEF TryTransfer
<1>2. CASE \/ \E th \in EventThreads, k \in Keys, e \in Epochs : SourceReceive(th, k, e)
           \/ BeginPass \/ CyclicLock \/ CyclicTrigger
    BY <1>2, LoopKeepsOwnThread DEF Transferring
<1>3. CASE AdminStep \/ MonitorStep \/ \E t \in Unreliable : DestinationFlips(t)
    BY <1>3, OutsideLeavesThreads DEF OwnThread
<1>4. CASE Tick \/ UNCHANGED vars
    BY <1>4 DEF Tick, vars, OwnThread
<1> QED BY <1>1, <1>2, <1>3, <1>4 DEF Next

LEMMA SpacingStep ==
    ASSUME OneEventThread, NoWrap, IInv, MonitorOK, SpacingInv, [Next]_vars
    PROVE  SpacingInv'
<1> SUFFICES PolicyOK' /\ Spaced'
    BY OwnThreadStep DEF SpacingInv
<1>1. ASSUME NEW th \in Transferring, TryTransfer(th)
      PROVE  PolicyOK' /\ Spaced'
  <2>1. CASE \/ EnterTransfer(th) \/ CheckActive(th) \/ ReadSource(th) \/ CheckEpoch(th)
             \/ LeaveLoop(th)
      BY <2>1, MovesOfThreads, MoveKeepsSpacing DEF SpacingInv
  <2> QED BY <1>1, <2>1, CheckPolicySpacing, SendSpacing, NotifySpacing DEF TryTransfer
<1>2. CASE \/ \E th \in EventThreads, k \in Keys, e \in Epochs : SourceReceive(th, k, e)
           \/ BeginPass \/ CyclicLock \/ CyclicTrigger
  <2>1. EventThreads \subseteq Transferring /\ Loop \in Transferring
      BY DEF Transferring
  <2> QED BY <1>2, <2>1, MovesOfThreads, MoveKeepsSpacing DEF SpacingInv
<1>3. CASE UNCHANGED vars
    BY <1>3 DEF vars, SpacingInv, PolicyOK, Spaced, NextDue
<1> QED BY <1>1, <1>2, <1>3, TickSpacing, OutsideSpacing DEF Next

\* With one receive thread, and whatever monitors do, two deliveries through a throttled or
\* ticking transfer are at least its interval apart, although the policy is asked
\* before the transfer and told after it, and whether or not the destination takes it.
THEOREM IntervalsKept ==
    ASSUME OneEventThread, NoWrap
    PROVE  Spec => DeliveriesSpaced
<1>1. Init => SpacingInv
    BY InitSpacing
<1>2. IInv /\ MonitorOK /\ SpacingInv /\ [Next]_vars => SpacingInv'
    BY SpacingStep
<1>3. IInv /\ SpacingInv =>
         [\A th \in Transferring :
            LET t == cur[th] IN
            /\ SendToDestination(th)
            /\ KindOf[t] # "immediate" /\ life[t] # "destroyed"
            /\ dst_running[t]
            /\ delivered[t] # NoDelivery
            => now - delivered[t].at >= IntervalOf[t]]_vars
  <2> SUFFICES ASSUME IInv, SpacingInv, NEW th \in Transferring, SendToDestination(th),
                      KindOf[cur[th]] # "immediate", life[cur[th]] # "destroyed",
                      delivered[cur[th]] # NoDelivery
               PROVE  now - delivered[cur[th]].at >= IntervalOf[cur[th]]
      OBVIOUS
  <2>1. cur[th] \in Transfers /\ pc[th] = "send"
      BY DEF SendToDestination, At, IInv, LocalsOK, InTransfer
  <2>2. delivered[cur[th]].at + IntervalOf[cur[th]] <= now
      BY <2>1 DEF SpacingInv, Spaced
  <2> QED BY <2>1, <2>2, Numbers
<1> QED BY <1>1, <1>2, <1>3, StaticInvariance, PTL DEF Spec, DeliveriesSpaced
=============================================================================
