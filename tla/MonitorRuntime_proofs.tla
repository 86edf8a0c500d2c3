----------------------- MODULE MonitorRuntime_proofs -----------------------
(***************************************************************************)
(* Proofs about MonitorRuntime, for any control endpoints, addresses, keys *)
(* per session and number of sessions, whichever thread calls stop().      *)
(***************************************************************************)
EXTENDS MonitorRuntime, TLAPS

-----------------------------------------------------------------------------
(* The inductive invariant.                                                 *)

\* A callback that is about to detach, forget or record a session has its id.
RequestOK ==
    \A ep \in Endpoints :
        pc[ep] \in {"detach", "forget", "record"} => request[ep] \in Ids

\* An attach that is about to insert its session has a transfer for every key.
CreatedOK ==
    \A ep \in Endpoints :
        pc[ep] = "insert" => Cardinality(created[ep]) = KeysPerSession

\* Ids not given out yet belong to no session; a session has a destination; what
\* is not a session has no transfers.
SessionOK ==
    \A id \in Ids :
        /\ id >= next_id => id \notin monitor_sessions
        /\ id \in monitor_sessions => destination[id] \in Endpoints
        /\ id \notin monitor_sessions => session_transfers[id] = {}

\* An id a callback strikes off its list is no open session of its endpoint.
ForgetOK ==
    \A ep \in Endpoints :
        At(ep, "forget") /\ request[ep] \in monitor_sessions
            => destination[request[ep]] # ep

IInv ==
    /\ TypeOK
    /\ RequestOK
    /\ CreatedOK
    /\ SessionOK
    /\ ForgetOK
    /\ TransfersAccounted
    /\ SessionsTracked

LEMMA InitIInv == Init => IInv
<1> SUFFICES ASSUME Init PROVE IInv
    OBVIOUS
<1> USE RuntimeAssumption DEF RuntimeAssumption
<1>1. TypeOK
    BY DEF Init, TypeOK, Threads, PCs, Ids
<1>2. RequestOK /\ CreatedOK /\ SessionOK /\ ForgetOK
    BY DEF Init, RequestOK, CreatedOK, SessionOK, ForgetOK, At, Threads
<1>3. TransfersAccounted /\ SessionsTracked
    BY DEF Init, TransfersAccounted, SessionsTracked
<1> QED BY <1>1, <1>2, <1>3 DEF IInv

-----------------------------------------------------------------------------
(* Every action preserves the invariant.                                    *)

\* What DetachMonitor takes off the core is what the session had listed, so the
\* accounting of the transfers survives it.
LEMMA DetachKeepsAccount ==
    ASSUME TypeOK, TransfersAccounted, NEW id \in Ids, DetachMonitor(id), UNCHANGED created
    PROVE  TransfersAccounted'
<1>1. /\ listed' = listed \ session_transfers[id]
      /\ created' = created
      /\ session_transfers'[id] = {}
      /\ \A o \in Ids \ {id} : session_transfers'[o] = session_transfers[o]
    BY DEF DetachMonitor, TypeOK
<1>2. ASSUME NEW t \in Transfers
      PROVE  t \in listed' <=> \/ \E o \in Ids : t \in session_transfers'[o]
                              \/ \E ep \in Endpoints : t \in created'[ep]
    <2>1. CASE t \in session_transfers[id]
        BY <1>1, <2>1 DEF TransfersAccounted
    <2>2. CASE t \notin session_transfers[id]
        BY <1>1, <2>2 DEF TransfersAccounted
    <2> QED BY <2>1, <2>2
<1>3. \A id1, id2 \in Ids :
          id1 # id2 => session_transfers'[id1] \cap session_transfers'[id2] = {}
    <2> TAKE id1, id2 \in Ids
    <2> HAVE id1 # id2
    <2>1. CASE id1 = id \/ id2 = id
        BY <1>1, <2>1
    <2>2. CASE id1 # id /\ id2 # id
        BY <1>1, <2>2 DEF TransfersAccounted
    <2> QED BY <2>1, <2>2
<1>4. \A ep1, ep2 \in Endpoints : ep1 # ep2 => created'[ep1] \cap created'[ep2] = {}
    BY <1>1 DEF TransfersAccounted
<1>5. \A o \in Ids, ep \in Endpoints : session_transfers'[o] \cap created'[ep] = {}
    <2> TAKE o \in Ids, ep \in Endpoints
    <2>1. CASE o = id
        BY <1>1, <2>1
    <2>2. CASE o # id
        BY <1>1, <2>2 DEF TransfersAccounted
    <2> QED BY <2>1, <2>2
<1> QED BY <1>2, <1>3, <1>4, <1>5 DEF TransfersAccounted

LEMMA AcceptStep ==
    ASSUME IInv, NEW ep \in Endpoints, Accept(ep)
    PROVE  IInv'
<1> USE RuntimeAssumption DEF RuntimeAssumption
<1>1. TypeOK'
    BY DEF IInv, Accept, coreVars, runtimeVars, endpointVars, sessionVars, requestVars, TypeOK, RequestOK, Goto, At, Threads, PCs, Ids
<1>2. RequestOK'
    BY DEF IInv, Accept, coreVars, runtimeVars, endpointVars, sessionVars, requestVars, RequestOK, TypeOK, Goto, At, Threads
<1>3. CreatedOK'
    BY DEF IInv, Accept, coreVars, runtimeVars, endpointVars, sessionVars, requestVars, CreatedOK, TypeOK, Goto, At, Threads
<1>4. SessionOK'
    BY DEF IInv, Accept, coreVars, runtimeVars, endpointVars, sessionVars, requestVars, SessionOK, TypeOK, RequestOK, Goto, At, Threads, Ids
<1>5. ForgetOK'
    BY DEF IInv, Accept, coreVars, runtimeVars, endpointVars, sessionVars, requestVars, ForgetOK, TypeOK, RequestOK, SessionOK, Goto, At, Threads
<1>6. TransfersAccounted'
    BY DEF IInv, Accept, coreVars, runtimeVars, endpointVars, sessionVars, requestVars, TransfersAccounted, TypeOK, RequestOK, SessionOK, Ids, At
<1>7. SessionsTracked'
    BY DEF IInv, Accept, coreVars, runtimeVars, endpointVars, sessionVars, requestVars, SessionsTracked, TypeOK, RequestOK, SessionOK, ForgetOK, Goto, At, Threads, Ids
<1> QED BY <1>1, <1>2, <1>3, <1>4, <1>5, <1>6, <1>7 DEF IInv

LEMMA DisconnectStep ==
    ASSUME IInv, NEW ep \in Endpoints, Disconnect(ep)
    PROVE  IInv'
<1> USE RuntimeAssumption DEF RuntimeAssumption
<1>1. TypeOK'
    BY DEF IInv, Disconnect, coreVars, runtimeVars, endpointVars, sessionVars, requestVars, TypeOK, RequestOK, Goto, At, Threads, PCs, Ids
<1>2. RequestOK'
    BY DEF IInv, Disconnect, coreVars, runtimeVars, endpointVars, sessionVars, requestVars, RequestOK, TypeOK, Goto, At, Threads
<1>3. CreatedOK'
    BY DEF IInv, Disconnect, coreVars, runtimeVars, endpointVars, sessionVars, requestVars, CreatedOK, TypeOK, Goto, At, Threads
<1>4. SessionOK'
    BY DEF IInv, Disconnect, coreVars, runtimeVars, endpointVars, sessionVars, requestVars, SessionOK, TypeOK, RequestOK, Goto, At, Threads, Ids
<1>5. ForgetOK'
    BY DEF IInv, Disconnect, coreVars, runtimeVars, endpointVars, sessionVars, requestVars, ForgetOK, TypeOK, RequestOK, SessionOK, Goto, At, Threads
<1>6. TransfersAccounted'
    BY DEF IInv, Disconnect, coreVars, runtimeVars, endpointVars, sessionVars, requestVars, TransfersAccounted, TypeOK, RequestOK, SessionOK, Ids, At
<1>7. SessionsTracked'
    BY DEF IInv, Disconnect, coreVars, runtimeVars, endpointVars, sessionVars, requestVars, SessionsTracked, TypeOK, RequestOK, SessionOK, ForgetOK, Goto, At, Threads, Ids
<1> QED BY <1>1, <1>2, <1>3, <1>4, <1>5, <1>6, <1>7 DEF IInv

LEMMA ReceiveStep ==
    ASSUME IInv, NEW ep \in Endpoints, NEW label \in {"attach", "detach", "ok", "error"},
           NEW id \in Ids \cup {NoSession}, label = "detach" => id \in Ids,
           Receive(ep, label, id)
    PROVE  IInv'
<1> USE RuntimeAssumption DEF RuntimeAssumption
<1>1. TypeOK'
    BY DEF IInv, Receive, coreVars, runtimeVars, endpointVars, sessionVars, requestVars, TypeOK, RequestOK, Goto, At, Threads, PCs, Ids
<1>2. RequestOK'
    BY DEF IInv, Receive, coreVars, runtimeVars, endpointVars, sessionVars, requestVars, RequestOK, TypeOK, Goto, At, Threads
<1>3. CreatedOK'
    BY DEF IInv, Receive, coreVars, runtimeVars, endpointVars, sessionVars, requestVars, CreatedOK, TypeOK, Goto, At, Threads
<1>4. SessionOK'
    BY DEF IInv, Receive, coreVars, runtimeVars, endpointVars, sessionVars, requestVars, SessionOK, TypeOK, RequestOK, Goto, At, Threads, Ids
<1>5. ForgetOK'
    BY DEF IInv, Receive, coreVars, runtimeVars, endpointVars, sessionVars, requestVars, ForgetOK, TypeOK, RequestOK, SessionOK, Goto, At, Threads
<1>6. TransfersAccounted'
    BY DEF IInv, Receive, coreVars, runtimeVars, endpointVars, sessionVars, requestVars, TransfersAccounted, TypeOK, RequestOK, SessionOK, Ids, At
<1>7. SessionsTracked'
    BY DEF IInv, Receive, coreVars, runtimeVars, endpointVars, sessionVars, requestVars, SessionsTracked, TypeOK, RequestOK, SessionOK, ForgetOK, Goto, At, Threads, Ids
<1> QED BY <1>1, <1>2, <1>3, <1>4, <1>5, <1>6, <1>7 DEF IInv

LEMMA AttachMonitorStep ==
    ASSUME IInv, NEW ep \in Endpoints, AttachMonitor(ep)
    PROVE  IInv'
<1> USE RuntimeAssumption DEF RuntimeAssumption
<1>1. TypeOK'
    BY DEF IInv, AttachMonitor, coreVars, runtimeVars, endpointVars, sessionVars, requestVars, TypeOK, RequestOK, Goto, At, Threads, PCs, Ids
<1>2. RequestOK'
    BY DEF IInv, AttachMonitor, coreVars, runtimeVars, endpointVars, sessionVars, requestVars, RequestOK, TypeOK, Goto, At, Threads
<1>3. CreatedOK'
    BY DEF IInv, AttachMonitor, coreVars, runtimeVars, endpointVars, sessionVars, requestVars, CreatedOK, TypeOK, Goto, At, Threads
<1>4. SessionOK'
    BY DEF IInv, AttachMonitor, coreVars, runtimeVars, endpointVars, sessionVars, requestVars, SessionOK, TypeOK, RequestOK, Goto, At, Threads, Ids
<1>5. ForgetOK'
    BY DEF IInv, AttachMonitor, coreVars, runtimeVars, endpointVars, sessionVars, requestVars, ForgetOK, TypeOK, RequestOK, SessionOK, Goto, At, Threads
<1>6. TransfersAccounted'
    BY DEF IInv, AttachMonitor, coreVars, runtimeVars, endpointVars, sessionVars, requestVars, TransfersAccounted, TypeOK, RequestOK, SessionOK, Ids, At
<1>7. SessionsTracked'
    BY DEF IInv, AttachMonitor, coreVars, runtimeVars, endpointVars, sessionVars, requestVars, SessionsTracked, TypeOK, RequestOK, SessionOK, ForgetOK, Goto, At, Threads, Ids
<1> QED BY <1>1, <1>2, <1>3, <1>4, <1>5, <1>6, <1>7 DEF IInv

LEMMA CreateMonitorTransferStep ==
    ASSUME IInv, NEW ep \in Endpoints, CreateMonitorTransfer(ep)
    PROVE  IInv'
<1> USE RuntimeAssumption DEF RuntimeAssumption
<1>1. TypeOK'
    BY DEF IInv, CreateMonitorTransfer, coreVars, runtimeVars, endpointVars, sessionVars, requestVars, TypeOK, RequestOK, Goto, At, Threads, PCs, Ids
<1>2. RequestOK'
    BY DEF IInv, CreateMonitorTransfer, coreVars, runtimeVars, endpointVars, sessionVars, requestVars, RequestOK, TypeOK, Goto, At, Threads
<1>3. CreatedOK'
    BY DEF IInv, CreateMonitorTransfer, coreVars, runtimeVars, endpointVars, sessionVars, requestVars, CreatedOK, TypeOK, Goto, At, Threads
<1>4. SessionOK'
    BY DEF IInv, CreateMonitorTransfer, coreVars, runtimeVars, endpointVars, sessionVars, requestVars, SessionOK, TypeOK, RequestOK, Goto, At, Threads, Ids
<1>5. ForgetOK'
    BY DEF IInv, CreateMonitorTransfer, coreVars, runtimeVars, endpointVars, sessionVars, requestVars, ForgetOK, TypeOK, RequestOK, SessionOK, Goto, At, Threads
<1>6. TransfersAccounted'
    BY DEF IInv, CreateMonitorTransfer, coreVars, runtimeVars, endpointVars, sessionVars, requestVars, TransfersAccounted, TypeOK, RequestOK, SessionOK, Ids, At
<1>7. SessionsTracked'
    BY DEF IInv, CreateMonitorTransfer, coreVars, runtimeVars, endpointVars, sessionVars, requestVars, SessionsTracked, TypeOK, RequestOK, SessionOK, ForgetOK, Goto, At, Threads, Ids
<1> QED BY <1>1, <1>2, <1>3, <1>4, <1>5, <1>6, <1>7 DEF IInv

LEMMA CreateMonitorTransferBusyStep ==
    ASSUME IInv, NEW ep \in Endpoints, CreateMonitorTransferBusy(ep)
    PROVE  IInv'
<1> USE RuntimeAssumption DEF RuntimeAssumption
<1>1. TypeOK'
    BY DEF IInv, CreateMonitorTransferBusy, coreVars, runtimeVars, endpointVars, sessionVars, requestVars, TypeOK, RequestOK, Goto, At, Threads, PCs, Ids
<1>2. RequestOK'
    BY DEF IInv, CreateMonitorTransferBusy, coreVars, runtimeVars, endpointVars, sessionVars, requestVars, RequestOK, TypeOK, Goto, At, Threads
<1>3. CreatedOK'
    BY DEF IInv, CreateMonitorTransferBusy, coreVars, runtimeVars, endpointVars, sessionVars, requestVars, CreatedOK, TypeOK, Goto, At, Threads
<1>4. SessionOK'
    BY DEF IInv, CreateMonitorTransferBusy, coreVars, runtimeVars, endpointVars, sessionVars, requestVars, SessionOK, TypeOK, RequestOK, Goto, At, Threads, Ids
<1>5. ForgetOK'
    BY DEF IInv, CreateMonitorTransferBusy, coreVars, runtimeVars, endpointVars, sessionVars, requestVars, ForgetOK, TypeOK, RequestOK, SessionOK, Goto, At, Threads
<1>6. TransfersAccounted'
    BY DEF IInv, CreateMonitorTransferBusy, coreVars, runtimeVars, endpointVars, sessionVars, requestVars, TransfersAccounted, TypeOK, RequestOK, SessionOK, Ids, At
<1>7. SessionsTracked'
    BY DEF IInv, CreateMonitorTransferBusy, coreVars, runtimeVars, endpointVars, sessionVars, requestVars, SessionsTracked, TypeOK, RequestOK, SessionOK, ForgetOK, Goto, At, Threads, Ids
<1> QED BY <1>1, <1>2, <1>3, <1>4, <1>5, <1>6, <1>7 DEF IInv

LEMMA InsertSessionStep ==
    ASSUME IInv, NEW ep \in Endpoints, InsertSession(ep)
    PROVE  IInv'
<1> USE RuntimeAssumption DEF RuntimeAssumption
<1>1. TypeOK'
    BY DEF IInv, InsertSession, coreVars, runtimeVars, endpointVars, sessionVars, requestVars, TypeOK, RequestOK, Goto, At, Threads, PCs, Ids
<1>2. RequestOK'
    BY DEF IInv, InsertSession, coreVars, runtimeVars, endpointVars, sessionVars, requestVars, RequestOK, TypeOK, Goto, At, Threads, Ids
<1>3. CreatedOK'
    BY DEF IInv, InsertSession, coreVars, runtimeVars, endpointVars, sessionVars, requestVars, CreatedOK, TypeOK, Goto, At, Threads
<1>4. SessionOK'
    BY DEF IInv, InsertSession, coreVars, runtimeVars, endpointVars, sessionVars, requestVars, SessionOK, TypeOK, RequestOK, Goto, At, Threads, Ids
<1>5. ForgetOK'
    BY DEF IInv, InsertSession, coreVars, runtimeVars, endpointVars, sessionVars, requestVars, ForgetOK, TypeOK, RequestOK, SessionOK, Goto, At, Threads
<1>6. TransfersAccounted'
    BY DEF IInv, InsertSession, coreVars, runtimeVars, endpointVars, sessionVars, requestVars, TransfersAccounted, TypeOK, RequestOK, SessionOK, Ids, At
<1>7. SessionsTracked'
    BY DEF IInv, InsertSession, coreVars, runtimeVars, endpointVars, sessionVars, requestVars, SessionsTracked, TypeOK, RequestOK, SessionOK, ForgetOK, Goto, At, Threads, Ids
<1> QED BY <1>1, <1>2, <1>3, <1>4, <1>5, <1>6, <1>7 DEF IInv

LEMMA RecordSessionStep ==
    ASSUME IInv, NEW ep \in Endpoints, RecordSession(ep)
    PROVE  IInv'
<1> USE RuntimeAssumption DEF RuntimeAssumption
<1>1. TypeOK'
    BY DEF IInv, RecordSession, coreVars, runtimeVars, endpointVars, sessionVars, requestVars, TypeOK, RequestOK, Goto, At, Threads, PCs, Ids
<1>2. RequestOK'
    BY DEF IInv, RecordSession, coreVars, runtimeVars, endpointVars, sessionVars, requestVars, RequestOK, TypeOK, Goto, At, Threads
<1>3. CreatedOK'
    BY DEF IInv, RecordSession, coreVars, runtimeVars, endpointVars, sessionVars, requestVars, CreatedOK, TypeOK, Goto, At, Threads
<1>4. SessionOK'
    BY DEF IInv, RecordSession, coreVars, runtimeVars, endpointVars, sessionVars, requestVars, SessionOK, TypeOK, RequestOK, Goto, At, Threads, Ids
<1>5. ForgetOK'
    BY DEF IInv, RecordSession, coreVars, runtimeVars, endpointVars, sessionVars, requestVars, ForgetOK, TypeOK, RequestOK, SessionOK, Goto, At, Threads
<1>6. TransfersAccounted'
    BY DEF IInv, RecordSession, coreVars, runtimeVars, endpointVars, sessionVars, requestVars, TransfersAccounted, TypeOK, RequestOK, SessionOK, Ids, At
<1>7. SessionsTracked'
    BY DEF IInv, RecordSession, coreVars, runtimeVars, endpointVars, sessionVars, requestVars, SessionsTracked, TypeOK, RequestOK, SessionOK, ForgetOK, Goto, At, Threads, Ids
<1> QED BY <1>1, <1>2, <1>3, <1>4, <1>5, <1>6, <1>7 DEF IInv

LEMMA UnsubscribeStep ==
    ASSUME IInv, NEW ep \in Endpoints, Unsubscribe(ep)
    PROVE  IInv'
<1> USE RuntimeAssumption DEF RuntimeAssumption
<1>1. TypeOK'
    BY DEF IInv, Unsubscribe, DetachMonitor, coreVars, runtimeVars, endpointVars, sessionVars, requestVars, TypeOK, RequestOK, Goto, At, Threads, PCs, Ids
<1>2. RequestOK'
    BY DEF IInv, Unsubscribe, DetachMonitor, coreVars, runtimeVars, endpointVars, sessionVars, requestVars, RequestOK, TypeOK, Goto, At, Threads
<1>3. CreatedOK'
    BY DEF IInv, Unsubscribe, DetachMonitor, coreVars, runtimeVars, endpointVars, sessionVars, requestVars, CreatedOK, TypeOK, Goto, At, Threads
<1>4. SessionOK'
    BY DEF IInv, Unsubscribe, DetachMonitor, coreVars, runtimeVars, endpointVars, sessionVars, requestVars, SessionOK, TypeOK, RequestOK, Goto, At, Threads, Ids
<1>5. ForgetOK'
    BY DEF IInv, Unsubscribe, DetachMonitor, coreVars, runtimeVars, endpointVars, sessionVars, requestVars, ForgetOK, TypeOK, RequestOK, SessionOK, Goto, At, Threads
<1>6. TransfersAccounted'
    <2>1. request[ep] \in Ids
        BY DEF IInv, RequestOK, Unsubscribe, At
    <2>2. DetachMonitor(request[ep]) /\ UNCHANGED created
        BY DEF Unsubscribe, requestVars
    <2> QED BY <2>1, <2>2, DetachKeepsAccount DEF IInv
<1>7. SessionsTracked'
    BY DEF IInv, Unsubscribe, DetachMonitor, coreVars, runtimeVars, endpointVars, sessionVars, requestVars, SessionsTracked, TypeOK, RequestOK, SessionOK, ForgetOK, Goto, At, Threads, Ids
<1> QED BY <1>1, <1>2, <1>3, <1>4, <1>5, <1>6, <1>7 DEF IInv

LEMMA ForgetSessionStep ==
    ASSUME IInv, NEW ep \in Endpoints, ForgetSession(ep)
    PROVE  IInv'
<1> USE RuntimeAssumption DEF RuntimeAssumption
<1>1. TypeOK'
    BY DEF IInv, ForgetSession, coreVars, runtimeVars, endpointVars, sessionVars, requestVars, TypeOK, RequestOK, Goto, At, Threads, PCs, Ids
<1>2. RequestOK'
    BY DEF IInv, ForgetSession, coreVars, runtimeVars, endpointVars, sessionVars, requestVars, RequestOK, TypeOK, Goto, At, Threads
<1>3. CreatedOK'
    BY DEF IInv, ForgetSession, coreVars, runtimeVars, endpointVars, sessionVars, requestVars, CreatedOK, TypeOK, Goto, At, Threads
<1>4. SessionOK'
    BY DEF IInv, ForgetSession, coreVars, runtimeVars, endpointVars, sessionVars, requestVars, SessionOK, TypeOK, RequestOK, Goto, At, Threads, Ids
<1>5. ForgetOK'
    BY DEF IInv, ForgetSession, coreVars, runtimeVars, endpointVars, sessionVars, requestVars, ForgetOK, TypeOK, RequestOK, SessionOK, Goto, At, Threads
<1>6. TransfersAccounted'
    BY DEF IInv, ForgetSession, coreVars, runtimeVars, endpointVars, sessionVars, requestVars, TransfersAccounted, TypeOK, RequestOK, SessionOK, Ids, At
<1>7. SessionsTracked'
    BY DEF IInv, ForgetSession, coreVars, runtimeVars, endpointVars, sessionVars, requestVars, SessionsTracked, TypeOK, RequestOK, SessionOK, ForgetOK, Goto, At, Threads, Ids
<1> QED BY <1>1, <1>2, <1>3, <1>4, <1>5, <1>6, <1>7 DEF IInv

LEMMA RespondStep ==
    ASSUME IInv, NEW ep \in Endpoints, Respond(ep)
    PROVE  IInv'
<1> USE RuntimeAssumption DEF RuntimeAssumption
<1>1. TypeOK'
    BY DEF IInv, Respond, coreVars, runtimeVars, endpointVars, sessionVars, requestVars, TypeOK, RequestOK, Goto, At, Threads, PCs, Ids
<1>2. RequestOK'
    BY DEF IInv, Respond, coreVars, runtimeVars, endpointVars, sessionVars, requestVars, RequestOK, TypeOK, Goto, At, Threads
<1>3. CreatedOK'
    BY DEF IInv, Respond, coreVars, runtimeVars, endpointVars, sessionVars, requestVars, CreatedOK, TypeOK, Goto, At, Threads
<1>4. SessionOK'
    BY DEF IInv, Respond, coreVars, runtimeVars, endpointVars, sessionVars, requestVars, SessionOK, TypeOK, RequestOK, Goto, At, Threads, Ids
<1>5. ForgetOK'
    BY DEF IInv, Respond, coreVars, runtimeVars, endpointVars, sessionVars, requestVars, ForgetOK, TypeOK, RequestOK, SessionOK, Goto, At, Threads
<1>6. TransfersAccounted'
    BY DEF IInv, Respond, coreVars, runtimeVars, endpointVars, sessionVars, requestVars, TransfersAccounted, TypeOK, RequestOK, SessionOK, Ids, At
<1>7. SessionsTracked'
    BY DEF IInv, Respond, coreVars, runtimeVars, endpointVars, sessionVars, requestVars, SessionsTracked, TypeOK, RequestOK, SessionOK, ForgetOK, Goto, At, Threads, Ids
<1> QED BY <1>1, <1>2, <1>3, <1>4, <1>5, <1>6, <1>7 DEF IInv

LEMMA ProcessControlPlaneStep ==
    ASSUME IInv, ProcessControlPlane
    PROVE  IInv'
<1> USE RuntimeAssumption DEF RuntimeAssumption
<1>1. TypeOK'
    BY DEF IInv, ProcessControlPlane, coreVars, runtimeVars, endpointVars, sessionVars, requestVars, TypeOK, RequestOK, Goto, At, Threads, PCs, Ids
<1>2. RequestOK'
    BY DEF IInv, ProcessControlPlane, coreVars, runtimeVars, endpointVars, sessionVars, requestVars, RequestOK, TypeOK, Goto, At, Threads
<1>3. CreatedOK'
    BY DEF IInv, ProcessControlPlane, coreVars, runtimeVars, endpointVars, sessionVars, requestVars, CreatedOK, TypeOK, Goto, At, Threads
<1>4. SessionOK'
    BY DEF IInv, ProcessControlPlane, coreVars, runtimeVars, endpointVars, sessionVars, requestVars, SessionOK, TypeOK, RequestOK, Goto, At, Threads, Ids
<1>5. ForgetOK'
    BY DEF IInv, ProcessControlPlane, coreVars, runtimeVars, endpointVars, sessionVars, requestVars, ForgetOK, TypeOK, RequestOK, SessionOK, Goto, At, Threads
<1>6. TransfersAccounted'
    BY DEF IInv, ProcessControlPlane, coreVars, runtimeVars, endpointVars, sessionVars, requestVars, TransfersAccounted, TypeOK, RequestOK, SessionOK, Ids, At
<1>7. SessionsTracked'
    BY DEF IInv, ProcessControlPlane, coreVars, runtimeVars, endpointVars, sessionVars, requestVars, SessionsTracked, TypeOK, RequestOK, SessionOK, ForgetOK, Goto, At, Threads, Ids
<1> QED BY <1>1, <1>2, <1>3, <1>4, <1>5, <1>6, <1>7 DEF IInv

LEMMA TakeEndpointsStep ==
    ASSUME IInv, TakeEndpoints
    PROVE  IInv'
<1> USE RuntimeAssumption DEF RuntimeAssumption
<1>1. TypeOK'
    BY DEF IInv, TakeEndpoints, coreVars, runtimeVars, endpointVars, sessionVars, requestVars, TypeOK, RequestOK, Goto, At, Threads, PCs, Ids
<1>2. RequestOK'
    BY DEF IInv, TakeEndpoints, coreVars, runtimeVars, endpointVars, sessionVars, requestVars, RequestOK, TypeOK, Goto, At, Threads
<1>3. CreatedOK'
    BY DEF IInv, TakeEndpoints, coreVars, runtimeVars, endpointVars, sessionVars, requestVars, CreatedOK, TypeOK, Goto, At, Threads
<1>4. SessionOK'
    BY DEF IInv, TakeEndpoints, coreVars, runtimeVars, endpointVars, sessionVars, requestVars, SessionOK, TypeOK, RequestOK, Goto, At, Threads, Ids
<1>5. ForgetOK'
    BY DEF IInv, TakeEndpoints, coreVars, runtimeVars, endpointVars, sessionVars, requestVars, ForgetOK, TypeOK, RequestOK, SessionOK, Goto, At, Threads
<1>6. TransfersAccounted'
    BY DEF IInv, TakeEndpoints, coreVars, runtimeVars, endpointVars, sessionVars, requestVars, TransfersAccounted, TypeOK, RequestOK, SessionOK, Ids, At
<1>7. SessionsTracked'
    BY DEF IInv, TakeEndpoints, coreVars, runtimeVars, endpointVars, sessionVars, requestVars, SessionsTracked, TypeOK, RequestOK, SessionOK, ForgetOK, Goto, At, Threads, Ids
<1> QED BY <1>1, <1>2, <1>3, <1>4, <1>5, <1>6, <1>7 DEF IInv

LEMMA SubscribeControlStep ==
    ASSUME IInv, NEW ep \in Endpoints, SubscribeControl(ep)
    PROVE  IInv'
<1> USE RuntimeAssumption DEF RuntimeAssumption
<1>1. TypeOK'
    BY DEF IInv, SubscribeControl, coreVars, runtimeVars, endpointVars, sessionVars, requestVars, TypeOK, RequestOK, Goto, At, Threads, PCs, Ids
<1>2. RequestOK'
    BY DEF IInv, SubscribeControl, coreVars, runtimeVars, endpointVars, sessionVars, requestVars, RequestOK, TypeOK, Goto, At, Threads
<1>3. CreatedOK'
    BY DEF IInv, SubscribeControl, coreVars, runtimeVars, endpointVars, sessionVars, requestVars, CreatedOK, TypeOK, Goto, At, Threads
<1>4. SessionOK'
    BY DEF IInv, SubscribeControl, coreVars, runtimeVars, endpointVars, sessionVars, requestVars, SessionOK, TypeOK, RequestOK, Goto, At, Threads, Ids
<1>5. ForgetOK'
    BY DEF IInv, SubscribeControl, coreVars, runtimeVars, endpointVars, sessionVars, requestVars, ForgetOK, TypeOK, RequestOK, SessionOK, Goto, At, Threads
<1>6. TransfersAccounted'
    BY DEF IInv, SubscribeControl, coreVars, runtimeVars, endpointVars, sessionVars, requestVars, TransfersAccounted, TypeOK, RequestOK, SessionOK, Ids, At
<1>7. SessionsTracked'
    BY DEF IInv, SubscribeControl, coreVars, runtimeVars, endpointVars, sessionVars, requestVars, SessionsTracked, TypeOK, RequestOK, SessionOK, ForgetOK, Goto, At, Threads, Ids
<1> QED BY <1>1, <1>2, <1>3, <1>4, <1>5, <1>6, <1>7 DEF IInv

LEMMA PushSessionStep ==
    ASSUME IInv, NEW ep \in Endpoints, PushSession(ep)
    PROVE  IInv'
<1> USE RuntimeAssumption DEF RuntimeAssumption
<1>1. TypeOK'
    BY DEF IInv, PushSession, coreVars, runtimeVars, endpointVars, sessionVars, requestVars, TypeOK, RequestOK, Goto, At, Threads, PCs, Ids
<1>2. RequestOK'
    BY DEF IInv, PushSession, coreVars, runtimeVars, endpointVars, sessionVars, requestVars, RequestOK, TypeOK, Goto, At, Threads
<1>3. CreatedOK'
    BY DEF IInv, PushSession, coreVars, runtimeVars, endpointVars, sessionVars, requestVars, CreatedOK, TypeOK, Goto, At, Threads
<1>4. SessionOK'
    BY DEF IInv, PushSession, coreVars, runtimeVars, endpointVars, sessionVars, requestVars, SessionOK, TypeOK, RequestOK, Goto, At, Threads, Ids
<1>5. ForgetOK'
    BY DEF IInv, PushSession, coreVars, runtimeVars, endpointVars, sessionVars, requestVars, ForgetOK, TypeOK, RequestOK, SessionOK, Goto, At, Threads
<1>6. TransfersAccounted'
    BY DEF IInv, PushSession, coreVars, runtimeVars, endpointVars, sessionVars, requestVars, TransfersAccounted, TypeOK, RequestOK, SessionOK, Ids, At
<1>7. SessionsTracked'
    BY DEF IInv, PushSession, coreVars, runtimeVars, endpointVars, sessionVars, requestVars, SessionsTracked, TypeOK, RequestOK, SessionOK, ForgetOK, Goto, At, Threads, Ids
<1> QED BY <1>1, <1>2, <1>3, <1>4, <1>5, <1>6, <1>7 DEF IInv

LEMMA CollectDisconnectedStep ==
    ASSUME IInv, CollectDisconnected
    PROVE  IInv'
<1> USE RuntimeAssumption DEF RuntimeAssumption
<1>1. TypeOK'
    BY DEF IInv, CollectDisconnected, coreVars, runtimeVars, endpointVars, sessionVars, requestVars, TypeOK, RequestOK, Goto, At, Threads, PCs, Ids
<1>2. RequestOK'
    BY DEF IInv, CollectDisconnected, coreVars, runtimeVars, endpointVars, sessionVars, requestVars, RequestOK, TypeOK, Goto, At, Threads
<1>3. CreatedOK'
    BY DEF IInv, CollectDisconnected, coreVars, runtimeVars, endpointVars, sessionVars, requestVars, CreatedOK, TypeOK, Goto, At, Threads
<1>4. SessionOK'
    BY DEF IInv, CollectDisconnected, coreVars, runtimeVars, endpointVars, sessionVars, requestVars, SessionOK, TypeOK, RequestOK, Goto, At, Threads, Ids
<1>5. ForgetOK'
    BY DEF IInv, CollectDisconnected, coreVars, runtimeVars, endpointVars, sessionVars, requestVars, ForgetOK, TypeOK, RequestOK, SessionOK, Goto, At, Threads
<1>6. TransfersAccounted'
    BY DEF IInv, CollectDisconnected, coreVars, runtimeVars, endpointVars, sessionVars, requestVars, TransfersAccounted, TypeOK, RequestOK, SessionOK, Ids, At
<1>7. SessionsTracked'
    BY DEF IInv, CollectDisconnected, coreVars, runtimeVars, endpointVars, sessionVars, requestVars, SessionsTracked, TypeOK, RequestOK, SessionOK, ForgetOK, Goto, At, Threads, Ids
<1> QED BY <1>1, <1>2, <1>3, <1>4, <1>5, <1>6, <1>7 DEF IInv

LEMMA DetachSessionsForEndpointStep ==
    ASSUME IInv, NEW ep \in Endpoints, DetachSessionsForEndpoint(ep)
    PROVE  IInv'
<1> USE RuntimeAssumption DEF RuntimeAssumption
<1>1. TypeOK'
    BY DEF IInv, DetachSessionsForEndpoint, coreVars, runtimeVars, endpointVars, sessionVars, requestVars, TypeOK, RequestOK, Goto, At, Threads, PCs, Ids
<1>2. RequestOK'
    BY DEF IInv, DetachSessionsForEndpoint, coreVars, runtimeVars, endpointVars, sessionVars, requestVars, RequestOK, TypeOK, Goto, At, Threads
<1>3. CreatedOK'
    BY DEF IInv, DetachSessionsForEndpoint, coreVars, runtimeVars, endpointVars, sessionVars, requestVars, CreatedOK, TypeOK, Goto, At, Threads
<1>4. SessionOK'
    BY DEF IInv, DetachSessionsForEndpoint, coreVars, runtimeVars, endpointVars, sessionVars, requestVars, SessionOK, TypeOK, RequestOK, Goto, At, Threads, Ids
<1>5. ForgetOK'
    BY DEF IInv, DetachSessionsForEndpoint, coreVars, runtimeVars, endpointVars, sessionVars, requestVars, ForgetOK, TypeOK, RequestOK, SessionOK, Goto, At, Threads
<1>6. TransfersAccounted'
    BY DEF IInv, DetachSessionsForEndpoint, coreVars, runtimeVars, endpointVars, sessionVars, requestVars, TransfersAccounted, TypeOK, RequestOK, SessionOK, Ids, At
<1>7. SessionsTracked'
    BY DEF IInv, DetachSessionsForEndpoint, coreVars, runtimeVars, endpointVars, sessionVars, requestVars, SessionsTracked, TypeOK, RequestOK, SessionOK, ForgetOK, Goto, At, Threads, Ids
<1> QED BY <1>1, <1>2, <1>3, <1>4, <1>5, <1>6, <1>7 DEF IInv

LEMMA CloseSessionStep ==
    ASSUME IInv, NEW id \in Ids, CloseSession(id)
    PROVE  IInv'
<1> USE RuntimeAssumption DEF RuntimeAssumption
<1>1. TypeOK'
    BY DEF IInv, CloseSession, DetachMonitor, coreVars, runtimeVars, endpointVars, sessionVars, requestVars, TypeOK, RequestOK, Goto, At, Threads, PCs, Ids
<1>2. RequestOK'
    BY DEF IInv, CloseSession, DetachMonitor, coreVars, runtimeVars, endpointVars, sessionVars, requestVars, RequestOK, TypeOK, Goto, At, Threads
<1>3. CreatedOK'
    BY DEF IInv, CloseSession, DetachMonitor, coreVars, runtimeVars, endpointVars, sessionVars, requestVars, CreatedOK, TypeOK, Goto, At, Threads
<1>4. SessionOK'
    BY DEF IInv, CloseSession, DetachMonitor, coreVars, runtimeVars, endpointVars, sessionVars, requestVars, SessionOK, TypeOK, RequestOK, Goto, At, Threads, Ids
<1>5. ForgetOK'
    BY DEF IInv, CloseSession, DetachMonitor, coreVars, runtimeVars, endpointVars, sessionVars, requestVars, ForgetOK, TypeOK, RequestOK, SessionOK, Goto, At, Threads
<1>6. TransfersAccounted'
    <2>1. DetachMonitor(id) /\ UNCHANGED created
        BY DEF CloseSession, requestVars
    <2> QED BY <2>1, DetachKeepsAccount DEF IInv
<1>7. SessionsTracked'
    BY DEF IInv, CloseSession, DetachMonitor, coreVars, runtimeVars, endpointVars, sessionVars, requestVars, SessionsTracked, TypeOK, RequestOK, SessionOK, ForgetOK, Goto, At, Threads, Ids
<1> QED BY <1>1, <1>2, <1>3, <1>4, <1>5, <1>6, <1>7 DEF IInv

LEMMA ControlPlaneDoneStep ==
    ASSUME IInv, ControlPlaneDone
    PROVE  IInv'
<1> USE RuntimeAssumption DEF RuntimeAssumption
<1>1. TypeOK'
    BY DEF IInv, ControlPlaneDone, coreVars, runtimeVars, endpointVars, sessionVars, requestVars, TypeOK, RequestOK, Goto, At, Threads, PCs, Ids
<1>2. RequestOK'
    BY DEF IInv, ControlPlaneDone, coreVars, runtimeVars, endpointVars, sessionVars, requestVars, RequestOK, TypeOK, Goto, At, Threads
<1>3. CreatedOK'
    BY DEF IInv, ControlPlaneDone, coreVars, runtimeVars, endpointVars, sessionVars, requestVars, CreatedOK, TypeOK, Goto, At, Threads
<1>4. SessionOK'
    BY DEF IInv, ControlPlaneDone, coreVars, runtimeVars, endpointVars, sessionVars, requestVars, SessionOK, TypeOK, RequestOK, Goto, At, Threads, Ids
<1>5. ForgetOK'
    BY DEF IInv, ControlPlaneDone, coreVars, runtimeVars, endpointVars, sessionVars, requestVars, ForgetOK, TypeOK, RequestOK, SessionOK, Goto, At, Threads
<1>6. TransfersAccounted'
    BY DEF IInv, ControlPlaneDone, coreVars, runtimeVars, endpointVars, sessionVars, requestVars, TransfersAccounted, TypeOK, RequestOK, SessionOK, Ids, At
<1>7. SessionsTracked'
    BY DEF IInv, ControlPlaneDone, coreVars, runtimeVars, endpointVars, sessionVars, requestVars, SessionsTracked, TypeOK, RequestOK, SessionOK, ForgetOK, Goto, At, Threads, Ids
<1> QED BY <1>1, <1>2, <1>3, <1>4, <1>5, <1>6, <1>7 DEF IInv

LEMMA StopCoreStep ==
    ASSUME IInv, StopCore
    PROVE  IInv'
<1> USE RuntimeAssumption DEF RuntimeAssumption
<1>1. TypeOK'
    BY DEF IInv, StopCore, coreVars, runtimeVars, endpointVars, sessionVars, requestVars, TypeOK, RequestOK, Goto, At, Threads, PCs, Ids
<1>2. RequestOK'
    BY DEF IInv, StopCore, coreVars, runtimeVars, endpointVars, sessionVars, requestVars, RequestOK, TypeOK, Goto, At, Threads
<1>3. CreatedOK'
    BY DEF IInv, StopCore, coreVars, runtimeVars, endpointVars, sessionVars, requestVars, CreatedOK, TypeOK, Goto, At, Threads
<1>4. SessionOK'
    BY DEF IInv, StopCore, coreVars, runtimeVars, endpointVars, sessionVars, requestVars, SessionOK, TypeOK, RequestOK, Goto, At, Threads, Ids
<1>5. ForgetOK'
    BY DEF IInv, StopCore, coreVars, runtimeVars, endpointVars, sessionVars, requestVars, ForgetOK, TypeOK, RequestOK, SessionOK, Goto, At, Threads
<1>6. TransfersAccounted'
    BY DEF IInv, StopCore, coreVars, runtimeVars, endpointVars, sessionVars, requestVars, TransfersAccounted, TypeOK, RequestOK, SessionOK, Ids, At
<1>7. SessionsTracked'
    BY DEF IInv, StopCore, coreVars, runtimeVars, endpointVars, sessionVars, requestVars, SessionsTracked, TypeOK, RequestOK, SessionOK, ForgetOK, Goto, At, Threads, Ids
<1> QED BY <1>1, <1>2, <1>3, <1>4, <1>5, <1>6, <1>7 DEF IInv

LEMMA DetachMonitorRuntimeStep ==
    ASSUME IInv, DetachMonitorRuntime
    PROVE  IInv'
<1> USE RuntimeAssumption DEF RuntimeAssumption
<1>1. TypeOK'
    BY DEF IInv, DetachMonitorRuntime, coreVars, runtimeVars, endpointVars, sessionVars, requestVars, TypeOK, RequestOK, Goto, At, Threads, PCs, Ids
<1>2. RequestOK'
    BY DEF IInv, DetachMonitorRuntime, coreVars, runtimeVars, endpointVars, sessionVars, requestVars, RequestOK, TypeOK, Goto, At, Threads
<1>3. CreatedOK'
    BY DEF IInv, DetachMonitorRuntime, coreVars, runtimeVars, endpointVars, sessionVars, requestVars, CreatedOK, TypeOK, Goto, At, Threads
<1>4. SessionOK'
    BY DEF IInv, DetachMonitorRuntime, coreVars, runtimeVars, endpointVars, sessionVars, requestVars, SessionOK, TypeOK, RequestOK, Goto, At, Threads, Ids
<1>5. ForgetOK'
    BY DEF IInv, DetachMonitorRuntime, coreVars, runtimeVars, endpointVars, sessionVars, requestVars, ForgetOK, TypeOK, RequestOK, SessionOK, Goto, At, Threads
<1>6. TransfersAccounted'
    BY DEF IInv, DetachMonitorRuntime, coreVars, runtimeVars, endpointVars, sessionVars, requestVars, TransfersAccounted, TypeOK, RequestOK, SessionOK, Ids, At
<1>7. SessionsTracked'
    BY DEF IInv, DetachMonitorRuntime, coreVars, runtimeVars, endpointVars, sessionVars, requestVars, SessionsTracked, TypeOK, RequestOK, SessionOK, ForgetOK, Goto, At, Threads, Ids
<1> QED BY <1>1, <1>2, <1>3, <1>4, <1>5, <1>6, <1>7 DEF IInv

LEMMA ShutdownAgainStep ==
    ASSUME IInv, ShutdownAgain
    PROVE  IInv'
<1> USE RuntimeAssumption DEF RuntimeAssumption
<1>1. TypeOK'
    BY DEF IInv, ShutdownAgain, coreVars, runtimeVars, endpointVars, sessionVars, requestVars, TypeOK, RequestOK, Goto, At, Threads, PCs, Ids
<1>2. RequestOK'
    BY DEF IInv, ShutdownAgain, coreVars, runtimeVars, endpointVars, sessionVars, requestVars, RequestOK, TypeOK, Goto, At, Threads
<1>3. CreatedOK'
    BY DEF IInv, ShutdownAgain, coreVars, runtimeVars, endpointVars, sessionVars, requestVars, CreatedOK, TypeOK, Goto, At, Threads
<1>4. SessionOK'
    BY DEF IInv, ShutdownAgain, coreVars, runtimeVars, endpointVars, sessionVars, requestVars, SessionOK, TypeOK, RequestOK, Goto, At, Threads, Ids
<1>5. ForgetOK'
    BY DEF IInv, ShutdownAgain, coreVars, runtimeVars, endpointVars, sessionVars, requestVars, ForgetOK, TypeOK, RequestOK, SessionOK, Goto, At, Threads
<1>6. TransfersAccounted'
    BY DEF IInv, ShutdownAgain, coreVars, runtimeVars, endpointVars, sessionVars, requestVars, TransfersAccounted, TypeOK, RequestOK, SessionOK, Ids, At
<1>7. SessionsTracked'
    BY DEF IInv, ShutdownAgain, coreVars, runtimeVars, endpointVars, sessionVars, requestVars, SessionsTracked, TypeOK, RequestOK, SessionOK, ForgetOK, Goto, At, Threads, Ids
<1> QED BY <1>1, <1>2, <1>3, <1>4, <1>5, <1>6, <1>7 DEF IInv

LEMMA ClearSessionsStep ==
    ASSUME IInv, ClearSessions
    PROVE  IInv'
<1> USE RuntimeAssumption DEF RuntimeAssumption
<1>1. TypeOK'
    BY DEF IInv, ClearSessions, coreVars, runtimeVars, endpointVars, sessionVars, requestVars, TypeOK, RequestOK, Goto, At, Threads, PCs, Ids
<1>2. RequestOK'
    BY DEF IInv, ClearSessions, coreVars, runtimeVars, endpointVars, sessionVars, requestVars, RequestOK, TypeOK, Goto, At, Threads
<1>3. CreatedOK'
    BY DEF IInv, ClearSessions, coreVars, runtimeVars, endpointVars, sessionVars, requestVars, CreatedOK, TypeOK, Goto, At, Threads
<1>4. SessionOK'
    BY DEF IInv, ClearSessions, coreVars, runtimeVars, endpointVars, sessionVars, requestVars, SessionOK, TypeOK, RequestOK, Goto, At, Threads, Ids
<1>5. ForgetOK'
    BY DEF IInv, ClearSessions, coreVars, runtimeVars, endpointVars, sessionVars, requestVars, ForgetOK, TypeOK, RequestOK, SessionOK, Goto, At, Threads
<1>6. TransfersAccounted'
    BY DEF IInv, ClearSessions, coreVars, runtimeVars, endpointVars, sessionVars, requestVars, TransfersAccounted, TypeOK, RequestOK, SessionOK, Ids, At
<1>7. SessionsTracked'
    BY DEF IInv, ClearSessions, coreVars, runtimeVars, endpointVars, sessionVars, requestVars, SessionsTracked, TypeOK, RequestOK, SessionOK, ForgetOK, Goto, At, Threads, Ids
<1> QED BY <1>1, <1>2, <1>3, <1>4, <1>5, <1>6, <1>7 DEF IInv

LEMMA StopEndpointStep ==
    ASSUME IInv, NEW ep \in Endpoints, StopEndpoint(ep)
    PROVE  IInv'
<1> USE RuntimeAssumption DEF RuntimeAssumption
<1>1. TypeOK'
    BY DEF IInv, StopEndpoint, coreVars, runtimeVars, endpointVars, sessionVars, requestVars, TypeOK, RequestOK, Goto, At, Threads, PCs, Ids
<1>2. RequestOK'
    BY DEF IInv, StopEndpoint, coreVars, runtimeVars, endpointVars, sessionVars, requestVars, RequestOK, TypeOK, Goto, At, Threads
<1>3. CreatedOK'
    BY DEF IInv, StopEndpoint, coreVars, runtimeVars, endpointVars, sessionVars, requestVars, CreatedOK, TypeOK, Goto, At, Threads
<1>4. SessionOK'
    BY DEF IInv, StopEndpoint, coreVars, runtimeVars, endpointVars, sessionVars, requestVars, SessionOK, TypeOK, RequestOK, Goto, At, Threads, Ids
<1>5. ForgetOK'
    BY DEF IInv, StopEndpoint, coreVars, runtimeVars, endpointVars, sessionVars, requestVars, ForgetOK, TypeOK, RequestOK, SessionOK, Goto, At, Threads
<1>6. TransfersAccounted'
    BY DEF IInv, StopEndpoint, coreVars, runtimeVars, endpointVars, sessionVars, requestVars, TransfersAccounted, TypeOK, RequestOK, SessionOK, Ids, At
<1>7. SessionsTracked'
    BY DEF IInv, StopEndpoint, coreVars, runtimeVars, endpointVars, sessionVars, requestVars, SessionsTracked, TypeOK, RequestOK, SessionOK, ForgetOK, Goto, At, Threads, Ids
<1> QED BY <1>1, <1>2, <1>3, <1>4, <1>5, <1>6, <1>7 DEF IInv

LEMMA EndpointsStoppedStep ==
    ASSUME IInv, EndpointsStopped
    PROVE  IInv'
<1> USE RuntimeAssumption DEF RuntimeAssumption
<1>1. TypeOK'
    BY DEF IInv, EndpointsStopped, coreVars, runtimeVars, endpointVars, sessionVars, requestVars, TypeOK, RequestOK, Goto, At, Threads, PCs, Ids
<1>2. RequestOK'
    BY DEF IInv, EndpointsStopped, coreVars, runtimeVars, endpointVars, sessionVars, requestVars, RequestOK, TypeOK, Goto, At, Threads
<1>3. CreatedOK'
    BY DEF IInv, EndpointsStopped, coreVars, runtimeVars, endpointVars, sessionVars, requestVars, CreatedOK, TypeOK, Goto, At, Threads
<1>4. SessionOK'
    BY DEF IInv, EndpointsStopped, coreVars, runtimeVars, endpointVars, sessionVars, requestVars, SessionOK, TypeOK, RequestOK, Goto, At, Threads, Ids
<1>5. ForgetOK'
    BY DEF IInv, EndpointsStopped, coreVars, runtimeVars, endpointVars, sessionVars, requestVars, ForgetOK, TypeOK, RequestOK, SessionOK, Goto, At, Threads
<1>6. TransfersAccounted'
    BY DEF IInv, EndpointsStopped, coreVars, runtimeVars, endpointVars, sessionVars, requestVars, TransfersAccounted, TypeOK, RequestOK, SessionOK, Ids, At
<1>7. SessionsTracked'
    BY DEF IInv, EndpointsStopped, coreVars, runtimeVars, endpointVars, sessionVars, requestVars, SessionsTracked, TypeOK, RequestOK, SessionOK, ForgetOK, Goto, At, Threads, Ids
<1> QED BY <1>1, <1>2, <1>3, <1>4, <1>5, <1>6, <1>7 DEF IInv

LEMMA CloseMuxStep ==
    ASSUME IInv, CloseMux
    PROVE  IInv'
<1> USE RuntimeAssumption DEF RuntimeAssumption
<1>1. TypeOK'
    BY DEF IInv, CloseMux, coreVars, runtimeVars, endpointVars, sessionVars, requestVars, TypeOK, RequestOK, Goto, At, Threads, PCs, Ids
<1>2. RequestOK'
    BY DEF IInv, CloseMux, coreVars, runtimeVars, endpointVars, sessionVars, requestVars, RequestOK, TypeOK, Goto, At, Threads
<1>3. CreatedOK'
    BY DEF IInv, CloseMux, coreVars, runtimeVars, endpointVars, sessionVars, requestVars, CreatedOK, TypeOK, Goto, At, Threads
<1>4. SessionOK'
    BY DEF IInv, CloseMux, coreVars, runtimeVars, endpointVars, sessionVars, requestVars, SessionOK, TypeOK, RequestOK, Goto, At, Threads, Ids
<1>5. ForgetOK'
    BY DEF IInv, CloseMux, coreVars, runtimeVars, endpointVars, sessionVars, requestVars, ForgetOK, TypeOK, RequestOK, SessionOK, Goto, At, Threads
<1>6. TransfersAccounted'
    BY DEF IInv, CloseMux, coreVars, runtimeVars, endpointVars, sessionVars, requestVars, TransfersAccounted, TypeOK, RequestOK, SessionOK, Ids, At
<1>7. SessionsTracked'
    BY DEF IInv, CloseMux, coreVars, runtimeVars, endpointVars, sessionVars, requestVars, SessionsTracked, TypeOK, RequestOK, SessionOK, ForgetOK, Goto, At, Threads, Ids
<1> QED BY <1>1, <1>2, <1>3, <1>4, <1>5, <1>6, <1>7 DEF IInv

LEMMA ResetHandlerStep ==
    ASSUME IInv, ResetHandler
    PROVE  IInv'
<1> USE RuntimeAssumption DEF RuntimeAssumption
<1>1. TypeOK'
    BY DEF IInv, ResetHandler, coreVars, runtimeVars, endpointVars, sessionVars, requestVars, TypeOK, RequestOK, Goto, At, Threads, PCs, Ids
<1>2. RequestOK'
    BY DEF IInv, ResetHandler, coreVars, runtimeVars, endpointVars, sessionVars, requestVars, RequestOK, TypeOK, Goto, At, Threads
<1>3. CreatedOK'
    BY DEF IInv, ResetHandler, coreVars, runtimeVars, endpointVars, sessionVars, requestVars, CreatedOK, TypeOK, Goto, At, Threads
<1>4. SessionOK'
    BY DEF IInv, ResetHandler, coreVars, runtimeVars, endpointVars, sessionVars, requestVars, SessionOK, TypeOK, RequestOK, Goto, At, Threads, Ids
<1>5. ForgetOK'
    BY DEF IInv, ResetHandler, coreVars, runtimeVars, endpointVars, sessionVars, requestVars, ForgetOK, TypeOK, RequestOK, SessionOK, Goto, At, Threads
<1>6. TransfersAccounted'
    BY DEF IInv, ResetHandler, coreVars, runtimeVars, endpointVars, sessionVars, requestVars, TransfersAccounted, TypeOK, RequestOK, SessionOK, Ids, At
<1>7. SessionsTracked'
    BY DEF IInv, ResetHandler, coreVars, runtimeVars, endpointVars, sessionVars, requestVars, SessionsTracked, TypeOK, RequestOK, SessionOK, ForgetOK, Goto, At, Threads, Ids
<1> QED BY <1>1, <1>2, <1>3, <1>4, <1>5, <1>6, <1>7 DEF IInv

\* The requests a client can send are among those ReceiveStep is about.
LEMMA ReceiveAnyStep ==
    ASSUME IInv, NEW ep \in Endpoints,
           \/ ReceiveSubscribe(ep)
           \/ ReceiveOther(ep)
           \/ \E id \in Ids : ReceiveUnsubscribe(ep, id)
    PROVE  IInv'
<1>1. CASE ReceiveSubscribe(ep)
    BY <1>1, ReceiveStep DEF ReceiveSubscribe
<1>2. CASE ReceiveOther(ep)
    BY <1>2, ReceiveStep DEF ReceiveOther
<1>3. CASE \E id \in Ids : ReceiveUnsubscribe(ep, id)
    BY <1>3, ReceiveStep DEF ReceiveUnsubscribe
<1> QED BY <1>1, <1>2, <1>3

LEMMA NextStep ==
    ASSUME IInv, [Next]_vars
    PROVE  IInv'
<1>1. ASSUME NEW ep \in Endpoints, Accept(ep) \/ Disconnect(ep)
      PROVE  IInv'
    BY <1>1, AcceptStep, DisconnectStep
<1>2. ASSUME NEW ep \in Endpoints, Callback(ep)
      PROVE  IInv'
    BY <1>2, AttachMonitorStep, CreateMonitorTransferStep, CreateMonitorTransferBusyStep,
       InsertSessionStep, RecordSessionStep, UnsubscribeStep, ForgetSessionStep, RespondStep
       DEF Callback
<1>3. CASE ControlPlane
    BY <1>3, ProcessControlPlaneStep, TakeEndpointsStep, SubscribeControlStep,
       PushSessionStep, CollectDisconnectedStep, DetachSessionsForEndpointStep,
       CloseSessionStep, ControlPlaneDoneStep DEF ControlPlane
<1>4. CASE StopCore \/ DetachMonitorRuntime \/ Shutdown
    BY <1>4, StopCoreStep, DetachMonitorRuntimeStep, ShutdownAgainStep, ClearSessionsStep,
       StopEndpointStep, EndpointsStoppedStep, CloseMuxStep, ResetHandlerStep DEF Shutdown
<1>5. CASE UNCHANGED vars
  <2> USE <1>5 DEF vars
  <2>1. TypeOK' /\ RequestOK' /\ CreatedOK' /\ SessionOK'
      BY DEF IInv, TypeOK, RequestOK, CreatedOK, SessionOK
  <2>2. ForgetOK' /\ TransfersAccounted' /\ SessionsTracked'
      BY DEF IInv, ForgetOK, TransfersAccounted, SessionsTracked, At
  <2> QED BY <2>1, <2>2 DEF IInv
<1> QED BY <1>1, <1>2, <1>3, <1>4, <1>5, ReceiveAnyStep DEF Next

-----------------------------------------------------------------------------
(* The theorems.                                                            *)

\* The inductive invariant holds in every reachable state of MonitorRuntime.
THEOREM Invariance == Spec => []IInv
<1>1. Init => IInv
    BY InitIInv
<1>2. IInv /\ [Next]_vars => IInv'
    BY NextStep
<1> QED BY <1>1, <1>2, PTL DEF Spec

\* Every variable of the control plane keeps its type.
THEOREM TypeCorrect == Spec => []TypeOK
<1>1. IInv => TypeOK
    BY DEF IInv
<1> QED BY <1>1, Invariance, PTL

\* Whatever subscribes, fails, unsubscribes, is cleaned up or is shut down at the
\* same time, every monitor transfer in the bridge belongs to one session or to one
\* attach in progress, and to no two of them.
THEOREM TransfersAreAccounted == Spec => []TransfersAccounted
<1>1. IInv => TransfersAccounted
    BY DEF IInv
<1> QED BY <1>1, Invariance, PTL

\* No open session is ever out of reach of the code that closes the sessions of an
\* endpoint that went away.
THEOREM SessionsAreTracked == Spec => []SessionsTracked
<1>1. IInv => SessionsTracked
    BY DEF IInv
<1> QED BY <1>1, Invariance, PTL

-----------------------------------------------------------------------------
(* MonitorRuntime implements MonitorSessions.                               *)

sessionState == <<next_id, monitor_sessions, session_transfers>>

\* Closing a set of sessions in one step is a step of the abstract specification.
LEMMA CloseImplemented ==
    ASSUME NEW S \in SUBSET Ids,
           monitor_sessions' = monitor_sessions \ S,
           session_transfers' = [id \in Ids |->
               IF id \in S THEN {} ELSE session_transfers[id]],
           next_id' = next_id,
           IInv
    PROVE  Sessions!Close
<1> DEFINE C == S \cap monitor_sessions
<1>1. C \in SUBSET monitor_sessions /\ monitor_sessions' = monitor_sessions \ C
    OBVIOUS
<1>2. \A id \in Ids : id \notin C => session_transfers'[id] = session_transfers[id]
    BY DEF IInv, SessionOK
<1>3. session_transfers' = [id \in Ids |-> IF id \in C THEN {} ELSE session_transfers[id]]
    BY <1>2
<1> HIDE DEF C
<1> QED BY <1>1, <1>3 DEF Sessions!Close, Sessions!Ids, Ids

LEMMA DetachImplemented ==
    ASSUME IInv, NEW id \in Ids, DetachMonitor(id)
    PROVE  Sessions!Close
<1>1. {id} \in SUBSET Ids
    OBVIOUS
<1>2. session_transfers' = [i \in Ids |-> IF i \in {id} THEN {} ELSE session_transfers[i]]
    BY DEF DetachMonitor, IInv, TypeOK
<1>3. monitor_sessions' = monitor_sessions \ {id} /\ next_id' = next_id
    BY DEF DetachMonitor
<1> QED BY <1>1, <1>2, <1>3, CloseImplemented

LEMMA InsertImplemented ==
    ASSUME IInv, NEW ep \in Endpoints, InsertSession(ep)
    PROVE  Sessions!Open
<1>1. created[ep] \in SUBSET Transfers /\ Cardinality(created[ep]) = KeysPerSession
    BY DEF IInv, TypeOK, CreatedOK, InsertSession, At
<1>2. \A id \in monitor_sessions : created[ep] \cap session_transfers[id] = {}
    BY DEF IInv, TypeOK, TransfersAccounted
<1>3. created[ep] \in SUBSET (Transfers \ Sessions!InUse)
    BY <1>1, <1>2 DEF Sessions!InUse
<1>4. /\ next_id < MaxSessions
      /\ next_id' = next_id + 1
      /\ monitor_sessions' = monitor_sessions \cup {next_id}
      /\ session_transfers' = [session_transfers EXCEPT ![next_id] = created[ep]]
    BY DEF InsertSession
<1> DEFINE ts == created[ep]
<1>5. ts \in SUBSET (Transfers \ Sessions!InUse) /\ Cardinality(ts) = KeysPerSession
    BY <1>1, <1>3
<1>6. session_transfers' = [session_transfers EXCEPT ![next_id] = ts]
    BY <1>4
<1>7. Sessions!Cardinality(ts) = Cardinality(ts)
    BY Zenon DEF Sessions!Cardinality, Cardinality
<1> HIDE DEF ts
<1> QED BY <1>4, <1>5, <1>6, <1>7, Zenon DEF Sessions!Open

LEMMA ClearImplemented ==
    ASSUME IInv, ClearSessions
    PROVE  Sessions!Close
<1>1. session_transfers' = [id \in Ids |-> IF id \in Ids THEN {} ELSE session_transfers[id]]
    BY DEF ClearSessions
<1>2. monitor_sessions' = monitor_sessions \ Ids /\ next_id' = next_id
    BY DEF ClearSessions, IInv, TypeOK
<1> QED BY <1>1, <1>2, CloseImplemented

LEMMA StepImplemented ==
    ASSUME IInv, [Next]_vars
    PROVE  [Sessions!Open \/ Sessions!Close]_sessionState
<1> USE DEF sessionState, sessionVars
<1>1. ASSUME NEW ep \in Endpoints, Callback(ep)
      PROVE  [Sessions!Open \/ Sessions!Close]_sessionState
  <2>1. CASE InsertSession(ep)
      BY <2>1, InsertImplemented
  <2>2. CASE Unsubscribe(ep)
    <3>1. request[ep] \in Ids /\ DetachMonitor(request[ep])
        BY <2>2 DEF Unsubscribe, IInv, RequestOK, At
    <3> QED BY <3>1, DetachImplemented
  <2>3. CASE AttachMonitor(ep) \/ CreateMonitorTransfer(ep) \/ CreateMonitorTransferBusy(ep)
             \/ RecordSession(ep) \/ ForgetSession(ep) \/ Respond(ep)
      BY <2>3 DEF AttachMonitor, CreateMonitorTransfer, CreateMonitorTransferBusy,
         RecordSession, ForgetSession, Respond
  <2> QED BY <1>1, <2>1, <2>2, <2>3 DEF Callback
<1>2. ASSUME NEW ep \in Endpoints,
             \/ Accept(ep) \/ Disconnect(ep) \/ ReceiveSubscribe(ep) \/ ReceiveOther(ep)
             \/ \E id \in Ids : ReceiveUnsubscribe(ep, id)
      PROVE  UNCHANGED sessionState
    BY <1>2 DEF Accept, Disconnect, ReceiveSubscribe, ReceiveOther, ReceiveUnsubscribe, Receive
<1>3. CASE ControlPlane
  <2>1. CASE \E id \in Ids : CloseSession(id)
      BY <2>1, DetachImplemented DEF CloseSession
  <2>2. CASE ProcessControlPlane \/ TakeEndpoints \/ CollectDisconnected \/ ControlPlaneDone
      BY <2>2 DEF ProcessControlPlane, TakeEndpoints, CollectDisconnected, ControlPlaneDone
  <2>3. CASE \E ep \in Endpoints :
                SubscribeControl(ep) \/ PushSession(ep) \/ DetachSessionsForEndpoint(ep)
      BY <2>3 DEF SubscribeControl, PushSession, DetachSessionsForEndpoint
  <2> QED BY <1>3, <2>1, <2>2, <2>3 DEF ControlPlane
<1>4. CASE StopCore \/ DetachMonitorRuntime \/ Shutdown
  <2>1. CASE ClearSessions
      BY <2>1, ClearImplemented
  <2>2. CASE \/ StopCore \/ DetachMonitorRuntime \/ ShutdownAgain \/ EndpointsStopped
             \/ CloseMux \/ ResetHandler \/ \E ep \in Endpoints : StopEndpoint(ep)
      BY <2>2 DEF StopCore, DetachMonitorRuntime, ShutdownAgain, EndpointsStopped, CloseMux,
         ResetHandler, StopEndpoint
  <2> QED BY <1>4, <2>1, <2>2 DEF Shutdown
<1>5. CASE UNCHANGED vars
    BY <1>5 DEF vars
<1> QED BY <1>1, <1>2, <1>3, <1>4, <1>5 DEF Next

\* The runtime, on its threads and with its unguarded windows, implements the
\* abstract life of sessions: ids are never reused, an open session has its own
\* complete set of transfers, a closed one never comes back.
THEOREM SessionsImplemented == Spec => ImplementsSessions
<1>1. Init => Sessions!Init
    BY DEF Init, Sessions!Init, Ids, Sessions!Ids
<1>2. IInv /\ [Next]_vars => [Sessions!Open \/ Sessions!Close]_sessionState
    BY StepImplemented
<1> QED BY <1>1, <1>2, Invariance, PTL DEF Spec, ImplementsSessions, Sessions!Spec, sessionState
-----------------------------------------------------------------------------
(* Shutdown by the bridge loop.                                             *)

\* Where the loop may have left an endpoint whose callback it installed: running
\* or stopped, and, unless stopped, kept in ondemand_sessions_ or about to be.
KeptOK ==
    /\ \A ep \in subscribed : link[ep] \in {"running", "stopped"}
    /\ \A ep \in disconnected : link[ep] = "stopped"
    /\ ondemand_sessions \subseteq subscribed
    /\ \A ep \in subscribed :
          \/ link[ep] = "stopped"
          \/ ep \in ondemand_sessions
          \/ At(Loop, "push") /\ ep \in batch[Loop]

\* The loop admits one accepted endpoint at a time.
AdmitOK ==
    /\ pc[Loop] \in {"admit", "push"} => \A ep \in batch[Loop] : link[ep] # "absent"
    /\ At(Loop, "admit") => batch[Loop] \cap subscribed = {}
    /\ At(Loop, "push") => \A ep1, ep2 \in batch[Loop] \cap subscribed : ep1 = ep2

\* How far shutdown has got.
ShutdownOK ==
    /\ At(Loop, "stop_endpoints") =>
          \A ep \in subscribed : link[ep] = "stopped" \/ ep \in batch[Loop]
    /\ pc[Loop] \in {"close_mux", "reset_handler"} \/ ~initialized =>
          ondemand_sessions = {} /\ \A ep \in subscribed : link[ep] = "stopped"
    /\ ~initialized => pc[Loop] \in {"idle", "shutdown"}

LoopInv == KeptOK /\ AdmitOK /\ ShutdownOK

LEMMA InitLoopInv == Init => LoopInv
BY RuntimeAssumption
   DEF Init, LoopInv, KeptOK, AdmitOK, ShutdownOK, At, Threads, RuntimeAssumption

\* The endpoints' own steps: none of them moves the loop.
LEMMA EndpointKeepsLoopInv ==
    ASSUME IInv, LoopInv, NEW ep \in Endpoints,
           \/ Accept(ep) \/ Disconnect(ep) \/ ReceiveSubscribe(ep) \/ ReceiveOther(ep)
           \/ \E id \in Ids : ReceiveUnsubscribe(ep, id)
           \/ Callback(ep)
    PROVE  LoopInv'
<1>1. pc'[Loop] = pc[Loop]
  <2>1. ep # Loop /\ Loop \in Threads /\ pc \in [Threads -> PCs]
      BY RuntimeAssumption DEF RuntimeAssumption, IInv, TypeOK, Threads
  <2>2. CASE \/ Accept(ep) \/ Disconnect(ep) \/ ReceiveSubscribe(ep) \/ ReceiveOther(ep)
             \/ \E id \in Ids : ReceiveUnsubscribe(ep, id)
      BY <2>1, <2>2 DEF Accept, Disconnect, ReceiveSubscribe, ReceiveOther,
         ReceiveUnsubscribe, Receive, Goto
  <2>3. CASE Callback(ep)
      BY <2>1, <2>3 DEF Callback, AttachMonitor, CreateMonitorTransfer,
         CreateMonitorTransferBusy, InsertSession, RecordSession, Unsubscribe, ForgetSession,
         Respond, Goto
  <2> QED BY <2>2, <2>3
<1>2. UNCHANGED <<subscribed, ondemand_sessions, disconnected, batch, initialized>>
    BY DEF Accept, Disconnect, ReceiveSubscribe, ReceiveOther, ReceiveUnsubscribe, Receive,
       Callback, AttachMonitor, CreateMonitorTransfer, CreateMonitorTransferBusy, InsertSession,
       RecordSession, Unsubscribe, ForgetSession, Respond, endpointVars, runtimeVars
<1>3. \A e \in Endpoints : link'[e] # link[e] =>
         \/ link'[e] = "stopped"
         \/ link[e] = "absent" /\ link'[e] = "accepted"
  <2>1. CASE Accept(ep) \/ Disconnect(ep)
    <3>1. link \in [Endpoints -> {"absent", "accepted", "running", "stopped"}]
        BY DEF IInv, TypeOK
    <3> QED BY <2>1, <3>1 DEF Accept, Disconnect
  <2>2. CASE \/ ReceiveSubscribe(ep) \/ ReceiveOther(ep)
             \/ \E id \in Ids : ReceiveUnsubscribe(ep, id)
             \/ Callback(ep)
    <3>1. UNCHANGED link
        BY <2>2 DEF ReceiveSubscribe, ReceiveOther, ReceiveUnsubscribe, Receive, Callback,
           AttachMonitor, CreateMonitorTransfer, CreateMonitorTransferBusy, InsertSession,
           RecordSession, Unsubscribe, ForgetSession, Respond, endpointVars
    <3> QED BY <3>1
  <2> QED BY <2>1, <2>2
<1>4. subscribed \subseteq Endpoints /\ disconnected \subseteq Endpoints
      /\ batch[Loop] \subseteq Endpoints
    BY DEF IInv, TypeOK
<1> QED BY <1>1, <1>2, <1>3, <1>4 DEF LoopInv, KeptOK, AdmitOK, ShutdownOK, At

LEMMA ControlPlaneKeepsLoopInv ==
    ASSUME Stopper = Loop, IInv, LoopInv, ControlPlane
    PROVE  LoopInv'
<1> USE RuntimeAssumption DEF RuntimeAssumption, LoopInv, At, Goto, IInv, TypeOK, Threads
<1>1. CASE ProcessControlPlane
    BY <1>1 DEF ProcessControlPlane, KeptOK, AdmitOK, ShutdownOK, endpointVars, runtimeVars
<1>2. CASE TakeEndpoints
    BY <1>2 DEF TakeEndpoints, KeptOK, AdmitOK, ShutdownOK, endpointVars, runtimeVars
<1>3. ASSUME NEW ep \in Endpoints, SubscribeControl(ep)
      PROVE  LoopInv'
    BY <1>3 DEF SubscribeControl, KeptOK, AdmitOK, ShutdownOK, runtimeVars
<1>4. ASSUME NEW ep \in Endpoints, PushSession(ep)
      PROVE  LoopInv'
    BY <1>4 DEF PushSession, KeptOK, AdmitOK, ShutdownOK, runtimeVars
<1>5. CASE CollectDisconnected
    BY <1>5 DEF CollectDisconnected, KeptOK, AdmitOK, ShutdownOK, runtimeVars
<1>6. ASSUME NEW ep \in Endpoints, DetachSessionsForEndpoint(ep)
      PROVE  LoopInv'
    BY <1>6 DEF DetachSessionsForEndpoint, KeptOK, AdmitOK, ShutdownOK, runtimeVars, endpointVars
<1>7. ASSUME NEW id \in Ids, CloseSession(id)
      PROVE  LoopInv'
    BY <1>7 DEF CloseSession, KeptOK, AdmitOK, ShutdownOK, runtimeVars, endpointVars
<1>8. CASE ControlPlaneDone
    BY <1>8 DEF ControlPlaneDone, KeptOK, AdmitOK, ShutdownOK, runtimeVars, endpointVars
<1> QED BY <1>1, <1>2, <1>3, <1>4, <1>5, <1>6, <1>7, <1>8 DEF ControlPlane

LEMMA StopKeepsLoopInv ==
    ASSUME Stopper = Loop, IInv, LoopInv, StopCore \/ DetachMonitorRuntime \/ Shutdown
    PROVE  LoopInv'
<1> USE RuntimeAssumption DEF RuntimeAssumption, LoopInv, At, Goto, IInv, TypeOK, Threads
<1>1. CASE StopCore \/ DetachMonitorRuntime
    BY <1>1 DEF StopCore, DetachMonitorRuntime, KeptOK, AdmitOK, ShutdownOK, endpointVars,
       runtimeVars
<1>2. CASE ShutdownAgain
    BY <1>2 DEF ShutdownAgain, KeptOK, AdmitOK, ShutdownOK, endpointVars, runtimeVars
<1>3. CASE ClearSessions
    BY <1>3 DEF ClearSessions, KeptOK, AdmitOK, ShutdownOK, endpointVars, runtimeVars
<1>4. ASSUME NEW ep \in Endpoints, StopEndpoint(ep)
      PROVE  LoopInv'
    BY <1>4 DEF StopEndpoint, KeptOK, AdmitOK, ShutdownOK, runtimeVars
<1>5. CASE EndpointsStopped
    BY <1>5 DEF EndpointsStopped, KeptOK, AdmitOK, ShutdownOK, runtimeVars
<1>6. CASE CloseMux \/ ResetHandler
    BY <1>6 DEF CloseMux, ResetHandler, KeptOK, AdmitOK, ShutdownOK, endpointVars
<1> QED BY <1>1, <1>2, <1>3, <1>4, <1>5, <1>6 DEF Shutdown

\* When the loop's own thread has shut the runtime down, as in both daemons, every
\* control endpoint that ever had its callback installed is stopped and none is kept.
THEOREM ShutdownStopsEndpoints ==
    ASSUME Stopper = Loop
    PROVE  Spec => []ShutdownLeavesNoEndpoint
<1>1. IInv /\ LoopInv /\ [Next]_vars => LoopInv'
  <2> SUFFICES ASSUME IInv, LoopInv, [Next]_vars PROVE LoopInv'
      OBVIOUS
  <2>1. CASE UNCHANGED vars
      BY <2>1 DEF vars, LoopInv, KeptOK, AdmitOK, ShutdownOK, At
  <2>2. CASE Next
      BY <2>2, EndpointKeepsLoopInv, ControlPlaneKeepsLoopInv, StopKeepsLoopInv DEF Next
  <2> QED BY <2>1, <2>2
<1>2. LoopInv => ShutdownLeavesNoEndpoint
    BY DEF LoopInv, ShutdownOK, ShutdownLeavesNoEndpoint
<1> QED BY <1>1, <1>2, InitLoopInv, Invariance, PTL DEF Spec

-----------------------------------------------------------------------------
(* Requests that arrive after stop().                                       *)

\* A request that attach_monitor has seen, or will still see, with the core running
\* came in while the core was running: nothing starts a stopped core again.
AskedOK ==
    \A ep \in Endpoints :
        /\ At(ep, "attach") /\ running => asked_running[ep]
        /\ pc[ep] \in {"create", "insert"} => asked_running[ep]

LEMMA AskedStep ==
    ASSUME IInv, AskedOK, [Next]_vars
    PROVE  AskedOK'
<1> USE RuntimeAssumption
    DEF RuntimeAssumption, AskedOK, At, Goto, IInv, TypeOK, Threads, coreVars, requestVars
<1>1. ASSUME NEW ep \in Endpoints,
             \/ Accept(ep) \/ Disconnect(ep) \/ ReceiveSubscribe(ep) \/ ReceiveOther(ep)
             \/ \E id \in Ids : ReceiveUnsubscribe(ep, id)
      PROVE  AskedOK'
    BY <1>1 DEF Accept, Disconnect, ReceiveSubscribe, ReceiveOther, ReceiveUnsubscribe, Receive
<1>2. ASSUME NEW ep \in Endpoints, Callback(ep)
      PROVE  AskedOK'
    BY <1>2 DEF Callback, AttachMonitor, CreateMonitorTransfer, CreateMonitorTransferBusy,
       InsertSession, RecordSession, Unsubscribe, ForgetSession, Respond
<1>3. CASE ControlPlane
    BY <1>3 DEF ControlPlane, ProcessControlPlane, TakeEndpoints, CollectDisconnected,
       ControlPlaneDone, SubscribeControl, PushSession, DetachSessionsForEndpoint, CloseSession
<1>4. CASE StopCore \/ DetachMonitorRuntime \/ Shutdown
    BY <1>4 DEF StopCore, DetachMonitorRuntime, Shutdown, ShutdownAgain, ClearSessions,
       EndpointsStopped, CloseMux, ResetHandler, StopEndpoint
<1>5. CASE UNCHANGED vars
    BY <1>5 DEF vars
<1> QED BY <1>1, <1>2, <1>3, <1>4, <1>5 DEF Next

\* A subscribe request that arrives after BridgeCore::stop creates no session, whatever
\* the request was overtaken by and whoever called stop.
THEOREM LateSubscribesRejected == Spec => LateSubscribeRejected
<1>1. Init => AskedOK
    BY RuntimeAssumption DEF Init, AskedOK, At, RuntimeAssumption, Threads
<1>2. IInv /\ AskedOK /\ [Next]_vars => AskedOK'
    BY AskedStep
<1>3. AskedOK => [\A ep \in Endpoints : InsertSession(ep) => asked_running[ep]]_vars
    BY DEF AskedOK, InsertSession, At
<1> QED BY <1>1, <1>2, <1>3, Invariance, PTL DEF Spec, LateSubscribeRejected
-----------------------------------------------------------------------------
(* Whose a session is.                                                      *)

\* An id that was handed to ep: nobody else's session will ever have it.
Mine(ep, id) == id < next_id /\ (id \in monitor_sessions => destination[id] = ep)

\* An id whose session, if it is still there, sends to an endpoint that has gone.
Gone(id) == id < next_id /\ (id \in monitor_sessions => link[destination[id]] = "stopped")

\* What the loop takes for the sessions of an endpoint are that endpoint's, and it takes
\* them only once the endpoint has stopped.
OwnersOK ==
    /\ \A ep \in subscribed : link[ep] \in {"running", "stopped"}
    /\ ondemand_sessions \subseteq subscribed
    /\ pc[Loop] \in {"admit", "push"} => \A ep \in batch[Loop] : link[ep] # "absent"
    /\ \A ep \in Endpoints : \A id \in endpoint_session_ids[ep] : Mine(ep, id)
    /\ \A ep \in Endpoints : At(ep, "record") => Mine(ep, request[ep])
    /\ \A id \in closing : Gone(id)
    /\ At(Loop, "cleanup") => \A ep \in batch[Loop] : link[ep] = "stopped"

LEMMA InitOwnersOK == Init => OwnersOK
BY RuntimeAssumption DEF Init, OwnersOK, At, Threads, RuntimeAssumption

\* What a step does to the sessions that are there: none changes hands; an endpoint that
\* was accepted is never absent again, and one that has stopped stays so.
LinksStay ==
    \A ep \in Endpoints :
        /\ link[ep] = "stopped" => link'[ep] = "stopped"
        /\ link[ep] # "absent" => link'[ep] # "absent"

SessionsStay ==
    /\ next_id' \in Nat /\ next_id <= next_id'
    /\ \A id \in monitor_sessions' :
          id < next_id => id \in monitor_sessions /\ destination'[id] = destination[id]
    /\ LinksStay

LEMMA DetachSessionsStay ==
    ASSUME IInv, NEW id \in Ids, DetachMonitor(id), UNCHANGED link
    PROVE  /\ SessionsStay
           /\ \A o \in monitor_sessions : o # id =>
                 o \in monitor_sessions' /\ destination'[o] = destination[o]
BY DEF DetachMonitor, SessionsStay, LinksStay, IInv, TypeOK, Ids

LEMMA StepSessionsStay ==
    ASSUME IInv, [Next]_vars
    PROVE  SessionsStay
<1>1. /\ monitor_sessions \subseteq Ids /\ next_id \in Nat
      /\ destination \in [Ids -> Endpoints \cup {NoSession}]
      /\ link \in [Endpoints -> {"absent", "accepted", "running", "stopped"}]
    BY RuntimeAssumption DEF IInv, TypeOK, RuntimeAssumption
<1> USE DEF LinksStay
<1>2. ASSUME UNCHANGED <<next_id, monitor_sessions, destination>>, LinksStay
      PROVE  SessionsStay
    BY <1>1, <1>2 DEF SessionsStay
<1>3. ASSUME NEW ep \in Endpoints, Callback(ep)
      PROVE  SessionsStay
  <2>1. CASE InsertSession(ep)
    <3>1. /\ next_id < MaxSessions /\ next_id' = next_id + 1 /\ UNCHANGED link
          /\ monitor_sessions' = monitor_sessions \cup {next_id}
          /\ destination' = [destination EXCEPT ![next_id] = ep]
        BY <2>1 DEF InsertSession, endpointVars
    <3> QED BY <1>1, <3>1 DEF SessionsStay
  <2>2. CASE Unsubscribe(ep)
    <3>1. request[ep] \in Ids /\ DetachMonitor(request[ep]) /\ UNCHANGED link
        BY <2>2 DEF Unsubscribe, IInv, RequestOK, At, endpointVars
    <3> QED BY <3>1, DetachSessionsStay
  <2>3. CASE AttachMonitor(ep) \/ CreateMonitorTransfer(ep) \/ CreateMonitorTransferBusy(ep)
             \/ RecordSession(ep) \/ ForgetSession(ep) \/ Respond(ep)
      BY <1>2, <2>3 DEF AttachMonitor, CreateMonitorTransfer, CreateMonitorTransferBusy,
         RecordSession, ForgetSession, Respond, sessionVars, endpointVars
  <2> QED BY <1>3, <2>1, <2>2, <2>3 DEF Callback
<1>4. ASSUME NEW ep \in Endpoints, Accept(ep) \/ Disconnect(ep)
      PROVE  SessionsStay
    BY <1>1, <1>2, <1>4 DEF Accept, Disconnect, sessionVars
<1>5. ASSUME NEW ep \in Endpoints,
             \/ ReceiveSubscribe(ep) \/ ReceiveOther(ep)
             \/ \E id \in Ids : ReceiveUnsubscribe(ep, id)
      PROVE  SessionsStay
    BY <1>2, <1>5 DEF ReceiveSubscribe, ReceiveOther, ReceiveUnsubscribe, Receive,
       sessionVars, endpointVars
<1>6. CASE ControlPlane
  <2>1. ASSUME NEW id \in Ids, CloseSession(id) PROVE SessionsStay
      BY <2>1, DetachSessionsStay DEF CloseSession, endpointVars
  <2>2. CASE ProcessControlPlane \/ TakeEndpoints \/ CollectDisconnected \/ ControlPlaneDone
      BY <1>2, <2>2 DEF ProcessControlPlane, TakeEndpoints, CollectDisconnected,
         ControlPlaneDone, sessionVars, endpointVars
  <2>3. ASSUME NEW ep \in Endpoints,
               SubscribeControl(ep) \/ PushSession(ep) \/ DetachSessionsForEndpoint(ep)
        PROVE  SessionsStay
      BY <1>1, <1>2, <2>3 DEF SubscribeControl, PushSession, DetachSessionsForEndpoint,
         sessionVars, endpointVars
  <2> QED BY <1>6, <2>1, <2>2, <2>3 DEF ControlPlane
<1>7. CASE StopCore \/ DetachMonitorRuntime \/ Shutdown
  <2>1. CASE ClearSessions
      BY <1>1, <2>1 DEF ClearSessions, SessionsStay, endpointVars
  <2>2. CASE \/ StopCore \/ DetachMonitorRuntime \/ ShutdownAgain \/ EndpointsStopped
             \/ CloseMux \/ ResetHandler \/ \E ep \in Endpoints : StopEndpoint(ep)
      BY <1>1, <1>2, <2>2 DEF StopCore, DetachMonitorRuntime, ShutdownAgain, EndpointsStopped,
         CloseMux, ResetHandler, StopEndpoint, sessionVars, endpointVars
  <2> QED BY <1>7, <2>1, <2>2 DEF Shutdown
<1>8. CASE UNCHANGED vars
    BY <1>2, <1>8 DEF vars
<1> QED BY <1>3, <1>4, <1>5, <1>6, <1>7, <1>8 DEF Next

\* So whatever was once said of an id in these terms remains true of it.
LEMMA OwnersStable ==
    ASSUME IInv, SessionsStay, NEW id \in Ids
    PROVE  /\ \A ep \in Endpoints : Mine(ep, id) => Mine(ep, id)'
           /\ Gone(id) => Gone(id)'
<1>1. next_id \in Nat /\ id \in Nat
      /\ (id \in monitor_sessions => destination[id] \in Endpoints)
    BY RuntimeAssumption DEF IInv, TypeOK, SessionOK, Ids, RuntimeAssumption
<1>2. /\ id < next_id => id < next_id'
      /\ id < next_id /\ id \in monitor_sessions' =>
            id \in monitor_sessions /\ destination'[id] = destination[id]
    BY <1>1 DEF SessionsStay
<1>3. \A ep \in Endpoints : link[ep] = "stopped" => link'[ep] = "stopped"
    BY DEF SessionsStay, LinksStay
<1> QED BY <1>1, <1>2, <1>3 DEF Mine, Gone

LEMMA OwnersStep ==
    ASSUME IInv, OwnersOK, [Next]_vars
    PROVE  OwnersOK'
<1> USE RuntimeAssumption DEF RuntimeAssumption
<1>0. /\ pc \in [Threads -> PCs] /\ Loop \in Threads /\ Endpoints \subseteq Threads
      /\ Loop \notin Endpoints /\ Stopper \notin Endpoints /\ Stopper \in Threads
      /\ link \in [Endpoints -> {"absent", "accepted", "running", "stopped"}]
      /\ request \in [Endpoints -> Ids \cup {NoSession}]
      /\ endpoint_session_ids \in [Endpoints -> SUBSET Ids] /\ closing \subseteq Ids
      /\ batch \in [{Loop, Stopper} -> SUBSET Endpoints]
      /\ subscribed \subseteq Endpoints /\ ondemand_sessions \subseteq Endpoints
    BY DEF IInv, TypeOK, Threads
<1>s. /\ \A id \in Ids : \A ep \in Endpoints : Mine(ep, id) => Mine(ep, id)'
      /\ \A id \in Ids : Gone(id) => Gone(id)'
      /\ \A ep \in Endpoints : link[ep] = "stopped" => link'[ep] = "stopped"
      /\ \A ep \in Endpoints : link[ep] # "absent" => link'[ep] # "absent"
    BY StepSessionsStay, OwnersStable DEF SessionsStay, LinksStay
<1>r. \A ep \in Endpoints : At(ep, "record") => request[ep] \in Ids
    BY DEF IInv, RequestOK, At
\* What has to be shown of a step is what it adds.
<1>f. ASSUME \A ep \in subscribed' : \/ ep \in subscribed /\ link'[ep] \in {link[ep], "stopped"}
                                     \/ link'[ep] \in {"running", "stopped"},
             ondemand_sessions' \subseteq ondemand_sessions \cup subscribed',
             subscribed \subseteq subscribed',
             \A ep \in Endpoints : endpoint_session_ids'[ep] \subseteq
                 endpoint_session_ids[ep]
                     \cup (IF At(ep, "record") THEN {request[ep]} ELSE {}),
             \A ep \in Endpoints : At(ep, "record")' =>
                 At(ep, "record") /\ request'[ep] = request[ep],
             closing' \subseteq closing,
             At(Loop, "cleanup")' => At(Loop, "cleanup") /\ batch'[Loop] \subseteq batch[Loop],
             pc'[Loop] \in {"admit", "push"} =>
                 \/ pc[Loop] \in {"admit", "push"} /\ batch'[Loop] \subseteq batch[Loop]
                 \/ \A ep \in batch'[Loop] : link'[ep] # "absent"
      PROVE  OwnersOK'
  <2>1. \A ep \in subscribed' : link'[ep] \in {"running", "stopped"}
      BY <1>f DEF OwnersOK
  <2>2. ondemand_sessions' \subseteq subscribed'
      BY <1>f DEF OwnersOK
  <2>3. \A ep \in Endpoints : \A id \in endpoint_session_ids'[ep] : Mine(ep, id)'
      BY <1>0, <1>s, <1>r, <1>f DEF OwnersOK
  <2>4. \A ep \in Endpoints : At(ep, "record")' => Mine(ep, request[ep])'
      BY <1>s, <1>r, <1>f DEF OwnersOK
  <2>5. \A id \in closing' : Gone(id)'
      BY <1>0, <1>s, <1>f DEF OwnersOK
  <2>6. At(Loop, "cleanup")' => \A ep \in batch'[Loop] : link'[ep] = "stopped"
      BY <1>0, <1>s, <1>f DEF OwnersOK
  <2>7. pc'[Loop] \in {"admit", "push"} => \A ep \in batch'[Loop] : link'[ep] # "absent"
      BY <1>0, <1>s, <1>f DEF OwnersOK
  <2> QED BY <2>1, <2>2, <2>3, <2>4, <2>5, <2>6, <2>7 DEF OwnersOK
<1> USE DEF At, Goto
<1>1. ASSUME NEW ep \in Endpoints, Accept(ep) \/ Disconnect(ep)
      PROVE  OwnersOK'
  <2>1. \A o \in subscribed : link'[o] \in {link[o], "stopped"}
      BY <1>0, <1>1 DEF Accept, Disconnect, OwnersOK
  <2> QED BY <1>f, <1>1, <2>1 DEF Accept, Disconnect, sessionVars, requestVars
<1>2. ASSUME NEW ep \in Endpoints,
             \/ ReceiveSubscribe(ep) \/ ReceiveOther(ep)
             \/ \E id \in Ids : ReceiveUnsubscribe(ep, id)
      PROVE  OwnersOK'
  <2>1. PICK label \in {"attach", "ok", "error", "detach"} : pc' = [pc EXCEPT ![ep] = label]
      BY <1>2 DEF ReceiveSubscribe, ReceiveOther, ReceiveUnsubscribe, Receive
  <2>2. \A o \in Endpoints \ {ep} : request'[o] = request[o]
      BY <1>0, <1>2 DEF ReceiveSubscribe, ReceiveOther, ReceiveUnsubscribe, Receive
  <2>3. UNCHANGED <<link, subscribed, ondemand_sessions, endpoint_session_ids, closing, batch>>
      BY <1>2 DEF ReceiveSubscribe, ReceiveOther, ReceiveUnsubscribe, Receive, sessionVars,
         endpointVars
  <2> QED BY <1>0, <1>f, <2>1, <2>2, <2>3
<1>3. ASSUME NEW ep \in Endpoints, Callback(ep)
      PROVE  OwnersOK'
  <2>1. CASE InsertSession(ep)
    <3>1. /\ next_id \in Ids /\ next_id' = next_id + 1 /\ destination'[next_id] = ep
          /\ request' = [request EXCEPT ![ep] = next_id]
          /\ pc' = [pc EXCEPT ![ep] = "record"]
          /\ UNCHANGED <<link, subscribed, ondemand_sessions, endpoint_session_ids, closing,
                         batch>>
        BY <2>1 DEF InsertSession, endpointVars, IInv, TypeOK, Ids
    <3>2. Mine(ep, request[ep])'
        BY <1>0, <3>1 DEF Mine, Ids
    <3>3. \A o \in Endpoints : At(o, "record")' => Mine(o, request[o])'
        BY <1>0, <1>s, <1>r, <3>1, <3>2 DEF OwnersOK
    <3> QED BY <1>0, <1>s, <3>1, <3>3 DEF OwnersOK
  <2>2. CASE RecordSession(ep)
      BY <1>0, <1>f, <2>2 DEF RecordSession, requestVars, endpointVars
  <2>3. CASE Unsubscribe(ep)
      BY <1>0, <1>f, <2>3 DEF Unsubscribe, requestVars, endpointVars
  <2>4. CASE ForgetSession(ep)
      BY <1>0, <1>f, <2>4 DEF ForgetSession, requestVars, endpointVars
  <2>5. CASE AttachMonitor(ep) \/ CreateMonitorTransfer(ep) \/ CreateMonitorTransferBusy(ep)
    <3>1. \E label \in {"create", "insert", "error"} : pc' = [pc EXCEPT ![ep] = label]
        BY <2>5 DEF AttachMonitor, CreateMonitorTransfer, CreateMonitorTransferBusy
    <3>2. UNCHANGED <<link, subscribed, ondemand_sessions, endpoint_session_ids, request,
                      closing, batch>>
        BY <2>5 DEF AttachMonitor, CreateMonitorTransfer, CreateMonitorTransferBusy,
           requestVars, endpointVars, sessionVars
    <3> QED BY <1>0, <1>f, <3>1, <3>2
  <2>6. CASE Respond(ep)
      BY <1>0, <1>f, <2>6 DEF Respond, sessionVars, endpointVars
  <2> QED BY <1>3, <2>1, <2>2, <2>3, <2>4, <2>5, <2>6 DEF Callback
<1>4. CASE ControlPlane
  <2>1. CASE CollectDisconnected
    <3>1. \A ep \in batch'[Loop] : link'[ep] = "stopped"
        BY <1>0, <2>1 DEF CollectDisconnected, OwnersOK
    <3>2. /\ pc' = [pc EXCEPT ![Loop] = "cleanup"]
          /\ UNCHANGED <<link, subscribed, ondemand_sessions, endpoint_session_ids, request,
                         closing>>
        BY <2>1 DEF CollectDisconnected, sessionVars, requestVars
    <3>3. \A o \in Endpoints : \A id \in endpoint_session_ids'[o] : Mine(o, id)'
        BY <1>0, <1>s, <3>2 DEF OwnersOK
    <3>4. \A o \in Endpoints : At(o, "record")' => Mine(o, request[o])'
        BY <1>0, <1>s, <1>r, <3>2 DEF OwnersOK
    <3>5. \A id \in closing' : Gone(id)'
        BY <1>0, <1>s, <3>2 DEF OwnersOK
    <3> QED BY <1>0, <3>1, <3>2, <3>3, <3>4, <3>5 DEF OwnersOK
  <2>2. ASSUME NEW ep \in Endpoints, DetachSessionsForEndpoint(ep)
        PROVE  OwnersOK'
    <3>1. /\ link[ep] = "stopped" /\ closing' = endpoint_session_ids[ep]
          /\ pc[Loop] = "cleanup" /\ batch'[Loop] \subseteq batch[Loop]
          /\ \A o \in Endpoints : endpoint_session_ids'[o] \subseteq endpoint_session_ids[o]
          /\ UNCHANGED <<pc, link, subscribed, ondemand_sessions, request>>
        BY <1>0, <2>2 DEF DetachSessionsForEndpoint, OwnersOK, endpointVars, requestVars
    <3>2. \A id \in closing' : id \in Ids /\ Gone(id)
        BY <1>0, <3>1 DEF OwnersOK, Mine, Gone
    <3>3. \A id \in closing' : Gone(id)'
        BY <1>s, <3>2
    <3>4. \A o \in Endpoints : \A id \in endpoint_session_ids'[o] : Mine(o, id)'
        BY <1>0, <1>s, <3>1 DEF OwnersOK
    <3>5. \A o \in Endpoints : At(o, "record")' => Mine(o, request[o])'
        BY <1>s, <1>r, <3>1 DEF OwnersOK
    <3> QED BY <1>0, <1>s, <3>1, <3>3, <3>4, <3>5 DEF OwnersOK
  <2>3. CASE ProcessControlPlane \/ TakeEndpoints \/ ControlPlaneDone
    <3>1. \/ \E label \in {"take", "idle"} : pc' = [pc EXCEPT ![Loop] = label]
          \/ /\ pc' = [pc EXCEPT ![Loop] = "admit"]
             /\ \A ep \in batch'[Loop] : link'[ep] # "absent"
        BY <1>0, <2>3 DEF ProcessControlPlane, TakeEndpoints, ControlPlaneDone, endpointVars
    <3>2. UNCHANGED <<link, subscribed, ondemand_sessions, endpoint_session_ids, request,
                      closing>>
        BY <2>3 DEF ProcessControlPlane, TakeEndpoints, ControlPlaneDone, sessionVars,
           requestVars, endpointVars
    <3> QED BY <1>0, <1>f, <3>1, <3>2
  <2>4. ASSUME NEW ep \in Endpoints, SubscribeControl(ep)
        PROVE  OwnersOK'
    <3>1. /\ pc[Loop] = "admit" /\ ep \in batch[Loop]
          /\ pc' = [pc EXCEPT ![Loop] = "push"] /\ subscribed' = subscribed \cup {ep}
          /\ link' = [link EXCEPT ![ep] = IF @ = "accepted" THEN "running" ELSE @]
          /\ UNCHANGED <<ondemand_sessions, endpoint_session_ids, request, closing, batch>>
        BY <2>4 DEF SubscribeControl, sessionVars, requestVars
    <3>2. link[ep] # "absent"
        BY <3>1 DEF OwnersOK
    <3> QED BY <1>0, <1>f, <3>1, <3>2
  <2>5. ASSUME NEW ep \in Endpoints, PushSession(ep)
        PROVE  OwnersOK'
      BY <1>0, <1>f, <2>5 DEF PushSession, sessionVars, requestVars
  <2>6. ASSUME NEW id \in Ids, CloseSession(id)
        PROVE  OwnersOK'
      BY <1>0, <1>f, <2>6 DEF CloseSession, endpointVars, requestVars
  <2> QED BY <1>4, <2>1, <2>2, <2>3, <2>4, <2>5, <2>6 DEF ControlPlane
<1>5. CASE StopCore \/ DetachMonitorRuntime \/ Shutdown
  <2>1. CASE ClearSessions
      BY <1>0, <1>f, <2>1 DEF ClearSessions, requestVars, endpointVars
  <2>2. ASSUME NEW ep \in Endpoints, StopEndpoint(ep)
        PROVE  OwnersOK'
    <3>1. \A o \in subscribed : link'[o] \in {link[o], "stopped"}
        BY <1>0, <2>2 DEF StopEndpoint
    <3> QED BY <1>0, <1>f, <2>2, <3>1 DEF StopEndpoint, sessionVars, requestVars
  <2>3. CASE EndpointsStopped
      BY <1>0, <1>f, <2>3 DEF EndpointsStopped, sessionVars, requestVars
  <2>4. CASE StopCore \/ DetachMonitorRuntime \/ ShutdownAgain \/ CloseMux \/ ResetHandler
    <3>1. \E label \in {"shutdown", "idle", "reset_handler"} :
              pc' = [pc EXCEPT ![Stopper] = label]
        BY <2>4 DEF StopCore, DetachMonitorRuntime, ShutdownAgain, CloseMux, ResetHandler
    <3>2. UNCHANGED <<link, subscribed, ondemand_sessions, endpoint_session_ids, request,
                      closing, batch>>
        BY <2>4 DEF StopCore, DetachMonitorRuntime, ShutdownAgain, CloseMux, ResetHandler,
           sessionVars, requestVars, endpointVars
    <3> QED BY <1>0, <1>f, <3>1, <3>2
  <2> QED BY <1>5, <2>1, <2>2, <2>3, <2>4 DEF Shutdown
<1>6. CASE UNCHANGED vars
    BY <1>f, <1>6 DEF vars
<1> QED BY <1>1, <1>2, <1>3, <1>4, <1>5, <1>6 DEF Next

\* How a session that was there may have gone.
LEMMA SessionEnds ==
    ASSUME IInv, OwnersOK, [Next]_vars, NEW id \in monitor_sessions, id \notin monitor_sessions'
    PROVE  \/ \E ep \in Endpoints : At(ep, "detach") /\ request[ep] = id
           \/ link[destination[id]] = "stopped"
           \/ At(Stopper, "shutdown") /\ At(Stopper, "stop_endpoints")'
<1>1. CASE \E ep \in Endpoints : Callback(ep)
  <2>1. PICK ep \in Endpoints : Callback(ep)
      BY <1>1
  <2>2. CASE Unsubscribe(ep)
      BY <2>2 DEF Unsubscribe, DetachMonitor
  <2>3. CASE AttachMonitor(ep) \/ CreateMonitorTransfer(ep) \/ CreateMonitorTransferBusy(ep)
             \/ InsertSession(ep) \/ RecordSession(ep) \/ ForgetSession(ep) \/ Respond(ep)
      BY <2>3 DEF AttachMonitor, CreateMonitorTransfer, CreateMonitorTransferBusy,
         InsertSession, RecordSession, ForgetSession, Respond, sessionVars
  <2> QED BY <2>1, <2>2, <2>3 DEF Callback
<1>2. ASSUME NEW ep \in Endpoints,
             \/ Accept(ep) \/ Disconnect(ep) \/ ReceiveSubscribe(ep) \/ ReceiveOther(ep)
             \/ \E i \in Ids : ReceiveUnsubscribe(ep, i)
      PROVE  FALSE
    BY <1>2 DEF Accept, Disconnect, ReceiveSubscribe, ReceiveOther, ReceiveUnsubscribe,
       Receive, sessionVars
<1>3. CASE ControlPlane
  <2>1. ASSUME NEW i \in Ids, CloseSession(i) PROVE link[destination[id]] = "stopped"
      BY <2>1 DEF CloseSession, DetachMonitor, OwnersOK, Gone
  <2>2. CASE \/ ProcessControlPlane \/ TakeEndpoints \/ CollectDisconnected \/ ControlPlaneDone
             \/ \E ep \in Endpoints :
                   SubscribeControl(ep) \/ PushSession(ep) \/ DetachSessionsForEndpoint(ep)
      BY <2>2 DEF ProcessControlPlane, TakeEndpoints, CollectDisconnected, ControlPlaneDone,
         SubscribeControl, PushSession, DetachSessionsForEndpoint, sessionVars
  <2> QED BY <1>3, <2>1, <2>2 DEF ControlPlane
<1>4. CASE StopCore \/ DetachMonitorRuntime \/ Shutdown
  <2>1. CASE ClearSessions
    <3>1. pc \in [Threads -> PCs] /\ Stopper \in Threads
        BY DEF IInv, TypeOK, Threads
    <3> QED BY <2>1, <3>1 DEF ClearSessions, At, Goto
  <2>2. CASE \/ StopCore \/ DetachMonitorRuntime \/ ShutdownAgain \/ EndpointsStopped
             \/ CloseMux \/ ResetHandler \/ \E ep \in Endpoints : StopEndpoint(ep)
      BY <2>2 DEF StopCore, DetachMonitorRuntime, ShutdownAgain, EndpointsStopped, CloseMux,
         ResetHandler, StopEndpoint, sessionVars
  <2> QED BY <1>4, <2>1, <2>2 DEF Shutdown
<1>5. CASE UNCHANGED vars
    BY <1>5 DEF vars
<1> QED BY <1>1, <1>2, <1>3, <1>4, <1>5 DEF Next

\* What an endpoint's list, a callback about to add to it, and the loop that took it hold
\* are that endpoint's own sessions.
THEOREM OwnersInvariance == Spec => []OwnersOK
<1>1. Init => OwnersOK
    BY InitOwnersOK
<1>2. IInv /\ OwnersOK /\ [Next]_vars => OwnersOK'
    BY OwnersStep
<1> QED BY <1>1, <1>2, Invariance, PTL DEF Spec

\* Although the loop detaches sessions in steps of their own, and ids that clients name are
\* not checked, a session ends only for one of the three reasons.
THEOREM SessionsEndForReason == Spec => SessionsEndForCause
<1>1. IInv /\ OwnersOK /\ [Next]_vars =>
          [\A id \in monitor_sessions \ monitor_sessions' :
              \/ \E ep \in Endpoints : At(ep, "detach") /\ request[ep] = id
              \/ link[destination[id]] = "stopped"
              \/ At(Stopper, "shutdown")]_vars
    BY SessionEnds
<1> QED BY <1>1, Invariance, OwnersInvariance, PTL DEF Spec, SessionsEndForCause
=============================================================================
