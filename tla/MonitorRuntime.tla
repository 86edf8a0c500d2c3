--------------------------- MODULE MonitorRuntime ---------------------------
(***************************************************************************)
(* The control plane of the bridge: BridgeMonitorRuntime, the request      *)
(* handler it installs on every control endpoint, and the life of the      *)
(* BridgeCore it is attached to.  Its threads:                             *)
(*                                                                         *)
(*   Endpoints   one per control connection accepted by the multiplexer:   *)
(*               the thread that runs the endpoint's receive callback, one *)
(*               request at a time                                         *)
(*   Loop        BridgeCore::cyclic_trigger, which calls                   *)
(*               process_control_plane_once                                *)
(*   Stopper     the caller of BridgeCore::stop or detach_monitor_runtime. *)
(*               In both daemons that is Loop itself                       *)
(*                                                                         *)
(* A critical section under session_mtx_ is one action guarded by the      *)
(* mutex being free; only shutdown, which calls the endpoints while it     *)
(* holds it, takes several steps.  Transfers are the addresses of          *)
(* TransferPdu objects: one that was removed may be used again.            *)
(***************************************************************************)
EXTENDS Naturals, FiniteSets

CONSTANTS
    Endpoints,          \* control endpoints
    Transfers,          \* addresses of monitor transfers
    KeysPerSession,     \* transferable PDU keys of the connection
    MaxSessions,        \* bound on the session ids issued
    Loop, Stopper,
    Free, NoSession

Ids == 0 .. MaxSessions - 1
Threads == Endpoints \cup {Loop, Stopper}

ASSUME RuntimeAssumption ==
    /\ KeysPerSession \in Nat \ {0}
    /\ MaxSessions \in Nat
    /\ {Loop, Stopper} \cap Endpoints = {}
    /\ Free \notin Threads
    /\ NoSession \notin Ids
    /\ IsFiniteSet(Transfers)

VARIABLES
    running,                \* BridgeCore::is_running_
    attached,               \* BridgeCore::monitor_runtime_ is set
    initialized,            \* initialized_
    mux,                    \* ondemand_mux_ is set
    handler,                \* control_handler_ is set
    session_mtx,            \* the holder of session_mtx_ during shutdown, or Free
    link,                   \* of each control endpoint: absent, accepted, running, stopped
    subscribed,             \* endpoints whose control callback is installed
    ondemand_sessions,      \* ondemand_sessions_
    disconnected,           \* disconnected_control_endpoints_
    endpoint_session_ids,   \* endpoint_session_ids_
    monitor_sessions,       \* the keys of monitor_sessions_
    destination,            \* the destination endpoint of each session
    session_transfers,      \* monitor_runtime_sessions_
    next_id,                \* next_monitor_session_id_
    listed,                 \* monitor transfers in the connection's transfer_pdus_
    created,                \* per endpoint, the local vector of attach_monitor
    request,                \* per endpoint, the session id its request is about
    asked_running,          \* history: was the core running when the request came in
    pc,                     \* where each thread is
    batch,                  \* endpoints Loop or Stopper has still to visit
    closing                 \* session ids cleanup has still to detach

coreVars == <<running, attached>>
runtimeVars == <<initialized, mux, handler>>
endpointVars == <<link, subscribed, ondemand_sessions, disconnected>>
sessionVars == <<endpoint_session_ids, monitor_sessions, destination,
                 session_transfers, next_id>>
requestVars == <<created, request, asked_running>>
vars == <<running, attached, initialized, mux, handler, session_mtx, link, subscribed,
          ondemand_sessions, disconnected, endpoint_session_ids, monitor_sessions,
          destination, session_transfers, next_id, listed, created, request,
          asked_running, pc, batch, closing>>

PCs == {"idle",
        "attach", "create", "insert", "record", "detach", "forget", "subscribed", "ok", "error",
        "take", "admit", "push", "cleanup",
        "shutdown", "stop_endpoints", "close_mux", "reset_handler"}

TypeOK ==
    /\ running \in BOOLEAN
    /\ attached \in BOOLEAN
    /\ initialized \in BOOLEAN
    /\ mux \in BOOLEAN
    /\ handler \in BOOLEAN
    /\ session_mtx \in {Free, Stopper}
    /\ link \in [Endpoints -> {"absent", "accepted", "running", "stopped"}]
    /\ subscribed \subseteq Endpoints
    /\ ondemand_sessions \subseteq Endpoints
    /\ disconnected \subseteq Endpoints
    /\ endpoint_session_ids \in [Endpoints -> SUBSET Ids]
    /\ monitor_sessions \subseteq Ids
    /\ destination \in [Ids -> Endpoints \cup {NoSession}]
    /\ session_transfers \in [Ids -> SUBSET Transfers]
    /\ next_id \in 0 .. MaxSessions
    /\ listed \subseteq Transfers
    /\ created \in [Endpoints -> SUBSET Transfers]
    /\ request \in [Endpoints -> Ids \cup {NoSession}]
    /\ asked_running \in [Endpoints -> BOOLEAN]
    /\ pc \in [Threads -> PCs]
    /\ batch \in [{Loop, Stopper} -> SUBSET Endpoints]
    /\ closing \subseteq Ids

\* The core is started and the runtime initialised and attached, as both daemons
\* do before their loop begins.
Init ==
    /\ running = TRUE
    /\ attached = TRUE
    /\ initialized = TRUE
    /\ mux = TRUE
    /\ handler = TRUE
    /\ session_mtx = Free
    /\ link = [ep \in Endpoints |-> "absent"]
    /\ subscribed = {}
    /\ ondemand_sessions = {}
    /\ disconnected = {}
    /\ endpoint_session_ids = [ep \in Endpoints |-> {}]
    /\ monitor_sessions = {}
    /\ destination = [id \in Ids |-> NoSession]
    /\ session_transfers = [id \in Ids |-> {}]
    /\ next_id = 0
    /\ listed = {}
    /\ created = [ep \in Endpoints |-> {}]
    /\ request = [ep \in Endpoints |-> NoSession]
    /\ asked_running = [ep \in Endpoints |-> FALSE]
    /\ pc = [th \in Threads |-> "idle"]
    /\ batch = [th \in {Loop, Stopper} |-> {}]
    /\ closing = {}

At(th, label) == pc[th] = label
Goto(th, label) == pc' = [pc EXCEPT ![th] = label]

-----------------------------------------------------------------------------
(* The multiplexer and the connections it accepts.                          *)

\* The multiplexer accepts a connection and keeps its endpoint for take_endpoints.
Accept(ep) ==
    /\ mux
    /\ link[ep] = "absent"
    /\ link' = [link EXCEPT ![ep] = "accepted"]
    /\ UNCHANGED <<coreVars, runtimeVars, session_mtx, subscribed, ondemand_sessions,
                   disconnected, sessionVars, listed, requestVars, pc, batch, closing>>

\* The client goes away.  A callback that is running finishes all the same.
Disconnect(ep) ==
    /\ link[ep] \in {"accepted", "running"}
    /\ link' = [link EXCEPT ![ep] = "stopped"]
    /\ UNCHANGED <<coreVars, runtimeVars, session_mtx, subscribed, ondemand_sessions,
                   disconnected, sessionVars, listed, requestVars, pc, batch, closing>>

-----------------------------------------------------------------------------
(* The receive callback of a control endpoint.                              *)

\* A request arrives.  subscribe is about no session yet, unsubscribe about any id
\* the client likes.  Queries and requests the handler rejects only get a reply.
Receive(ep, label, id) ==
    /\ ep \in subscribed
    /\ link[ep] = "running"
    /\ At(ep, "idle")
    /\ handler
    /\ request' = [request EXCEPT ![ep] = id]
    /\ asked_running' = [asked_running EXCEPT ![ep] = running]
    /\ Goto(ep, label)
    /\ UNCHANGED <<coreVars, runtimeVars, session_mtx, endpointVars, sessionVars, listed,
                   created, batch, closing>>

ReceiveSubscribe(ep) == Receive(ep, "attach", NoSession)
ReceiveUnsubscribe(ep, id) == Receive(ep, "detach", id)
ReceiveOther(ep) == Receive(ep, "ok", NoSession) \/ Receive(ep, "error", NoSession)

\* Mutant: no running check, on the way of a session without a destination.
AttachMonitorUnchecked(ep) ==
    /\ At(ep, "attach")
    /\ Goto(ep, "insert")
    /\ UNCHANGED <<coreVars, runtimeVars, session_mtx, endpointVars, sessionVars, listed,
                   requestVars, batch, closing>>

\* attach_monitor: the core must be running, and the connection must have keys.
AttachMonitor(ep) ==
    /\ At(ep, "attach")
    /\ Goto(ep, IF running THEN "create" ELSE "error")
    /\ UNCHANGED <<coreVars, runtimeVars, session_mtx, endpointVars, sessionVars, listed,
                   requestVars, batch, closing>>

\* One call of create_monitor_transfer, at a fresh address.
CreateMonitorTransfer(ep) ==
    /\ At(ep, "create")
    /\ running
    /\ \E t \in Transfers \ listed :
          /\ listed' = listed \cup {t}
          /\ created' = [created EXCEPT ![ep] = @ \cup {t}]
    /\ Goto(ep, IF Cardinality(created'[ep]) = KeysPerSession THEN "insert" ELSE "create")
    /\ UNCHANGED <<coreVars, runtimeVars, session_mtx, endpointVars, sessionVars, request,
                   asked_running, batch, closing>>

\* Mutant: the transfers made before the failure are forgotten.
CreateMonitorTransferLeak(ep) ==
    /\ At(ep, "create")
    /\ ~running
    /\ created' = [created EXCEPT ![ep] = {}]
    /\ Goto(ep, "error")
    /\ UNCHANGED <<coreVars, runtimeVars, session_mtx, endpointVars, sessionVars, listed,
                   request, asked_running, batch, closing>>

\* The core was stopped in between: the transfers made so far are taken back.
CreateMonitorTransferBusy(ep) ==
    /\ At(ep, "create")
    /\ ~running
    /\ listed' = listed \ created[ep]
    /\ created' = [created EXCEPT ![ep] = {}]
    /\ Goto(ep, "error")
    /\ UNCHANGED <<coreVars, runtimeVars, session_mtx, endpointVars, sessionVars, request,
                   asked_running, batch, closing>>

\* Mutants: the id is not handed back to the callback; it is the number of sessions.
InsertSessionMute(ep) ==
    /\ At(ep, "insert")
    /\ session_mtx = Free
    /\ next_id < MaxSessions
    /\ next_id' = next_id + 1
    /\ monitor_sessions' = monitor_sessions \cup {next_id}
    /\ destination' = [destination EXCEPT ![next_id] = ep]
    /\ session_transfers' = [session_transfers EXCEPT ![next_id] = created[ep]]
    /\ created' = [created EXCEPT ![ep] = {}]
    /\ Goto(ep, "record")
    /\ UNCHANGED <<coreVars, runtimeVars, session_mtx, endpointVars, endpoint_session_ids,
                   listed, request, asked_running, batch, closing>>

InsertSessionByCount(ep) ==
    LET id == Cardinality(monitor_sessions) IN
    /\ At(ep, "insert")
    /\ session_mtx = Free
    /\ id < MaxSessions
    /\ next_id' = id + 1
    /\ monitor_sessions' = monitor_sessions \cup {id}
    /\ destination' = [destination EXCEPT ![id] = ep]
    /\ session_transfers' = [session_transfers EXCEPT ![id] = created[ep]]
    /\ created' = [created EXCEPT ![ep] = {}]
    /\ request' = [request EXCEPT ![ep] = id]
    /\ Goto(ep, "record")
    /\ UNCHANGED <<coreVars, runtimeVars, session_mtx, endpointVars, endpoint_session_ids,
                   listed, asked_running, batch, closing>>

\* The last part of attach_monitor, under session_mtx_.
InsertSession(ep) ==
    /\ At(ep, "insert")
    /\ session_mtx = Free
    /\ next_id < MaxSessions
    /\ next_id' = next_id + 1
    /\ monitor_sessions' = monitor_sessions \cup {next_id}
    /\ destination' = [destination EXCEPT ![next_id] = ep]
    /\ session_transfers' = [session_transfers EXCEPT ![next_id] = created[ep]]
    /\ created' = [created EXCEPT ![ep] = {}]
    /\ request' = [request EXCEPT ![ep] = next_id]
    /\ Goto(ep, "record")
    /\ UNCHANGED <<coreVars, runtimeVars, session_mtx, endpointVars, endpoint_session_ids,
                   listed, asked_running, batch, closing>>

\* Back in the callback: the id is noted for the endpoint.
RecordSession(ep) ==
    /\ At(ep, "record")
    /\ session_mtx = Free
    /\ endpoint_session_ids' = [endpoint_session_ids EXCEPT ![ep] = @ \cup {request[ep]}]
    /\ Goto(ep, "subscribed")
    /\ UNCHANGED <<coreVars, runtimeVars, session_mtx, endpointVars, monitor_sessions,
                   destination, session_transfers, next_id, listed, requestVars, batch,
                   closing>>

\* detach_monitor, all of it under session_mtx_; an unknown id changes nothing.
DetachMonitor(id) ==
    /\ session_mtx = Free
    /\ monitor_sessions' = monitor_sessions \ {id}
    /\ listed' = listed \ session_transfers[id]
    /\ session_transfers' = [session_transfers EXCEPT ![id] = {}]
    /\ destination' = [destination EXCEPT ![id] = NoSession]
    /\ UNCHANGED <<session_mtx, next_id>>

Unsubscribe(ep) ==
    /\ At(ep, "detach")
    /\ DetachMonitor(request[ep])
    /\ Goto(ep, "forget")
    /\ UNCHANGED <<coreVars, runtimeVars, endpointVars, endpoint_session_ids, requestVars,
                   batch, closing>>

\* Back in the callback: the id is struck off this endpoint's list.
ForgetSession(ep) ==
    /\ At(ep, "forget")
    /\ session_mtx = Free
    /\ endpoint_session_ids' = [endpoint_session_ids EXCEPT ![ep] = @ \ {request[ep]}]
    /\ Goto(ep, "ok")
    /\ UNCHANGED <<coreVars, runtimeVars, session_mtx, endpointVars, monitor_sessions,
                   destination, session_transfers, next_id, listed, requestVars, batch,
                   closing>>

\* The response is sent; whether it arrives makes no difference here.
Respond(ep) ==
    /\ pc[ep] \in {"subscribed", "ok", "error"}
    /\ asked_running' = [asked_running EXCEPT ![ep] = FALSE]
    /\ request' = [request EXCEPT ![ep] = NoSession]
    /\ Goto(ep, "idle")
    /\ UNCHANGED <<coreVars, runtimeVars, session_mtx, endpointVars, sessionVars, listed,
                   created, batch, closing>>

Callback(ep) ==
    \/ AttachMonitor(ep) \/ CreateMonitorTransfer(ep) \/ CreateMonitorTransferBusy(ep)
    \/ InsertSession(ep) \/ RecordSession(ep) \/ Unsubscribe(ep) \/ ForgetSession(ep)
    \/ Respond(ep)

-----------------------------------------------------------------------------
(* process_control_plane_once, called at the end of cyclic_trigger.         *)

ProcessControlPlane ==
    /\ At(Loop, "idle")
    /\ running
    /\ attached
    /\ initialized
    /\ mux
    /\ Goto(Loop, "take")
    /\ UNCHANGED <<coreVars, runtimeVars, session_mtx, endpointVars, sessionVars, listed,
                   requestVars, batch, closing>>

\* take_endpoints hands over what the multiplexer has accepted; a multiplexer that
\* was reset since the check above hands over nothing.
TakeEndpoints ==
    /\ At(Loop, "take")
    /\ batch' = [batch EXCEPT ![Loop] =
          IF mux THEN {ep \in Endpoints : link[ep] # "absent"
                                          /\ ep \notin subscribed} ELSE {}]
    /\ Goto(Loop, "admit")
    /\ UNCHANGED <<coreVars, runtimeVars, session_mtx, endpointVars, sessionVars, listed,
                   requestVars, closing>>

\* The callback is installed first ...
SubscribeControl(ep) ==
    /\ At(Loop, "admit")
    /\ ep \in batch[Loop]
    /\ subscribed' = subscribed \cup {ep}
    /\ link' = [link EXCEPT ![ep] = IF @ = "accepted" THEN "running" ELSE @]
    /\ Goto(Loop, "push")
    /\ UNCHANGED <<coreVars, runtimeVars, session_mtx, ondemand_sessions, disconnected,
                   sessionVars, listed, requestVars, batch, closing>>

\* ... and the endpoint is kept afterwards.
PushSession(ep) ==
    /\ At(Loop, "push")
    /\ ep \in batch[Loop] \cap subscribed
    /\ session_mtx = Free
    /\ ondemand_sessions' = ondemand_sessions \cup {ep}
    /\ batch' = [batch EXCEPT ![Loop] = @ \ {ep}]
    /\ Goto(Loop, "admit")
    /\ UNCHANGED <<coreVars, runtimeVars, session_mtx, link, subscribed, disconnected,
                   sessionVars, listed, requestVars, closing>>

\* Mutant: the endpoints are marked, but their sessions are not looked for.
CollectDisconnectedOnly ==
    /\ At(Loop, "admit")
    /\ batch[Loop] = {}
    /\ session_mtx = Free
    /\ disconnected' = disconnected \cup
          {ep \in ondemand_sessions \ disconnected : link[ep] # "running"}
    /\ Goto(Loop, "cleanup")
    /\ UNCHANGED <<coreVars, runtimeVars, session_mtx, link, subscribed, ondemand_sessions,
                   sessionVars, listed, requestVars, batch, closing>>

\* cleanup_disconnected_sessions_: endpoints found stopped are marked, once and for
\* all, under the mutex; their sessions are detached afterwards.
CollectDisconnected ==
    LET gone == {ep \in ondemand_sessions \ disconnected : link[ep] # "running"} IN
    /\ At(Loop, "admit")
    /\ batch[Loop] = {}
    /\ session_mtx = Free
    /\ disconnected' = disconnected \cup gone
    /\ batch' = [batch EXCEPT ![Loop] = gone]
    /\ Goto(Loop, "cleanup")
    /\ UNCHANGED <<coreVars, runtimeVars, session_mtx, link, subscribed, ondemand_sessions,
                   sessionVars, listed, requestVars, closing>>

\* Mutant: the list is erased before its ids are taken.
EraseSessionsForEndpoint(ep) ==
    /\ At(Loop, "cleanup")
    /\ closing = {}
    /\ ep \in batch[Loop]
    /\ session_mtx = Free
    /\ endpoint_session_ids' = [endpoint_session_ids EXCEPT ![ep] = {}]
    /\ batch' = [batch EXCEPT ![Loop] = @ \ {ep}]
    /\ UNCHANGED <<coreVars, runtimeVars, session_mtx, endpointVars, monitor_sessions,
                   destination, session_transfers, next_id, listed, requestVars, pc, closing>>

\* detach_sessions_for_endpoint_ takes the endpoint's list ...
DetachSessionsForEndpoint(ep) ==
    /\ At(Loop, "cleanup")
    /\ closing = {}
    /\ ep \in batch[Loop]
    /\ session_mtx = Free
    /\ closing' = endpoint_session_ids[ep]
    /\ endpoint_session_ids' = [endpoint_session_ids EXCEPT ![ep] = {}]
    /\ batch' = [batch EXCEPT ![Loop] = @ \ {ep}]
    /\ UNCHANGED <<coreVars, runtimeVars, session_mtx, endpointVars, monitor_sessions,
                   destination, session_transfers, next_id, listed, requestVars, pc>>

\* ... and detaches the sessions on it one at a time.
CloseSession(id) ==
    /\ At(Loop, "cleanup")
    /\ id \in closing
    /\ DetachMonitor(id)
    /\ closing' = closing \ {id}
    /\ UNCHANGED <<coreVars, runtimeVars, endpointVars, endpoint_session_ids, requestVars,
                   pc, batch>>

ControlPlaneDone ==
    /\ At(Loop, "cleanup")
    /\ closing = {}
    /\ batch[Loop] = {}
    /\ Goto(Loop, "idle")
    /\ UNCHANGED <<coreVars, runtimeVars, session_mtx, endpointVars, sessionVars, listed,
                   requestVars, batch, closing>>

ControlPlane ==
    \/ ProcessControlPlane \/ TakeEndpoints \/ CollectDisconnected
    \/ ControlPlaneDone
    \/ \E ep \in Endpoints :
          SubscribeControl(ep) \/ PushSession(ep) \/ DetachSessionsForEndpoint(ep)
    \/ \E id \in Ids : CloseSession(id)

-----------------------------------------------------------------------------
(* BridgeCore::stop, detach_monitor_runtime and the shutdown they call.     *)

StopCore ==
    /\ At(Stopper, "idle")
    /\ running
    /\ running' = FALSE
    /\ Goto(Stopper, IF attached THEN "shutdown" ELSE "idle")
    /\ UNCHANGED <<attached, runtimeVars, session_mtx, endpointVars, sessionVars, listed,
                   requestVars, batch, closing>>

DetachMonitorRuntime ==
    /\ At(Stopper, "idle")
    /\ attached
    /\ attached' = FALSE
    /\ Goto(Stopper, "shutdown")
    /\ UNCHANGED <<running, runtimeVars, session_mtx, endpointVars, sessionVars, listed,
                   requestVars, batch, closing>>

ShutdownAgain ==
    /\ At(Stopper, "shutdown")
    /\ ~initialized
    /\ Goto(Stopper, "idle")
    /\ UNCHANGED <<coreVars, runtimeVars, session_mtx, endpointVars, sessionVars, listed,
                   requestVars, batch, closing>>

\* All sessions go; session_mtx_ stays locked while the endpoints are stopped.
ClearSessions ==
    /\ At(Stopper, "shutdown")
    /\ initialized
    /\ session_mtx = Free
    /\ session_mtx' = Stopper
    /\ listed' = listed \ UNION {session_transfers[id] : id \in Ids}
    /\ session_transfers' = [id \in Ids |-> {}]
    /\ destination' = [id \in Ids |-> NoSession]
    /\ monitor_sessions' = {}
    /\ endpoint_session_ids' = [ep \in Endpoints |-> {}]
    /\ batch' = [batch EXCEPT ![Stopper] = ondemand_sessions \ disconnected]
    /\ Goto(Stopper, "stop_endpoints")
    /\ UNCHANGED <<coreVars, runtimeVars, endpointVars, next_id, requestVars, closing>>

\* Mutant: the endpoint is let go without being stopped.
ReleaseEndpoint(ep) ==
    /\ At(Stopper, "stop_endpoints")
    /\ ep \in batch[Stopper]
    /\ batch' = [batch EXCEPT ![Stopper] = @ \ {ep}]
    /\ UNCHANGED <<coreVars, runtimeVars, session_mtx, endpointVars, sessionVars, listed,
                   requestVars, pc, closing>>

StopEndpoint(ep) ==
    /\ At(Stopper, "stop_endpoints")
    /\ ep \in batch[Stopper]
    /\ link' = [link EXCEPT ![ep] = "stopped"]
    /\ batch' = [batch EXCEPT ![Stopper] = @ \ {ep}]
    /\ UNCHANGED <<coreVars, runtimeVars, session_mtx, subscribed, ondemand_sessions,
                   disconnected, sessionVars, listed, requestVars, pc, closing>>

EndpointsStopped ==
    /\ At(Stopper, "stop_endpoints")
    /\ batch[Stopper] = {}
    /\ session_mtx' = Free
    /\ ondemand_sessions' = {}
    /\ disconnected' = {}
    /\ Goto(Stopper, "close_mux")
    /\ UNCHANGED <<coreVars, runtimeVars, link, subscribed, sessionVars, listed,
                   requestVars, batch, closing>>

CloseMux ==
    /\ At(Stopper, "close_mux")
    /\ mux' = FALSE
    /\ Goto(Stopper, "reset_handler")
    /\ UNCHANGED <<coreVars, initialized, handler, session_mtx, endpointVars, sessionVars,
                   listed, requestVars, batch, closing>>

\* Mutant: the runtime stays initialised.
ResetHandlerOnly ==
    /\ At(Stopper, "reset_handler")
    /\ handler' = FALSE
    /\ Goto(Stopper, "idle")
    /\ UNCHANGED <<coreVars, initialized, mux, session_mtx, endpointVars, sessionVars,
                   listed, requestVars, batch, closing>>

ResetHandler ==
    /\ At(Stopper, "reset_handler")
    /\ handler' = FALSE
    /\ initialized' = FALSE
    /\ Goto(Stopper, "idle")
    /\ UNCHANGED <<coreVars, mux, session_mtx, endpointVars, sessionVars, listed,
                   requestVars, batch, closing>>

Shutdown ==
    \/ ShutdownAgain \/ ClearSessions \/ EndpointsStopped \/ CloseMux \/ ResetHandler
    \/ \E ep \in Endpoints : StopEndpoint(ep)

-----------------------------------------------------------------------------
Next ==
    \/ \E ep \in Endpoints :
          \/ Accept(ep)
          \/ Disconnect(ep)
          \/ ReceiveSubscribe(ep)
          \/ ReceiveOther(ep)
          \/ \E id \in Ids : ReceiveUnsubscribe(ep, id)
          \/ Callback(ep)
    \/ ControlPlane
    \/ StopCore
    \/ DetachMonitorRuntime
    \/ Shutdown

Spec == Init /\ [][Next]_vars

\* Fairness.  The threads run; a daemon whose core runs and whose runtime is attached
\* calls cyclic_trigger again; session_mtx_ is held for finitely many steps.
Fairness ==
    /\ \A ep \in Endpoints : WF_vars(Callback(ep))
    /\ WF_vars(ControlPlane)
    /\ WF_vars(Shutdown)

FairSpec == Spec /\ Fairness

-----------------------------------------------------------------------------
(* Properties.                                                              *)

\* Every monitor transfer in the connection's list belongs to exactly one session,
\* or to exactly one attach_monitor that has yet to create its session: no session
\* or failed attach leaves a transfer behind, and none is removed under another.
TransfersAccounted ==
    /\ \A t \in Transfers :
          t \in listed <=> \/ \E id \in Ids : t \in session_transfers[id]
                          \/ \E ep \in Endpoints : t \in created[ep]
    /\ \A id1, id2 \in Ids : id1 # id2 => session_transfers[id1] \cap session_transfers[id2] = {}
    /\ \A ep1, ep2 \in Endpoints : ep1 # ep2 => created[ep1] \cap created[ep2] = {}
    /\ \A id \in Ids, ep \in Endpoints : session_transfers[id] \cap created[ep] = {}

\* The way to every session is known to whoever has to close it when its endpoint
\* goes away: the id is on the endpoint's list, or its callback is about to put it
\* there, or the bridge loop is about to detach it.
SessionsTracked ==
    \A id \in monitor_sessions :
        LET ep == destination[id] IN
        \/ id \in endpoint_session_ids[ep]
        \/ At(ep, "record") /\ request[ep] = id
        \/ id \in closing

\* A subscribe request that arrives after stop() creates no session.
LateSubscribeRejected ==
    [][\A ep \in Endpoints : InsertSession(ep) => asked_running[ep]]_vars

\* A session ends only because a client asked for it, because the endpoint it sends to has
\* gone, or because the runtime shuts down: what the loop detaches long after it looked
\* is never the session of a client that is still connected
\* (bridge_monitor_runtime.cpp:319-357).
SessionsEndForCause ==
    [][\A id \in monitor_sessions \ monitor_sessions' :
          \/ \E ep \in Endpoints : At(ep, "detach") /\ request[ep] = id
          \/ link[destination[id]] = "stopped"
          \/ At(Stopper, "shutdown")]_vars

\* After shutdown by the bridge loop no control endpoint is left running or kept.
ShutdownLeavesNoEndpoint ==
    ~initialized => ondemand_sessions = {} /\ \A ep \in subscribed : link[ep] = "stopped"

\* A session whose endpoint has gone, no request of it being in progress and its
\* disconnection not yet noticed, is closed.
DisconnectClosesSessions ==
    \A ep \in Endpoints :
        (link[ep] = "stopped" /\ At(ep, "idle") /\ ep \in ondemand_sessions \ disconnected)
            ~> (\A id \in monitor_sessions : destination[id] # ep)

\* Shutdown comes to its end.
ShutdownReturns ==
    At(Stopper, "shutdown") ~> ~initialized

\* A session whose endpoint was cleaned up is closed, once nothing runs that could
\* still close it.
NoZombieSession ==
    \A ep \in disconnected :
        At(ep, "idle") /\ At(Loop, "idle") =>
            \A id \in monitor_sessions : destination[id] # ep

\* Every step is one the abstract life of sessions allows.
Sessions == INSTANCE MonitorSessions
    WITH issued <- next_id, open <- monitor_sessions, feeds <- session_transfers

ImplementsSessions == Sessions!Spec
=============================================================================
