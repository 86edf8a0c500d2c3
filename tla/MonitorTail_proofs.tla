------------------------- MODULE MonitorTail_proofs -------------------------
(***************************************************************************)
(* A tail prints the PDUs of a session that is open: the proof, for any    *)
(* number of clients, sessions and keys.  Two invariants carry it.  What a *)
(* client of this program, or the callback that serves it, knows as the id *)
(* of a session is an id that was handed to that client, so that it can    *)
(* ask for no other client's session to be closed; and what a tail was     *)
(* told, or is being told, about its session is open.                      *)
(***************************************************************************)
EXTENDS MonitorCli_proofs

\* Clients that may name any id at all.
Foreign(ep) == command[ep] \in {"unsubscribe", "other"}

\* The runtime has not begun to shut down.
Up == initialized /\ pc[Stopper] \notin {"stop_endpoints", "close_mux", "reset_handler"}

Undisturbed(ep) ==
    /\ link[ep] # "stopped" /\ Up
    /\ \A other \in Endpoints : ~Foreign(other)

\* The ids a subscribe of ep was answered with, or is about to be ...
Told(ep, id) ==
    \/ /\ latest_response[ep] # Nothing
       /\ latest_response[ep].type = "subscribed" /\ latest_response[ep].id = id
    \/ \E i \in 1 .. Len(responses[ep]) :
          responses[ep][i].type = "subscribed" /\ responses[ep][i].id = id
    \/ pc[ep] \in {"record", "subscribed"} /\ request[ep] = id

\* ... and all those by which it, or the callback on its behalf, may name a session.
Named(ep, id) ==
    \/ Told(ep, id)
    \/ session_id[ep] = id
    \/ \E i \in 1 .. Len(requests[ep]) :
          requests[ep][i].type = "unsubscribe" /\ requests[ep][i].id = id
    \/ pc[ep] = "detach" /\ request[ep] = id

NamesOK ==
    \A ep \in Endpoints :
        ~Foreign(ep) => \A id \in Ids : Named(ep, id) => Mine(ep, id)

\* While a tail subscribes and prints, what it was told is open.
Held(ep, id) == Told(ep, id) \/ (cli_pc[ep] = "tail" /\ session_id[ep] = id)

OpenFor(ep, id) == id \in monitor_sessions /\ destination[id] = ep

OpenAt(ep) ==
    asking[ep] = "subscribe" /\ Running(ep) =>
        \A id \in Ids \cup {NoSession} : Held(ep, id) => OpenFor(ep, id)

OpenOK ==
    \A ep \in Endpoints : command[ep] = "tail" /\ Undisturbed(ep) => OpenAt(ep)

LEMMA InitNamesOK == CliInit => NamesOK /\ OpenOK
<1> SUFFICES ASSUME CliInit PROVE NamesOK /\ OpenOK
    OBVIOUS
<1>1. ASSUME NEW ep \in Endpoints, NEW id
      PROVE  ~Told(ep, id) /\ pc[ep] = "idle" /\ cli_pc[ep] = "start" /\ Len(requests[ep]) = 0
  <2>1. latest_response[ep] = Nothing /\ Len(responses[ep]) = 0 /\ pc[ep] = "idle"
        /\ cli_pc[ep] = "start" /\ Len(requests[ep]) = 0
      BY DEF CliInit, Init, Threads
  <2> QED BY <2>1 DEF Told
<1>2. \A ep \in Endpoints : ~Foreign(ep) => session_id[ep] \notin Ids
    BY RuntimeAssumption DEF CliInit, Foreign, RuntimeAssumption
<1> QED BY <1>1, <1>2 DEF NamesOK, Named, OpenOK, OpenAt, Held

-----------------------------------------------------------------------------
(* What one step adds.                                                     *)

LEMMA CommandStays ==
    ASSUME [CliNext]_allVars
    PROVE  command' = command
<1>1. ASSUME NEW o \in Endpoints, ClientStep(o)
      PROVE  command' = command
    BY <1>1 DEF ClientStep, Start, Main, StopTail, ReceiveResponse, LoseRequest, LoseResponse,
       BeginRequest, SendRequest, Timeout, TakeResponse, TailListed, TailSubscribed,
       TailUnsubscribes, Exit, clientVars
<1>2. ASSUME NEW o \in Endpoints, Serve(o) \/ Reply(o)
      PROVE  command' = command
    BY <1>2 DEF Serve, Reply, clientVars
<1>3. CASE UNCHANGED cliVars \/ UNCHANGED allVars
    BY <1>3 DEF cliVars, allVars
<1> QED BY <1>1, <1>2, <1>3, StepKinds

\* The callback creates a session.
Inserts(ep) == pc[ep] = "insert" /\ pc'[ep] = "record"

\* A step that is not ep's leaves all of it alone.
LEMMA SameNames ==
    ASSUME NEW ep \in Endpoints, Same(ep)
    PROVE  \A id : /\ Told(ep, id)' <=> Told(ep, id)
                   /\ Named(ep, id)' <=> Named(ep, id)
                   /\ Held(ep, id)' <=> Held(ep, id)
BY DEF Same, Told, Named, Held

\* The tail of a sequence, and a sequence with one more element.
LEMMA TailElements ==
    ASSUME NEW S, NEW q \in Seq(S), q # <<>>
    PROVE  /\ Head(q) = q[1] /\ 1 \in 1 .. Len(q)
           /\ \A i \in 1 .. Len(Tail(q)) : i + 1 \in 1 .. Len(q) /\ Tail(q)[i] = q[i + 1]
OBVIOUS

LEMMA AppendElements ==
    ASSUME NEW S, NEW q \in Seq(S), NEW x \in S
    PROVE  \A i \in 1 .. Len(Append(q, x)) :
              \/ i \in 1 .. Len(q) /\ Append(q, x)[i] = q[i]
              \/ Append(q, x)[i] = x
OBVIOUS

\* What a client says about sessions comes from what it was told.
LEMMA ClientNames ==
    ASSUME IInv, CliInv, NEW ep \in Endpoints, ClientStep(ep), NEW id
    PROVE  /\ Told(ep, id)' => Told(ep, id)
           /\ Named(ep, id)' => Named(ep, id)
           /\ Held(ep, id)' => Held(ep, id)
<1>0. pc'[ep] = pc[ep] /\ request'[ep] = request[ep]
    BY ClientStepKeepsRuntime DEF vars
<1>1. /\ requests \in [Endpoints -> Seq(Requests)] /\ responses \in [Endpoints -> Seq(Responses)]
      /\ latest_response \in [Endpoints -> Responses \cup {Nothing}]
      /\ session_id \in [Endpoints -> Ids \cup {NoSession}]
      /\ cli_pc \in [Endpoints -> CliPCs] /\ asking \in [Endpoints -> RequestTypes]
      /\ asked \in [Endpoints -> Nat]
    BY DEF CliInv, CliTypeOK
<1> USE DEF Told, Named, Held
<1>2. CASE \/ Start(ep) \/ Timeout(ep) \/ TakeResponse(ep) \/ TailListed(ep)
           \/ TailUnsubscribes(ep) \/ Exit(ep) \/ StopTail(ep)
  <2>1. /\ UNCHANGED <<session_id, latest_response, requests, responses>>
        /\ cli_pc'[ep] # "tail"
      BY <1>1, <1>2 DEF Start, Timeout, TakeResponse, TailListed, TailUnsubscribes, Exit,
         StopTail, clientVars, wireVars, CliGoto, Return
  <2> QED BY <1>0, <2>1
<1>3. CASE BeginRequest(ep)
  <2>1. /\ UNCHANGED <<session_id, requests, responses>>
        /\ cli_pc'[ep] # "tail" /\ latest_response'[ep] = Nothing
      BY <1>1, <1>3 DEF BeginRequest, wireVars, CliGoto
  <2> QED BY <1>0, <2>1
<1>4. CASE SendRequest(ep)
  <2> DEFINE r == [type |-> asking[ep], serial |-> asked[ep],
                   id |-> IF asking[ep] = "unsubscribe" THEN session_id[ep] ELSE NoSession]
  <2>1. r \in Requests /\ (r.type = "unsubscribe" => r.id = session_id[ep])
      BY <1>1 DEF Requests
  <2>2. /\ UNCHANGED <<session_id, latest_response, responses>> /\ cli_pc'[ep] # "tail"
        /\ requests'[ep] = Append(requests[ep], r)
      BY <1>1, <1>4 DEF SendRequest, clientVars, CliGoto
  <2> HIDE DEF r
  <2>3. \A i \in 1 .. Len(requests'[ep]) :
            \/ i \in 1 .. Len(requests[ep]) /\ requests'[ep][i] = requests[ep][i]
            \/ requests'[ep][i] = r
      BY <1>1, <2>1, <2>2, AppendElements
  <2> QED BY <1>0, <2>1, <2>2, <2>3
<1>5. CASE TailSubscribed(ep)
  <2>1. /\ UNCHANGED <<latest_response, requests, responses>>
        /\ latest_response[ep] # Nothing
        /\ \/ /\ latest_response[ep].type = "subscribed"
              /\ session_id'[ep] = latest_response[ep].id
           \/ session_id'[ep] = session_id[ep] /\ cli_pc'[ep] # "tail"
      BY <1>1, <1>5 DEF TailSubscribed, wireVars, CliGoto, Return
  <2> QED BY <1>0, <2>1
<1>6. CASE ReceiveResponse(ep)
  <2>1. /\ UNCHANGED <<session_id, cli_pc, requests>> /\ responses[ep] # <<>>
        /\ latest_response'[ep] = Head(responses[ep]) /\ responses'[ep] = Tail(responses[ep])
      BY <1>1, <1>6 DEF ReceiveResponse, clientVars
  <2>2. /\ Head(responses[ep]) = responses[ep][1] /\ 1 \in 1 .. Len(responses[ep])
        /\ \A i \in 1 .. Len(responses'[ep]) :
              i + 1 \in 1 .. Len(responses[ep]) /\ responses'[ep][i] = responses[ep][i + 1]
      BY <1>1, <2>1, TailElements
  <2>3. Told(ep, id)' => Told(ep, id)
      BY <1>0, <2>1, <2>2
  <2> QED BY <1>0, <2>1, <2>3
<1>7. CASE LoseResponse(ep)
  <2>1. /\ UNCHANGED <<session_id, cli_pc, requests, latest_response>> /\ responses[ep] # <<>>
        /\ responses'[ep] = Tail(responses[ep])
      BY <1>1, <1>7 DEF LoseResponse, clientVars
  <2>2. \A i \in 1 .. Len(responses'[ep]) :
            i + 1 \in 1 .. Len(responses[ep]) /\ responses'[ep][i] = responses[ep][i + 1]
      BY <1>1, <2>1, TailElements
  <2>3. Told(ep, id)' => Told(ep, id)
      BY <1>0, <2>1, <2>2
  <2> QED BY <1>0, <2>1, <2>3
<1>8. CASE LoseRequest(ep)
  <2>1. /\ UNCHANGED <<session_id, cli_pc, responses, latest_response>> /\ requests[ep] # <<>>
        /\ requests'[ep] = Tail(requests[ep])
      BY <1>1, <1>8 DEF LoseRequest, clientVars
  <2>2. \A i \in 1 .. Len(requests'[ep]) :
            i + 1 \in 1 .. Len(requests[ep]) /\ requests'[ep][i] = requests[ep][i + 1]
      BY <1>1, <2>1, TailElements
  <2>3. Told(ep, id)' => Told(ep, id)
      BY <1>0, <2>1
  <2> QED BY <1>0, <2>1, <2>2, <2>3
<1> QED BY <1>2, <1>3, <1>4, <1>5, <1>6, <1>7, <1>8 DEF ClientStep, Main

\* The callback takes an id from the request and answers with the one it was about.
LEMMA CallbackNames ==
    ASSUME IInv, CliInv, NEW ep \in Endpoints, Serve(ep) \/ Reply(ep), NEW id
    PROVE  /\ Told(ep, id)' => Told(ep, id)
           /\ Named(ep, id)' => Named(ep, id)
           /\ Held(ep, id)' => Held(ep, id)
<1>1. /\ requests \in [Endpoints -> Seq(Requests)] /\ responses \in [Endpoints -> Seq(Responses)]
      /\ pc \in [Threads -> PCs] /\ ep \in Threads
      /\ request \in [Endpoints -> Ids \cup {NoSession}] /\ serving \in [Endpoints -> Nat]
    BY DEF CliInv, CliTypeOK, IInv, TypeOK, Threads
<1>2. UNCHANGED <<session_id, cli_pc, latest_response>>
    BY DEF Serve, Reply, clientVars
<1> USE DEF Told, Named, Held
<1>3. CASE Serve(ep)
  <2>1. /\ requests[ep] # <<>> /\ requests'[ep] = Tail(requests[ep]) /\ UNCHANGED responses
      BY <1>1, <1>3 DEF Serve
  <2>2. \/ pc'[ep] \in {"attach", "ok", "error"}
        \/ /\ pc'[ep] = "detach" /\ request'[ep] = Head(requests[ep]).id
           /\ Head(requests[ep]).type = "unsubscribe"
      BY <1>1, <1>3 DEF Serve, ReceiveOther, ReceiveSubscribe, ReceiveUnsubscribe, Receive, Goto
  <2>3. /\ Head(requests[ep]) = requests[ep][1] /\ 1 \in 1 .. Len(requests[ep])
        /\ \A i \in 1 .. Len(requests'[ep]) :
              i + 1 \in 1 .. Len(requests[ep]) /\ requests'[ep][i] = requests[ep][i + 1]
      BY <1>1, <2>1, TailElements
  <2>4. Told(ep, id)' => Told(ep, id)
      BY <1>2, <2>1, <2>2
  <2> QED BY <1>2, <2>1, <2>2, <2>3, <2>4
<1>4. CASE Reply(ep)
  <2> DEFINE r == [type |-> pc[ep], id |-> request[ep], serial |-> serving[ep]]
  <2>1. r \in Responses /\ r.type = pc[ep] /\ r.id = request[ep]
      BY <1>1, <1>4 DEF Reply, Respond, Responses, ResponseTypes
  <2>2. /\ responses'[ep] \in {responses[ep], Append(responses[ep], r)}
        /\ UNCHANGED requests /\ pc'[ep] = "idle"
      BY <1>1, <1>4 DEF Reply, Respond, Goto
  <2> HIDE DEF r
  <2>3. \A i \in 1 .. Len(responses'[ep]) :
            \/ i \in 1 .. Len(responses[ep]) /\ responses'[ep][i] = responses[ep][i]
            \/ responses'[ep][i] = r
      BY <1>1, <2>1, <2>2, AppendElements
  <2>4. Told(ep, id)' => Told(ep, id)
      BY <1>2, <2>1, <2>2, <2>3
  <2> QED BY <1>2, <2>2, <2>4
<1> QED BY <1>3, <1>4

\* Altogether, a new name is that of the session the callback has just created.
LEMMA NewNames ==
    ASSUME IInv, CliInv, [CliNext]_allVars, NEW ep \in Endpoints, command[ep] # "other", NEW id
    PROVE  /\ Named(ep, id)' => Named(ep, id) \/ (Inserts(ep) /\ request'[ep] = id)
           /\ Held(ep, id)' => Held(ep, id) \/ (Inserts(ep) /\ request'[ep] = id)
<1>1. ASSUME NEW o \in Endpoints, ClientStep(o) \/ Serve(o) \/ Reply(o)
      PROVE  /\ Named(ep, id)' => Named(ep, id)
             /\ Held(ep, id)' => Held(ep, id)
  <2>1. CASE o = ep
      BY <1>1, <2>1, ClientNames, CallbackNames
  <2>2. CASE o # ep
      BY <1>1, <2>2, OtherClientsStill, SameNames
  <2> QED BY <2>1, <2>2
<1>2. CASE RuntimeStep /\ UNCHANGED cliVars
  <2>1. /\ session_id'[ep] = session_id[ep] /\ cli_pc'[ep] = cli_pc[ep]
        /\ latest_response'[ep] = latest_response[ep]
        /\ requests'[ep] = requests[ep] /\ responses'[ep] = responses[ep]
      BY <1>2 DEF cliVars
  <2>2. \/ pc'[ep] = pc[ep] /\ request'[ep] = request[ep]
        \/ pc'[ep] \in {"create", "insert", "error", "forget", "ok"}
        \/ pc[ep] = "record" /\ pc'[ep] = "subscribed" /\ request'[ep] = request[ep]
        \/ Inserts(ep)
      BY <1>2, RuntimeStepAdvances DEF Still, CallbackStep, Inserts
  <2>3. Told(ep, id)' => Told(ep, id) \/ (Inserts(ep) /\ request'[ep] = id)
      BY <2>1, <2>2 DEF Told, Inserts
  <2> QED BY <2>1, <2>2, <2>3 DEF Named, Held, Inserts
<1>3. CASE UNCHANGED allVars
    BY <1>3, SameNames DEF Same, allVars, vars, cliVars
<1> QED BY <1>1, <1>2, <1>3, StepKinds
-----------------------------------------------------------------------------
(* The two invariants.                                                     *)

LEMMA NamesStep ==
    ASSUME IInv, CliInv, OwnersOK', NamesOK, [CliNext]_allVars
    PROVE  NamesOK'
<1> SUFFICES ASSUME NEW ep \in Endpoints, ~Foreign(ep)', NEW id \in Ids, Named(ep, id)'
             PROVE  Mine(ep, id)'
    BY DEF NamesOK
<1>1. ~Foreign(ep) /\ command[ep] # "other"
    BY CommandStays DEF Foreign
<1>2. CASE Named(ep, id)
  <2>1. Mine(ep, id)
      BY <1>1, <1>2 DEF NamesOK
  <2> QED BY <2>1, ImplementsStep, StepSessionsStay, OwnersStable
<1>3. CASE Inserts(ep) /\ request'[ep] = id
    BY <1>3 DEF Inserts, OwnersOK, At, Mine
<1> QED BY <1>1, <1>2, <1>3, NewNames

\* The id the callback gets back is that of an open session of its endpoint.
LEMMA InsertOpens ==
    ASSUME IInv, [Next]_vars, NEW ep \in Endpoints, Inserts(ep)
    PROVE  OpenFor(ep, request[ep])'
<1>1. /\ pc \in [Threads -> PCs] /\ Endpoints \subseteq Threads /\ Loop \notin Endpoints
      /\ Stopper \notin Endpoints /\ {Loop, Stopper} \subseteq Threads
      /\ request \in [Endpoints -> Ids \cup {NoSession}]
      /\ destination \in [Ids -> Endpoints \cup {NoSession}]
    BY RuntimeAssumption DEF IInv, TypeOK, Threads, RuntimeAssumption
<1> USE <1>1 DEF Inserts, Goto, At
<1>2. ASSUME NEW e \in Endpoints, Callback(e)
      PROVE  InsertSession(ep)
  <2>1. e = ep
    <3>1. \E label \in PCs : pc' = [pc EXCEPT ![e] = label]
        BY <1>2 DEF Callback, AttachMonitor, CreateMonitorTransfer, CreateMonitorTransferBusy,
           InsertSession, RecordSession, Unsubscribe, ForgetSession, Respond, PCs
    <3> QED BY <3>1
  <2> QED BY <1>2, <2>1 DEF Callback, AttachMonitor, CreateMonitorTransfer,
          CreateMonitorTransferBusy, RecordSession, Unsubscribe, ForgetSession, Respond
<1>3. ASSUME NEW e \in Endpoints,
             \/ Accept(e) \/ Disconnect(e) \/ ReceiveSubscribe(e) \/ ReceiveOther(e)
             \/ \E id \in Ids : ReceiveUnsubscribe(e, id)
      PROVE  FALSE
    BY <1>3 DEF Accept, Disconnect, ReceiveSubscribe, ReceiveOther, ReceiveUnsubscribe, Receive
<1>4. CASE ControlPlane
    BY <1>4 DEF ControlPlane, ProcessControlPlane, TakeEndpoints, CollectDisconnected,
       ControlPlaneDone, SubscribeControl, PushSession, DetachSessionsForEndpoint, CloseSession
<1>5. CASE StopCore \/ DetachMonitorRuntime \/ Shutdown
    BY <1>5 DEF StopCore, DetachMonitorRuntime, Shutdown, ShutdownAgain, ClearSessions,
       EndpointsStopped, CloseMux, ResetHandler, StopEndpoint
<1>6. CASE UNCHANGED vars
    BY <1>6 DEF vars
<1>7. CASE InsertSession(ep)
  <2>1. /\ next_id < MaxSessions /\ monitor_sessions' = monitor_sessions \cup {next_id}
        /\ destination' = [destination EXCEPT ![next_id] = ep]
        /\ request' = [request EXCEPT ![ep] = next_id]
      BY <1>7 DEF InsertSession
  <2>2. next_id \in Ids
      BY <2>1, RuntimeAssumption DEF IInv, TypeOK, Ids, RuntimeAssumption
  <2> QED BY <2>1, <2>2 DEF OpenFor
<1> QED BY <1>2, <1>3, <1>4, <1>5, <1>6, <1>7 DEF Next

\* Shutdown is not taken back.
LEMMA UpBefore ==
    ASSUME IInv, [Next]_vars, Up'
    PROVE  Up
<1>1. /\ pc \in [Threads -> PCs] /\ Endpoints \subseteq Threads /\ Stopper \notin Endpoints
      /\ {Loop, Stopper} \subseteq Threads
    BY RuntimeAssumption DEF IInv, TypeOK, Threads, RuntimeAssumption
<1> USE <1>1 DEF Up, Goto, At, runtimeVars
<1>2. ASSUME NEW e \in Endpoints, Callback(e)
      PROVE  Up
    BY <1>2 DEF Callback, AttachMonitor, CreateMonitorTransfer, CreateMonitorTransferBusy,
       InsertSession, RecordSession, Unsubscribe, ForgetSession, Respond
<1>3. ASSUME NEW e \in Endpoints,
             \/ Accept(e) \/ Disconnect(e) \/ ReceiveSubscribe(e) \/ ReceiveOther(e)
             \/ \E id \in Ids : ReceiveUnsubscribe(e, id)
      PROVE  Up
    BY <1>3 DEF Accept, Disconnect, ReceiveSubscribe, ReceiveOther, ReceiveUnsubscribe, Receive
<1>4. CASE ControlPlane
    BY <1>4 DEF ControlPlane, ProcessControlPlane, TakeEndpoints, CollectDisconnected,
       ControlPlaneDone, SubscribeControl, PushSession, DetachSessionsForEndpoint, CloseSession
<1>5. CASE StopCore \/ DetachMonitorRuntime \/ Shutdown
    BY <1>5 DEF StopCore, DetachMonitorRuntime, Shutdown, ShutdownAgain, ClearSessions,
       EndpointsStopped, CloseMux, ResetHandler, StopEndpoint
<1>6. CASE UNCHANGED vars
    BY <1>6 DEF vars
<1> QED BY <1>2, <1>3, <1>4, <1>5, <1>6 DEF Next

\* A tail that has just learned the list of PDUs has been told of no session; afterwards
\* it goes on subscribing, or prints, until it is stopped.
LEMMA HeldBefore ==
    ASSUME IInv, CliInv, NEW ep \in Endpoints, command[ep] = "tail", TailAt(ep),
           [CliNext]_allVars, asking'[ep] = "subscribe", Running(ep)', NEW id, Held(ep, id)'
    PROVE  \/ asking[ep] = "subscribe" /\ Running(ep) /\ Held(ep, id)
           \/ Inserts(ep) /\ request'[ep] = id
<1>1. /\ cli_pc \in [Endpoints -> CliPCs] /\ asking \in [Endpoints -> RequestTypes]
    BY DEF CliInv, CliTypeOK
<1>2. \/ asking[ep] = "subscribe" /\ Running(ep)
      \/ TailListed(ep) /\ cli_pc'[ep] = "begin"
  <2>1. CASE \E o \in Endpoints \ {ep} : ClientStep(o) \/ Serve(o) \/ Reply(o)
      BY <2>1, OtherClientsStill DEF Same, Running
  <2>2. CASE Serve(ep) \/ Reply(ep)
      BY <2>2 DEF Serve, Reply, clientVars, Running
  <2>3. CASE UNCHANGED cliVars \/ UNCHANGED allVars
      BY <2>3 DEF cliVars, allVars, Running
  <2>4. CASE ReceiveResponse(ep) \/ LoseRequest(ep) \/ LoseResponse(ep)
      BY <2>4 DEF ReceiveResponse, LoseRequest, LoseResponse, clientVars, Running
  <2>5. CASE Start(ep)
      BY <1>1, <2>5 DEF Start, Return, Running, TailAt, CliAt
  <2>6. CASE StopTail(ep) \/ TailListed(ep)
      BY <1>1, <2>6 DEF StopTail, TailListed, Return, CliGoto, Running
  <2>7. CASE \/ BeginRequest(ep) \/ SendRequest(ep) \/ Timeout(ep) \/ TakeResponse(ep)
             \/ TailSubscribed(ep) \/ TailUnsubscribes(ep) \/ Exit(ep)
    <3>1. asking' = asking /\ (cli_pc[ep] \in {"exit", "exited"} => cli_pc'[ep] = "exited")
        BY <1>1, <2>7 DEF BeginRequest, SendRequest, Timeout, TakeResponse, TailSubscribed,
           TailUnsubscribes, Exit, clientVars, CliAt, CliGoto
    <3> QED BY <3>1 DEF Running
  <2> QED BY <2>1, <2>2, <2>3, <2>4, <2>5, <2>6, <2>7, StepKinds DEF ClientStep, Main
<1>3. CASE asking[ep] = "subscribe" /\ Running(ep)
    BY <1>3, NewNames
<1>4. CASE TailListed(ep) /\ cli_pc'[ep] = "begin"
  <2>1. Nowhere(ep) /\ latest_response[ep].type = "ok"
      BY <1>4, NothingUnderWay DEF TailListed, CliAt
  <2>2. UNCHANGED <<pc, latest_response, responses>>
      BY <1>4 DEF TailListed, vars, wireVars
  <2>3. responses[ep] = <<>> /\ Len(responses[ep]) = 0 /\ pc[ep] = "idle"
      BY <2>1 DEF Nowhere
  <2> QED BY <1>4, <2>1, <2>2, <2>3 DEF Held, Told
<1> QED BY <1>2, <1>3, <1>4

\* The three ways a session ends are all closed while the tail is undisturbed.
LEMMA OpenStays ==
    ASSUME IInv, CliInv, OwnersOK, NamesOK, [Next]_vars,
           NEW ep \in Endpoints, command[ep] = "tail", TailAt(ep), Undisturbed(ep), Up',
           asking[ep] = "subscribe", Running(ep), NEW id, OpenFor(ep, id)
    PROVE  OpenFor(ep, id)'
<1>1. id \in Ids /\ id \in monitor_sessions /\ destination[id] = ep /\ id < next_id
  <2>1. id \in Ids /\ id \in monitor_sessions /\ destination[id] = ep
      BY DEF OpenFor, IInv, TypeOK
  <2>2. id \in Nat /\ next_id \in Nat /\ ~(id >= next_id)
      BY <2>1, RuntimeAssumption DEF IInv, TypeOK, SessionOK, Ids, RuntimeAssumption
  <2> QED BY <2>1, <2>2
<1>2. ASSUME NEW e \in Endpoints, At(e, "detach"), request[e] = id
      PROVE  FALSE
  <2>1. Named(e, id) /\ ~Foreign(e)
      BY <1>2 DEF Named, At, Undisturbed
  <2>2. e = ep
      BY <1>1, <2>1 DEF NamesOK, Mine
  <2>3. cli_pc[ep] = "wait"
      BY <1>2, <2>2, NothingUnderWay DEF CliInv, CliTypeOK, CliPCs, Running, Nowhere, At
  <2> QED BY <1>2, <2>2, <2>3 DEF TailAt, TailSubscribing, At
<1>3. link[destination[id]] # "stopped"
    BY <1>1 DEF Undisturbed
<1>4. ~At(Stopper, "stop_endpoints")'
    BY DEF Up, At
<1>5. id \in monitor_sessions'
    BY <1>1, <1>2, <1>3, <1>4, SessionEnds
<1> QED BY <1>1, <1>5, StepSessionsStay DEF SessionsStay, OpenFor

LEMMA OpenStep ==
    ASSUME IInv, CliInv, OwnersOK, NamesOK, TailOK, OpenOK, [CliNext]_allVars
    PROVE  OpenOK'
<1> SUFFICES ASSUME NEW ep \in Endpoints, command'[ep] = "tail", Undisturbed(ep)',
                    asking'[ep] = "subscribe", Running(ep)',
                    NEW id \in Ids \cup {NoSession}, Held(ep, id)'
             PROVE  OpenFor(ep, id)'
    BY DEF OpenOK, OpenAt
<1>1. [Next]_vars
    BY ImplementsStep
<1>2. command' = command
    BY CommandStays
<1>3. Undisturbed(ep) /\ Up'
  <2>1. Up' /\ Up
      BY <1>1, UpBefore DEF Undisturbed
  <2>2. link[ep] # "stopped"
      BY <1>1, StepSessionsStay DEF SessionsStay, LinksStay, Undisturbed
  <2> QED BY <1>2, <2>1, <2>2 DEF Undisturbed, Foreign
<1>4. command[ep] = "tail" /\ TailAt(ep)
    BY <1>2 DEF TailOK
<1>5. CASE asking[ep] = "subscribe" /\ Running(ep) /\ Held(ep, id)
  <2>1. OpenFor(ep, id)
      BY <1>3, <1>4, <1>5 DEF OpenOK, OpenAt
  <2> QED BY <1>1, <1>3, <1>4, <1>5, <2>1, OpenStays
<1>6. CASE Inserts(ep) /\ request'[ep] = id
    BY <1>1, <1>6, InsertOpens DEF OpenFor
<1> QED BY <1>4, <1>5, <1>6, HeldBefore

\* No other command prints.
TailsPrint == \A ep \in Endpoints : cli_pc[ep] = "tail" => command[ep] = "tail"

LEMMA TailsPrintStep ==
    ASSUME CliInv, TailsPrint, [CliNext]_allVars
    PROVE  TailsPrint'
<1>1. cli_pc \in [Endpoints -> CliPCs]
    BY DEF CliInv, CliTypeOK
<1>2. \A ep \in Endpoints : cli_pc'[ep] = "tail" => cli_pc[ep] = "tail" \/ TailSubscribed(ep)
  <2>1. CASE UNCHANGED cli_pc
      BY <2>1
  <2>2. ASSUME NEW o \in Endpoints, Main(o) \/ Start(o) \/ StopTail(o), ~TailSubscribed(o)
        PROVE  \E label \in CliPCs \ {"tail"} : cli_pc' = [cli_pc EXCEPT ![o] = label]
      BY <2>2 DEF Main, Start, StopTail, BeginRequest, SendRequest, Timeout, TakeResponse,
         TailListed, TailUnsubscribes, Exit, CliGoto, Return, CliPCs
  <2>3. ASSUME NEW o \in Endpoints, TailSubscribed(o)
        PROVE  \E label \in CliPCs : cli_pc' = [cli_pc EXCEPT ![o] = label]
      BY <2>3 DEF TailSubscribed, CliGoto, Return, CliPCs
  <2>4. CASE \E o \in Endpoints : Main(o) \/ Start(o) \/ StopTail(o)
      BY <1>1, <2>2, <2>3, <2>4
  <2>5. CASE \E o \in Endpoints : \/ ReceiveResponse(o) \/ LoseRequest(o) \/ LoseResponse(o)
                                  \/ Serve(o) \/ Reply(o)
      BY <2>1, <2>5 DEF ReceiveResponse, LoseRequest, LoseResponse, Serve, Reply
  <2>6. CASE UNCHANGED cliVars \/ UNCHANGED allVars
      BY <2>1, <2>6 DEF cliVars, allVars
  <2> QED BY <2>4, <2>5, <2>6, StepKinds DEF ClientStep
<1> QED BY <1>2, CommandStays DEF TailsPrint, TailSubscribed

-----------------------------------------------------------------------------
(* The theorems.                                                           *)

\* No client of this program, and no callback that serves one, holds the id of another
\* client's session, except an unsubscribe that was given one on its command line.
THEOREM NamesInvariance == CliSpec => []NamesOK
<1>1. CliSpec => [](IInv /\ OwnersOK)
    BY CliImplementsRuntime, Invariance, OwnersInvariance, PTL
<1>2. CliInit => NamesOK
    BY InitNamesOK
<1>3. IInv /\ CliInv /\ OwnersOK' /\ NamesOK /\ [CliNext]_allVars => NamesOK'
    BY NamesStep
<1> QED BY <1>1, <1>2, <1>3, CliInvariance, PTL DEF CliSpec

\* A tail that prints has its session, as long as its connection is there, the bridge has
\* not been stopped and no client names sessions it was not given.
THEOREM TailsAreServed == CliSpec => []TailingSessionOpen
<1>1. CliSpec => [](IInv /\ OwnersOK)
    BY CliImplementsRuntime, Invariance, OwnersInvariance, PTL
<1>2. CliInit => TailOK /\ OpenOK /\ TailsPrint
    BY InitTailOK, InitNamesOK DEF CliInit, TailsPrint
<1>3. IInv /\ CliInv /\ TailOK /\ [CliNext]_allVars => TailOK'
    BY TailStep
<1>4. IInv /\ CliInv /\ OwnersOK /\ NamesOK /\ TailOK /\ OpenOK /\ [CliNext]_allVars => OpenOK'
    BY OpenStep
<1>5. CliInv /\ TailsPrint /\ [CliNext]_allVars => TailsPrint'
    BY TailsPrintStep
<1>6. CliInv /\ TailOK /\ OpenOK /\ TailsPrint => TailingSessionOpen
  <2> SUFFICES ASSUME CliInv, TailOK, OpenOK, TailsPrint, NEW ep \in Endpoints,
                      CliAt(ep, "tail"), link[ep] = "running", Up,
                      \A other \in Endpoints : command[other] \notin {"unsubscribe", "other"}
               PROVE  OpenFor(ep, session_id[ep])
      BY DEF TailingSessionOpen, Up, OpenFor
  <2>1. Undisturbed(ep) /\ cli_pc[ep] = "tail" /\ Running(ep)
      BY DEF Undisturbed, Foreign, CliAt, Running
  <2>2. command[ep] = "tail"
      BY <2>1 DEF TailsPrint
  <2>3. asking[ep] = "subscribe"
      BY <2>1, <2>2 DEF TailOK, TailAt, TailUnsubscribing
  <2>4. session_id[ep] \in Ids \cup {NoSession} /\ Held(ep, session_id[ep])
      BY <2>1 DEF CliInv, CliTypeOK, Held
  <2> QED BY <2>1, <2>2, <2>3, <2>4 DEF OpenOK, OpenAt
<1> QED BY <1>1, <1>2, <1>3, <1>4, <1>5, <1>6, CliInvariance, NamesInvariance, PTL DEF CliSpec
=============================================================================
