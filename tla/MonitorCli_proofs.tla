------------------------- MODULE MonitorCli_proofs -------------------------
(***************************************************************************)
(* Proofs about MonitorCli, for any number of clients, commands, sessions  *)
(* and keys: the composition behaves as MonitorRuntime allows, so that     *)
(* what is proved there holds with real clients, and a client matches its  *)
(* requests and responses.                                                 *)
(***************************************************************************)
EXTENDS MonitorCli, MonitorRuntime_proofs

-----------------------------------------------------------------------------
(* The composition implements the runtime with arbitrary clients.          *)

\* The steps of a client and of the wires that leave the runtime alone.
ClientStep(ep) ==
    \/ Start(ep) \/ Main(ep) \/ StopTail(ep) \/ ReceiveResponse(ep)
    \/ LoseRequest(ep) \/ LoseResponse(ep)

\* The steps of the runtime that leave clients and wires alone.
RuntimeStep ==
    \/ \E ep \in Endpoints : Connected(ep) \/ Disconnect(ep) \/ Work(ep) \/ OtherClient(ep)
    \/ ControlPlane \/ StopCore \/ DetachMonitorRuntime \/ Shutdown

LEMMA StepKinds ==
    ASSUME CliNext
    PROVE  \/ \E ep \in Endpoints : ClientStep(ep) \/ Serve(ep) \/ Reply(ep)
           \/ RuntimeStep /\ UNCHANGED cliVars
BY DEF CliNext, ClientStep, RuntimeStep, HangUp

LEMMA ClientStepKeepsRuntime ==
    ASSUME NEW ep \in Endpoints, ClientStep(ep)
    PROVE  UNCHANGED vars
BY DEF ClientStep, Start, Main, BeginRequest, SendRequest, Timeout, TakeResponse, TailListed,
   TailSubscribed, TailUnsubscribes, Exit, StopTail, ReceiveResponse, LoseRequest, LoseResponse

LEMMA ServeIsReceive ==
    ASSUME NEW ep \in Endpoints, Serve(ep)
    PROVE  \/ ReceiveSubscribe(ep) \/ ReceiveOther(ep)
           \/ \E id \in Ids : ReceiveUnsubscribe(ep, id)
BY DEF Serve, ReceiveOther

LEMMA ImplementsStep ==
    ASSUME [CliNext]_allVars
    PROVE  [Next]_vars
<1>1. CASE \E ep \in Endpoints : ClientStep(ep)
    BY <1>1, ClientStepKeepsRuntime
<1>2. CASE \E ep \in Endpoints : Serve(ep)
    BY <1>2, ServeIsReceive DEF Next
<1>3. CASE \E ep \in Endpoints : Reply(ep)
    BY <1>3 DEF Reply, Next, Callback
<1>4. CASE RuntimeStep
    BY <1>4 DEF RuntimeStep, Connected, Work, OtherClient, Next, Callback
<1>5. CASE UNCHANGED allVars
    BY <1>5 DEF allVars
<1> QED BY <1>1, <1>2, <1>3, <1>4, <1>5, StepKinds

\* With the command line client on its endpoints, the control plane does nothing that
\* MonitorRuntime does not allow for arbitrary clients.
THEOREM CliImplementsRuntime == CliSpec => Spec
<1>1. CliInit => Init
    BY DEF CliInit
<1>2. [CliNext]_allVars => [Next]_vars
    BY ImplementsStep
<1> QED BY <1>1, <1>2, PTL DEF CliSpec, Spec

\* So its sessions live the abstract life of MonitorSessions ...
THEOREM CliSessionsImplemented == CliSpec => ImplementsSessions
BY CliImplementsRuntime, SessionsImplemented, PTL

\* ... and no monitor transfer is leaked or shared.
THEOREM CliTransfersAccounted == CliSpec => []TransfersAccounted
BY CliImplementsRuntime, TransfersAreAccounted, PTL

-----------------------------------------------------------------------------
(* One request at a time.                                                  *)

\* Where the current request of a waiting client, or what became of it, is.
AtRuntime(ep) == requests[ep] = <<>> /\ responses[ep] = <<>> /\ pc[ep] # "idle"

OnItsWay(ep) ==
    /\ \E r \in Requests : requests[ep] = <<r>> /\ r.serial = asked[ep]
    /\ responses[ep] = <<>> /\ pc[ep] = "idle"

OnItsWayBack(ep) ==
    /\ \E r \in Responses : responses[ep] = <<r>> /\ r.serial = asked[ep]
    /\ requests[ep] = <<>> /\ pc[ep] = "idle"

Nowhere(ep) == requests[ep] = <<>> /\ responses[ep] = <<>> /\ pc[ep] = "idle"

OneAtATime ==
    \A ep \in Endpoints :
        /\ command[ep] = "other" => cli_pc[ep] = "start"
        /\ command[ep] # "other" /\ cli_pc[ep] \in {"start", "begin", "send", "tail"} =>
              Nowhere(ep)
        /\ cli_pc[ep] = "send" => latest_response[ep] = Nothing
        /\ cli_pc[ep] = "wait" =>
              \/ latest_response[ep] = Nothing /\ OnItsWay(ep)
              \/ latest_response[ep] = Nothing /\ AtRuntime(ep) /\ serving[ep] = asked[ep]
              \/ latest_response[ep] = Nothing /\ OnItsWayBack(ep)
              \/ /\ Nowhere(ep)
                 /\ latest_response[ep] # Nothing => latest_response[ep].serial = asked[ep]

\* Before its callbacks are installed, a tail has asked for nothing but the list of PDUs.
ChannelsOK ==
    \A ep \in Endpoints :
        command[ep] = "tail" /\ ~tail_channels[ep] =>
            /\ cli_pc[ep] # "tail" /\ asking[ep] = "query"
            /\ pc[ep] \in {"idle", "ok", "error"}
            /\ \A i \in 1 .. Len(requests[ep]) : requests[ep][i].type = "query"
            /\ \A id \in monitor_sessions : destination[id] # ep

CliInv == CliTypeOK /\ OneAtATime /\ ChannelsOK

LEMMA InitCliInv == CliInit => CliInv
<1> SUFFICES ASSUME CliInit PROVE CliInv
    OBVIOUS
<1>1. CliTypeOK
    BY DEF CliInit, CliTypeOK, CliPCs, RequestTypes
<1>2. OneAtATime
    BY RuntimeAssumption DEF CliInit, Init, OneAtATime, Nowhere, Threads
<1>3. ChannelsOK
    BY RuntimeAssumption DEF CliInit, Init, ChannelsOK, Threads
<1> QED BY <1>1, <1>2, <1>3 DEF CliInv

LEMMA StartCliStep ==
    ASSUME IInv, CliInv, NEW ep \in Endpoints, Start(ep)
    PROVE  CliInv'
<1> USE RuntimeAssumption, CliAssumption DEF RuntimeAssumption, CliAssumption, Start, CliAt, CliGoto,
        clientVars, wireVars, CliInv
<1>0. UNCHANGED <<pc, monitor_sessions, destination>>
    BY DEF vars
<1>1. CliTypeOK'
  <2>1. command[ep] \in CliCommands
      BY DEF CliTypeOK
  <2>2. (IF command[ep] = "tail" THEN "query" ELSE command[ep]) \in RequestTypes
      BY <2>1 DEF CliCommands, RequestTypes
  <2>3. asking' \in [Endpoints -> RequestTypes]
    <3>1. asking \in [Endpoints -> RequestTypes]
        BY DEF CliTypeOK
    <3>2. asking' = asking \/ asking' = [asking EXCEPT ![ep] =
              IF command[ep] = "tail" THEN "query" ELSE command[ep]]
        OBVIOUS
    <3> HIDE DEF CliInv, Start
    <3> QED BY <3>1, <3>2, <2>2
  <2>4. cli_pc' \in [Endpoints -> CliPCs] /\ exit_code' \in [Endpoints -> {0, 1}]
      BY DEF CliTypeOK, CliPCs, Return
  <2> QED BY <2>3, <2>4 DEF CliTypeOK
<1>2. OneAtATime'
    BY <1>0 DEF OneAtATime, OnItsWay, AtRuntime, OnItsWayBack, Nowhere, CliTypeOK, CliPCs, RequestTypes, CliCommands, Return
<1>3. ChannelsOK'
    BY <1>0 DEF ChannelsOK, CliTypeOK, CliPCs, RequestTypes, CliCommands, Return
<1> QED BY <1>1, <1>2, <1>3

LEMMA BeginRequestCliStep ==
    ASSUME IInv, CliInv, NEW ep \in Endpoints, BeginRequest(ep)
    PROVE  CliInv'
<1> USE RuntimeAssumption, CliAssumption DEF RuntimeAssumption, CliAssumption, BeginRequest, CliAt, CliGoto,
        clientVars, wireVars, CliInv
<1>0. UNCHANGED <<pc, monitor_sessions, destination>>
    BY DEF vars
<1>1. CliTypeOK'
    BY DEF CliTypeOK, CliPCs
<1>2. OneAtATime'
    BY <1>0 DEF OneAtATime, OnItsWay, AtRuntime, OnItsWayBack, Nowhere, CliTypeOK, CliPCs
<1>3. ChannelsOK'
    BY <1>0 DEF ChannelsOK, CliTypeOK, CliPCs
<1> QED BY <1>1, <1>2, <1>3

LEMMA SendRequestCliStep ==
    ASSUME IInv, CliInv, NEW ep \in Endpoints, SendRequest(ep)
    PROVE  CliInv'
<1> USE RuntimeAssumption, CliAssumption DEF RuntimeAssumption, CliAssumption, SendRequest, CliAt, CliGoto,
        clientVars, wireVars, CliInv
<1>0. UNCHANGED <<pc, monitor_sessions, destination>>
    BY DEF vars
<1> DEFINE r == [type |-> asking[ep], serial |-> asked[ep],
                 id |-> IF asking[ep] = "unsubscribe" THEN session_id[ep] ELSE NoSession]
<1>r. r \in Requests /\ r.serial = asked[ep] /\ r.type = asking[ep]
    BY DEF CliTypeOK, Requests
<1>s. requests' = [requests EXCEPT ![ep] = Append(@, r)]
    OBVIOUS
<1> HIDE DEF r
<1>1. CliTypeOK'
    BY <1>r, <1>s DEF CliTypeOK, CliPCs
<1>n. Nowhere(ep) /\ latest_response[ep] = Nothing
    BY DEF OneAtATime
<1>w. OnItsWay(ep)'
    BY <1>0, <1>n, <1>r, <1>s DEF Nowhere, OnItsWay, CliTypeOK
<1>2. OneAtATime'
    BY <1>0, <1>n, <1>w DEF OneAtATime, OnItsWay, AtRuntime, OnItsWayBack, Nowhere, CliTypeOK, CliPCs
<1>3. ChannelsOK'
    BY <1>0, <1>n, <1>r, <1>s DEF ChannelsOK, Nowhere, CliTypeOK, CliPCs
<1> QED BY <1>1, <1>2, <1>3

LEMMA TimeoutCliStep ==
    ASSUME IInv, CliInv, NEW ep \in Endpoints, Timeout(ep)
    PROVE  CliInv'
<1> USE RuntimeAssumption, CliAssumption DEF RuntimeAssumption, CliAssumption, Timeout, CliAt, CliGoto,
        clientVars, wireVars, CliInv
<1>0. UNCHANGED <<pc, monitor_sessions, destination>>
    BY DEF vars
<1>1. CliTypeOK'
    BY DEF CliTypeOK, CliPCs, Return
<1>2. OneAtATime'
    BY <1>0 DEF OneAtATime, OnItsWay, AtRuntime, OnItsWayBack, Nowhere, CliTypeOK, CliPCs, Return
<1>3. ChannelsOK'
    BY <1>0 DEF ChannelsOK, CliTypeOK, CliPCs, Return
<1> QED BY <1>1, <1>2, <1>3

LEMMA TakeResponseCliStep ==
    ASSUME IInv, CliInv, NEW ep \in Endpoints, TakeResponse(ep)
    PROVE  CliInv'
<1> USE RuntimeAssumption, CliAssumption DEF RuntimeAssumption, CliAssumption, TakeResponse, CliAt, CliGoto,
        clientVars, wireVars, CliInv
<1>0. UNCHANGED <<pc, monitor_sessions, destination>>
    BY DEF vars
<1>1. CliTypeOK'
    BY DEF CliTypeOK, CliPCs, Return
<1>2. OneAtATime'
    BY <1>0 DEF OneAtATime, OnItsWay, AtRuntime, OnItsWayBack, Nowhere, CliTypeOK, CliPCs, Return
<1>3. ChannelsOK'
    BY <1>0 DEF ChannelsOK, CliTypeOK, CliPCs, Return
<1> QED BY <1>1, <1>2, <1>3

LEMMA TailListedCliStep ==
    ASSUME IInv, CliInv, NEW ep \in Endpoints, TailListed(ep)
    PROVE  CliInv'
<1> USE RuntimeAssumption, CliAssumption DEF RuntimeAssumption, CliAssumption, TailListed, CliAt, CliGoto,
        clientVars, wireVars, CliInv
<1>0. UNCHANGED <<pc, monitor_sessions, destination>>
    BY DEF vars
<1>1. CliTypeOK'
    BY DEF CliTypeOK, CliPCs, RequestTypes, Return
<1>2. OneAtATime'
    BY <1>0 DEF OneAtATime, OnItsWay, AtRuntime, OnItsWayBack, Nowhere, CliTypeOK, CliPCs, RequestTypes, Return
<1>3. ChannelsOK'
  <2>1. CASE tail_channels' = [tail_channels EXCEPT ![ep] = TRUE]
      BY <1>0, <2>1 DEF ChannelsOK, CliTypeOK, Return
  <2>2. CASE UNCHANGED <<tail_channels, asking>> /\ Return(ep, 1)
      BY <1>0, <2>2 DEF ChannelsOK, CliTypeOK, Return
  <2> QED BY <2>1, <2>2
<1> QED BY <1>1, <1>2, <1>3

LEMMA TailSubscribedCliStep ==
    ASSUME IInv, CliInv, NEW ep \in Endpoints, TailSubscribed(ep)
    PROVE  CliInv'
<1> USE RuntimeAssumption, CliAssumption DEF RuntimeAssumption, CliAssumption, TailSubscribed, CliAt, CliGoto,
        clientVars, wireVars, CliInv
<1>0. UNCHANGED <<pc, monitor_sessions, destination>>
    BY DEF vars
<1>1. CliTypeOK'
  <2>1. session_id' \in [Endpoints -> Ids \cup {NoSession}]
    <3>1. latest_response[ep].id \in Ids \cup {NoSession}
        BY DEF CliTypeOK, Responses
    <3> QED BY <3>1 DEF CliTypeOK
  <2>2. cli_pc' \in [Endpoints -> CliPCs] /\ exit_code' \in [Endpoints -> {0, 1}]
    <3>1. \/ UNCHANGED exit_code /\ cli_pc' = [cli_pc EXCEPT ![ep] = "tail"]
          \/ /\ exit_code' = [exit_code EXCEPT ![ep] = 1]
             /\ cli_pc' = [cli_pc EXCEPT ![ep] = "exit"]
        BY DEF Return
    <3>2. cli_pc \in [Endpoints -> CliPCs] /\ exit_code \in [Endpoints -> {0, 1}]
        BY DEF CliTypeOK
    <3> HIDE DEF TailSubscribed, CliInv
    <3> QED BY <3>1, <3>2 DEF CliPCs
  <2>3. UNCHANGED <<command, asking, asked, tail_channels, latest_response, wireVars>>
      OBVIOUS
  <2> HIDE DEF TailSubscribed
  <2> QED BY <2>1, <2>2, <2>3 DEF CliTypeOK
<1>2. OneAtATime'
    BY <1>0 DEF OneAtATime, OnItsWay, AtRuntime, OnItsWayBack, Nowhere, CliTypeOK, CliPCs, Return, Responses
<1>3. ChannelsOK'
  <2>1. /\ asking[ep] = "subscribe"
        /\ \A e \in Endpoints \ {ep} : cli_pc'[e] = cli_pc[e]
        /\ UNCHANGED <<command, tail_channels, asking, requests>>
      BY DEF CliTypeOK, Return
  <2> HIDE DEF TailSubscribed
  <2>2. command[ep] = "tail" => tail_channels[ep]
      BY <2>1 DEF ChannelsOK
  <2> QED BY <1>0, <2>1, <2>2 DEF ChannelsOK
<1> QED BY <1>1, <1>2, <1>3

LEMMA TailUnsubscribesCliStep ==
    ASSUME IInv, CliInv, NEW ep \in Endpoints, TailUnsubscribes(ep)
    PROVE  CliInv'
<1> USE RuntimeAssumption, CliAssumption DEF RuntimeAssumption, CliAssumption, TailUnsubscribes, CliAt, CliGoto,
        clientVars, wireVars, CliInv
<1>0. UNCHANGED <<pc, monitor_sessions, destination>>
    BY DEF vars
<1>1. CliTypeOK'
    BY DEF CliTypeOK, CliPCs, Return
<1>2. OneAtATime'
    BY <1>0 DEF OneAtATime, OnItsWay, AtRuntime, OnItsWayBack, Nowhere, CliTypeOK, CliPCs, Return
<1>3. ChannelsOK'
    BY <1>0 DEF ChannelsOK, CliTypeOK, CliPCs, Return
<1> QED BY <1>1, <1>2, <1>3

LEMMA ExitCliStep ==
    ASSUME IInv, CliInv, NEW ep \in Endpoints, Exit(ep)
    PROVE  CliInv'
<1> USE RuntimeAssumption, CliAssumption DEF RuntimeAssumption, CliAssumption, Exit, CliAt, CliGoto,
        clientVars, wireVars, CliInv
<1>0. UNCHANGED <<pc, monitor_sessions, destination>>
    BY DEF vars
<1>1. CliTypeOK'
    BY DEF CliTypeOK, CliPCs
<1>2. OneAtATime'
    BY <1>0 DEF OneAtATime, OnItsWay, AtRuntime, OnItsWayBack, Nowhere, CliTypeOK, CliPCs
<1>3. ChannelsOK'
    BY <1>0 DEF ChannelsOK, CliTypeOK, CliPCs
<1> QED BY <1>1, <1>2, <1>3

LEMMA StopTailCliStep ==
    ASSUME IInv, CliInv, NEW ep \in Endpoints, StopTail(ep)
    PROVE  CliInv'
<1> USE RuntimeAssumption, CliAssumption DEF RuntimeAssumption, CliAssumption, StopTail, CliAt, CliGoto,
        clientVars, wireVars, CliInv
<1>0. UNCHANGED <<pc, monitor_sessions, destination>>
    BY DEF vars
<1>a. /\ cli_pc[ep] = "tail" /\ cli_pc' = [cli_pc EXCEPT ![ep] = "begin"]
      /\ asking' = [asking EXCEPT ![ep] = "unsubscribe"]
      /\ UNCHANGED <<command, asked, session_id, tail_channels, exit_code, latest_response,
                     requests, serving, responses>>
    OBVIOUS
<1> HIDE DEF StopTail
<1>1. CliTypeOK'
    BY <1>a DEF CliTypeOK, CliPCs, RequestTypes
<1>2. OneAtATime'
    BY <1>0, <1>a DEF OneAtATime, OnItsWay, AtRuntime, OnItsWayBack, Nowhere, CliTypeOK
<1>3. ChannelsOK'
  <2>1. command[ep] = "tail" => tail_channels[ep]
      BY <1>a DEF ChannelsOK
  <2>2. \A o \in Endpoints \ {ep} : cli_pc'[o] = cli_pc[o] /\ asking'[o] = asking[o]
      BY <1>a DEF CliTypeOK
  <2> QED BY <1>0, <1>a, <2>1, <2>2 DEF ChannelsOK
<1> QED BY <1>1, <1>2, <1>3

LEMMA ReceiveResponseCliStep ==
    ASSUME IInv, CliInv, NEW ep \in Endpoints, ReceiveResponse(ep)
    PROVE  CliInv'
<1> USE RuntimeAssumption, CliAssumption DEF RuntimeAssumption, CliAssumption, ReceiveResponse, CliAt, CliGoto,
        clientVars, wireVars, CliInv
<1>0. UNCHANGED <<pc, monitor_sessions, destination>>
    BY DEF vars
<1>1. CliTypeOK'
    BY DEF CliTypeOK
<1>2. OneAtATime'
  <2>1. CASE cli_pc[ep] = "wait"
    <3>1. PICK r \in Responses : responses[ep] = <<r>> /\ r.serial = asked[ep]
        BY <2>1 DEF OneAtATime, OnItsWay, AtRuntime, OnItsWayBack, Nowhere
    <3>2. requests[ep] = <<>> /\ pc[ep] = "idle"
        BY <2>1 DEF OneAtATime, OnItsWay, AtRuntime, OnItsWayBack, Nowhere
    <3>3. latest_response'[ep] = r /\ responses'[ep] = <<>>
        BY <3>1 DEF CliTypeOK
    <3> QED BY <1>0, <2>1, <3>1, <3>2, <3>3
            DEF OneAtATime, OnItsWay, AtRuntime, OnItsWayBack, Nowhere, CliTypeOK
  <2>2. CASE cli_pc[ep] # "wait"
    <3>1. cli_pc[ep] = "start" /\ command[ep] = "other"
        BY <2>2 DEF OneAtATime, Nowhere, CliTypeOK, CliPCs
    <3> QED BY <1>0, <3>1 DEF OneAtATime, OnItsWay, AtRuntime, OnItsWayBack, Nowhere, CliTypeOK
  <2> QED BY <2>1, <2>2
<1>3. ChannelsOK'
    BY <1>0 DEF ChannelsOK, CliTypeOK
<1> QED BY <1>1, <1>2, <1>3

LEMMA LoseRequestCliStep ==
    ASSUME IInv, CliInv, NEW ep \in Endpoints, LoseRequest(ep)
    PROVE  CliInv'
<1> USE RuntimeAssumption, CliAssumption DEF RuntimeAssumption, CliAssumption, LoseRequest, CliAt, CliGoto,
        clientVars, wireVars, CliInv
<1>0. UNCHANGED <<pc, monitor_sessions, destination>>
    BY DEF vars
<1>1. /\ requests[ep] # <<>> /\ requests[ep] \in Seq(Requests)
      /\ requests' = [requests EXCEPT ![ep] = Tail(@)]
      /\ requests'[ep] = Tail(requests[ep]) /\ requests'[ep] \in Seq(Requests)
      /\ \A o \in Endpoints \ {ep} : requests'[o] = requests[o]
      /\ UNCHANGED <<command, asking, asked, session_id, tail_channels, cli_pc, exit_code,
                     latest_response, serving, responses>>
    BY DEF CliTypeOK
<1> HIDE DEF LoseRequest
<1>2. CliTypeOK'
    BY <1>1 DEF CliTypeOK
<1>3. OneAtATime'
  <2>1. CASE cli_pc[ep] = "wait"
    <3>1. PICK r \in Requests : requests[ep] = <<r>>
        BY <1>1, <2>1 DEF OneAtATime, OnItsWay, AtRuntime, OnItsWayBack, Nowhere
    <3>2. latest_response[ep] = Nothing /\ responses[ep] = <<>> /\ pc[ep] = "idle"
        BY <1>1, <2>1 DEF OneAtATime, OnItsWay, AtRuntime, OnItsWayBack, Nowhere
    <3>3. Nowhere(ep)'
        BY <1>0, <1>1, <3>1, <3>2 DEF Nowhere
    <3> QED BY <1>0, <1>1, <2>1, <3>2, <3>3
            DEF OneAtATime, OnItsWay, AtRuntime, OnItsWayBack, Nowhere
  <2>2. CASE cli_pc[ep] # "wait"
    <3>1. command[ep] # "other" => cli_pc[ep] \in {"exit", "exited"}
        BY <1>1, <2>2 DEF OneAtATime, Nowhere, CliTypeOK, CliPCs
    <3> QED BY <1>0, <1>1, <2>2, <3>1
            DEF OneAtATime, OnItsWay, AtRuntime, OnItsWayBack, Nowhere
  <2> QED BY <2>1, <2>2
<1>4. ChannelsOK'
  <2>1. \A i \in 1 .. Len(requests'[ep]) :
            i + 1 \in 1 .. Len(requests[ep]) /\ requests'[ep][i] = requests[ep][i + 1]
    <3> DEFINE q == requests[ep]
    <3>1. q \in Seq(Requests) /\ q # <<>> /\ requests'[ep] = Tail(q)
        BY <1>1
    <3> HIDE DEF q
    <3>2. \A i \in 1 .. Len(Tail(q)) : i + 1 \in 1 .. Len(q) /\ Tail(q)[i] = q[i + 1]
        BY <3>1
    <3> QED BY <3>1, <3>2 DEF q
  <2> SUFFICES ASSUME NEW o \in Endpoints, command[o] = "tail" /\ ~tail_channels[o]
      PROVE  /\ cli_pc[o] # "tail" /\ asking[o] = "query"
             /\ pc[o] \in {"idle", "ok", "error"}
             /\ \A i \in 1 .. Len(requests'[o]) : requests'[o][i].type = "query"
             /\ \A id \in monitor_sessions : destination[id] # o
      BY <1>0, <1>1 DEF ChannelsOK
  <2> QED BY <1>1, <2>1 DEF ChannelsOK
<1> QED BY <1>2, <1>3, <1>4

LEMMA LoseResponseCliStep ==
    ASSUME IInv, CliInv, NEW ep \in Endpoints, LoseResponse(ep)
    PROVE  CliInv'
<1> USE RuntimeAssumption, CliAssumption DEF RuntimeAssumption, CliAssumption, LoseResponse, CliAt, CliGoto,
        clientVars, wireVars, CliInv
<1>0. UNCHANGED <<pc, monitor_sessions, destination>>
    BY DEF vars
<1>1. /\ responses[ep] # <<>> /\ responses[ep] \in Seq(Responses)
      /\ responses' = [responses EXCEPT ![ep] = Tail(@)]
      /\ responses'[ep] = Tail(responses[ep]) /\ responses'[ep] \in Seq(Responses)
      /\ \A o \in Endpoints \ {ep} : responses'[o] = responses[o]
      /\ UNCHANGED <<command, asking, asked, session_id, tail_channels, cli_pc, exit_code,
                     latest_response, serving, requests>>
    BY DEF CliTypeOK
<1> HIDE DEF LoseResponse
<1>2. CliTypeOK'
    BY <1>1 DEF CliTypeOK
<1>3. OneAtATime'
  <2>1. CASE cli_pc[ep] = "wait"
    <3>1. PICK r \in Responses : responses[ep] = <<r>>
        BY <1>1, <2>1 DEF OneAtATime, OnItsWay, AtRuntime, OnItsWayBack, Nowhere
    <3>2. latest_response[ep] = Nothing /\ requests[ep] = <<>> /\ pc[ep] = "idle"
        BY <1>1, <2>1 DEF OneAtATime, OnItsWay, AtRuntime, OnItsWayBack, Nowhere
    <3>3. Nowhere(ep)'
        BY <1>0, <1>1, <3>1, <3>2 DEF Nowhere
    <3> QED BY <1>0, <1>1, <2>1, <3>2, <3>3
            DEF OneAtATime, OnItsWay, AtRuntime, OnItsWayBack, Nowhere
  <2>2. CASE cli_pc[ep] # "wait"
    <3>1. command[ep] # "other" => cli_pc[ep] \in {"exit", "exited"}
        BY <1>1, <2>2 DEF OneAtATime, Nowhere, CliTypeOK, CliPCs
    <3> QED BY <1>0, <1>1, <2>2, <3>1
            DEF OneAtATime, OnItsWay, AtRuntime, OnItsWayBack, Nowhere
  <2> QED BY <2>1, <2>2
<1>4. ChannelsOK'
    BY <1>0, <1>1 DEF ChannelsOK
<1> QED BY <1>2, <1>3, <1>4

LEMMA ClientCliStep ==
    ASSUME IInv, CliInv, NEW ep \in Endpoints, ClientStep(ep)
    PROVE  CliInv'
BY StartCliStep, BeginRequestCliStep, SendRequestCliStep, TimeoutCliStep, TakeResponseCliStep,
   TailListedCliStep, TailSubscribedCliStep, TailUnsubscribesCliStep, ExitCliStep,
   StopTailCliStep, ReceiveResponseCliStep, LoseRequestCliStep, LoseResponseCliStep
   DEF ClientStep, Main

\* A request is taken from the wire: it was the client's current one.
LEMMA ServeCliStep ==
    ASSUME IInv, CliInv, NEW ep \in Endpoints, Serve(ep)
    PROVE  CliInv'
<1> USE RuntimeAssumption, CliAssumption DEF RuntimeAssumption, CliAssumption, CliInv
<1>1. /\ pc[ep] = "idle" /\ requests[ep] # <<>>
      /\ \E label \in {"attach", "detach", "ok", "error"} :
            /\ pc' = [pc EXCEPT ![ep] = label]
            /\ Head(requests[ep]).type = "query" => label \in {"ok", "error"}
      /\ UNCHANGED <<monitor_sessions, destination>>
    BY DEF Serve, Receive, ReceiveSubscribe, ReceiveUnsubscribe, ReceiveOther, At, Goto,
       sessionVars
<1>2. /\ requests' = [requests EXCEPT ![ep] = Tail(@)]
      /\ serving' = [serving EXCEPT ![ep] = Head(requests[ep]).serial]
      /\ UNCHANGED <<command, asking, asked, session_id, tail_channels, cli_pc, exit_code,
                     latest_response, responses>>
    BY DEF Serve, clientVars
<1>3. Head(requests[ep]) \in Requests /\ Tail(requests[ep]) \in Seq(Requests)
    BY <1>1 DEF CliTypeOK
<1>4. CliTypeOK'
    BY <1>2, <1>3 DEF CliTypeOK, Requests
<1>5. pc \in [Threads -> PCs] /\ Endpoints \subseteq Threads
    BY DEF IInv, TypeOK, Threads
<1>6. OneAtATime'
  <2>1. CASE cli_pc[ep] = "wait"
    <3>1. latest_response[ep] = Nothing /\ responses[ep] = <<>>
        BY <1>1, <2>1 DEF OneAtATime, OnItsWay, AtRuntime, OnItsWayBack, Nowhere
    <3>2. PICK r \in Requests : requests[ep] = <<r>> /\ r.serial = asked[ep]
        BY <1>1, <2>1 DEF OneAtATime, OnItsWay, AtRuntime, OnItsWayBack, Nowhere
    <3>3. requests'[ep] = <<>> /\ serving'[ep] = asked'[ep] /\ pc'[ep] # "idle"
        BY <1>1, <1>2, <1>5, <3>2 DEF CliTypeOK
    <3> QED BY <1>1, <1>2, <1>5, <2>1, <3>1, <3>3
            DEF OneAtATime, OnItsWay, AtRuntime, OnItsWayBack, Nowhere, CliTypeOK
  <2>2. CASE cli_pc[ep] # "wait"
    <3>1. command[ep] # "other" => cli_pc[ep] \in {"exit", "exited"}
        BY <1>1, <2>2 DEF OneAtATime, Nowhere, CliTypeOK, CliPCs
    <3>2. \A o \in Endpoints \ {ep} :
              requests'[o] = requests[o] /\ serving'[o] = serving[o] /\ pc'[o] = pc[o]
        BY <1>1, <1>2, <1>5 DEF CliTypeOK
    <3> QED BY <1>2, <2>2, <3>1, <3>2
            DEF OneAtATime, OnItsWay, AtRuntime, OnItsWayBack, Nowhere
  <2> QED BY <2>1, <2>2
<1>7. ChannelsOK'
  <2>1. CASE command[ep] = "tail" /\ ~tail_channels[ep]
    <3>1. Len(requests[ep]) > 0 /\ requests[ep] \in Seq(Requests)
        BY <1>1 DEF CliTypeOK
    <3>2. Head(requests[ep]).type = "query"
        BY <2>1, <3>1 DEF ChannelsOK
    <3>3. \A i \in 1 .. Len(Tail(requests[ep])) : Tail(requests[ep])[i].type = "query"
        BY <2>1, <3>1 DEF ChannelsOK
    <3>4. pc'[ep] \in {"ok", "error"} /\ requests'[ep] = Tail(requests[ep])
        BY <1>1, <1>2, <1>5, <3>2 DEF CliTypeOK
    <3> QED BY <1>1, <1>2, <1>5, <2>1, <3>3, <3>4 DEF ChannelsOK, CliTypeOK
  <2>2. CASE ~(command[ep] = "tail" /\ ~tail_channels[ep])
    BY <1>1, <1>2, <1>5, <2>2 DEF ChannelsOK, CliTypeOK
  <2> QED BY <2>1, <2>2
<1> QED BY <1>4, <1>6, <1>7

\* The response goes onto the wire as the callback becomes idle.
LEMMA ReplyCliStep ==
    ASSUME IInv, CliInv, NEW ep \in Endpoints, Reply(ep)
    PROVE  CliInv'
<1> USE RuntimeAssumption, CliAssumption DEF RuntimeAssumption, CliAssumption, CliInv
<1> DEFINE r == [type |-> pc[ep], id |-> request[ep], serial |-> serving[ep]]
<1>1. /\ pc[ep] \in ResponseTypes /\ pc' = [pc EXCEPT ![ep] = "idle"]
      /\ UNCHANGED <<monitor_sessions, destination>>
    BY DEF Reply, Respond, Goto, sessionVars, ResponseTypes
<1>2. /\ command[ep] # "other"
      /\ responses' \in {responses, [responses EXCEPT ![ep] = Append(@, r)]}
      /\ UNCHANGED <<command, asking, asked, session_id, tail_channels, cli_pc, exit_code,
                     latest_response, requests, serving>>
    BY DEF Reply, clientVars
<1>3. r \in Responses /\ r.serial = serving[ep]
    BY <1>1 DEF CliTypeOK, Responses, IInv, TypeOK
<1> HIDE DEF r
<1>4. CliTypeOK'
  <2>1. responses' \in [Endpoints -> Seq(Responses)]
    <3>1. responses \in [Endpoints -> Seq(Responses)]
        BY DEF CliTypeOK
    <3>2. Append(responses[ep], r) \in Seq(Responses)
        BY <1>3, <3>1
    <3> HIDE DEF CliInv
    <3> QED BY <1>2, <3>1, <3>2
  <2> QED BY <1>2, <2>1 DEF CliTypeOK
<1>5. pc \in [Threads -> PCs] /\ Endpoints \subseteq Threads /\ pc[ep] # "idle"
    BY <1>1 DEF IInv, TypeOK, Threads, ResponseTypes
<1>6. OneAtATime'
  <2>1. CASE cli_pc[ep] = "wait"
    <3>1. /\ latest_response[ep] = Nothing /\ responses[ep] = <<>> /\ requests[ep] = <<>>
          /\ serving[ep] = asked[ep]
        BY <1>5, <2>1 DEF OneAtATime, OnItsWay, AtRuntime, OnItsWayBack, Nowhere
    <3>2. responses'[ep] \in {<<>>, <<r>>} /\ pc'[ep] = "idle"
        BY <1>1, <1>2, <1>5, <3>1 DEF CliTypeOK
    <3>3. OnItsWayBack(ep)' \/ Nowhere(ep)'
        BY <1>2, <1>3, <3>1, <3>2 DEF OnItsWayBack, Nowhere
    <3> QED BY <1>1, <1>2, <1>5, <2>1, <3>1, <3>3
            DEF OneAtATime, OnItsWay, AtRuntime, OnItsWayBack, Nowhere, CliTypeOK
  <2>2. CASE cli_pc[ep] # "wait"
    BY <1>1, <1>2, <1>5, <2>2
       DEF OneAtATime, OnItsWay, AtRuntime, OnItsWayBack, Nowhere, CliTypeOK, CliPCs
  <2> QED BY <2>1, <2>2
<1>7. ChannelsOK'
    BY <1>1, <1>2, <1>5 DEF ChannelsOK, CliTypeOK
<1> QED BY <1>4, <1>6, <1>7

-----------------------------------------------------------------------------
(* What the runtime does by itself.                                        *)

\* No session of ep comes into being.
Shrinks(ep) ==
    \A id \in monitor_sessions' : destination'[id] = ep =>
        id \in monitor_sessions /\ destination[id] = ep

\* What a step of the runtime may do for a client: nothing, or one step of the callback.
Still(ep) == pc'[ep] = pc[ep] /\ request'[ep] = request[ep] /\ Shrinks(ep)

CallbackStep(ep) ==
    \/ /\ \/ pc[ep] \in {"attach", "create"} /\ pc'[ep] \in {"create", "insert", "error"}
          \/ pc[ep] = "record" /\ pc'[ep] = "subscribed"
          \/ pc[ep] = "forget" /\ pc'[ep] = "ok"
       /\ request'[ep] = request[ep] /\ Shrinks(ep)
    \/ /\ pc[ep] = "insert" /\ pc'[ep] = "record"
       /\ \A id \in monitor_sessions' : destination'[id] = ep =>
              id = request'[ep] \/ (id \in monitor_sessions /\ destination[id] = ep)
    \/ /\ pc[ep] = "detach" /\ pc'[ep] = "forget"
       /\ \A id \in monitor_sessions' : destination'[id] = ep =>
              id # request[ep] /\ id \in monitor_sessions /\ destination[id] = ep

LEMMA DetachShrinks ==
    ASSUME IInv, NEW id \in Ids, DetachMonitor(id), NEW ep \in Endpoints
    PROVE  Shrinks(ep) /\ id \notin monitor_sessions'
BY DEF DetachMonitor, Shrinks, IInv, TypeOK

LEMMA RuntimeStepAdvances ==
    ASSUME IInv, RuntimeStep, NEW ep \in Endpoints, command[ep] # "other"
    PROVE  Still(ep) \/ CallbackStep(ep)
<1> USE RuntimeAssumption DEF RuntimeAssumption
<1>1. /\ pc \in [Threads -> PCs] /\ ep \in Threads /\ ep # Loop /\ ep # Stopper
      /\ monitor_sessions \subseteq Ids /\ next_id \in Nat
      /\ destination \in [Ids -> Endpoints \cup {NoSession}]
      /\ request \in [Endpoints -> Ids \cup {NoSession}]
    BY DEF IInv, TypeOK, Threads
<1>2. ASSUME NEW e \in Endpoints, Connected(e) \/ Disconnect(e) \/ OtherClient(e)
      PROVE  Still(ep)
    BY <1>1, <1>2 DEF Connected, Accept, Disconnect, OtherClient, ReceiveSubscribe,
       ReceiveUnsubscribe, ReceiveOther, Receive, Goto, sessionVars, requestVars, Still, Shrinks
<1>3. ASSUME NEW e \in Endpoints, Work(e)
      PROVE  Still(ep) \/ CallbackStep(ep)
  <2>1. CASE InsertSession(e)
    <3>1. pc[e] = "insert" /\ pc' = [pc EXCEPT ![e] = "record"]
        BY <2>1 DEF InsertSession, At, Goto
    <3>2. /\ request' = [request EXCEPT ![e] = next_id]
          /\ monitor_sessions' = monitor_sessions \cup {next_id}
          /\ destination' = [destination EXCEPT ![next_id] = e]
          /\ next_id \in Ids
        BY <1>1, <2>1 DEF InsertSession, Ids
    <3>3. CASE e = ep
        BY <1>1, <3>1, <3>2, <3>3 DEF CallbackStep
    <3>4. CASE e # ep
        BY <1>1, <3>1, <3>2, <3>4 DEF Still, Shrinks
    <3> QED BY <3>3, <3>4
  <2>2. CASE Unsubscribe(e)
    <3>1. request[e] \in Ids /\ pc[e] = "detach" /\ pc' = [pc EXCEPT ![e] = "forget"]
          /\ request' = request
        BY <2>2 DEF Unsubscribe, IInv, RequestOK, At, Goto, requestVars
    <3>2. Shrinks(ep) /\ request[e] \notin monitor_sessions'
        BY <2>2, <3>1, DetachShrinks DEF Unsubscribe
    <3> QED BY <1>1, <3>1, <3>2 DEF Still, CallbackStep, Shrinks
  <2>3. CASE AttachMonitor(e) \/ CreateMonitorTransfer(e) \/ CreateMonitorTransferBusy(e)
    <3>1. /\ \E label \in {"create", "insert", "error"} : pc' = [pc EXCEPT ![e] = label]
          /\ pc[e] \in {"attach", "create"}
          /\ UNCHANGED <<request, monitor_sessions, destination>>
        BY <2>3 DEF AttachMonitor, CreateMonitorTransfer, CreateMonitorTransferBusy,
           At, Goto, sessionVars, requestVars
    <3> QED BY <1>1, <3>1 DEF Still, CallbackStep, Shrinks
  <2>4. CASE RecordSession(e) \/ ForgetSession(e)
    BY <1>1, <2>4 DEF RecordSession, ForgetSession, At, Goto, requestVars, Still, CallbackStep,
       Shrinks
  <2>5. CASE command[e] = "other" /\ Respond(e)
    BY <1>1, <2>5 DEF Respond, Goto, sessionVars, Still, Shrinks
  <2> QED BY <1>3, <2>1, <2>2, <2>3, <2>4, <2>5 DEF Work
<1>4. CASE ControlPlane
  <2>1. ASSUME NEW id \in Ids, CloseSession(id) PROVE Still(ep)
    <3>1. UNCHANGED <<pc, request>>
        BY <2>1 DEF CloseSession, requestVars
    <3> QED BY <2>1, <3>1, DetachShrinks DEF CloseSession, Still
  <2>2. CASE ProcessControlPlane \/ TakeEndpoints \/ CollectDisconnected \/ ControlPlaneDone
    BY <1>1, <2>2 DEF ProcessControlPlane, TakeEndpoints, CollectDisconnected,
       ControlPlaneDone, Goto, sessionVars, requestVars, Still, Shrinks
  <2>3. ASSUME NEW e \in Endpoints,
               SubscribeControl(e) \/ PushSession(e) \/ DetachSessionsForEndpoint(e)
        PROVE  Still(ep)
    BY <1>1, <2>3 DEF SubscribeControl, PushSession, DetachSessionsForEndpoint, Goto,
       sessionVars, requestVars, Still, Shrinks
  <2> QED BY <1>4, <2>1, <2>2, <2>3 DEF ControlPlane
<1>5. CASE StopCore \/ DetachMonitorRuntime \/ Shutdown
  <2>1. CASE ClearSessions
    BY <1>1, <2>1 DEF ClearSessions, Goto, requestVars, Still, Shrinks
  <2>2. CASE \/ StopCore \/ DetachMonitorRuntime \/ ShutdownAgain \/ EndpointsStopped
             \/ CloseMux \/ ResetHandler \/ \E e \in Endpoints : StopEndpoint(e)
    BY <1>1, <2>2 DEF StopCore, DetachMonitorRuntime, ShutdownAgain, EndpointsStopped,
       CloseMux, ResetHandler, StopEndpoint, Goto, sessionVars, requestVars, Still, Shrinks
  <2> QED BY <1>5, <2>1, <2>2 DEF Shutdown
<1> QED BY <1>2, <1>3, <1>4, <1>5 DEF RuntimeStep

\* What of this the matching of requests and responses depends on.
Quiet(ep) ==
    /\ pc'[ep] = "idle" <=> pc[ep] = "idle"
    /\ pc[ep] \in {"idle", "ok", "error"} => pc'[ep] = pc[ep]
    /\ pc[ep] # "insert" => Shrinks(ep)

LEMMA RuntimeStepIsQuiet ==
    ASSUME IInv, RuntimeStep, NEW ep \in Endpoints, command[ep] # "other"
    PROVE  Quiet(ep)
BY RuntimeStepAdvances DEF Still, CallbackStep, Quiet, Shrinks

LEMMA RuntimeCliStep ==
    ASSUME IInv, CliInv, RuntimeStep, UNCHANGED cliVars
    PROVE  CliInv'
<1> USE DEF CliInv
<1>1. CliTypeOK'
    BY DEF CliTypeOK, cliVars
<1>2. \A ep \in Endpoints : command[ep] # "other" => Quiet(ep)
    BY RuntimeStepIsQuiet
<1>3. OneAtATime'
    BY <1>2 DEF OneAtATime, OnItsWay, AtRuntime, OnItsWayBack, Nowhere, cliVars, Quiet
<1>4. ChannelsOK'
    BY <1>2 DEF ChannelsOK, cliVars, Quiet, Shrinks
<1> QED BY <1>1, <1>3, <1>4

-----------------------------------------------------------------------------
(* Which sessions a tail may have, and where its request about them is.     *)

NoneOf(ep) == \A id \in monitor_sessions : destination[id] # ep
OnlyOf(ep, s) == \A id \in monitor_sessions : destination[id] = ep => id = s

Running(ep) == cli_pc[ep] \notin {"exit", "exited"}

\* Until it subscribes, none.
TailListing(ep) ==
    asking[ep] = "query" /\ Running(ep) =>
        /\ NoneOf(ep) /\ pc[ep] \in {"idle", "ok", "error"}
        /\ \A i \in 1 .. Len(requests[ep]) : requests[ep][i].type = "query"

\* While it waits for the answer, the one the answer will name.
TailSubscribing(ep) ==
    asking[ep] = "subscribe" =>
        /\ cli_pc[ep] \in {"begin", "send"} => NoneOf(ep)
        /\ cli_pc[ep] = "wait" =>
              /\ \A i \in 1 .. Len(requests[ep]) : requests[ep][i].type = "subscribe"
              /\ pc[ep] \in {"idle", "attach", "create", "insert", "record", "subscribed",
                              "error"}
              /\ requests[ep] # <<>> \/ pc[ep] \in {"attach", "create", "insert"} => NoneOf(ep)
              /\ pc[ep] \in {"record", "subscribed"} => OnlyOf(ep, request[ep])
              /\ \A i \in 1 .. Len(responses[ep]) :
                    responses[ep][i].type = "subscribed" => OnlyOf(ep, responses[ep][i].id)
              /\ latest_response[ep] # Nothing /\ latest_response[ep].type = "subscribed" =>
                    OnlyOf(ep, latest_response[ep].id)

\* Then the one it was told, until the runtime has detached that one.
TailUnsubscribing(ep) ==
    /\ cli_pc[ep] = "tail" => asking[ep] = "subscribe" /\ OnlyOf(ep, session_id[ep])
    /\ asking[ep] = "unsubscribe" =>
        /\ cli_pc[ep] \in {"begin", "send", "wait"} => OnlyOf(ep, session_id[ep])
        /\ cli_pc[ep] = "wait" =>
              /\ \A i \in 1 .. Len(requests[ep]) :
                    requests[ep][i].type = "unsubscribe" /\ requests[ep][i].id = session_id[ep]
              /\ pc[ep] \in {"idle", "detach", "forget", "ok"}
              /\ pc[ep] = "detach" => request[ep] = session_id[ep]
              /\ pc[ep] \in {"forget", "ok"} \/ responses[ep] # <<>>
                    \/ latest_response[ep] # Nothing => NoneOf(ep)

\* Once it has reported success, none, and nothing is under way that could open one.
TailEnded(ep) ==
    ~Running(ep) /\ exit_code[ep] = 0 => NoneOf(ep) /\ Nowhere(ep)

TailAt(ep) ==
    /\ cli_pc[ep] = "start" => asking[ep] = "query"
    /\ TailListing(ep) /\ TailSubscribing(ep) /\ TailUnsubscribing(ep) /\ TailEnded(ep)

TailOK == \A ep \in Endpoints : command[ep] = "tail" => TailAt(ep)

\* What TailAt(ep) is about, but for the sessions.
Same(ep) ==
    /\ command'[ep] = command[ep] /\ cli_pc'[ep] = cli_pc[ep] /\ asking'[ep] = asking[ep]
    /\ latest_response'[ep] = latest_response[ep] /\ session_id'[ep] = session_id[ep]
    /\ exit_code'[ep] = exit_code[ep]
    /\ requests'[ep] = requests[ep] /\ responses'[ep] = responses[ep]
    /\ pc'[ep] = pc[ep] /\ request'[ep] = request[ep]

LEMMA TailFrame ==
    ASSUME NEW ep \in Endpoints, TailAt(ep), Same(ep), Shrinks(ep)
    PROVE  TailAt(ep)'
<1> USE DEF Same, Running
<1>1. NoneOf(ep) => NoneOf(ep)'
    BY DEF Shrinks, NoneOf
<1>2. \A s : OnlyOf(ep, s) => OnlyOf(ep, s)'
    BY DEF Shrinks, OnlyOf
<1>3. TailListing(ep)'
    BY <1>1 DEF TailAt, TailListing
<1>4. TailSubscribing(ep)'
    BY <1>1, <1>2 DEF TailAt, TailSubscribing
<1>5. TailUnsubscribing(ep)'
    BY <1>1, <1>2 DEF TailAt, TailUnsubscribing
<1>6. TailEnded(ep)'
    BY <1>1 DEF TailAt, TailEnded, Nowhere
<1> QED BY <1>3, <1>4, <1>5, <1>6 DEF TailAt

LEMMA InitTailOK == CliInit => TailOK
<1> SUFFICES ASSUME CliInit, NEW ep \in Endpoints PROVE TailAt(ep)
    BY DEF TailOK
<1> USE RuntimeAssumption DEF CliInit, Init, Threads, Running, NoneOf
<1>1. TailListing(ep)
    BY DEF TailListing
<1>2. TailSubscribing(ep) /\ TailUnsubscribing(ep) /\ TailEnded(ep)
    BY DEF TailSubscribing, TailUnsubscribing, TailEnded
<1> QED BY <1>1, <1>2 DEF TailAt

\* A step of one client, or of the callback that serves it, is no step of another.
LEMMA OtherClientsStill ==
    ASSUME IInv, CliInv, NEW ep \in Endpoints, ClientStep(ep) \/ Serve(ep) \/ Reply(ep),
           NEW o \in Endpoints, o # ep
    PROVE  Same(o) /\ Shrinks(o)
<1>1. pc \in [Threads -> PCs] /\ Endpoints \subseteq Threads
      /\ request \in [Endpoints -> Ids \cup {NoSession}]
    BY DEF IInv, TypeOK, Threads
<1>2. ASSUME ClientStep(ep)
      PROVE  Same(o) /\ Shrinks(o)
  <2>1. UNCHANGED <<pc, request, monitor_sessions, destination>>
      BY <1>2, ClientStepKeepsRuntime DEF vars
  <2>2. Shrinks(o)
      BY <2>1 DEF Shrinks
  <2> USE <2>1, <2>2 DEF CliInv, CliTypeOK, CliAt, CliGoto, Return, Same, clientVars, wireVars
  <2>3. CASE Start(ep)
      BY <2>3 DEF Start
  <2>4. CASE BeginRequest(ep) \/ Timeout(ep) \/ TakeResponse(ep) \/ TailUnsubscribes(ep)
      BY <2>4 DEF BeginRequest, Timeout, TakeResponse, TailUnsubscribes
  <2>5. CASE SendRequest(ep)
      BY <2>5 DEF SendRequest
  <2>6. CASE TailListed(ep)
      BY <2>6 DEF TailListed
  <2>7. CASE TailSubscribed(ep)
      BY <2>7 DEF TailSubscribed
  <2>8. CASE Exit(ep) \/ StopTail(ep)
      BY <2>8 DEF Exit, StopTail
  <2>9. CASE ReceiveResponse(ep) \/ LoseRequest(ep) \/ LoseResponse(ep)
      BY <2>9 DEF ReceiveResponse, LoseRequest, LoseResponse
  <2> QED BY <1>2, <2>3, <2>4, <2>5, <2>6, <2>7, <2>8, <2>9 DEF ClientStep, Main
<1>3. ASSUME Serve(ep)
      PROVE  Same(o) /\ Shrinks(o)
  <2>1. /\ \E label \in {"attach", "detach", "ok", "error"} : pc' = [pc EXCEPT ![ep] = label]
        /\ \E id \in Ids \cup {NoSession} : request' = [request EXCEPT ![ep] = id]
        /\ UNCHANGED <<monitor_sessions, destination>>
      BY <1>3 DEF Serve, Receive, ReceiveSubscribe, ReceiveUnsubscribe, ReceiveOther, Goto,
         sessionVars
  <2> QED BY <1>1, <1>3, <2>1 DEF Serve, CliInv, CliTypeOK, Same, Shrinks, clientVars
<1>4. ASSUME Reply(ep)
      PROVE  Same(o) /\ Shrinks(o)
  <2>1. /\ pc' = [pc EXCEPT ![ep] = "idle"] /\ request' = [request EXCEPT ![ep] = NoSession]
        /\ UNCHANGED <<monitor_sessions, destination>>
      BY <1>4 DEF Reply, Respond, Goto, sessionVars
  <2> QED BY <1>1, <1>4, <2>1 DEF Reply, CliInv, CliTypeOK, Same, Shrinks, clientVars
<1> QED BY <1>2, <1>3, <1>4

\* A tail that has an answer, or asks nothing, has nothing under way.
LEMMA NothingUnderWay ==
    ASSUME CliInv, NEW ep \in Endpoints, command[ep] = "tail",
           cli_pc[ep] \in {"start", "begin", "send", "tail"}
             \/ (cli_pc[ep] = "wait" /\ latest_response[ep] # Nothing)
    PROVE  Nowhere(ep)
BY DEF CliInv, OneAtATime

\* The steps of the process itself.
LEMMA TailMainStep ==
    ASSUME IInv, CliInv, NEW ep \in Endpoints, command[ep] = "tail", TailAt(ep),
           Start(ep) \/ Main(ep) \/ StopTail(ep)
    PROVE  TailAt(ep)'
<1>0. UNCHANGED <<pc, request, monitor_sessions, destination>>
    BY ClientStepKeepsRuntime DEF ClientStep, vars
<1>1. /\ NoneOf(ep)' <=> NoneOf(ep)
      /\ \A s : OnlyOf(ep, s)' <=> OnlyOf(ep, s)
      /\ pc'[ep] = pc[ep] /\ request'[ep] = request[ep]
    BY <1>0 DEF NoneOf, OnlyOf
<1>2. UNCHANGED responses
    BY DEF Start, Main, StopTail, BeginRequest, SendRequest, Timeout, TakeResponse, TailListed,
       TailSubscribed, TailUnsubscribes, Exit, wireVars
<1> USE <1>1, <1>2 DEF Running
<1>3. CASE Start(ep)
  <2>1. cli_pc[ep] = "start" /\ Nowhere(ep)
      BY <1>3, NothingUnderWay DEF Start, CliAt
  <2>2. /\ \/ cli_pc'[ep] = "begin" /\ asking'[ep] = "query"
           \/ cli_pc'[ep] = "exit" /\ exit_code'[ep] = 1 /\ asking'[ep] = asking[ep]
        /\ asking[ep] = "query" /\ requests'[ep] = requests[ep]
      BY <1>3, <2>1 DEF Start, CliInv, CliTypeOK, CliGoto, Return, TailAt, wireVars
  <2> QED BY <2>1, <2>2
          DEF TailAt, TailListing, TailSubscribing, TailUnsubscribing, TailEnded, Nowhere
<1>4. CASE BeginRequest(ep)
  <2>1. cli_pc[ep] = "begin" /\ Nowhere(ep)
      BY <1>4, NothingUnderWay DEF BeginRequest, CliAt
  <2>2. /\ cli_pc'[ep] = "send" /\ asking'[ep] = asking[ep] /\ requests'[ep] = requests[ep]
        /\ session_id'[ep] = session_id[ep]
      BY <1>4, <2>1 DEF BeginRequest, CliInv, CliTypeOK, CliGoto, wireVars
  <2> QED BY <2>1, <2>2
          DEF TailAt, TailListing, TailSubscribing, TailUnsubscribing, TailEnded, Nowhere
<1>5. CASE SendRequest(ep)
  <2> DEFINE r == [type |-> asking[ep], serial |-> asked[ep],
                   id |-> IF asking[ep] = "unsubscribe" THEN session_id[ep] ELSE NoSession]
  <2>1. cli_pc[ep] = "send" /\ Nowhere(ep) /\ latest_response[ep] = Nothing
      BY <1>5, NothingUnderWay DEF SendRequest, CliAt, CliInv, OneAtATime
  <2>2. r.type = asking[ep] /\ (asking[ep] = "unsubscribe" => r.id = session_id[ep])
      OBVIOUS
  <2>3. /\ cli_pc'[ep] = "wait" /\ asking'[ep] = asking[ep]
        /\ requests'[ep] = Append(requests[ep], r)
        /\ session_id'[ep] = session_id[ep] /\ latest_response'[ep] = latest_response[ep]
      BY <1>5 DEF SendRequest, CliInv, CliTypeOK, CliGoto, clientVars
  <2> HIDE DEF r
  <2>4. \A i \in 1 .. Len(requests'[ep]) : requests'[ep][i] = r
      BY <2>1, <2>3 DEF Nowhere
  <2>5. responses[ep] = <<>> /\ Len(responses[ep]) = 0
      BY <2>1 DEF Nowhere
  <2>6. TailListing(ep)' /\ TailEnded(ep)'
      BY <2>1, <2>2, <2>3, <2>4 DEF TailAt, TailListing, TailEnded
  <2>7. TailSubscribing(ep)'
      BY <2>1, <2>2, <2>3, <2>4, <2>5 DEF TailAt, TailSubscribing, Nowhere
  <2>8. TailUnsubscribing(ep)'
      BY <2>1, <2>2, <2>3, <2>4, <2>5 DEF TailAt, TailUnsubscribing, Nowhere
  <2> QED BY <2>3, <2>6, <2>7, <2>8 DEF TailAt
<1>6. CASE Timeout(ep) \/ TakeResponse(ep)
  <2>1. cli_pc'[ep] = "exit" /\ exit_code'[ep] = 1
      BY <1>6 DEF Timeout, TakeResponse, CliInv, CliTypeOK, Return
  <2> QED BY <2>1 DEF TailAt, TailListing, TailSubscribing, TailUnsubscribing, TailEnded
<1>7. CASE TailListed(ep)
  <2>1. cli_pc[ep] = "wait" /\ asking[ep] = "query" /\ Nowhere(ep)
      BY <1>7, NothingUnderWay DEF TailListed, CliAt
  <2>2. /\ \/ cli_pc'[ep] = "begin" /\ asking'[ep] = "subscribe"
           \/ cli_pc'[ep] = "exit" /\ exit_code'[ep] = 1 /\ asking'[ep] = "query"
        /\ requests'[ep] = requests[ep]
      BY <1>7, <2>1 DEF TailListed, CliInv, CliTypeOK, CliGoto, Return, wireVars
  <2> QED BY <2>1, <2>2
          DEF TailAt, TailListing, TailSubscribing, TailUnsubscribing, TailEnded, Nowhere
<1>8. CASE TailSubscribed(ep)
  <2>1. /\ cli_pc[ep] = "wait" /\ asking[ep] = "subscribe" /\ asking'[ep] = asking[ep]
        /\ latest_response[ep] # Nothing
      BY <1>8 DEF TailSubscribed, CliAt
  <2>2. \/ /\ latest_response[ep].type = "subscribed"
           /\ cli_pc'[ep] = "tail" /\ session_id'[ep] = latest_response[ep].id
        \/ cli_pc'[ep] = "exit" /\ exit_code'[ep] = 1
      BY <1>8 DEF TailSubscribed, CliInv, CliTypeOK, CliGoto, Return
  <2>3. latest_response[ep].type = "subscribed" => OnlyOf(ep, latest_response[ep].id)
      BY <2>1 DEF TailAt, TailSubscribing
  <2> QED BY <2>1, <2>2, <2>3
          DEF TailAt, TailListing, TailSubscribing, TailUnsubscribing, TailEnded
<1>9. CASE StopTail(ep)
  <2>1. cli_pc[ep] = "tail" /\ OnlyOf(ep, session_id[ep])
      BY <1>9 DEF StopTail, CliAt, TailAt, TailUnsubscribing
  <2>2. cli_pc'[ep] = "begin" /\ asking'[ep] = "unsubscribe" /\ session_id'[ep] = session_id[ep]
      BY <1>9 DEF StopTail, CliInv, CliTypeOK, CliGoto
  <2> QED BY <2>1, <2>2
          DEF TailAt, TailListing, TailSubscribing, TailUnsubscribing, TailEnded
<1>10. CASE TailUnsubscribes(ep)
  <2>1. cli_pc[ep] = "wait" /\ asking[ep] = "unsubscribe" /\ latest_response[ep] # Nothing
      BY <1>10 DEF TailUnsubscribes, CliAt
  <2>2. Nowhere(ep) /\ NoneOf(ep)
      BY <2>1, NothingUnderWay DEF TailAt, TailUnsubscribing
  <2>3. cli_pc'[ep] = "exit" /\ asking'[ep] = "unsubscribe" /\ requests'[ep] = requests[ep]
      BY <1>10, <2>1 DEF TailUnsubscribes, CliInv, CliTypeOK, Return, clientVars, wireVars
  <2> QED BY <2>2, <2>3
          DEF TailAt, TailListing, TailSubscribing, TailUnsubscribing, TailEnded, Nowhere
<1>11. CASE Exit(ep)
  <2>1. /\ cli_pc[ep] = "exit" /\ cli_pc'[ep] = "exited" /\ exit_code'[ep] = exit_code[ep]
        /\ requests'[ep] = requests[ep] /\ asking'[ep] = asking[ep]
      BY <1>11 DEF Exit, CliInv, CliTypeOK, CliAt, CliGoto, clientVars, wireVars
  <2> QED BY <2>1
          DEF TailAt, TailListing, TailSubscribing, TailUnsubscribing, TailEnded, Nowhere
<1> QED BY <1>3, <1>4, <1>5, <1>6, <1>7, <1>8, <1>9, <1>10, <1>11 DEF Main

\* What is on the wires of a tail arrives or is lost.
LEMMA TailWireStep ==
    ASSUME IInv, CliInv, NEW ep \in Endpoints, command[ep] = "tail", TailAt(ep),
           ReceiveResponse(ep) \/ LoseRequest(ep) \/ LoseResponse(ep)
    PROVE  TailAt(ep)'
<1>0. UNCHANGED <<pc, request, monitor_sessions, destination>>
    BY ClientStepKeepsRuntime DEF ClientStep, vars
<1>1. /\ NoneOf(ep)' <=> NoneOf(ep)
      /\ \A s : OnlyOf(ep, s)' <=> OnlyOf(ep, s)
      /\ pc'[ep] = pc[ep] /\ request'[ep] = request[ep]
    BY <1>0 DEF NoneOf, OnlyOf
<1>2. UNCHANGED <<cli_pc, asking, session_id, exit_code>>
    BY DEF ReceiveResponse, LoseRequest, LoseResponse, clientVars
<1>3. requests[ep] \in Seq(Requests) /\ responses[ep] \in Seq(Responses)
    BY DEF CliInv, CliTypeOK
<1> USE <1>1, <1>2 DEF Running
<1>4. CASE ReceiveResponse(ep)
  <2>1. responses[ep] # <<>> /\ Running(ep)
      BY <1>4 DEF ReceiveResponse
  <2>2. /\ responses'[ep] = Tail(responses[ep]) /\ latest_response'[ep] = Head(responses[ep])
        /\ requests'[ep] = requests[ep]
      BY <1>4 DEF ReceiveResponse, CliInv, CliTypeOK
  <2>3. cli_pc[ep] = "wait"
      BY <2>1, NothingUnderWay DEF CliInv, CliTypeOK, CliPCs, Nowhere
  <2>4. PICK r \in Responses : responses[ep] = <<r>> /\ requests[ep] = <<>> /\ pc[ep] = "idle"
      BY <2>1, <2>3 DEF CliInv, OneAtATime, OnItsWay, OnItsWayBack, AtRuntime, Nowhere
  <2>5. responses'[ep] = <<>> /\ Len(responses'[ep]) = 0 /\ latest_response'[ep] = r
      BY <2>2, <2>4
  <2>6. 1 \in 1 .. Len(responses[ep]) /\ responses[ep][1] = r
      BY <2>4
  <2>7. asking[ep] = "subscribe" /\ r.type = "subscribed" => OnlyOf(ep, r.id)
      BY <2>3, <2>6 DEF TailAt, TailSubscribing
  <2>8. asking[ep] = "unsubscribe" => NoneOf(ep)
      BY <2>1, <2>3 DEF TailAt, TailUnsubscribing
  <2>9. TailListing(ep)'
      BY <2>2 DEF TailAt, TailListing
  <2>10. TailSubscribing(ep)'
      BY <2>2, <2>3, <2>5, <2>7 DEF TailAt, TailSubscribing
  <2>11. TailUnsubscribing(ep)'
      BY <2>2, <2>3, <2>8 DEF TailAt, TailUnsubscribing
  <2> QED BY <2>3, <2>9, <2>10, <2>11 DEF TailAt, TailEnded
<1>5. CASE LoseRequest(ep)
  <2>1. /\ requests[ep] # <<>> /\ requests'[ep] = Tail(requests[ep])
        /\ responses'[ep] = responses[ep] /\ latest_response'[ep] = latest_response[ep]
      BY <1>5 DEF LoseRequest, CliInv, CliTypeOK
  <2>2. \A i \in 1 .. Len(requests'[ep]) :
            i + 1 \in 1 .. Len(requests[ep]) /\ requests'[ep][i] = requests[ep][i + 1]
    <3> DEFINE q == requests[ep]
    <3>1. q \in Seq(Requests) /\ q # <<>> /\ requests'[ep] = Tail(q)
        BY <1>3, <2>1
    <3> HIDE DEF q
    <3>2. \A i \in 1 .. Len(Tail(q)) : i + 1 \in 1 .. Len(q) /\ Tail(q)[i] = q[i + 1]
        BY <3>1
    <3> QED BY <3>1, <3>2 DEF q
  <2>3. TailListing(ep)'
      BY <2>2 DEF TailAt, TailListing
  <2>4. TailSubscribing(ep)'
      BY <2>1, <2>2 DEF TailAt, TailSubscribing
  <2>5. TailUnsubscribing(ep)'
      BY <2>1, <2>2 DEF TailAt, TailUnsubscribing
  <2>6. TailEnded(ep)'
      BY <2>1 DEF TailAt, TailEnded, Nowhere
  <2> QED BY <2>3, <2>4, <2>5, <2>6 DEF TailAt
<1>6. CASE LoseResponse(ep)
  <2>1. /\ responses[ep] # <<>> /\ responses'[ep] = Tail(responses[ep])
        /\ requests'[ep] = requests[ep] /\ latest_response'[ep] = latest_response[ep]
      BY <1>6 DEF LoseResponse, CliInv, CliTypeOK
  <2>2. \A i \in 1 .. Len(responses'[ep]) :
            i + 1 \in 1 .. Len(responses[ep]) /\ responses'[ep][i] = responses[ep][i + 1]
    <3> DEFINE q == responses[ep]
    <3>1. q \in Seq(Responses) /\ q # <<>> /\ responses'[ep] = Tail(q)
        BY <1>3, <2>1
    <3> HIDE DEF q
    <3>2. \A i \in 1 .. Len(Tail(q)) : i + 1 \in 1 .. Len(q) /\ Tail(q)[i] = q[i + 1]
        BY <3>1
    <3> QED BY <3>1, <3>2 DEF q
  <2>3. TailListing(ep)'
      BY <2>1 DEF TailAt, TailListing
  <2>4. TailSubscribing(ep)'
      BY <2>1, <2>2 DEF TailAt, TailSubscribing
  <2>5. TailUnsubscribing(ep)'
      BY <2>1 DEF TailAt, TailUnsubscribing
  <2>6. TailEnded(ep)'
      BY <2>1 DEF TailAt, TailEnded, Nowhere
  <2> QED BY <2>3, <2>4, <2>5, <2>6 DEF TailAt
<1> QED BY <1>4, <1>5, <1>6

\* A request of a tail is taken from the wire.
LEMMA TailServeStep ==
    ASSUME IInv, CliInv, NEW ep \in Endpoints, command[ep] = "tail", TailAt(ep), Serve(ep)
    PROVE  TailAt(ep)'
<1> DEFINE r == Head(requests[ep])
<1>1. /\ requests[ep] # <<>> /\ pc[ep] = "idle"
      /\ UNCHANGED <<monitor_sessions, destination, cli_pc, asking, session_id, exit_code,
                     latest_response, responses>>
    BY DEF Serve, Receive, ReceiveSubscribe, ReceiveUnsubscribe, ReceiveOther, At, sessionVars,
       clientVars
<1>2. /\ NoneOf(ep)' <=> NoneOf(ep)
      /\ \A s : OnlyOf(ep, s)' <=> OnlyOf(ep, s)
    BY <1>1 DEF NoneOf, OnlyOf
<1>3. \/ r.type = "query" /\ pc'[ep] \in {"ok", "error"}
      \/ r.type = "subscribe" /\ pc'[ep] \in {"attach", "error"}
      \/ r.type = "unsubscribe" /\ r.id \in Ids /\ pc'[ep] = "detach" /\ request'[ep] = r.id
      \/ r.type = "unsubscribe" /\ r.id = NoSession /\ pc'[ep] = "ok"
  <2>1. pc \in [Threads -> PCs] /\ ep \in Threads /\ request \in [Endpoints -> Ids \cup {NoSession}]
      BY DEF IInv, TypeOK, Threads
  <2> QED BY <2>1 DEF Serve, Receive, ReceiveSubscribe, ReceiveUnsubscribe, ReceiveOther, Goto
<1>4. requests[ep] \in Seq(Requests) /\ requests'[ep] = Tail(requests[ep])
    BY DEF Serve, CliInv, CliTypeOK
<1> HIDE DEF r
<1>5. CASE Running(ep)
  <2>1. cli_pc[ep] = "wait"
      BY <1>1, <1>5, NothingUnderWay DEF Running, CliInv, CliTypeOK, CliPCs, Nowhere
  <2>2. /\ \E q \in Requests : requests[ep] = <<q>>
        /\ latest_response[ep] = Nothing /\ responses[ep] = <<>>
      BY <1>1, <2>1 DEF CliInv, OneAtATime, OnItsWay, OnItsWayBack, AtRuntime, Nowhere
  <2>3. /\ requests'[ep] = <<>> /\ Len(requests'[ep]) = 0 /\ Len(responses[ep]) = 0
        /\ 1 \in 1 .. Len(requests[ep]) /\ requests[ep][1] = r
      BY <1>4, <2>2 DEF r
  <2>4. CASE asking[ep] = "query"
    <3>1. r.type = "query" /\ NoneOf(ep)
        BY <1>5, <2>3, <2>4 DEF TailAt, TailListing
    <3> QED BY <1>1, <1>2, <1>3, <2>1, <2>3, <2>4, <3>1
            DEF TailAt, TailListing, TailSubscribing, TailUnsubscribing, TailEnded, Running
  <2>5. CASE asking[ep] = "subscribe"
    <3>1. r.type = "subscribe" /\ NoneOf(ep)
        BY <1>1, <2>1, <2>3, <2>5 DEF TailAt, TailSubscribing
    <3> QED BY <1>1, <1>2, <1>3, <2>1, <2>2, <2>3, <2>5, <3>1
            DEF TailAt, TailListing, TailSubscribing, TailUnsubscribing, TailEnded, Running
  <2>6. CASE asking[ep] = "unsubscribe"
    <3>1. r.type = "unsubscribe" /\ r.id = session_id[ep] /\ OnlyOf(ep, session_id[ep])
        BY <2>1, <2>3, <2>6 DEF TailAt, TailUnsubscribing
    <3>2. session_id[ep] = NoSession => NoneOf(ep)
        BY <3>1, RuntimeAssumption DEF OnlyOf, NoneOf, IInv, TypeOK, RuntimeAssumption
    <3> QED BY <1>1, <1>2, <1>3, <2>1, <2>2, <2>3, <2>6, <3>1, <3>2
            DEF TailAt, TailListing, TailSubscribing, TailUnsubscribing, TailEnded, Running
  <2> QED BY <2>4, <2>5, <2>6 DEF CliInv, CliTypeOK, RequestTypes
<1>6. CASE ~Running(ep)
  <2>1. exit_code[ep] # 0
      BY <1>1, <1>6 DEF TailAt, TailEnded, Nowhere
  <2> QED BY <1>1, <1>6, <2>1
          DEF TailAt, TailListing, TailSubscribing, TailUnsubscribing, TailEnded, Running
<1> QED BY <1>5, <1>6

\* A response is sent to a tail, or lost.
LEMMA TailReplyStep ==
    ASSUME IInv, CliInv, NEW ep \in Endpoints, command[ep] = "tail", TailAt(ep), Reply(ep)
    PROVE  TailAt(ep)'
<1> DEFINE r == [type |-> pc[ep], id |-> request[ep], serial |-> serving[ep]]
<1>1. /\ pc[ep] \in ResponseTypes
      /\ UNCHANGED <<monitor_sessions, destination, cli_pc, asking, session_id, exit_code,
                     latest_response, requests>>
    BY DEF Reply, Respond, sessionVars, clientVars, ResponseTypes
<1>2. /\ NoneOf(ep)' <=> NoneOf(ep)
      /\ \A s : OnlyOf(ep, s)' <=> OnlyOf(ep, s)
    BY <1>1 DEF NoneOf, OnlyOf
<1>3. pc'[ep] = "idle"
  <2>1. pc \in [Threads -> PCs] /\ ep \in Threads
      BY DEF IInv, TypeOK, Threads
  <2> QED BY <2>1 DEF Reply, Respond, Goto
<1>4. responses'[ep] \in {responses[ep], Append(responses[ep], r)}
    BY DEF Reply, CliInv, CliTypeOK
<1>5. r.type = pc[ep] /\ r.id = request[ep]
    OBVIOUS
<1> HIDE DEF r
<1>6. CASE Running(ep)
  <2>1. cli_pc[ep] = "wait"
      BY <1>1, <1>6, NothingUnderWay DEF Running, CliInv, CliTypeOK, CliPCs, Nowhere, ResponseTypes
  <2>2. requests[ep] = <<>> /\ latest_response[ep] = Nothing /\ responses[ep] = <<>>
      BY <1>1, <2>1 DEF CliInv, OneAtATime, OnItsWay, OnItsWayBack, AtRuntime, Nowhere,
         ResponseTypes
  <2>3. \A i \in 1 .. Len(responses'[ep]) : responses'[ep][i] = r
      BY <1>4, <2>2
  <2>4. TailListing(ep)'
      BY <1>1, <1>2, <1>3 DEF TailAt, TailListing, Running
  <2>5. TailSubscribing(ep)'
      BY <1>1, <1>2, <1>3, <1>5, <2>1, <2>2, <2>3 DEF TailAt, TailSubscribing
  <2>6. TailUnsubscribing(ep)'
    <3>1. asking[ep] = "unsubscribe" => NoneOf(ep)
        BY <1>1, <2>1 DEF TailAt, TailUnsubscribing, ResponseTypes
    <3> QED BY <1>1, <1>2, <1>3, <2>1, <3>1 DEF TailAt, TailUnsubscribing
  <2> QED BY <1>1, <2>1, <2>4, <2>5, <2>6 DEF TailAt, TailEnded, Running
<1>7. CASE ~Running(ep)
  <2>1. exit_code[ep] # 0
      BY <1>1, <1>7 DEF TailAt, TailEnded, Nowhere, ResponseTypes
  <2> QED BY <1>1, <1>7, <2>1
          DEF TailAt, TailListing, TailSubscribing, TailUnsubscribing, TailEnded, Running
<1> QED BY <1>6, <1>7

\* The callback works on a request of a tail, or the runtime closes a session.
LEMMA TailRuntimeStep ==
    ASSUME IInv, CliInv, NEW ep \in Endpoints, command[ep] = "tail", TailAt(ep),
           RuntimeStep, UNCHANGED cliVars
    PROVE  TailAt(ep)'
<1>1. CASE Still(ep)
    BY <1>1, TailFrame DEF Still, Same, cliVars
<1>2. CASE CallbackStep(ep)
  <2>1. pc[ep] # "idle"
      BY <1>2 DEF CallbackStep
  <2>2. CASE cli_pc[ep] = "wait" /\ asking[ep] # "query"
    <3>1. requests[ep] = <<>> /\ latest_response[ep] = Nothing /\ responses[ep] = <<>>
        BY <2>1, <2>2 DEF CliInv, OneAtATime, OnItsWay, OnItsWayBack, AtRuntime, Nowhere
    <3>2. Len(requests[ep]) = 0 /\ Len(responses[ep]) = 0
        BY <3>1
    <3>3. Shrinks(ep) => /\ NoneOf(ep) => NoneOf(ep)'
                         /\ \A s : OnlyOf(ep, s) => OnlyOf(ep, s)'
        BY DEF Shrinks, NoneOf, OnlyOf
    <3>4. CASE asking[ep] = "subscribe"
      <4>1. /\ pc[ep] \in {"attach", "create", "insert"} => NoneOf(ep)
            /\ pc[ep] = "record" => OnlyOf(ep, request[ep])
            /\ pc[ep] \notin {"detach", "forget"}
          BY <2>2, <3>4 DEF TailAt, TailSubscribing
      <4>2. \/ pc'[ep] \in {"create", "insert"} /\ NoneOf(ep)'
            \/ pc'[ep] = "error"
            \/ pc'[ep] \in {"record", "subscribed"} /\ OnlyOf(ep, request[ep])'
        <5>1. CASE pc[ep] \in {"attach", "create"}
            BY <1>2, <3>3, <4>1, <5>1 DEF CallbackStep
        <5>2. CASE pc[ep] = "record"
            BY <1>2, <3>3, <4>1, <5>2 DEF CallbackStep
        <5>3. CASE pc[ep] = "insert"
          <6>1. /\ pc'[ep] = "record"
                /\ \A id \in monitor_sessions' : destination'[id] = ep =>
                      id = request'[ep] \/ (id \in monitor_sessions /\ destination[id] = ep)
              BY <1>2, <5>3 DEF CallbackStep
          <6> QED BY <4>1, <5>3, <6>1 DEF NoneOf, OnlyOf
        <5> QED BY <1>2, <4>1, <5>1, <5>2, <5>3 DEF CallbackStep
      <4>3. /\ cli_pc'[ep] = "wait" /\ asking'[ep] = "subscribe"
            /\ requests'[ep] = <<>> /\ latest_response'[ep] = Nothing
            /\ Len(requests'[ep]) = 0 /\ Len(responses'[ep]) = 0
          BY <2>2, <3>1, <3>2, <3>4 DEF cliVars
      <4>4. TailSubscribing(ep)'
          BY <4>2, <4>3 DEF TailSubscribing
      <4> QED BY <4>3, <4>4 DEF TailAt, TailListing, TailUnsubscribing, TailEnded, Running
    <3>5. CASE asking[ep] = "unsubscribe"
      <4>1. OnlyOf(ep, session_id[ep]) /\ pc[ep] \in {"detach", "forget"}
            /\ (pc[ep] = "detach" => request[ep] = session_id[ep])
            /\ (pc[ep] = "forget" => NoneOf(ep))
          BY <1>2, <2>2, <3>5 DEF TailAt, TailUnsubscribing, CallbackStep
      <4>2. NoneOf(ep)' /\ pc'[ep] \in {"forget", "ok"}
          BY <1>2, <3>3, <4>1 DEF CallbackStep, NoneOf, OnlyOf
      <4>3. OnlyOf(ep, session_id[ep])'
          BY <4>2 DEF NoneOf, OnlyOf
      <4> QED BY <2>2, <3>1, <3>2, <3>5, <4>2, <4>3
              DEF TailAt, TailListing, TailSubscribing, TailUnsubscribing, TailEnded, Running,
                  cliVars
    <3> QED BY <2>2, <3>4, <3>5 DEF CliInv, CliTypeOK, RequestTypes
  <2>3. CASE cli_pc[ep] = "wait" /\ asking[ep] = "query"
    <3>1. pc[ep] \in {"ok", "error"}
        BY <2>1, <2>3 DEF TailAt, TailListing, Running
    <3> QED BY <1>2, <3>1 DEF CallbackStep
  <2>4. CASE cli_pc[ep] # "wait"
    <3>1. ~Running(ep) /\ exit_code[ep] # 0
        BY <2>1, <2>4, NothingUnderWay
           DEF TailAt, TailEnded, Nowhere, Running, CliInv, CliTypeOK, CliPCs
    <3> QED BY <3>1 DEF TailAt, TailListing, TailSubscribing, TailUnsubscribing, TailEnded,
                        Running, cliVars
  <2> QED BY <2>2, <2>3, <2>4
<1> QED BY <1>1, <1>2, RuntimeStepAdvances

LEMMA TailStep ==
    ASSUME IInv, CliInv, TailOK, [CliNext]_allVars
    PROVE  TailOK'
<1> SUFFICES ASSUME NEW ep \in Endpoints, command'[ep] = "tail" PROVE TailAt(ep)'
    BY DEF TailOK
<1>1. command' = command
  <2>1. ASSUME NEW o \in Endpoints, ClientStep(o)
        PROVE  command' = command
      BY <2>1 DEF ClientStep, Start, Main, StopTail, ReceiveResponse, LoseRequest, LoseResponse,
         BeginRequest, SendRequest, Timeout, TakeResponse, TailListed, TailSubscribed,
         TailUnsubscribes, Exit, clientVars
  <2>2. ASSUME NEW o \in Endpoints, Serve(o) \/ Reply(o)
        PROVE  command' = command
      BY <2>2 DEF Serve, Reply, clientVars
  <2>3. CASE UNCHANGED cliVars
      BY <2>3 DEF cliVars
  <2>4. CASE UNCHANGED allVars
      BY <2>4 DEF allVars, cliVars
  <2> QED BY <2>1, <2>2, <2>3, <2>4, StepKinds
<1>2. TailAt(ep) /\ command[ep] = "tail"
    BY <1>1 DEF TailOK
<1>3. ASSUME NEW o \in Endpoints, ClientStep(o) \/ Serve(o) \/ Reply(o)
      PROVE  TailAt(ep)'
  <2>1. CASE o = ep
      BY <1>2, <1>3, <2>1, TailMainStep, TailWireStep, TailServeStep, TailReplyStep DEF ClientStep
  <2>2. CASE o # ep
      BY <1>2, <1>3, <2>2, OtherClientsStill, TailFrame
  <2> QED BY <2>1, <2>2
<1>4. CASE RuntimeStep /\ UNCHANGED cliVars
    BY <1>2, <1>4, TailRuntimeStep
<1>5. CASE UNCHANGED allVars
  <2>1. Same(ep) /\ Shrinks(ep)
      BY <1>5 DEF allVars, vars, cliVars, Same, Shrinks
  <2> QED BY <1>2, <2>1, TailFrame
<1> QED BY <1>3, <1>4, <1>5, StepKinds

-----------------------------------------------------------------------------
(* The theorems.                                                           *)

LEMMA CliStep ==
    ASSUME IInv, CliInv, [CliNext]_allVars
    PROVE  CliInv'
<1>1. CASE UNCHANGED allVars
  <2> USE <1>1 DEF allVars, vars, cliVars
  <2>1. CliTypeOK' /\ ChannelsOK'
      BY DEF CliInv, CliTypeOK, ChannelsOK
  <2>2. OneAtATime'
      BY DEF CliInv, OneAtATime, OnItsWay, AtRuntime, OnItsWayBack, Nowhere
  <2> QED BY <2>1, <2>2 DEF CliInv
<1>2. CASE CliNext
    BY <1>2, StepKinds, ClientCliStep, ServeCliStep, ReplyCliStep, RuntimeCliStep
<1> QED BY <1>1, <1>2

\* A client has at most one request or response under way, and a tail no session
\* before its callbacks are installed.
THEOREM CliInvariance == CliSpec => []CliInv
<1>1. CliSpec => []IInv
    BY CliImplementsRuntime, Invariance, PTL
<1>2. CliInit => CliInv
    BY InitCliInv
<1>3. IInv /\ CliInv /\ [CliNext]_allVars => CliInv'
    BY CliStep
<1> QED BY <1>1, <1>2, <1>3, PTL DEF CliSpec

\* Clients, wires and history keep their types.
THEOREM CliTypeCorrect == CliSpec => []CliTypeOK
<1>1. CliInv => CliTypeOK
    BY DEF CliInv
<1> QED BY <1>1, CliInvariance, PTL

\* Although the client compares no request_id, it never takes a response for the
\* answer to another request.
THEOREM ResponsesMatch == CliSpec => []AnswersItsRequest
<1>1. CliInv => AnswersItsRequest
    BY DEF CliInv, OneAtATime, AnswersItsRequest
<1> QED BY <1>1, CliInvariance, PTL

\* The callbacks that print a tail's PDUs are there before its session is.
THEOREM TailsListenFirst == CliSpec => []TailMissesNothing
<1>1. IInv /\ CliInv => TailMissesNothing
    BY DEF IInv, TypeOK, SessionOK, CliInv, CliTypeOK, ChannelsOK, TailMissesNothing
<1>2. CliSpec => []IInv
    BY CliImplementsRuntime, Invariance, PTL
<1> QED BY <1>1, <1>2, CliInvariance, PTL

\* A tail that ends with success has left no session behind, whatever became of its
\* connection.
THEOREM TailsUnsubscribe == CliSpec => []TailUnsubscribed
<1>1. CliSpec => []IInv
    BY CliImplementsRuntime, Invariance, PTL
<1>2. CliInit => TailOK
    BY InitTailOK
<1>3. IInv /\ CliInv /\ TailOK /\ [CliNext]_allVars => TailOK'
    BY TailStep
<1>4. TailOK => TailUnsubscribed
    BY DEF TailOK, TailAt, TailEnded, NoneOf, Running, TailUnsubscribed, CliAt
<1> QED BY <1>1, <1>2, <1>3, <1>4, CliInvariance, PTL DEF CliSpec
=============================================================================
