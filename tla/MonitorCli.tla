----------------------------- MODULE MonitorCli -----------------------------
(***************************************************************************)
(* bridge_monitor_cli against the control plane: one process per control   *)
(* endpoint of MonitorRuntime, the requests and responses on their way     *)
(* between the two, and the runtime itself.                                *)
(*                                                                         *)
(* A process runs one command.  query stands for health, connections,      *)
(* sessions and list_pdus, which send one request and print the answer;    *)
(* subscribe and unsubscribe do the same; tail lists the PDUs, installs    *)
(* its callbacks, subscribes, prints PDUs until it is told to stop, and    *)
(* unsubscribes.  other is any other program that speaks the protocol.     *)
(*                                                                         *)
(* A PDU on its way may be lost with its connection, and a request also    *)
(* when it arrives before the runtime has installed its callback.          *)
(***************************************************************************)
EXTENDS MonitorRuntime, Sequences

CONSTANTS
    Commands,           \* the commands considered
    Nothing

CliCommands == {"query", "subscribe", "unsubscribe", "tail"}
RequestTypes == {"query", "subscribe", "unsubscribe"}
ResponseTypes == {"subscribed", "ok", "error"}

Requests == [type : RequestTypes, id : Ids \cup {NoSession}, serial : Nat]
Responses == [type : ResponseTypes, id : Ids \cup {NoSession}, serial : Nat]

ASSUME CliAssumption ==
    /\ Commands \subseteq CliCommands \cup {"other"}
    /\ Nothing \notin Responses

VARIABLES
    command,            \* argv[2]
    cli_pc,             \* where main is
    asking,             \* the type of the current request
    asked,              \* history: how many requests were begun
    latest_response,    \* MonitorClient::latest_response_, Nothing if has_response_ is false
    session_id,         \* argv[3] of unsubscribe, the local session_id of tail
    tail_channels,      \* the callbacks of subscribe_tail_channel are installed
    exit_code,
    requests,           \* on their way to the runtime
    serving,            \* history: the serial number of the request being served
    responses           \* on their way back

cliVars == <<command, cli_pc, asking, asked, latest_response, session_id, tail_channels,
             exit_code, requests, serving, responses>>
clientVars == <<command, asking, asked, session_id, tail_channels>>
wireVars == <<requests, serving, responses>>
allVars == <<vars, cliVars>>

CliPCs == {"start", "begin", "send", "wait", "tail", "exit", "exited"}

CliTypeOK ==
    /\ command \in [Endpoints -> Commands]
    /\ cli_pc \in [Endpoints -> CliPCs]
    /\ asking \in [Endpoints -> RequestTypes]
    /\ asked \in [Endpoints -> Nat]
    /\ latest_response \in [Endpoints -> Responses \cup {Nothing}]
    /\ session_id \in [Endpoints -> Ids \cup {NoSession}]
    /\ tail_channels \in [Endpoints -> BOOLEAN]
    /\ exit_code \in [Endpoints -> {0, 1}]
    /\ requests \in [Endpoints -> Seq(Requests)]
    /\ serving \in [Endpoints -> Nat]
    /\ responses \in [Endpoints -> Seq(Responses)]

CliInit ==
    /\ Init
    /\ command \in [Endpoints -> Commands]
    /\ cli_pc = [ep \in Endpoints |-> "start"]
    /\ asking = [ep \in Endpoints |-> "query"]
    /\ asked = [ep \in Endpoints |-> 0]
    /\ latest_response = [ep \in Endpoints |-> Nothing]
    /\ session_id \in {ids \in [Endpoints -> Ids \cup {NoSession}] :
          \A ep \in Endpoints : command[ep] # "unsubscribe" => ids[ep] = NoSession}
    /\ tail_channels = [ep \in Endpoints |-> FALSE]
    /\ exit_code = [ep \in Endpoints |-> 0]
    /\ requests = [ep \in Endpoints |-> <<>>]
    /\ serving = [ep \in Endpoints |-> 0]
    /\ responses = [ep \in Endpoints |-> <<>>]

CliAt(ep, label) == cli_pc[ep] = label
CliGoto(ep, label) == cli_pc' = [cli_pc EXCEPT ![ep] = label] /\ UNCHANGED exit_code

\* main returns; ~MonitorClient follows.
Return(ep, code) ==
    /\ cli_pc' = [cli_pc EXCEPT ![ep] = "exit"]
    /\ exit_code' = [exit_code EXCEPT ![ep] = code]

-----------------------------------------------------------------------------
(* The process.                                                            *)

\* initialize() opens and starts the endpoint, which may fail; the command says what is
\* asked first.
Start(ep) ==
    /\ CliAt(ep, "start") /\ command[ep] # "other"
    /\ \/ /\ asking' = [asking EXCEPT ![ep] =
                IF command[ep] = "tail" THEN "query" ELSE command[ep]]
          /\ CliGoto(ep, "begin")
       \/ Return(ep, 1) /\ UNCHANGED asking
    /\ UNCHANGED <<vars, command, asked, latest_response, session_id, tail_channels, wireVars>>

\* Mutant: what is left of an earlier request is not cleared.
BeginRequestStale(ep) ==
    /\ CliAt(ep, "begin")
    /\ asked' = [asked EXCEPT ![ep] = @ + 1]
    /\ CliGoto(ep, "send")
    /\ UNCHANGED <<vars, command, asking, latest_response, session_id, tail_channels, wireVars>>

\* The first part of request().
BeginRequest(ep) ==
    /\ CliAt(ep, "begin")
    /\ latest_response' = [latest_response EXCEPT ![ep] = Nothing]
    /\ asked' = [asked EXCEPT ![ep] = @ + 1]
    /\ CliGoto(ep, "send")
    /\ UNCHANGED <<vars, command, asking, session_id, tail_channels, wireVars>>

\* send is tried again until the connection is there.
SendRequest(ep) ==
    /\ CliAt(ep, "send") /\ link[ep] \in {"accepted", "running"}
    /\ requests' = [requests EXCEPT ![ep] = Append(@,
          [type |-> asking[ep], serial |-> asked[ep],
           id |-> IF asking[ep] = "unsubscribe" THEN session_id[ep] ELSE NoSession])]
    /\ CliGoto(ep, "wait")
    /\ UNCHANGED <<vars, clientVars, latest_response, serving, responses>>

\* Mutants: a request that has timed out is repeated; only a request that was sent times
\* out.
TimeoutRetries(ep) ==
    /\ cli_pc[ep] \in {"send", "wait"}
    /\ CliGoto(ep, "begin")
    /\ UNCHANGED <<vars, clientVars, latest_response, wireVars>>

TimeoutOnceSent(ep) ==
    /\ CliAt(ep, "wait")
    /\ Return(ep, 1)
    /\ UNCHANGED <<vars, clientVars, latest_response, wireVars>>

\* timeout_ms have passed since request() began; every command gives up.
Timeout(ep) ==
    /\ cli_pc[ep] \in {"send", "wait"}
    /\ Return(ep, 1)
    /\ UNCHANGED <<vars, clientVars, latest_response, wireVars>>

\* The callback of the control response.
ReceiveResponse(ep) ==
    /\ responses[ep] # <<>> /\ cli_pc[ep] \notin {"exit", "exited"}
    /\ latest_response' = [latest_response EXCEPT ![ep] = Head(responses[ep])]
    /\ responses' = [responses EXCEPT ![ep] = Tail(@)]
    /\ UNCHANGED <<vars, clientVars, cli_pc, exit_code, requests, serving>>

\* The end of request(): all commands give up on an error.
TakeResponse(ep) ==
    /\ CliAt(ep, "wait") /\ latest_response[ep] # Nothing
    /\ \/ latest_response[ep].type = "error" /\ Return(ep, 1)
       \/ latest_response[ep].type # "error" /\ command[ep] # "tail" /\ Return(ep, 0)
    /\ UNCHANGED <<vars, clientVars, latest_response, wireVars>>

\* Mutant: the callbacks are installed once the subscription is confirmed.
TailListedLate(ep) ==
    /\ CliAt(ep, "wait") /\ latest_response[ep] # Nothing
    /\ command[ep] = "tail" /\ asking[ep] = "query" /\ latest_response[ep].type = "ok"
    /\ asking' = [asking EXCEPT ![ep] = "subscribe"]
    /\ CliGoto(ep, "begin")
    /\ UNCHANGED <<vars, command, asked, session_id, latest_response, tail_channels, wireVars>>

\* run_tail after list_pdus: the callbacks of the channels; if there is none, it ends.
TailListed(ep) ==
    /\ CliAt(ep, "wait") /\ latest_response[ep] # Nothing
    /\ command[ep] = "tail" /\ asking[ep] = "query" /\ latest_response[ep].type = "ok"
    /\ \/ /\ tail_channels' = [tail_channels EXCEPT ![ep] = TRUE]
          /\ asking' = [asking EXCEPT ![ep] = "subscribe"]
          /\ CliGoto(ep, "begin")
       \/ Return(ep, 1) /\ UNCHANGED <<tail_channels, asking>>
    /\ UNCHANGED <<vars, command, asked, session_id, latest_response, wireVars>>

\* run_tail after subscribe; a response without a session id is an error.
TailSubscribed(ep) ==
    /\ CliAt(ep, "wait") /\ latest_response[ep] # Nothing
    /\ command[ep] = "tail" /\ asking[ep] = "subscribe" /\ latest_response[ep].type # "error"
    /\ IF latest_response[ep].type = "subscribed"
       THEN /\ session_id' = [session_id EXCEPT ![ep] = latest_response[ep].id]
            /\ CliGoto(ep, "tail")
       ELSE Return(ep, 1) /\ UNCHANGED session_id
    /\ UNCHANGED <<vars, command, asking, asked, tail_channels, latest_response, wireVars>>

\* A signal or the duration ends the loop of run_tail.
StopTail(ep) ==
    /\ CliAt(ep, "tail")
    /\ asking' = [asking EXCEPT ![ep] = "unsubscribe"]
    /\ CliGoto(ep, "begin")
    /\ UNCHANGED <<vars, command, asked, session_id, tail_channels, latest_response, wireVars>>

\* run_tail after unsubscribe.
TailUnsubscribes(ep) ==
    /\ CliAt(ep, "wait") /\ latest_response[ep] # Nothing
    /\ command[ep] = "tail" /\ asking[ep] = "unsubscribe" /\ latest_response[ep].type # "error"
    /\ Return(ep, 0)
    /\ UNCHANGED <<vars, clientVars, latest_response, wireVars>>

\* ~MonitorClient stops the endpoint.
Exit(ep) ==
    /\ CliAt(ep, "exit")
    /\ CliGoto(ep, "exited")
    /\ UNCHANGED <<vars, clientVars, latest_response, wireVars>>

Main(ep) ==
    \/ BeginRequest(ep) \/ SendRequest(ep) \/ Timeout(ep) \/ TakeResponse(ep)
    \/ TailListed(ep) \/ TailSubscribed(ep) \/ TailUnsubscribes(ep) \/ Exit(ep)

-----------------------------------------------------------------------------
(* Between the process and the runtime.                                    *)

\* The control callback receives the request; the handler may reject it.
Serve(ep) ==
    LET r == Head(requests[ep]) IN
    /\ requests[ep] # <<>>
    /\ \/ r.type = "query" /\ ReceiveOther(ep)
       \/ r.type = "subscribe" /\ (ReceiveSubscribe(ep) \/ Receive(ep, "error", NoSession))
       \/ r.type = "unsubscribe" /\ r.id \in Ids /\ ReceiveUnsubscribe(ep, r.id)
       \/ r.type = "unsubscribe" /\ r.id = NoSession /\ Receive(ep, "ok", NoSession)
    /\ requests' = [requests EXCEPT ![ep] = Tail(@)]
    /\ serving' = [serving EXCEPT ![ep] = r.serial]
    /\ UNCHANGED <<clientVars, cli_pc, exit_code, latest_response, responses>>

\* Mutant: the response is put together after the request's state was reset.
ReplyAfterwards(ep) ==
    /\ command[ep] # "other"
    /\ Respond(ep)
    /\ responses' = IF link[ep] # "running" THEN responses
          ELSE [responses EXCEPT ![ep] = Append(@,
                   [type |-> pc'[ep], id |-> request'[ep], serial |-> serving[ep]])]
    /\ UNCHANGED <<clientVars, cli_pc, exit_code, latest_response, requests, serving>>

\* The callback sends the response, which only a connection that is up takes.
Reply(ep) ==
    /\ command[ep] # "other"
    /\ Respond(ep)
    /\ responses' = IF link[ep] # "running" THEN responses
          ELSE [responses EXCEPT ![ep] = Append(@,
                   [type |-> pc[ep], id |-> request[ep], serial |-> serving[ep]])]
    /\ UNCHANGED <<clientVars, cli_pc, exit_code, latest_response, requests, serving>>

\* A request is lost with its connection, without a callback, and after the shutdown.
LoseRequest(ep) ==
    /\ requests[ep] # <<>>
    /\ ep \notin subscribed \/ link[ep] # "running" \/ ~handler
    /\ requests' = [requests EXCEPT ![ep] = Tail(@)]
    /\ UNCHANGED <<vars, clientVars, cli_pc, exit_code, latest_response, serving, responses>>

LoseResponse(ep) ==
    /\ responses[ep] # <<>> /\ (link[ep] = "stopped" \/ cli_pc[ep] \in {"exit", "exited"})
    /\ responses' = [responses EXCEPT ![ep] = Tail(@)]
    /\ UNCHANGED <<vars, clientVars, cli_pc, exit_code, latest_response, requests, serving>>

\* The runtime finds the connection of a process that has exited closed.
HangUp(ep) ==
    /\ CliAt(ep, "exited")
    /\ Disconnect(ep)
    /\ UNCHANGED cliVars

\* What the runtime does by itself, and the clients that are other programs.
Work(ep) ==
    \/ AttachMonitor(ep) \/ CreateMonitorTransfer(ep) \/ CreateMonitorTransferBusy(ep)
    \/ InsertSession(ep) \/ RecordSession(ep) \/ Unsubscribe(ep) \/ ForgetSession(ep)
    \/ command[ep] = "other" /\ Respond(ep)

OtherClient(ep) ==
    /\ command[ep] = "other"
    /\ \/ ReceiveSubscribe(ep) \/ ReceiveOther(ep)
       \/ \E id \in Ids : ReceiveUnsubscribe(ep, id)

Connected(ep) == Accept(ep) /\ (command[ep] # "other" => ~CliAt(ep, "start"))

CliNext ==
    \/ \E ep \in Endpoints :
          \/ Start(ep) \/ Main(ep) \/ StopTail(ep) \/ ReceiveResponse(ep)
          \/ Serve(ep) \/ Reply(ep) \/ LoseRequest(ep) \/ LoseResponse(ep) \/ HangUp(ep)
          \/ (Connected(ep) \/ Disconnect(ep) \/ Work(ep) \/ OtherClient(ep))
             /\ UNCHANGED cliVars
    \/ (ControlPlane \/ StopCore \/ DetachMonitorRuntime \/ Shutdown) /\ UNCHANGED cliVars

CliSpec == CliInit /\ [][CliNext]_allVars

\* Fairness: that of MonitorRuntime for callbacks, control plane and shutdown; a process
\* that has begun goes on, and the runtime notices that it has gone.
CliFairness ==
    /\ \A ep \in Endpoints :
          /\ WF_allVars(Reply(ep) \/ (Work(ep) /\ UNCHANGED cliVars))
          /\ WF_allVars(Main(ep)) /\ WF_allVars(HangUp(ep))
    /\ WF_allVars(ControlPlane /\ UNCHANGED cliVars)
    /\ WF_allVars(Shutdown /\ UNCHANGED cliVars)

CliFairSpec == CliSpec /\ CliFairness

-----------------------------------------------------------------------------
(* Properties.                                                             *)

\* The response a request ends with is the one to that request, although the request_id
\* that comes back with it is never compared (bridge_monitor_cli.cpp:164-217): nothing
\* is on its way any more when a request begins, since a process that timed out ends.
AnswersItsRequest ==
    \A ep \in Endpoints :
        latest_response[ep] # Nothing /\ cli_pc[ep] \in {"send", "wait"} =>
            latest_response[ep].serial = asked[ep]

\* A tail that reports its session as unsubscribed leaves none open on its connection
\* (bridge_monitor_cli.cpp:438-448).
TailUnsubscribed ==
    \A ep \in Endpoints :
        command[ep] = "tail" /\ CliAt(ep, "exited") /\ exit_code[ep] = 0 =>
            \A id \in monitor_sessions : destination[id] # ep

\* The callbacks that print a tail's PDUs are installed when its session, which sends
\* them, comes into being (bridge_monitor_cli.cpp:405-412).
TailMissesNothing ==
    \A id \in monitor_sessions :
        command[destination[id]] = "tail" => tail_channels[destination[id]]

\* While tail prints, its session is open, unless its connection is gone, the bridge has
\* been stopped, or another client asked to close it.
TailingSessionOpen ==
    \A ep \in Endpoints :
        /\ CliAt(ep, "tail") /\ link[ep] = "running" /\ initialized
        /\ pc[Stopper] \notin {"stop_endpoints", "close_mux", "reset_handler"}
        /\ \A other \in Endpoints : command[other] \notin {"unsubscribe", "other"}
        => session_id[ep] \in monitor_sessions /\ destination[session_id[ep]] = ep

\* Every command ends whatever becomes of the bridge, tail once it was told to stop.
CommandReturns ==
    \A ep \in Endpoints : cli_pc[ep] \in {"begin", "send", "wait"} ~>
                              (cli_pc[ep] \in {"tail", "exited"})
=============================================================================
