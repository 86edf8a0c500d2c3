---------------------------- MODULE BridgeDaemon ----------------------------
(***************************************************************************)
(* The life of a bridge process: the standalone daemon (daemon.cpp), which *)
(* runs its own loop, and the web bridge (web_bridge_daemon.cpp), a        *)
(* Hakoniwa asset whose on_initialize, on_simulation_step and on_reset are *)
(* called by the simulation, possibly for several runs.                    *)
(*                                                                         *)
(* One thread executes the program.  Beside it the receive threads of the  *)
(* endpoints call the transfers that have subscribed, the user may send    *)
(* SIGINT, and time passes.  Only event-driven transfers have callbacks;   *)
(* of the cyclic ones a single ticker stands for all.                      *)
(*                                                                         *)
(* Assumed of the endpoint library: stop returns when no callback of the   *)
(* endpoint is running any more, and stop_all stops every endpoint.        *)
(***************************************************************************)
EXTENDS TransferPolicy

CONSTANTS
    Programs,           \* which of the two programs are considered
    Endpoints,          \* of the EndpointContainer
    Transfers,          \* event-driven transfers of the bridge configuration
    Source,             \* the source endpoint of each transfer
    Interval,           \* of the ticker
    MaxRuns,            \* bound on the runs of a simulation
    MaxTime,            \* bound on the clock
    Idle

ASSUME DaemonAssumption ==
    /\ Programs \subseteq {"bridge", "web_bridge"}
    /\ Source \in [Transfers -> Endpoints]
    /\ Interval \in Nat /\ MaxTime \in Nat /\ MaxRuns \in Nat
    /\ MaxTime + Interval < ClockMod
    /\ Idle \notin Transfers

VARIABLES
    program, ondemand,  \* which program runs, and whether with --enable-ondemand
    pc,                 \* where its thread is
    exit_code,
    endpoint,           \* of each endpoint: absent, opened, running, stopped
    posted,             \* the endpoints post_start has been called for
    core,               \* g_core is set
    is_running,         \* BridgeCore::is_running_
    alive,              \* TransferPdu objects that exist
    callbacks,          \* transfers whose callback their source endpoint holds
    policy,             \* the ticker's policy object
    attached,           \* BridgeCore::monitor_runtime_ is set
    mux_open,           \* the runtime's multiplexer accepts control clients
    stop_requested,     \* g_stop_requested
    recv,               \* per endpoint, the transfer its receive thread is in, or Idle
    lost,               \* history: a packet came in that a transfer did not see
    now,                \* ITimeSource::get_microseconds
    runs                \* on_initialize calls so far

options == <<program, ondemand>>
endpointVars == <<endpoint, posted>>
coreVars == <<core, is_running, alive, callbacks, policy>>
controlVars == <<attached, mux_open>>
outsideVars == <<stop_requested, recv, lost, now>>
vars == <<program, ondemand, pc, exit_code, endpoint, posted, core, is_running, alive,
          callbacks, policy, attached, mux_open, stop_requested, recv, lost, now, runs>>

StartupPCs == {"container", "start", "post_start", "build", "core", "runtime"}
PCs == StartupPCs \cup
       {"register", "wait", "pass", "stop_check", "detach", "leave",
        "reset_detach", "reset_stop", "reset_endpoints", "finish", "finish_endpoints",
        "failed", "exited"}

TypeOK ==
    /\ program \in Programs /\ ondemand \in BOOLEAN
    /\ pc \in PCs /\ exit_code \in {0, 1}
    /\ endpoint \in [Endpoints -> {"absent", "opened", "running", "stopped"}]
    /\ posted \subseteq Endpoints
    /\ core \in BOOLEAN /\ is_running \in BOOLEAN
    /\ alive \subseteq Transfers /\ callbacks \subseteq Transfers
    /\ policy \in Policies
    /\ attached \in BOOLEAN /\ mux_open \in BOOLEAN
    /\ stop_requested \in BOOLEAN
    /\ recv \in [Endpoints -> Transfers \cup {Idle}]
    /\ lost \in BOOLEAN
    /\ now \in 0 .. MaxTime /\ runs \in 0 .. MaxRuns

Init ==
    /\ program \in Programs /\ ondemand \in BOOLEAN
    /\ pc = IF program = "bridge" THEN "container" ELSE "register"
    /\ exit_code = 0
    /\ endpoint = [e \in Endpoints |-> "absent"] /\ posted = {}
    /\ core = FALSE /\ is_running = FALSE /\ alive = {} /\ callbacks = {}
    /\ policy = NewPolicy("ticker", Interval)
    /\ attached = FALSE /\ mux_open = FALSE
    /\ stop_requested = FALSE /\ recv = [e \in Endpoints |-> Idle] /\ lost = FALSE
    /\ now = 0 /\ runs = 0

At(label) == pc = label
Goto(label) == pc' = label /\ UNCHANGED exit_code

\* return 1 of main or of a callback; the asset runtime then gives up.
Fail == pc' = "failed" /\ exit_code' = 1

-----------------------------------------------------------------------------
(* Start-up: the same operations in both programs, in two orders.          *)

\* Mutants: the standalone daemon starts its endpoints before it builds; the web
\* bridge forgets post_start_all.
StartupBuildLate(prog, label) ==
    CASE label = "container"  -> "start"
      [] label = "start"      -> IF prog = "bridge" THEN "build" ELSE "post_start"
      [] label = "build"      -> "core"
      [] label = "post_start" -> "build"
      [] label = "core"       -> "runtime"
      [] label = "runtime"    -> IF prog = "bridge" THEN "pass" ELSE "stop_check"

StartupNoPostStart(prog, label) ==
    CASE label = "container"  -> IF prog = "bridge" THEN "build" ELSE "start"
      [] label = "start"      -> IF prog = "bridge" THEN "core" ELSE "build"
      [] label = "build"      -> IF prog = "bridge" THEN "start" ELSE "core"
      [] label = "core"       -> "runtime"
      [] label = "runtime"    -> IF prog = "bridge" THEN "pass" ELSE "stop_check"

\* The step that follows a step of the start-up.
Startup(prog, label) ==
    CASE label = "container"  -> IF prog = "bridge" THEN "build" ELSE "start"
      [] label = "start"      -> IF prog = "bridge" THEN "core" ELSE "post_start"
      [] label = "post_start" -> "build"
      [] label = "build"      -> IF prog = "bridge" THEN "start" ELSE "core"
      [] label = "core"       -> "runtime"
      [] label = "runtime"    -> IF prog = "bridge" THEN "pass" ELSE "stop_check"

Proceed == Goto(Startup(program, pc))

\* hako_asset_register.
Register ==
    /\ At("register")
    /\ Goto("wait") \/ Fail
    /\ UNCHANGED <<options, endpointVars, coreVars, controlVars, outsideVars, runs>>

\* The simulation starts: on_initialize is called.
AssetStarts ==
    /\ At("wait") /\ runs < MaxRuns
    /\ runs' = runs + 1
    /\ Goto("container")
    /\ UNCHANGED <<options, endpointVars, coreVars, controlVars, outsideVars>>

\* A new container with new endpoint objects, which hold no callback.
InitializeContainer ==
    /\ At("container")
    /\ endpoint' = [e \in Endpoints |-> "opened"]
    /\ Proceed
    /\ UNCHANGED <<options, posted, coreVars, controlVars, outsideVars, runs>>

\* One of the endpoints started by start_all.
StartEndpoint(e) ==
    /\ At("start") /\ endpoint[e] = "opened"
    /\ endpoint' = [endpoint EXCEPT ![e] = "running"]
    /\ UNCHANGED <<options, pc, exit_code, posted, coreVars, controlVars, outsideVars, runs>>

StartAllDone ==
    /\ At("start") /\ \A e \in Endpoints : endpoint[e] = "running"
    /\ Proceed
    /\ UNCHANGED <<options, endpointVars, coreVars, controlVars, outsideVars, runs>>

PostStartAll ==
    /\ At("post_start")
    /\ posted' = Endpoints
    /\ Proceed
    /\ UNCHANGED <<options, endpoint, coreVars, controlVars, outsideVars, runs>>

\* build() constructs the transfers one after the other; each constructor subscribes.
BuildTransfer(t) ==
    /\ At("build") /\ t \notin alive
    /\ alive' = alive \cup {t}
    /\ callbacks' = callbacks \cup {t}
    /\ UNCHANGED <<options, pc, exit_code, endpointVars, core, is_running, policy,
                   controlVars, outsideVars, runs>>

\* Mutants: the ticker outlives its run; its interval is not made unsigned.
BuildDoneKeepsPolicy ==
    /\ At("build") /\ alive = Transfers
    /\ core' = TRUE
    /\ Proceed
    /\ UNCHANGED <<options, endpointVars, is_running, alive, callbacks, policy, controlVars,
                   outsideVars, runs>>

BuildDoneSigned ==
    /\ At("build") /\ alive = Transfers
    /\ core' = TRUE
    /\ policy' = NewPolicy("ticker", 0 - Interval)
    /\ Proceed
    /\ UNCHANGED <<options, endpointVars, is_running, alive, callbacks, controlVars,
                   outsideVars, runs>>

BuildDone ==
    /\ At("build") /\ alive = Transfers
    /\ core' = TRUE
    /\ policy' = NewPolicy("ticker", Interval)
    /\ Proceed
    /\ UNCHANGED <<options, endpointVars, is_running, alive, callbacks, controlVars,
                   outsideVars, runs>>

\* A missing endpoint, policy or key group, found at any point: what was built so far is
\* destroyed; what it subscribed stays with the endpoints.
BuildFails ==
    /\ At("build")
    /\ alive' = {}
    /\ Fail
    /\ UNCHANGED <<options, endpointVars, core, is_running, callbacks, policy, controlVars,
                   outsideVars, runs>>

StartCore ==
    /\ At("core")
    /\ is_running' = TRUE
    /\ Proceed
    /\ UNCHANGED <<options, endpointVars, core, alive, callbacks, policy, controlVars,
                   outsideVars, runs>>

\* BridgeMonitorRuntime::initialize and attach_monitor_runtime, with --enable-ondemand.
InitializeRuntime ==
    /\ At("runtime")
    /\ mux_open' = ondemand /\ attached' = ondemand
    /\ Proceed
    /\ UNCHANGED <<options, endpointVars, coreVars, outsideVars, runs>>

\* The library reports an error; initialize of the runtime cleans up after itself.
StartupFails ==
    /\ \/ pc \in {"container", "start", "post_start"}
       \/ At("runtime") /\ ondemand
    /\ Fail
    /\ UNCHANGED <<options, endpointVars, coreVars, controlVars, outsideVars, runs>>

StartUp ==
    \/ InitializeContainer \/ StartAllDone \/ PostStartAll \/ BuildDone \/ BuildFails
    \/ StartCore \/ InitializeRuntime \/ StartupFails
    \/ \E e \in Endpoints : StartEndpoint(e)
    \/ \E t \in Transfers : BuildTransfer(t)

-----------------------------------------------------------------------------
(* The loop of the standalone daemon, and on_simulation_step.              *)

\* cyclic_trigger.  The standalone daemon leaves its loop when it returns false.
Pass ==
    LET checked == AfterCheck(policy, now) IN
    /\ At("pass")
    /\ policy' = IF ~is_running THEN policy
                 ELSE IF ShouldTransfer(policy, now) THEN OnTransferred(checked, now) ELSE checked
    /\ Goto(IF program = "bridge" /\ ~is_running THEN "detach" ELSE "stop_check")
    /\ UNCHANGED <<options, endpointVars, core, is_running, alive, callbacks, controlVars,
                   outsideVars, runs>>

\* detach_monitor_runtime or the shutdown at the end of BridgeCore::stop.
ShutdownRuntime == mux_open' = IF attached THEN FALSE ELSE mux_open

\* Mutant: the request is taken back without stopping the core.
CheckStopIgnored ==
    /\ At("stop_check")
    /\ stop_requested' = FALSE
    /\ Goto("pass")
    /\ UNCHANGED <<options, endpointVars, coreVars, controlVars, recv, lost, now, runs>>

\* g_stop_requested.exchange(false): a request stops the core.
CheckStop ==
    /\ At("stop_check")
    /\ IF stop_requested THEN is_running' = FALSE /\ ShutdownRuntime
                         ELSE UNCHANGED <<is_running, mux_open>>
    /\ stop_requested' = FALSE
    /\ Goto("pass")
    /\ UNCHANGED <<options, endpointVars, core, alive, callbacks, policy, attached, recv,
                   lost, now, runs>>

-----------------------------------------------------------------------------
(* on_reset, and the ends of the programs.                                 *)

\* The simulation is reset between two steps.
AssetReset ==
    /\ At("stop_check") /\ program = "web_bridge"
    /\ Goto("reset_detach")
    /\ UNCHANGED <<options, endpointVars, coreVars, controlVars, outsideVars, runs>>

\* Mutant: the runtime keeps its control plane.
DetachRuntimeOnly(from, to) ==
    /\ At(from)
    /\ attached' = FALSE
    /\ Goto(to)
    /\ UNCHANGED <<options, endpointVars, coreVars, mux_open, outsideVars, runs>>

\* BridgeCore::detach_monitor_runtime, called from three places.
DetachRuntime(from, to) ==
    /\ At(from)
    /\ ShutdownRuntime
    /\ attached' = FALSE
    /\ Goto(to)
    /\ UNCHANGED <<options, endpointVars, coreVars, outsideVars, runs>>

ResetStopsCore ==
    /\ At("reset_stop")
    /\ is_running' = FALSE
    /\ ShutdownRuntime
    /\ Goto("reset_endpoints")
    /\ UNCHANGED <<options, endpointVars, core, alive, callbacks, policy, attached,
                   outsideVars, runs>>

\* One of the endpoints stopped by stop_all.
StopEndpoint(e) ==
    /\ pc \in {"reset_endpoints", "finish_endpoints"}
    /\ endpoint[e] = "running" /\ recv[e] = Idle
    /\ endpoint' = [endpoint EXCEPT ![e] = "stopped"]
    /\ UNCHANGED <<options, pc, exit_code, posted, coreVars, controlVars, outsideVars, runs>>

\* Mutants: stop_all is not waited for; the core of the old run is kept.
ResetObjectsEarly ==
    /\ At("reset_endpoints")
    /\ core' = FALSE /\ alive' = {} /\ callbacks' = {}
    /\ endpoint' = [e \in Endpoints |-> "absent"] /\ posted' = {}
    /\ now' = 0
    /\ Goto("wait")
    /\ UNCHANGED <<options, is_running, policy, controlVars, stop_requested, recv, lost, runs>>

\* The globals are reset; the last owner of core, transfers and endpoints is gone.  The
\* next run of the simulation starts at time 0.
ResetObjects ==
    /\ At("reset_endpoints") /\ \A e \in Endpoints : endpoint[e] # "running"
    /\ core' = FALSE /\ alive' = {} /\ callbacks' = {}
    /\ endpoint' = [e \in Endpoints |-> "absent"] /\ posted' = {}
    /\ now' = 0
    /\ Goto("wait")
    /\ UNCHANGED <<options, is_running, policy, controlVars, stop_requested, recv, lost, runs>>

\* A step that is asked for after a reset finds no core.
StepWithoutCore ==
    /\ At("wait") /\ runs > 0
    /\ Fail
    /\ UNCHANGED <<options, endpointVars, coreVars, controlVars, outsideVars, runs>>

\* hako_asset_start returns 0.
AssetEnds ==
    /\ pc \in {"wait", "stop_check"} /\ program = "web_bridge"
    /\ Goto("finish")
    /\ UNCHANGED <<options, endpointVars, coreVars, controlVars, outsideVars, runs>>

\* main returns: the globals are destroyed, whatever state the endpoints are in.
Leave ==
    /\ \/ pc \in {"leave", "failed"}
       \/ At("finish_endpoints") /\ \A e \in Endpoints : endpoint[e] # "running"
    /\ core' = FALSE /\ is_running' = FALSE /\ alive' = {}
    /\ Goto("exited")
    /\ UNCHANGED <<options, endpointVars, callbacks, policy, controlVars, outsideVars, runs>>

Stopping ==
    \/ DetachRuntime("detach", "leave") \/ DetachRuntime("reset_detach", "reset_stop")
    \/ DetachRuntime("finish", "finish_endpoints")
    \/ ResetStopsCore \/ ResetObjects \/ Leave
    \/ \E e \in Endpoints : StopEndpoint(e)

-----------------------------------------------------------------------------
(* Beside the program.                                                     *)

\* A packet for every transfer of e comes in: one of the callbacks is entered.
Receive(e) ==
    LET wanted == {t \in Transfers : Source[t] = e}
        called == wanted \cap callbacks
    IN
    /\ endpoint[e] = "running" /\ recv[e] = Idle
    /\ lost' = (lost \/ called # wanted)
    /\ \E t \in IF called = {} THEN {Idle} ELSE called : recv' = [recv EXCEPT ![e] = t]
    /\ UNCHANGED <<options, pc, exit_code, endpointVars, coreVars, controlVars,
                   stop_requested, now, runs>>

CallbackReturns(e) ==
    /\ recv[e] # Idle
    /\ recv' = [recv EXCEPT ![e] = Idle]
    /\ UNCHANGED <<options, pc, exit_code, endpointVars, coreVars, controlVars,
                   stop_requested, lost, now, runs>>

\* signal_handler.
Interrupt ==
    /\ ~At("exited")
    /\ stop_requested' = TRUE
    /\ UNCHANGED <<options, pc, exit_code, endpointVars, coreVars, controlVars, recv, lost,
                   now, runs>>

Tick ==
    /\ now < MaxTime
    /\ now' = now + 1
    /\ UNCHANGED <<options, pc, exit_code, endpointVars, coreVars, controlVars,
                   stop_requested, recv, lost, runs>>

Next ==
    \/ Register \/ AssetStarts \/ AssetReset \/ AssetEnds \/ StepWithoutCore
    \/ StartUp \/ Pass \/ CheckStop \/ Stopping
    \/ Interrupt \/ Tick
    \/ \E e \in Endpoints : Receive(e) \/ CallbackReturns(e)

Spec == Init /\ [][Next]_vars

\* Fairness: the thread of the program goes on, the simulation keeps calling
\* on_simulation_step while it runs, callbacks return, and stop of an endpoint gets its
\* turn between two of them.
Fairness ==
    /\ WF_vars(StartUp) /\ WF_vars(Pass) /\ WF_vars(CheckStop) /\ WF_vars(Stopping)
    /\ \A e \in Endpoints : WF_vars(CallbackReturns(e)) /\ SF_vars(StopEndpoint(e))

FairSpec == Spec /\ Fairness

-----------------------------------------------------------------------------
(* Properties.                                                             *)

\* main or a callback has returned 1, or the standalone daemon has returned: the two
\* cases in which the objects go while endpoints still run.
Abandoned == exit_code = 1 \/ (program = "bridge" /\ At("exited"))

\* No receive thread runs a callback of a destroyed transfer, across resets and the web
\* bridge's end (stop_all before the globals are reset, web_bridge_daemon.cpp:324-331)
\* and in the standalone daemon's loop.
CallbacksOnLiveTransfers ==
    ~Abandoned => \A e \in Endpoints : recv[e] = Idle \/ recv[e] \in alive

\* A pass of a running core finds its endpoints running, in the web bridge after
\* post_start (design-web-bridge.md:377-382; daemon.cpp:132, web_bridge_daemon.cpp:248-255).
PassOnRunningEndpoints ==
    At("pass") /\ is_running =>
        /\ core /\ \A e \in Endpoints : endpoint[e] = "running"
        /\ program = "web_bridge" => posted = Endpoints

\* Control clients are served only within a run: a core that runs, on endpoints that
\* run (start-up and on_reset order, web_bridge_daemon.cpp:270-284, 320-331).
ControlPlaneWithinRun ==
    mux_open => core /\ is_running /\ \A e \in Endpoints : endpoint[e] = "running"

\* Between two runs of a simulation, and after an orderly end, the web bridge has no
\* endpoint running and no control plane (web_bridge_daemon.cpp:320-331, 368-377).
StoppedAfterRun ==
    program = "web_bridge" /\ (At("wait") \/ (At("exited") /\ exit_code = 0)) =>
        ~mux_open /\ \A e \in Endpoints : endpoint[e] # "running" /\ recv[e] = Idle

\* A ticker never waits longer than its interval, although every run of a simulation
\* starts its clock anew: no policy object outlives its run (ticker_policy.cpp:13-18,
\* web_bridge_daemon.cpp:327).
TickerNotAhead ==
    core /\ policy.armed => policy.mark <= now + Interval

\* The standalone daemon publishes no endpoint before its transfers have subscribed
\* (daemon.cpp:115-137), and the web bridge loses no packet once the core of a run is
\* built, nor while on_reset takes it down (web_bridge_daemon.cpp:260, 324-331).
PacketsLostAtStartOnly == [][program = "bridge" \/ core => lost' = lost]_vars

\* No packet is lost at all, as design-web-bridge.md:236-247 asks.
NoPacketLost == ~lost

\* An interrupt ends the standalone daemon, whenever it arrives, and stops a core that
\* runs in the web bridge (daemon.cpp:154-161, web_bridge_daemon.cpp:302-305).
InterruptStops ==
    /\ (program = "bridge" /\ stop_requested) ~> At("exited")
    /\ (program = "web_bridge" /\ stop_requested /\ is_running) ~> ~is_running
=============================================================================
