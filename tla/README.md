# Verification of hakoniwa-pdu-bridge-core

TLA+ models of the PDU bridge, TLC runs that check them on small instances, and proofs that
TLAPS checks for every value of the constants. Paths are relative to the repository root
(`src/` below stands for the repository's own `src/` directory). `PROJECT.json` lists runs, mutants, findings,
hazards, theorems and, for each definition that models code, the lines it stands for.

## 1. The system

A bridge node moves PDUs (byte blocks with an epoch in their header) between *endpoints* of the
external library hakoniwa-pdu-endpoint. `BridgeBuilder` reads a configuration and builds one
`BridgeCore` with `BridgeConnection`s; a connection has one source endpoint and a list of
transfers, each with a destination and a policy.

| Component | State | Operations | Interacts through |
|---|---|---|---|
| Policies (`src/policy/`) | last transfer, next tick, marks of an atomic group | `should_transfer`, `on_transferred` | called by the transfer that owns it, on whatever thread runs it |
| `TransferPdu` | `is_active_`, `owner_epoch_`, `epoch_validation_` | `try_transfer` from a pass or from a receive callback | callback registered at the source endpoint with a raw `this`; source cache; destination |
| `TransferAtomicPduGroup` | the same, member list | `try_transfer`, `try_transfer_group` | one callback per member |
| `BridgeConnection` | `is_active_`, `epoch_`, `transfer_pdus_`, `transfer_mtx_` | `cyclic_trigger`, `set_active`, `increment_epoch`, add and remove transfers | the mutex; writes into the transfers |
| `BridgeCore` | `is_running_`, `monitor_runtime_` | `start`, `stop`, `cyclic_trigger`, monitor transfer calls, queries | calls down into connections and the monitor runtime |
| `BridgeMonitorRuntime` | session tables, control endpoints, `session_mtx_` | `initialize`, `process_control_plane_once`, `attach_monitor`, `detach_monitor`, `shutdown` | control callbacks run on the endpoints' threads |
| `OnDemandControlHandler` | none | `handle_request` | called by the control callback |
| `BridgeBuilder` | none | `build` | creates the objects above |
| `hakoniwa-pdu-bridge` (`daemon.cpp`) | stop flag, owning pointers | start-up, loop, end | the thread that drives `BridgeCore`; SIGINT |
| `hakoniwa-pdu-web-bridge` (`web_bridge_daemon.cpp`) | the same as globals | `on_initialize`, `on_simulation_step`, `on_reset`, end | called by the Hakoniwa asset runtime, possibly for several runs |
| Monitor CLI (`tools/bridge_monitor_cli.cpp`) | latest response, session id | `request`, one command per process, `tail` | control PDUs to and from the monitor runtime |
| Tools (`tools/hako.py`, `check_bridge_config.py`) | none | build and configuration checks | files |

The hard behaviour is concurrency. `transfer_mtx_` guards a connection's list and the passes over it,
but receive callbacks run without it; `session_mtx_` guards the session tables, but
`attach_monitor` and the callback around it take it piecewise; the read of a flag or an epoch and its
use are separate steps; a callback outlives the object it points to. The rest is what follows a
failure: reads and sends that fail half-way through a transfer or a group, clients that vanish in
the middle of a request, a stop that comes between two checks.

What makes each component correct:

- *Connection, TransferPdu*: every transfer has the connection's epoch; PDUs of another epoch are
  discarded; a paused connection transfers nothing; the loop never touches a removed transfer;
  intervals are kept; due ticks are served.
- *Atomic group*: a frame holds new updates of all its members, nothing twice; the group never waits
  with all of its members marked.
- *Monitor runtime*: each monitor transfer belongs to one session; sessions end with their client or
  at shutdown; ids are never reused; nothing is created once the core has been stopped.
- *Daemons*: nothing is used before it is started or after it is destroyed; a run leaves nothing behind
  for the next one; an interrupt is served; no packet falls between an endpoint's start and the
  subscription of its transfers.
- *CLI*: an answer belongs to the request it is taken for; a tail misses no PDU and leaves no
  session; every command ends.

## 2. Modules

| Module | Models |
|---|---|
| `TransferPolicy` | throttle, ticker, immediate as operators on a policy record and the clock (`uint64_t`, modulo `ClockMod`) |
| `BridgeConnection` | one connection, its `TransferPdu`s, four kinds of threads; implements `ConnectionService` |
| `ConnectionService` | abstract: what a connection promises, without threads, locks or steps between a check and its use |
| `AtomicGroup` | one `TransferAtomicPduGroup` and the atomic `ImmediatePolicy`; implements `GroupFrames` |
| `GroupFrames` | abstract: frames of one new update of each member, one at a time and each to its end |
| `MonitorSessions` | abstract: what the control plane promises about sessions |
| `MonitorRuntime` | `BridgeMonitorRuntime`, control callback, handler effects, `stop`/`detach_monitor_runtime`/`shutdown`; implements `MonitorSessions` |
| `MonitorCli` | `bridge_monitor_cli` and the messages to and from the control plane, composed with `MonitorRuntime`, which it EXTENDS |
| `BridgeDaemon` | the life of either daemon: start-up, loop or simulation steps, resets, end |
| `MC...` | values of the constants for TLC |
| `..._proofs` | theorems and proofs |

**BridgeConnection.** `pc[th]` is the program point of a thread. `try_transfer` is `CheckActive`,
`CheckPolicy`, `ReadSource`, `CheckEpoch`, `SendToDestination`, `NotifyPolicy`, one action per access to
shared state, shared by the bridge loop (`BeginPass`, `CyclicLock`, `CyclicTrigger`, then every listed
transfer, `LeaveLoop` unlocks) and by `SourceReceive`, which stores a PDU and runs the callbacks of its key.
`SetActive` and `IncrementEpoch` take the mutex and visit the transfers one by one.
`ConstructMonitorTransfer` and `AddMonitorTransferPdu` are two steps because the constructor already
subscribes the callback. `RemoveMonitorTransfer` destroys the object but not its callback; what a destroyed
object's flags read as is any value (`Seen`). A PDU is the epoch in its header. `delivered[t]` records the
last delivery with the connection's epoch and the time of the send; it is only read by properties. The
unordered `transfer_pdus` covers any order in the vector. One assumption on the endpoint library is a
constant: `SubscribeReplaces`, whether a second subscription for a PDU displaces the first
(test/bridge_core_flow_test.cpp:528 suggests it does). `ImplementsService` maps the connection's flag, epoch
and list to `ConnectionService`'s: setting a flag or an epoch is one step there, and so is each delivery. A
delivery of a pass happens in an active connection, through a listed transfer and with the current epoch,
all at the moment of the send, which is what the mutex is for; one of a receive callback is promised none of
these. The properties about pauses are about the transfers of the configuration (`Static`): a monitor's
transfer starts active even on a paused connection. Those about epochs and intervals are about listed
transfers and objects not yet destroyed, since a monitor's callback runs before its transfer is added and
may run after it is gone.

**AtomicGroup.** A PDU is its serial number among its member's updates, its epoch and whether its size is
right. `ReadMember`/`CheckEpoch` collect the frame, `SendMember` sends it, `OnTransferred` clears the marks.
`ImplementsFrames` hides marks, caches, threads and the collecting: `Unsent` is what is left of a frame that
was collected, which appears as a whole and shrinks by one member at a time. `cache_mode` is chosen at the
start: `latest` keeps one entry, `queue` hands out each entry once (both modes occur under
config/sample/endpoint/cache). `round` and `sent` are only read by properties.

**MonitorRuntime.** One thread per control endpoint runs the callback: `Receive...`, `AttachMonitor`,
`CreateMonitorTransfer` for each key, `InsertSession`, `RecordSession`, or `Unsubscribe`,
`ForgetSession`; then `Respond`. The loop runs `ProcessControlPlane` to `ControlPlaneDone`. The
stopping thread runs `StopCore` or `DetachMonitorRuntime` and then `ClearSessions` to
`ResetHandler`. A critical section of `session_mtx_` is one action; `shutdown`, which calls
endpoints while holding it, is several. Both daemons stop from the loop's own thread; that is
`Stopper = Loop`, and the theorems hold for a separate stopper too. Transfers are addresses, and an
address freed by a removal may be handed out again. `asked_running` is only read by a property.

**MonitorCli.** One process per control endpoint runs one command; `cli_pc` says where its `main` is.
`request()` is `BeginRequest` (forget the last response), `SendRequest` (which needs the connection),
then `TakeResponse` or one of the `Tail...` actions, or `Timeout` at any time. `query` stands for the four
commands that only ask. Each connection carries a sequence of requests and one of responses; a request
is consumed by the runtime's callback (`Serve` is a `Receive...` of `MonitorRuntime` that takes its
type and id from the message) or lost, a response is what `Respond` sends (`Reply`). A command `other`
is a client that behaves in any way, as all of `MonitorRuntime`'s do. Each action of the composition is
one of `MonitorRuntime` or leaves its variables alone. `asked` and `serving` number the requests; only
properties and the type of a message read them.

**BridgeDaemon.** `pc` is the program point of the one thread of a daemon; `Startup` gives the order of
the start-up in each program (build, then start; start, post_start, then build), each step an action
that may fail. `BuildTransfer` constructs a transfer, whose callback the source endpoint then holds.
`Receive` is a packet for all transfers of an endpoint: the receive thread enters one of the callbacks;
`lost` records that a transfer did not see it. The web bridge goes from `AssetStarts` through steps to
`AssetReset` and again, up to `MaxRuns` times, and `now` starts again with each run. A single ticker
stands for the cyclic transfers, the monitor runtime is its multiplexer's being open (`mux_open`), which
`MonitorRuntime` describes in detail.

## 3. Runs

| Run | Checks | Instance |
|---|---|---|
| `conn_epoch` | `TypeOK`, `EpochSync`, `CyclicFresh`, `PauseStopsTransfers`, `PausedStartsNothing`, `AcceptsCurrentEpoch` | a ticking and a throttled static transfer, one receive thread, epochs modulo 3, intervals 0 so that every check lets through |
| `conn_monitor` | `EpochSync`, `CyclicUsesLiveTransfers`, `ImplementsService` | two monitor transfers created and removed, epochs modulo 2 |
| `conn_live` | `TickServed`, `DeliveriesSpaced` | interval 2, clock to 4, polled source, a destination that comes and goes |
| `group_frames` | `TypeOK`, `FrameFresh`, `FrameAdvances`, `FrameWhole`, `SomeMemberAwaited`, `ImplementsFrames` | the group of two of config/tutorials/bridge-immediate-atomic.json, three updates of each, both cache modes |
| `runtime_sessions` | `TypeOK`, `TransfersAccounted`, `SessionsTracked`, `ShutdownLeavesNoEndpoint`, `LateSubscribeRejected`, `ImplementsSessions`, `SessionsEndForCause` | two clients, two sessions of two keys, stop on the loop |
| `control_live` | `CliTypeOK`, `AnswersItsRequest`, `TailUnsubscribed`, `TailMissesNothing`, `TailingSessionOpen`, `DisconnectClosesSessions`, `ShutdownReturns`, `CommandReturns` | one client that runs any command of the CLI or is any other program, two sessions of two keys |
| `daemon_life` | `TypeOK`, `CallbacksOnLiveTransfers`, `PassOnRunningEndpoints`, `ControlPlaneWithinRun`, `StoppedAfterRun`, `TickerNotAhead`, `PacketsLostAtStartOnly`, `InterruptStops` | both daemons, with and without on-demand monitoring, two endpoints, two transfers, two runs, clock to 2 |
| `conn_event_epoch`, `conn_detach`, `group_short`, `runtime_zombie`, `web_early_packet` | one statement each of a document or test that the code does not meet (section 6) | as small as shows it |

Bounds. The races of a connection are between two actors at a time (a pass or callback against an
administrator or the monitor runtime), so one transfer of each trigger kind, one receive thread and
one administrator meet in every order. Two epochs let a PDU be stale, a third lets it be stale
without wrapping to the current one. The clock runs twice the interval, enough for a first
transfer, a check inside the interval and a second transfer; `ClockMod` is 8, larger than `MaxTime`,
so the clock never wraps in these runs. Three updates per member let a queue be one or two
entries behind the other. Two sessions of two keys are what a partial failure, a foreign
unsubscribe and a shared address need. In `control_live` one client suffices: what two of them do to
each other through the session tables is `runtime_sessions`' question, and a response only travels on
the connection of its request (with two clients the same properties hold on some sixteen million
states, too many for a run that is repeated). Its session ids and serial numbers are bounded by
`MaxSessions` and by the code itself, since a process begins at most three requests. In `daemon_life` two
endpoints are enough for one that runs while another does not, both transfers listen to the same one
so that a packet can find one of them only, and a second run meets what the first has left. Deadlock is
checked except in the runtime and the daemons, which stop for good: the core stopped and every
client gone, or the process exited.

Symmetry is used in `runtime_sessions` only (clients and addresses are interchangeable), and not
with a liveness property.

Fairness. `conn_live`: each transferring thread finishes what it is executing (the code has no
unbounded wait in it); the loop is strongly fair in starting a pass and taking `transfer_mtx_`:
`process_recv_events` returns again and again, the daemons then always call
`cyclic_trigger`, and each holder of the mutex releases it after finitely many steps, which fairness
of the administrator's loop states; a mutex that starves a waiter for ever is excluded. Monitor calls
and the decision to pause or to raise the epoch have no fairness. `control_live`: callbacks, the
control-plane pass and shutdown go on when they can; a CLI process that has begun a request goes on
(its loops end by their own timeout), and the connection of one that has exited is found closed. Nothing is
assumed about other clients, about when a tail is told to stop, or about messages. `daemon_life`: the
thread of the daemon goes on, the asset runtime keeps calling `on_simulation_step`, a callback
returns, and `Endpoint::stop`, which waits for a callback to return, gets its turn between two of them
however many packets come (strong fairness, an assumption on the endpoint library). Nothing is assumed
about packets, the user, resets or the clock.

## 4. Proofs

Constants are arbitrary within the named assumptions `ClockModAssumption`, `ConnectionAssumption`,
`GroupAssumption`, `RuntimeAssumption`, `CliAssumption` and `DaemonAssumption`, which every run evaluates.
Where a theorem needs more, its ASSUME says so.

`BridgeConnection_proofs`. None of the safety properties is inductive by itself: `EpochSync` needs to know
that whoever changes epochs or the list holds the mutex, `CyclicFresh` that a pass between the check and the
send holds it too. `IInv` is the conjunction of `TypeOK`; `LocalsOK` (which locals a program point implies);
`MutexOK` (who holds `transfer_mtx_` at which program points); `ListOK` (`transfer_pdus` holds the objects
whose life is `listed`); `PassOK` (what a pass has yet to visit, and the transfer it executes, are listed);
`ValidationOK`; `EpochSync`; `PassFresh` (between check and send of a pass the buffer has the connection's
epoch); and `CyclicFresh`. `Invariance` proves it with one step per action; `TypeCorrect`, `EpochsInSync`,
`CyclicSendsFresh`, `CyclicUsesLive` follow. They hold with monitors that come and go, any number of receive
threads, and with the loop as one of them. A second invariant (`StaticInvariance`) says that the monitor
thread only ever has transfers of its own in hand (`MonitorOK`), so that those of the configuration stay
listed, and that each of these is active as the connection is, except those that a `set_active` in progress
has yet to visit (`ActiveSync`); with `IInv` it gives `PauseReachesTransfers`, `PausedConnectionRests` and
`EpochChecksAreCurrent`. None of them assumes anything about monitors; over all transfers, instead of those
the properties name, they would be false for the reasons section 2 gives. `IntervalsKept` assumes one
receive thread and a clock that does not wrap (`OneEventThread`, `NoWrap`). `OwnThread` gives each transfer
one thread: the pass for a cyclic one, the receive thread for the others. `Spaced` ties policy and
destination together: the policy knows of the last delivery, unless the thread that made it has yet to call
`on_transferred`, and a thread past `should_transfer` is an interval after that delivery, however long it
takes to send. Outside a transfer's own thread only the monitor touches it, and only to create it anew or
destroy it.

`ConnectionService_proofs`. `ServiceImplemented` proves `Spec => ImplementsService`. Beyond `IInv` it needs
that each transfer is run by threads of one kind (`OwnThread`), and that a pass is under way only while the
connection is active (`ActiveOK`: `set_active` needs the mutex the pass holds); both are inductive with
`IInv` (`ServiceInvariance`). `CyclicFresh`'s argument reappears as the step `SendToDestination` maps to:
`DeliverCyclic` is enabled there because the flag, the list and the epoch cannot have changed since they
were looked at.

`AtomicGroup_proofs`. `GInv` (types, what a program point implies of the frame, and `SomeMemberAwaited` for
each thread's part) holds for any number of receive threads: whatever way a callback ends, a mark is clear
(`GroupsAreServed`). The frames' contents are a matter of one receive thread (`OneReceiver`). `FInv` then
says that a marked member has something new in the source, that what a queue holds is in the order of
arrival and newer than what was sent, and the same of the frame under construction; from it follow
`FramesAreFresh`, `FramesAdvance` and, with PDUs of the declared sizes (`~ShortPdus`), `FramesAreWhole`.
`FramesImplemented` proves `Spec => ImplementsFrames`: `Collected` is `Collect`, `SendMember` is `SendOne`,
the rest stutters or is an `Update`. That a frame has every member needs `InOrder`: unless PDUs are left
out, the frame under construction lists the members in the order of the group (`FramesInOrder`). With two
receive threads the group does not implement `GroupFrames`: two of its frames may be sent at the same time.

`MonitorRuntime_proofs`. `TransfersAccounted` needs that a callback's local vector is empty outside
`create`/`insert`, and that ids not yet issued are unused; `SessionsTracked` that the ids in `closing` and
those about to be recorded are kept until handled. `SessionsImplemented` proves that `Spec` implies
`MonitorSessions!Spec` under the mapping `issued <- next_id`, `open <- monitor_sessions`, `feeds <-
session_transfers`: `InsertSession` is `Open`, `DetachMonitor` and `ClearSessions` are `Close`, everything
else stutters. These hold for any number of clients, keys and addresses, whoever the stopper is.
`ShutdownStopsEndpoints` and `LateSubscribesRejected` assume `Stopper = Loop`, as both daemons have it: the
invariant then says that no endpoint is between `take_endpoints` and `push_back` while `shutdown` runs. With
a separate stopping thread the first is false. `SessionsEndForReason` is about cleanup, which takes an
endpoint's ids in one critical section and closes the sessions later, one at a time: it needs that the ids
on an endpoint's list, with the callback that is about to add one, and with the loop that took them, are all
of that endpoint's sessions, and that the loop takes them only from an endpoint that has stopped
(`OwnersInvariance`).

`MonitorCli_proofs`. `CliImplementsRuntime` proves `CliSpec => Spec`, so that every theorem about
`MonitorRuntime` holds with the CLI on its endpoints; two of them are stated. `ResponsesMatch` rests on the
fact that at most one message of a client is under way: a request, its being served, or its response, always
with the number of the latest request (`CliInv`), because a process that times out begins no other request.
`TailsListenFirst` follows from a tail asking to subscribe only after its callbacks are installed, and from
nobody else opening sessions on its connection. `TailsUnsubscribe` needs to know, at each point of a tail,
which sessions its connection may have (`TailOK`): none until it subscribes, then only the one that the
callback, the response on its way and at last the tail itself name, and none once the runtime has detached
that one; losses, and the runtime closing sessions by itself, only shrink the set.

`MonitorTail_proofs`. `TailsAreServed` is `TailingSessionOpen`: a session a tail prints from is open unless
its connection has broken, the bridge is stopping, or another client runs `unsubscribe` or is another
program. The argument has three layers: `OwnersOK` (of `MonitorRuntime`) says that cleanup has only sessions
of stopped endpoints in hand; `NamesOK` that a client of this program, and the callback that serves it, know
only ids that were handed to that client, apart from the id on the command line of `unsubscribe`
(`NamesInvariance`); so whoever closes a session is its client, its cleanup or the shutdown, which is the
last layer.

`BridgeDaemon_proofs`. `IInv` relates the program point to the objects: which exist, which endpoints run,
what callbacks they hold, and whether the control plane is open, for each program in its own order. Seven
theorems, one for each safety property of `daemon_life`, follow for any endpoints, transfers, intervals and
number of runs. For `PacketsLostAtStartOnly`, an action property, it says that a core exists only together
with all the callbacks, which `on_reset` gives up together, so that what `web_early_packet` shows (section
6) can happen in no other part of a run.

Checked by TLC only: `TickServed`, `DisconnectClosesSessions`, `ShutdownReturns`, `CommandReturns`,
`InterruptStops` (liveness under fairness is out of the prover's reach), and the five runs of section 6,
which have no theorem because what they check is false.

## 5. What is not modelled

- The endpoint and time-source libraries and the Hakoniwa asset runtime, except as sources of
  callbacks, caches, time and simulation events. Whether `Endpoint::stop` waits for a running callback is
  decided there. `BridgeDaemon` assumes that it does (without that, `on_reset` would destroy transfers in
  use); `MonitorRuntime` lets it return at once, since `shutdown` calls it under `session_mtx_`, which
  the callback may be waiting for.
- Two threads that call back one source at once: the timing run and the frames of a group have one.
- Several connections in one pass, an endpoint that is the destination of one and the source of another.
- A clock set back within a run, and intervals that are no natural numbers.
- Configuration parsing and which configurations the builder rejects: it returns no core, whatever
  the reason, which is all that the daemons can tell.
- The read-only queries, the wording of replies, and what the CLI prints: they change no state.
- `stop_all` that reports an error; names of control endpoints that are used again; the generation
  behind an 8-bit epoch.
- The build and configuration scripts, which are one-shot programs around CMake and JSON schemas.

`PROJECT.json` repeats this per component, and a hazard that no property covers says why.

## 6. Where the code departs from its documents

Each of these is a run that finds a behaviour of the model in which the quoted statement fails.

- `conn_event_epoch`: impl-design.md:166 wants all but the latest epoch discarded; a callback checks
  the epoch (src/transfer_pdu.cpp:126) and sends (143) without the mutex.
- `conn_detach`: impl-design.md:291 and test/bridge_core_flow_test.cpp:420-424; the callback of a
  removed transfer is not unsubscribed and runs on a destroyed object.
- `group_short`: docs/tutorials/immediate.md:66; a group goes out without a member that could not be
  read.
- `runtime_zombie`: impl-design.md:675; a session recorded after the cleanup of its client is never
  closed.
- `web_early_packet`: design-web-bridge.md:236-247 asks for the order SHM, bridge, WebSocket, so
  that no first packet is lost; `bridge_on_initialize` starts every endpoint (248) before it builds the
  core (260).

The models show more of the kind, listed as hazards: a monitor attached to a paused connection transfers;
the constructor's callback window before the epoch is set; `on_transferred` after a failed transfer; an
epoch switch inside an atomic group's checks; a subscribe that is past its checks when `stop()` comes; an
endpoint left behind by `stop()` from another thread; an interrupt that stops the run after the one
it was meant for; callbacks into destroyed transfers after a failed start of the web bridge, and in
the last moments of the standalone daemon, which exits without `stop_all`.

## 7. Plan

Done, in this order: `TransferPolicy`, `BridgeConnection`, `AtomicGroup`, `MonitorSessions`,
`MonitorRuntime`, `BridgeDaemon`, `MonitorCli`, `ConnectionService`, `GroupFrames`, and the proofs of
section 4, which state every safety property of the passing runs. What could follow:

1. A `BridgeCore` of two connections with a chained endpoint, and a stop during a pass.
2. `Endpoint::stop` that joins its callback thread, as a constant of `MonitorRuntime`, and reuse of
   endpoint names.
3. A clock that is set back within a run; a generation count beside the 8-bit epoch.
4. `BridgeBuilder`: the configurations it rejects against the schema's.
