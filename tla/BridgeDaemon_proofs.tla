------------------------ MODULE BridgeDaemon_proofs ------------------------
(***************************************************************************)
(* Proofs about BridgeDaemon, for any endpoints and transfers, any number  *)
(* of runs of a simulation and any interval.                               *)
(***************************************************************************)
EXTENDS BridgeDaemon, TLAPS

-----------------------------------------------------------------------------
(* The inductive invariant.                                                *)

\* Each program keeps to its own steps; a return code of 1 leads to the end.
PcOK ==
    /\ program \in {"bridge", "web_bridge"}
    /\ program = "bridge" =>
          pc \notin {"register", "wait", "post_start", "reset_detach", "reset_stop",
                     "reset_endpoints", "finish", "finish_endpoints"}
    /\ program = "web_bridge" => pc \notin {"detach", "leave"}
    /\ pc = "failed" => exit_code = 1
    /\ exit_code = 1 => pc \in {"failed", "exited"}

\* From the start of the core to the end of the loop or of the run.
UpPCs == {"core", "runtime", "pass", "stop_check", "detach", "leave", "reset_detach",
          "reset_stop"}

\* Which endpoints run where, and that only they call back.
EndpointsOK ==
    /\ \A e \in Endpoints : endpoint[e] # "running" => recv[e] = Idle
    /\ pc \in {"register", "wait", "container"} =>
          \A e \in Endpoints : endpoint[e] # "running"
    /\ program = "web_bridge" /\ pc = "exited" /\ exit_code = 0 =>
          \A e \in Endpoints : endpoint[e] # "running"
    /\ pc \in UpPCs \/ (program = "web_bridge" /\ pc \in {"post_start", "build"}) =>
          \A e \in Endpoints : endpoint[e] = "running"
    /\ program = "web_bridge" /\ pc \in UpPCs \cup {"build"} => posted = Endpoints

\* What has been built where.
BuiltOK ==
    /\ alive \subseteq callbacks
    /\ pc \in UpPCs \/ (program = "bridge" /\ pc = "start") => core /\ alive = Transfers
    /\ pc = "runtime" => is_running

\* The control plane is open only in the loop, and whoever ends the run can close it.
ControlOK ==
    mux_open =>
        /\ attached /\ core /\ is_running
        /\ \A e \in Endpoints : endpoint[e] = "running"
        /\ pc \in {"pass", "stop_check", "reset_detach", "finish"}

CallbacksOK ==
    /\ ~Abandoned /\ pc # "exited" => callbacks \subseteq alive
    /\ CallbacksOnLiveTransfers

ClockOK ==
    /\ policy.kind = "ticker" /\ policy.interval = Interval
    /\ TickerNotAhead

\* A core exists with all the callbacks there are, and so do the standalone daemon's
\* endpoints while they run.
LossOK ==
    /\ core => callbacks = Transfers
    /\ program = "bridge" =>
          \A e \in Endpoints : endpoint[e] = "running" => callbacks = Transfers

IInv ==
    /\ TypeOK
    /\ PcOK
    /\ EndpointsOK
    /\ BuiltOK
    /\ ControlOK
    /\ CallbacksOK
    /\ ClockOK
    /\ LossOK

\* What the passes do with the ticker, which the assumption on MaxTime keeps from wrapping.
LEMMA NewTicker ==
    /\ NewPolicy("ticker", Interval) \in Policies
    /\ NewPolicy("ticker", Interval).kind = "ticker"
    /\ NewPolicy("ticker", Interval).interval = Interval
    /\ ~NewPolicy("ticker", Interval).armed
<1> USE DaemonAssumption, ClockModAssumption DEF DaemonAssumption
<1>1. Interval \in Instants /\ 0 \in Instants
    BY DEF Instants
<1> QED BY <1>1 DEF NewPolicy, Policies, PolicyKinds

LEMMA NextTick ==
    ASSUME NEW time \in 0 .. MaxTime
    PROVE  /\ (time + Interval) % ClockMod = time + Interval
           /\ time + Interval \in Instants
<1> USE DaemonAssumption, ClockModAssumption DEF DaemonAssumption
<1>1. \A a, b \in Nat : a < b => a % b = a
    BY SMT
<1> QED BY <1>1 DEF Instants

LEMMA CheckedTicker ==
    ASSUME NEW p \in Policies, p.kind = "ticker", p.interval = Interval,
           NEW time \in 0 .. MaxTime, p.armed => p.mark <= time + Interval,
           NEW q \in {p, AfterCheck(p, time), OnTransferred(AfterCheck(p, time), time)}
    PROVE  /\ q \in Policies /\ q.kind = "ticker" /\ q.interval = Interval
           /\ q.armed => q.mark <= time + Interval
<1>1. /\ AfterCheck(p, time) \in Policies
      /\ AfterCheck(p, time).kind = "ticker" /\ AfterCheck(p, time).interval = Interval
      /\ AfterCheck(p, time).mark <= time + Interval
      /\ AfterCheck(p, time).armed
  <2>1. CASE p.armed
      BY <2>1 DEF AfterCheck
  <2>2. CASE ~p.armed
    <3>1. AfterCheck(p, time) = [p EXCEPT !.armed = TRUE, !.mark = time + Interval]
        BY <2>2, NextTick DEF AfterCheck
    <3>2. time + Interval <= time + Interval
        BY DaemonAssumption DEF DaemonAssumption
    <3> QED BY <3>1, <3>2, NextTick DEF Policies
  <2> QED BY <2>1, <2>2
<1>2. ASSUME NEW r \in Policies, r.kind = "ticker", r.interval = Interval
      PROVE  /\ OnTransferred(r, time) \in Policies
             /\ OnTransferred(r, time).kind = "ticker"
             /\ OnTransferred(r, time).interval = Interval
             /\ OnTransferred(r, time).mark = time + Interval
    BY <1>2, NextTick DEF OnTransferred, Policies
<1>3. time + Interval <= time + Interval
    BY DaemonAssumption DEF DaemonAssumption
<1> QED BY <1>1, <1>2, <1>3

LEMMA InitIInv == Init => IInv
<1> SUFFICES ASSUME Init PROVE IInv
    OBVIOUS
<1> USE DaemonAssumption, ClockModAssumption DEF DaemonAssumption, ClockModAssumption, Init
<1>1. TypeOK
  <2>1. endpoint \in [Endpoints -> {"absent", "opened", "running", "stopped"}]
        /\ recv \in [Endpoints -> Transfers \cup {Idle}]
      OBVIOUS
  <2>2. now \in 0 .. MaxTime /\ runs \in 0 .. MaxRuns
      OBVIOUS
  <2> QED BY <2>1, <2>2, NewTicker DEF TypeOK, PCs, StartupPCs
<1>2. PcOK /\ EndpointsOK /\ BuiltOK /\ ControlOK
    BY DEF PcOK, EndpointsOK, BuiltOK, ControlOK, UpPCs
<1>3. CallbacksOK /\ ClockOK /\ LossOK
    BY NewTicker DEF CallbacksOK, CallbacksOnLiveTransfers, ClockOK, TickerNotAhead, LossOK
<1> QED BY <1>1, <1>2, <1>3 DEF IInv

-----------------------------------------------------------------------------
(* Every action preserves the invariant.                                   *)

LEMMA RegisterStep ==
    ASSUME IInv, Register
    PROVE  IInv'
<1> USE DaemonAssumption DEF DaemonAssumption, Register, At, Goto, Fail, IInv,
        options, endpointVars, coreVars, controlVars, outsideVars
<1>1. TypeOK'
    BY DEF TypeOK, PCs, StartupPCs
<1>2. PcOK'
    BY DEF PcOK, StartupPCs, TypeOK
<1>3. EndpointsOK'
    BY DEF EndpointsOK, UpPCs, PcOK, TypeOK
<1>4. BuiltOK'
    BY DEF BuiltOK, UpPCs, PcOK, TypeOK
<1>5. ControlOK'
    BY DEF ControlOK, BuiltOK, EndpointsOK, UpPCs, PcOK, TypeOK
<1>6. CallbacksOK'
    BY DEF CallbacksOK, CallbacksOnLiveTransfers, Abandoned, PcOK, EndpointsOK, BuiltOK, TypeOK
<1>7. ClockOK'
    BY DEF ClockOK, TickerNotAhead
<1>8. LossOK'
    BY DEF LossOK, BuiltOK, PcOK, UpPCs, TypeOK
<1> QED BY <1>1, <1>2, <1>3, <1>4, <1>5, <1>6, <1>7, <1>8

LEMMA AssetStartsStep ==
    ASSUME IInv, AssetStarts
    PROVE  IInv'
<1> USE DaemonAssumption DEF DaemonAssumption, AssetStarts, At, Goto, IInv,
        options, endpointVars, coreVars, controlVars, outsideVars
<1>1. TypeOK'
    BY DEF TypeOK, PCs, StartupPCs
<1>2. PcOK'
    BY DEF PcOK, StartupPCs, TypeOK
<1>3. EndpointsOK'
    BY DEF EndpointsOK, UpPCs, PcOK, TypeOK
<1>4. BuiltOK'
    BY DEF BuiltOK, UpPCs, PcOK, TypeOK
<1>5. ControlOK'
    BY DEF ControlOK, BuiltOK, EndpointsOK, UpPCs, PcOK, TypeOK
<1>6. CallbacksOK'
    BY DEF CallbacksOK, CallbacksOnLiveTransfers, Abandoned, PcOK, EndpointsOK, BuiltOK, TypeOK
<1>7. ClockOK'
    BY DEF ClockOK, TickerNotAhead
<1>8. LossOK'
    BY DEF LossOK, BuiltOK, PcOK, UpPCs, TypeOK
<1> QED BY <1>1, <1>2, <1>3, <1>4, <1>5, <1>6, <1>7, <1>8

LEMMA InitializeContainerStep ==
    ASSUME IInv, InitializeContainer
    PROVE  IInv'
<1> USE DaemonAssumption DEF DaemonAssumption, InitializeContainer, At, Goto, Proceed, Startup, IInv,
        options, endpointVars, coreVars, controlVars, outsideVars
<1>1. TypeOK'
    BY DEF TypeOK, PCs, StartupPCs
<1>2. PcOK'
    BY DEF PcOK, StartupPCs, TypeOK
<1>3. EndpointsOK'
    BY DEF EndpointsOK, UpPCs, PcOK, TypeOK
<1>4. BuiltOK'
    BY DEF BuiltOK, UpPCs, PcOK, TypeOK
<1>5. ControlOK'
    BY DEF ControlOK, BuiltOK, EndpointsOK, UpPCs, PcOK, TypeOK
<1>6. CallbacksOK'
    BY DEF CallbacksOK, CallbacksOnLiveTransfers, Abandoned, PcOK, EndpointsOK, BuiltOK, TypeOK
<1>7. ClockOK'
    BY DEF ClockOK, TickerNotAhead
<1>8. LossOK'
    BY DEF LossOK, BuiltOK, PcOK, UpPCs, TypeOK
<1> QED BY <1>1, <1>2, <1>3, <1>4, <1>5, <1>6, <1>7, <1>8

LEMMA StartEndpointStep ==
    ASSUME IInv, NEW e \in Endpoints, StartEndpoint(e)
    PROVE  IInv'
<1> USE DaemonAssumption DEF DaemonAssumption, StartEndpoint, At, Goto, IInv,
        options, endpointVars, coreVars, controlVars, outsideVars
<1>1. TypeOK'
    BY DEF TypeOK, PCs, StartupPCs
<1>2. PcOK'
    BY DEF PcOK, StartupPCs, TypeOK
<1>3. EndpointsOK'
    BY DEF EndpointsOK, UpPCs, PcOK, TypeOK
<1>4. BuiltOK'
    BY DEF BuiltOK, UpPCs, PcOK, TypeOK
<1>5. ControlOK'
    BY DEF ControlOK, BuiltOK, EndpointsOK, UpPCs, PcOK, TypeOK
<1>6. CallbacksOK'
    BY DEF CallbacksOK, CallbacksOnLiveTransfers, Abandoned, PcOK, EndpointsOK, BuiltOK, TypeOK
<1>7. ClockOK'
    BY DEF ClockOK, TickerNotAhead
<1>8. LossOK'
    BY DEF LossOK, BuiltOK, PcOK, UpPCs, TypeOK
<1> QED BY <1>1, <1>2, <1>3, <1>4, <1>5, <1>6, <1>7, <1>8

LEMMA StartAllDoneStep ==
    ASSUME IInv, StartAllDone
    PROVE  IInv'
<1> USE DaemonAssumption DEF DaemonAssumption, StartAllDone, At, Goto, Proceed, Startup, IInv,
        options, endpointVars, coreVars, controlVars, outsideVars
<1>1. TypeOK'
    BY DEF TypeOK, PCs, StartupPCs
<1>2. PcOK'
    BY DEF PcOK, StartupPCs, TypeOK
<1>3. EndpointsOK'
    BY DEF EndpointsOK, UpPCs, PcOK, TypeOK
<1>4. BuiltOK'
    BY DEF BuiltOK, UpPCs, PcOK, TypeOK
<1>5. ControlOK'
    BY DEF ControlOK, BuiltOK, EndpointsOK, UpPCs, PcOK, TypeOK
<1>6. CallbacksOK'
    BY DEF CallbacksOK, CallbacksOnLiveTransfers, Abandoned, PcOK, EndpointsOK, BuiltOK, TypeOK
<1>7. ClockOK'
    BY DEF ClockOK, TickerNotAhead
<1>8. LossOK'
    BY DEF LossOK, BuiltOK, PcOK, UpPCs, TypeOK
<1> QED BY <1>1, <1>2, <1>3, <1>4, <1>5, <1>6, <1>7, <1>8

LEMMA PostStartAllStep ==
    ASSUME IInv, PostStartAll
    PROVE  IInv'
<1> USE DaemonAssumption DEF DaemonAssumption, PostStartAll, At, Goto, Proceed, Startup, IInv,
        options, endpointVars, coreVars, controlVars, outsideVars
<1>1. TypeOK'
    BY DEF TypeOK, PCs, StartupPCs
<1>2. PcOK'
    BY DEF PcOK, StartupPCs, TypeOK
<1>3. EndpointsOK'
    BY DEF EndpointsOK, UpPCs, PcOK, TypeOK
<1>4. BuiltOK'
    BY DEF BuiltOK, UpPCs, PcOK, TypeOK
<1>5. ControlOK'
    BY DEF ControlOK, BuiltOK, EndpointsOK, UpPCs, PcOK, TypeOK
<1>6. CallbacksOK'
    BY DEF CallbacksOK, CallbacksOnLiveTransfers, Abandoned, PcOK, EndpointsOK, BuiltOK, TypeOK
<1>7. ClockOK'
    BY DEF ClockOK, TickerNotAhead
<1>8. LossOK'
    BY DEF LossOK, BuiltOK, PcOK, UpPCs, TypeOK
<1> QED BY <1>1, <1>2, <1>3, <1>4, <1>5, <1>6, <1>7, <1>8

LEMMA BuildTransferStep ==
    ASSUME IInv, NEW t \in Transfers, BuildTransfer(t)
    PROVE  IInv'
<1> USE DaemonAssumption DEF DaemonAssumption, BuildTransfer, At, Goto, IInv,
        options, endpointVars, coreVars, controlVars, outsideVars
<1>1. TypeOK'
    BY DEF TypeOK, PCs, StartupPCs
<1>2. PcOK'
    BY DEF PcOK, StartupPCs, TypeOK
<1>3. EndpointsOK'
    BY DEF EndpointsOK, UpPCs, PcOK, TypeOK
<1>4. BuiltOK'
    BY DEF BuiltOK, UpPCs, PcOK, TypeOK
<1>5. ControlOK'
    BY DEF ControlOK, BuiltOK, EndpointsOK, UpPCs, PcOK, TypeOK
<1>6. CallbacksOK'
    BY DEF CallbacksOK, CallbacksOnLiveTransfers, Abandoned, PcOK, EndpointsOK, BuiltOK, TypeOK
<1>7. ClockOK'
    BY DEF ClockOK, TickerNotAhead
<1>8. LossOK'
    BY DEF LossOK, BuiltOK, PcOK, UpPCs, TypeOK
<1> QED BY <1>1, <1>2, <1>3, <1>4, <1>5, <1>6, <1>7, <1>8

LEMMA BuildDoneStep ==
    ASSUME IInv, BuildDone
    PROVE  IInv'
<1> USE DaemonAssumption DEF DaemonAssumption, BuildDone, At, Goto, Proceed, Startup, IInv,
        options, endpointVars, coreVars, controlVars, outsideVars
<1>1. TypeOK'
    BY NewTicker DEF TypeOK, PCs, StartupPCs
<1>2. PcOK'
    BY DEF PcOK, StartupPCs, TypeOK
<1>3. EndpointsOK'
    BY DEF EndpointsOK, UpPCs, PcOK, TypeOK
<1>4. BuiltOK'
    BY DEF BuiltOK, UpPCs, PcOK, TypeOK
<1>5. ControlOK'
    BY DEF ControlOK, BuiltOK, EndpointsOK, UpPCs, PcOK, TypeOK
<1>6. CallbacksOK'
    BY DEF CallbacksOK, CallbacksOnLiveTransfers, Abandoned, PcOK, EndpointsOK, BuiltOK, TypeOK
<1>7. ClockOK'
    BY NewTicker DEF ClockOK, TickerNotAhead
<1>8. LossOK'
    BY DEF LossOK, BuiltOK, PcOK, UpPCs, TypeOK
<1> QED BY <1>1, <1>2, <1>3, <1>4, <1>5, <1>6, <1>7, <1>8

LEMMA BuildFailsStep ==
    ASSUME IInv, BuildFails
    PROVE  IInv'
<1> USE DaemonAssumption DEF DaemonAssumption, BuildFails, At, Goto, Fail, IInv,
        options, endpointVars, coreVars, controlVars, outsideVars
<1>1. TypeOK'
    BY DEF TypeOK, PCs, StartupPCs
<1>2. PcOK'
    BY DEF PcOK, StartupPCs, TypeOK
<1>3. EndpointsOK'
    BY DEF EndpointsOK, UpPCs, PcOK, TypeOK
<1>4. BuiltOK'
    BY DEF BuiltOK, UpPCs, PcOK, TypeOK
<1>5. ControlOK'
    BY DEF ControlOK, BuiltOK, EndpointsOK, UpPCs, PcOK, TypeOK
<1>6. CallbacksOK'
    BY DEF CallbacksOK, CallbacksOnLiveTransfers, Abandoned, PcOK, EndpointsOK, BuiltOK, TypeOK
<1>7. ClockOK'
    BY DEF ClockOK, TickerNotAhead
<1>8. LossOK'
    BY DEF LossOK, BuiltOK, PcOK, UpPCs, TypeOK
<1> QED BY <1>1, <1>2, <1>3, <1>4, <1>5, <1>6, <1>7, <1>8

LEMMA StartCoreStep ==
    ASSUME IInv, StartCore
    PROVE  IInv'
<1> USE DaemonAssumption DEF DaemonAssumption, StartCore, At, Goto, Proceed, Startup, IInv,
        options, endpointVars, coreVars, controlVars, outsideVars
<1>1. TypeOK'
    BY DEF TypeOK, PCs, StartupPCs
<1>2. PcOK'
    BY DEF PcOK, StartupPCs, TypeOK
<1>3. EndpointsOK'
    BY DEF EndpointsOK, UpPCs, PcOK, TypeOK
<1>4. BuiltOK'
    BY DEF BuiltOK, UpPCs, PcOK, TypeOK
<1>5. ControlOK'
    BY DEF ControlOK, BuiltOK, EndpointsOK, UpPCs, PcOK, TypeOK
<1>6. CallbacksOK'
    BY DEF CallbacksOK, CallbacksOnLiveTransfers, Abandoned, PcOK, EndpointsOK, BuiltOK, TypeOK
<1>7. ClockOK'
    BY DEF ClockOK, TickerNotAhead
<1>8. LossOK'
    BY DEF LossOK, BuiltOK, PcOK, UpPCs, TypeOK
<1> QED BY <1>1, <1>2, <1>3, <1>4, <1>5, <1>6, <1>7, <1>8

LEMMA InitializeRuntimeStep ==
    ASSUME IInv, InitializeRuntime
    PROVE  IInv'
<1> USE DaemonAssumption DEF DaemonAssumption, InitializeRuntime, At, Goto, Proceed, Startup, IInv,
        options, endpointVars, coreVars, controlVars, outsideVars
<1>1. TypeOK'
    BY DEF TypeOK, PCs, StartupPCs
<1>2. PcOK'
    BY DEF PcOK, StartupPCs, TypeOK
<1>3. EndpointsOK'
    BY DEF EndpointsOK, UpPCs, PcOK, TypeOK
<1>4. BuiltOK'
    BY DEF BuiltOK, UpPCs, PcOK, TypeOK
<1>5. ControlOK'
    BY DEF ControlOK, BuiltOK, EndpointsOK, UpPCs, PcOK, TypeOK
<1>6. CallbacksOK'
    BY DEF CallbacksOK, CallbacksOnLiveTransfers, Abandoned, PcOK, EndpointsOK, BuiltOK, TypeOK
<1>7. ClockOK'
    BY DEF ClockOK, TickerNotAhead
<1>8. LossOK'
    BY DEF LossOK, BuiltOK, PcOK, UpPCs, TypeOK
<1> QED BY <1>1, <1>2, <1>3, <1>4, <1>5, <1>6, <1>7, <1>8

LEMMA StartupFailsStep ==
    ASSUME IInv, StartupFails
    PROVE  IInv'
<1> USE DaemonAssumption DEF DaemonAssumption, StartupFails, At, Goto, Fail, IInv,
        options, endpointVars, coreVars, controlVars, outsideVars
<1>1. TypeOK'
    BY DEF TypeOK, PCs, StartupPCs
<1>2. PcOK'
    BY DEF PcOK, StartupPCs, TypeOK
<1>3. EndpointsOK'
    BY DEF EndpointsOK, UpPCs, PcOK, TypeOK
<1>4. BuiltOK'
    BY DEF BuiltOK, UpPCs, PcOK, TypeOK
<1>5. ControlOK'
    BY DEF ControlOK, BuiltOK, EndpointsOK, UpPCs, PcOK, TypeOK
<1>6. CallbacksOK'
    BY DEF CallbacksOK, CallbacksOnLiveTransfers, Abandoned, PcOK, EndpointsOK, BuiltOK, TypeOK
<1>7. ClockOK'
    BY DEF ClockOK, TickerNotAhead
<1>8. LossOK'
    BY DEF LossOK, BuiltOK, PcOK, UpPCs, TypeOK
<1> QED BY <1>1, <1>2, <1>3, <1>4, <1>5, <1>6, <1>7, <1>8

LEMMA PassStep ==
    ASSUME IInv, Pass
    PROVE  IInv'
<1> USE DaemonAssumption DEF DaemonAssumption, Pass, At, Goto, IInv,
        options, endpointVars, coreVars, controlVars, outsideVars
<1>0. /\ policy' \in Policies /\ policy'.kind = "ticker" /\ policy'.interval = Interval
      /\ core /\ policy'.armed => policy'.mark <= now + Interval
  <2>1. core
      BY DEF BuiltOK, UpPCs
  <2>2. policy' \in {policy, AfterCheck(policy, now), OnTransferred(AfterCheck(policy, now), now)}
      OBVIOUS
  <2> QED BY <2>1, <2>2, CheckedTicker DEF TypeOK, ClockOK, TickerNotAhead
<1>1. TypeOK'
    BY <1>0 DEF TypeOK, PCs, StartupPCs
<1>2. PcOK'
    BY DEF PcOK, StartupPCs, TypeOK
<1>3. EndpointsOK'
    BY DEF EndpointsOK, UpPCs, PcOK, TypeOK
<1>4. BuiltOK'
    BY DEF BuiltOK, UpPCs, PcOK, TypeOK
<1>5. ControlOK'
    BY DEF ControlOK, BuiltOK, EndpointsOK, UpPCs, PcOK, TypeOK
<1>6. CallbacksOK'
    BY DEF CallbacksOK, CallbacksOnLiveTransfers, Abandoned, PcOK, EndpointsOK, BuiltOK, TypeOK
<1>7. ClockOK'
    BY <1>0 DEF ClockOK, TickerNotAhead
<1>8. LossOK'
    BY DEF LossOK, BuiltOK, PcOK, UpPCs, TypeOK
<1> QED BY <1>1, <1>2, <1>3, <1>4, <1>5, <1>6, <1>7, <1>8

LEMMA CheckStopStep ==
    ASSUME IInv, CheckStop
    PROVE  IInv'
<1> USE DaemonAssumption DEF DaemonAssumption, CheckStop, At, Goto, ShutdownRuntime, IInv,
        options, endpointVars, coreVars, controlVars, outsideVars
<1>1. TypeOK'
    BY DEF TypeOK, PCs, StartupPCs
<1>2. PcOK'
    BY DEF PcOK, StartupPCs, TypeOK
<1>3. EndpointsOK'
    BY DEF EndpointsOK, UpPCs, PcOK, TypeOK
<1>4. BuiltOK'
    BY DEF BuiltOK, UpPCs, PcOK, TypeOK
<1>5. ControlOK'
    BY DEF ControlOK, BuiltOK, EndpointsOK, UpPCs, PcOK, TypeOK
<1>6. CallbacksOK'
    BY DEF CallbacksOK, CallbacksOnLiveTransfers, Abandoned, PcOK, EndpointsOK, BuiltOK, TypeOK
<1>7. ClockOK'
    BY DEF ClockOK, TickerNotAhead
<1>8. LossOK'
    BY DEF LossOK, BuiltOK, PcOK, UpPCs, TypeOK
<1> QED BY <1>1, <1>2, <1>3, <1>4, <1>5, <1>6, <1>7, <1>8

LEMMA AssetResetStep ==
    ASSUME IInv, AssetReset
    PROVE  IInv'
<1> USE DaemonAssumption DEF DaemonAssumption, AssetReset, At, Goto, IInv,
        options, endpointVars, coreVars, controlVars, outsideVars
<1>1. TypeOK'
    BY DEF TypeOK, PCs, StartupPCs
<1>2. PcOK'
    BY DEF PcOK, StartupPCs, TypeOK
<1>3. EndpointsOK'
    BY DEF EndpointsOK, UpPCs, PcOK, TypeOK
<1>4. BuiltOK'
    BY DEF BuiltOK, UpPCs, PcOK, TypeOK
<1>5. ControlOK'
    BY DEF ControlOK, BuiltOK, EndpointsOK, UpPCs, PcOK, TypeOK
<1>6. CallbacksOK'
    BY DEF CallbacksOK, CallbacksOnLiveTransfers, Abandoned, PcOK, EndpointsOK, BuiltOK, TypeOK
<1>7. ClockOK'
    BY DEF ClockOK, TickerNotAhead
<1>8. LossOK'
    BY DEF LossOK, BuiltOK, PcOK, UpPCs, TypeOK
<1> QED BY <1>1, <1>2, <1>3, <1>4, <1>5, <1>6, <1>7, <1>8

LEMMA DetachRuntimeStep ==
    ASSUME IInv, 
           \/ DetachRuntime("detach", "leave") \/ DetachRuntime("reset_detach", "reset_stop")
           \/ DetachRuntime("finish", "finish_endpoints")
    PROVE  IInv'
<1> USE DaemonAssumption DEF DaemonAssumption, DetachRuntime, At, Goto, ShutdownRuntime, IInv,
        options, endpointVars, coreVars, controlVars, outsideVars
<1>0. /\ \/ pc = "detach" /\ pc' = "leave"
         \/ pc = "reset_detach" /\ pc' = "reset_stop"
         \/ pc = "finish" /\ pc' = "finish_endpoints"
      /\ attached' = FALSE
      /\ mux_open' \in {mux_open, FALSE}
      /\ UNCHANGED <<program, ondemand, exit_code, endpointVars, coreVars, outsideVars, runs>>
    OBVIOUS
<1>1. TypeOK'
  <2>1. pc' \in PCs
      BY <1>0 DEF PCs, StartupPCs
  <2>2. mux_open' \in BOOLEAN
      BY <1>0 DEF TypeOK
  <2> HIDE DEF DetachRuntime
  <2> QED BY <1>0, <2>1, <2>2 DEF TypeOK
<1>2. PcOK'
  <2> HIDE DEF DetachRuntime
  <2> QED BY <1>0 DEF PcOK, StartupPCs, TypeOK
<1>3. EndpointsOK'
    BY DEF EndpointsOK, UpPCs, PcOK, TypeOK
<1>4. BuiltOK'
    BY DEF BuiltOK, UpPCs, PcOK, TypeOK
<1>5. ControlOK'
    BY DEF ControlOK, BuiltOK, EndpointsOK, UpPCs, PcOK, TypeOK
<1>6. CallbacksOK'
    BY DEF CallbacksOK, CallbacksOnLiveTransfers, Abandoned, PcOK, EndpointsOK, BuiltOK, TypeOK
<1>7. ClockOK'
  <2>1. UNCHANGED <<core, policy, now>>
      OBVIOUS
  <2> QED BY <2>1 DEF ClockOK, TickerNotAhead
<1>8. LossOK'
  <2>1. UNCHANGED <<program, core, callbacks, endpoint>>
      OBVIOUS
  <2> QED BY <2>1 DEF LossOK
<1> QED BY <1>1, <1>2, <1>3, <1>4, <1>5, <1>6, <1>7, <1>8

LEMMA ResetStopsCoreStep ==
    ASSUME IInv, ResetStopsCore
    PROVE  IInv'
<1> USE DaemonAssumption DEF DaemonAssumption, ResetStopsCore, At, Goto, ShutdownRuntime, IInv,
        options, endpointVars, coreVars, controlVars, outsideVars
<1>1. TypeOK'
    BY DEF TypeOK, PCs, StartupPCs
<1>2. PcOK'
    BY DEF PcOK, StartupPCs, TypeOK
<1>3. EndpointsOK'
    BY DEF EndpointsOK, UpPCs, PcOK, TypeOK
<1>4. BuiltOK'
    BY DEF BuiltOK, UpPCs, PcOK, TypeOK
<1>5. ControlOK'
    BY DEF ControlOK, BuiltOK, EndpointsOK, UpPCs, PcOK, TypeOK
<1>6. CallbacksOK'
    BY DEF CallbacksOK, CallbacksOnLiveTransfers, Abandoned, PcOK, EndpointsOK, BuiltOK, TypeOK
<1>7. ClockOK'
    BY DEF ClockOK, TickerNotAhead
<1>8. LossOK'
    BY DEF LossOK, BuiltOK, PcOK, UpPCs, TypeOK
<1> QED BY <1>1, <1>2, <1>3, <1>4, <1>5, <1>6, <1>7, <1>8

LEMMA StopEndpointStep ==
    ASSUME IInv, NEW e \in Endpoints, StopEndpoint(e)
    PROVE  IInv'
<1> USE DaemonAssumption DEF DaemonAssumption, StopEndpoint, At, Goto, IInv,
        options, endpointVars, coreVars, controlVars, outsideVars
<1>1. TypeOK'
    BY DEF TypeOK, PCs, StartupPCs
<1>2. PcOK'
    BY DEF PcOK, StartupPCs, TypeOK
<1>3. EndpointsOK'
    BY DEF EndpointsOK, UpPCs, PcOK, TypeOK
<1>4. BuiltOK'
    BY DEF BuiltOK, UpPCs, PcOK, TypeOK
<1>5. ControlOK'
    BY DEF ControlOK, BuiltOK, EndpointsOK, UpPCs, PcOK, TypeOK
<1>6. CallbacksOK'
    BY DEF CallbacksOK, CallbacksOnLiveTransfers, Abandoned, PcOK, EndpointsOK, BuiltOK, TypeOK
<1>7. ClockOK'
    BY DEF ClockOK, TickerNotAhead
<1>8. LossOK'
    BY DEF LossOK, BuiltOK, PcOK, UpPCs, TypeOK
<1> QED BY <1>1, <1>2, <1>3, <1>4, <1>5, <1>6, <1>7, <1>8

LEMMA ResetObjectsStep ==
    ASSUME IInv, ResetObjects
    PROVE  IInv'
<1> USE DaemonAssumption DEF DaemonAssumption, ResetObjects, At, Goto, IInv,
        options, endpointVars, coreVars, controlVars, outsideVars
<1>1. TypeOK'
  <2>1. endpoint' \in [Endpoints -> {"absent", "opened", "running", "stopped"}]
      OBVIOUS
  <2>2. now' \in 0 .. MaxTime
      OBVIOUS
  <2> QED BY <2>1, <2>2 DEF TypeOK, PCs, StartupPCs
<1>2. PcOK'
    BY DEF PcOK, StartupPCs, TypeOK
<1>3. EndpointsOK'
    BY DEF EndpointsOK, UpPCs, PcOK, TypeOK
<1>4. BuiltOK'
    BY DEF BuiltOK, UpPCs, PcOK, TypeOK
<1>5. ControlOK'
    BY DEF ControlOK, BuiltOK, EndpointsOK, UpPCs, PcOK, TypeOK
<1>6. CallbacksOK'
    BY DEF CallbacksOK, CallbacksOnLiveTransfers, Abandoned, PcOK, EndpointsOK, BuiltOK, TypeOK
<1>7. ClockOK'
    BY DEF ClockOK, TickerNotAhead
<1>8. LossOK'
    BY DEF LossOK, BuiltOK, PcOK, UpPCs, TypeOK
<1> QED BY <1>1, <1>2, <1>3, <1>4, <1>5, <1>6, <1>7, <1>8

LEMMA StepWithoutCoreStep ==
    ASSUME IInv, StepWithoutCore
    PROVE  IInv'
<1> USE DaemonAssumption DEF DaemonAssumption, StepWithoutCore, At, Goto, Fail, IInv,
        options, endpointVars, coreVars, controlVars, outsideVars
<1>1. TypeOK'
    BY DEF TypeOK, PCs, StartupPCs
<1>2. PcOK'
    BY DEF PcOK, StartupPCs, TypeOK
<1>3. EndpointsOK'
    BY DEF EndpointsOK, UpPCs, PcOK, TypeOK
<1>4. BuiltOK'
    BY DEF BuiltOK, UpPCs, PcOK, TypeOK
<1>5. ControlOK'
    BY DEF ControlOK, BuiltOK, EndpointsOK, UpPCs, PcOK, TypeOK
<1>6. CallbacksOK'
    BY DEF CallbacksOK, CallbacksOnLiveTransfers, Abandoned, PcOK, EndpointsOK, BuiltOK, TypeOK
<1>7. ClockOK'
    BY DEF ClockOK, TickerNotAhead
<1>8. LossOK'
    BY DEF LossOK, BuiltOK, PcOK, UpPCs, TypeOK
<1> QED BY <1>1, <1>2, <1>3, <1>4, <1>5, <1>6, <1>7, <1>8

LEMMA AssetEndsStep ==
    ASSUME IInv, AssetEnds
    PROVE  IInv'
<1> USE DaemonAssumption DEF DaemonAssumption, AssetEnds, At, Goto, IInv,
        options, endpointVars, coreVars, controlVars, outsideVars
<1>1. TypeOK'
    BY DEF TypeOK, PCs, StartupPCs
<1>2. PcOK'
    BY DEF PcOK, StartupPCs, TypeOK
<1>3. EndpointsOK'
    BY DEF EndpointsOK, UpPCs, PcOK, TypeOK
<1>4. BuiltOK'
    BY DEF BuiltOK, UpPCs, PcOK, TypeOK
<1>5. ControlOK'
    BY DEF ControlOK, BuiltOK, EndpointsOK, UpPCs, PcOK, TypeOK
<1>6. CallbacksOK'
    BY DEF CallbacksOK, CallbacksOnLiveTransfers, Abandoned, PcOK, EndpointsOK, BuiltOK, TypeOK
<1>7. ClockOK'
    BY DEF ClockOK, TickerNotAhead
<1>8. LossOK'
    BY DEF LossOK, BuiltOK, PcOK, UpPCs, TypeOK
<1> QED BY <1>1, <1>2, <1>3, <1>4, <1>5, <1>6, <1>7, <1>8

LEMMA LeaveStep ==
    ASSUME IInv, Leave
    PROVE  IInv'
<1> USE DaemonAssumption DEF DaemonAssumption, Leave, At, Goto, IInv,
        options, endpointVars, coreVars, controlVars, outsideVars
<1>1. TypeOK'
    BY DEF TypeOK, PCs, StartupPCs
<1>2. PcOK'
    BY DEF PcOK, StartupPCs, TypeOK
<1>3. EndpointsOK'
    BY DEF EndpointsOK, UpPCs, PcOK, TypeOK
<1>4. BuiltOK'
    BY DEF BuiltOK, UpPCs, PcOK, TypeOK
<1>5. ControlOK'
    BY DEF ControlOK, BuiltOK, EndpointsOK, UpPCs, PcOK, TypeOK
<1>6. CallbacksOK'
    BY DEF CallbacksOK, CallbacksOnLiveTransfers, Abandoned, PcOK, EndpointsOK, BuiltOK, TypeOK
<1>7. ClockOK'
    BY DEF ClockOK, TickerNotAhead
<1>8. LossOK'
    BY DEF LossOK, BuiltOK, PcOK, UpPCs, TypeOK
<1> QED BY <1>1, <1>2, <1>3, <1>4, <1>5, <1>6, <1>7, <1>8

LEMMA ReceiveStep ==
    ASSUME IInv, NEW e \in Endpoints, Receive(e)
    PROVE  IInv'
<1> USE DaemonAssumption DEF DaemonAssumption, Receive, At, Goto, IInv,
        options, endpointVars, coreVars, controlVars, outsideVars
<1>1. TypeOK'
    BY DEF TypeOK, PCs, StartupPCs
<1>2. PcOK'
    BY DEF PcOK, StartupPCs, TypeOK
<1>3. EndpointsOK'
    BY DEF EndpointsOK, UpPCs, PcOK, TypeOK
<1>4. BuiltOK'
    BY DEF BuiltOK, UpPCs, PcOK, TypeOK
<1>5. ControlOK'
    BY DEF ControlOK, BuiltOK, EndpointsOK, UpPCs, PcOK, TypeOK
<1>6. CallbacksOK'
    BY DEF CallbacksOK, CallbacksOnLiveTransfers, Abandoned, PcOK, EndpointsOK, BuiltOK, TypeOK
<1>7. ClockOK'
    BY DEF ClockOK, TickerNotAhead
<1>8. LossOK'
    BY DEF LossOK, BuiltOK, PcOK, UpPCs, TypeOK
<1> QED BY <1>1, <1>2, <1>3, <1>4, <1>5, <1>6, <1>7, <1>8

LEMMA CallbackReturnsStep ==
    ASSUME IInv, NEW e \in Endpoints, CallbackReturns(e)
    PROVE  IInv'
<1> USE DaemonAssumption DEF DaemonAssumption, CallbackReturns, At, Goto, IInv,
        options, endpointVars, coreVars, controlVars, outsideVars
<1>1. TypeOK'
    BY DEF TypeOK, PCs, StartupPCs
<1>2. PcOK'
    BY DEF PcOK, StartupPCs, TypeOK
<1>3. EndpointsOK'
    BY DEF EndpointsOK, UpPCs, PcOK, TypeOK
<1>4. BuiltOK'
    BY DEF BuiltOK, UpPCs, PcOK, TypeOK
<1>5. ControlOK'
    BY DEF ControlOK, BuiltOK, EndpointsOK, UpPCs, PcOK, TypeOK
<1>6. CallbacksOK'
    BY DEF CallbacksOK, CallbacksOnLiveTransfers, Abandoned, PcOK, EndpointsOK, BuiltOK, TypeOK
<1>7. ClockOK'
    BY DEF ClockOK, TickerNotAhead
<1>8. LossOK'
    BY DEF LossOK, BuiltOK, PcOK, UpPCs, TypeOK
<1> QED BY <1>1, <1>2, <1>3, <1>4, <1>5, <1>6, <1>7, <1>8

LEMMA InterruptStep ==
    ASSUME IInv, Interrupt
    PROVE  IInv'
<1> USE DaemonAssumption DEF DaemonAssumption, Interrupt, At, Goto, IInv,
        options, endpointVars, coreVars, controlVars, outsideVars
<1>1. TypeOK'
    BY DEF TypeOK, PCs, StartupPCs
<1>2. PcOK'
    BY DEF PcOK, StartupPCs, TypeOK
<1>3. EndpointsOK'
    BY DEF EndpointsOK, UpPCs, PcOK, TypeOK
<1>4. BuiltOK'
    BY DEF BuiltOK, UpPCs, PcOK, TypeOK
<1>5. ControlOK'
    BY DEF ControlOK, BuiltOK, EndpointsOK, UpPCs, PcOK, TypeOK
<1>6. CallbacksOK'
    BY DEF CallbacksOK, CallbacksOnLiveTransfers, Abandoned, PcOK, EndpointsOK, BuiltOK, TypeOK
<1>7. ClockOK'
    BY DEF ClockOK, TickerNotAhead
<1>8. LossOK'
    BY DEF LossOK, BuiltOK, PcOK, UpPCs, TypeOK
<1> QED BY <1>1, <1>2, <1>3, <1>4, <1>5, <1>6, <1>7, <1>8

LEMMA TickStep ==
    ASSUME IInv, Tick
    PROVE  IInv'
<1> USE DaemonAssumption DEF DaemonAssumption, Tick, At, Goto, IInv,
        options, endpointVars, coreVars, controlVars, outsideVars
<1>1. TypeOK'
    BY DEF TypeOK, PCs, StartupPCs
<1>2. PcOK'
    BY DEF PcOK, StartupPCs, TypeOK
<1>3. EndpointsOK'
    BY DEF EndpointsOK, UpPCs, PcOK, TypeOK
<1>4. BuiltOK'
    BY DEF BuiltOK, UpPCs, PcOK, TypeOK
<1>5. ControlOK'
    BY DEF ControlOK, BuiltOK, EndpointsOK, UpPCs, PcOK, TypeOK
<1>6. CallbacksOK'
    BY DEF CallbacksOK, CallbacksOnLiveTransfers, Abandoned, PcOK, EndpointsOK, BuiltOK, TypeOK
<1>7. ClockOK'
    BY DEF ClockOK, TickerNotAhead, TypeOK, Policies, Instants
<1>8. LossOK'
    BY DEF LossOK, BuiltOK, PcOK, UpPCs, TypeOK
<1> QED BY <1>1, <1>2, <1>3, <1>4, <1>5, <1>6, <1>7, <1>8

LEMMA NextStep ==
    ASSUME IInv, [Next]_vars
    PROVE  IInv'
<1>1. CASE StartUp
    BY <1>1, InitializeContainerStep, StartAllDoneStep, PostStartAllStep, BuildDoneStep,
       BuildFailsStep, StartCoreStep, InitializeRuntimeStep, StartupFailsStep,
       StartEndpointStep, BuildTransferStep DEF StartUp
<1>2. CASE Stopping
    BY <1>2, DetachRuntimeStep, ResetStopsCoreStep, ResetObjectsStep, LeaveStep,
       StopEndpointStep DEF Stopping
<1>3. CASE Register \/ AssetStarts \/ AssetReset \/ AssetEnds \/ StepWithoutCore
           \/ Pass \/ CheckStop \/ Interrupt \/ Tick
    BY <1>3, RegisterStep, AssetStartsStep, AssetResetStep, AssetEndsStep,
       StepWithoutCoreStep, PassStep, CheckStopStep, InterruptStep, TickStep
<1>4. CASE \E e \in Endpoints : Receive(e) \/ CallbackReturns(e)
    BY <1>4, ReceiveStep, CallbackReturnsStep
<1>5. CASE UNCHANGED vars
  <2> USE <1>5 DEF vars
  <2>1. TypeOK' /\ PcOK' /\ EndpointsOK' /\ BuiltOK' /\ ControlOK'
      BY DEF IInv, TypeOK, PcOK, EndpointsOK, BuiltOK, ControlOK
  <2>2. CallbacksOK' /\ ClockOK' /\ LossOK'
      BY DEF IInv, CallbacksOK, CallbacksOnLiveTransfers, Abandoned, At, ClockOK,
         TickerNotAhead, LossOK
  <2> QED BY <2>1, <2>2 DEF IInv
<1> QED BY <1>1, <1>2, <1>3, <1>4, <1>5 DEF Next

-----------------------------------------------------------------------------
(* The theorems.                                                           *)

\* The inductive invariant holds in every reachable state of either program.
THEOREM Invariance == Spec => []IInv
<1>1. Init => IInv
    BY InitIInv
<1>2. IInv /\ [Next]_vars => IInv'
    BY NextStep
<1> QED BY <1>1, <1>2, PTL DEF Spec

\* Every variable of the process keeps its type.
THEOREM TypeCorrect == Spec => []TypeOK
<1>1. IInv => TypeOK
    BY DEF IInv
<1> QED BY <1>1, Invariance, PTL

\* Over any number of resets, no receive thread runs a callback of a destroyed transfer,
\* unless the process was abandoned with its endpoints running.
THEOREM CallbacksAreLive == Spec => []CallbacksOnLiveTransfers
<1>1. IInv => CallbacksOnLiveTransfers
    BY DEF IInv, CallbacksOK
<1> QED BY <1>1, Invariance, PTL

\* A pass of a running core finds everything started, in whichever order the program
\* started it.
THEOREM PassesFindEndpoints == Spec => []PassOnRunningEndpoints
<1>1. IInv => PassOnRunningEndpoints
    BY DEF IInv, PassOnRunningEndpoints, PcOK, EndpointsOK, BuiltOK, UpPCs, At
<1> QED BY <1>1, Invariance, PTL

\* Control clients are served by a running core on running endpoints only.
THEOREM ControlPlaneIsWithinRun == Spec => []ControlPlaneWithinRun
<1>1. IInv => ControlPlaneWithinRun
    BY DEF IInv, ControlPlaneWithinRun, ControlOK
<1> QED BY <1>1, Invariance, PTL

\* Every run of a simulation, and an orderly end, stop all that was started.
THEOREM RunsEndStopped == Spec => []StoppedAfterRun
<1>1. IInv => StoppedAfterRun
    BY DEF IInv, StoppedAfterRun, EndpointsOK, ControlOK, At
<1> QED BY <1>1, Invariance, PTL

\* No ticker is ever more than its interval ahead of the clock of its run.
THEOREM TickersKeepTime == Spec => []TickerNotAhead
<1>1. IInv => TickerNotAhead
    BY DEF IInv, ClockOK
<1> QED BY <1>1, Invariance, PTL

\* The standalone daemon misses no packet, however its start-up is interleaved with them,
\* and the web bridge none while it has a core.
THEOREM PacketsAreLostAtStart == Spec => PacketsLostAtStartOnly
<1>1. ASSUME IInv, [Next]_vars, program = "bridge" \/ core
      PROVE  lost' = lost
  <2>1. ASSUME NEW e \in Endpoints, Receive(e)
        PROVE  lost' = lost
    <3>1. callbacks = Transfers
        BY <1>1, <2>1 DEF IInv, LossOK, Receive
    <3>2. {t \in Transfers : Source[t] = e} \cap callbacks = {t \in Transfers : Source[t] = e}
        BY <3>1
    <3>3. lost \in BOOLEAN /\ lost' = (lost \/ FALSE)
        BY <1>1, <2>1, <3>2 DEF Receive, IInv, TypeOK
    <3> QED BY <3>3
  <2>2. CASE ~\E e \in Endpoints : Receive(e)
      BY <1>1, <2>2 DEF Next, Register, AssetStarts, AssetReset, AssetEnds, StepWithoutCore,
         StartUp, InitializeContainer, StartEndpoint, StartAllDone, PostStartAll, BuildTransfer,
         BuildDone, BuildFails, StartCore, InitializeRuntime, StartupFails, Pass, CheckStop,
         Stopping, DetachRuntime, ResetStopsCore, StopEndpoint, ResetObjects, Leave,
         CallbackReturns, Interrupt, Tick, outsideVars, vars
  <2> QED BY <2>1, <2>2
<1>2. IInv /\ [Next]_vars => [program = "bridge" \/ core => lost' = lost]_vars
    BY <1>1
<1> QED BY <1>2, Invariance, PTL DEF Spec, PacketsLostAtStartOnly
=============================================================================
