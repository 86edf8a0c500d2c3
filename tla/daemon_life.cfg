\* Both programs, with and without on-demand monitoring, over two runs of a simulation.
SPECIFICATION FairSpec
CONSTANTS
    shm = shm
    ws = ws
    cmd = cmd
    pos = pos
    Programs = {"bridge", "web_bridge"}
    Endpoints = {shm, ws}
    Transfers = {cmd, pos}
    Source <- MCSource
    Interval = 1
    MaxRuns = 2
    MaxTime = 2
    ClockMod = 8
    Idle = Idle
INVARIANT TypeOK
INVARIANT CallbacksOnLiveTransfers
INVARIANT PassOnRunningEndpoints
INVARIANT ControlPlaneWithinRun
INVARIANT StoppedAfterRun
INVARIANT TickerNotAhead
PROPERTY PacketsLostAtStartOnly
PROPERTY InterruptStops
\* A process ends.
CHECK_DEADLOCK FALSE
