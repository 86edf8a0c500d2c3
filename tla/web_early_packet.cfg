\* The web bridge publishes its endpoints before its transfers have subscribed.
SPECIFICATION Spec
CONSTANTS
    shm = shm
    ws = ws
    cmd = cmd
    pos = pos
    Programs = {"web_bridge"}
    Endpoints = {shm, ws}
    Transfers = {cmd, pos}
    Source <- MCSource
    Interval = 1
    MaxRuns = 1
    MaxTime = 0
    ClockMod = 8
    Idle = Idle
INVARIANT NoPacketLost
\* A process ends.
CHECK_DEADLOCK FALSE
