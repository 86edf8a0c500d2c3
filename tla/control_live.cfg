\* One client: each command of the CLI, or any other program.
SPECIFICATION CliFairSpec
CONSTANTS
    Endpoints = {e1}
    Transfers = {t1, t2, t3, t4}
    KeysPerSession = 2
    MaxSessions = 2
    Loop = loop
    Stopper = loop
    Free = Free
    NoSession = NoSession
    Nothing = Nothing
    Commands = {"query", "subscribe", "unsubscribe", "tail", "other"}
INVARIANT CliTypeOK
INVARIANT AnswersItsRequest
INVARIANT TailUnsubscribed
INVARIANT TailMissesNothing
INVARIANT TailingSessionOpen
PROPERTY DisconnectClosesSessions
PROPERTY ShutdownReturns
PROPERTY CommandReturns
\* The system stops when the core has been stopped and every client has left.
CHECK_DEADLOCK FALSE
