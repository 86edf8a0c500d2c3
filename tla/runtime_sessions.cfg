\* Two clients subscribe, unsubscribe and leave while the loop cleans up and stops.
SPECIFICATION Spec
CONSTANTS
    Endpoints = {e1, e2}
    Transfers = {t1, t2, t3, t4}
    KeysPerSession = 2
    MaxSessions = 2
    Loop = loop
    Stopper = loop
    Free = Free
    NoSession = NoSession
SYMMETRY Symmetry
INVARIANT TypeOK
INVARIANT TransfersAccounted
INVARIANT SessionsTracked
INVARIANT ShutdownLeavesNoEndpoint
PROPERTY LateSubscribeRejected
PROPERTY ImplementsSessions
PROPERTY SessionsEndForCause
\* The system stops when the core has been stopped and every client has left.
CHECK_DEADLOCK FALSE
