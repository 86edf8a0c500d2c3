\* A client leaves while its subscribe is being handled.
SPECIFICATION Spec
CONSTANTS
    Endpoints = {e1}
    Transfers = {t1, t2}
    KeysPerSession = 2
    MaxSessions = 2
    Loop = loop
    Stopper = loop
    Free = Free
    NoSession = NoSession
SYMMETRY Symmetry
INVARIANT NoZombieSession
\* The system stops when the core has been stopped and every client has left.
CHECK_DEADLOCK FALSE
