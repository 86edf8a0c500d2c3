--------------------------- MODULE MonitorSessions --------------------------
(***************************************************************************)
(* What the monitor runtime promises about monitor sessions, whatever      *)
(* threads it runs on: a session gets an id that was never used, is fed by *)
(* transfers of its own, one for every PDU key of its connection, keeps    *)
(* them as long as it is open, and once closed never comes back.           *)
(***************************************************************************)
EXTENDS Naturals, FiniteSets

CONSTANTS
    Transfers,
    KeysPerSession,
    MaxSessions

Ids == 0 .. MaxSessions - 1

VARIABLES
    issued,     \* how many ids have been given out
    open,       \* the open sessions
    feeds       \* the transfers of each session

InUse == UNION {feeds[id] : id \in open}

Init ==
    /\ issued = 0
    /\ open = {}
    /\ feeds = [id \in Ids |-> {}]

Open ==
    \E ts \in SUBSET (Transfers \ InUse) :
        /\ Cardinality(ts) = KeysPerSession
        /\ issued < MaxSessions
        /\ issued' = issued + 1
        /\ open' = open \cup {issued}
        /\ feeds' = [feeds EXCEPT ![issued] = ts]

Close ==
    \E closing \in SUBSET open :
        /\ open' = open \ closing
        /\ feeds' = [id \in Ids |-> IF id \in closing THEN {} ELSE feeds[id]]
        /\ UNCHANGED issued

Spec == Init /\ [][Open \/ Close]_<<issued, open, feeds>>
=============================================================================
