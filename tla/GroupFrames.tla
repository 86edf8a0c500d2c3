----------------------------- MODULE GroupFrames -----------------------------
(***************************************************************************)
(* What an atomic group promises, with no marks, caches, policy or         *)
(* threads: frames go out one at a time, each of one new update of every   *)
(* member, and a frame that has begun goes out to its end, whatever the    *)
(* destination refuses of it.                                              *)
(***************************************************************************)
EXTENDS Integers

CONSTANTS
    Members,
    ShortPdus           \* a PDU of a wrong size is left out of its frame

VARIABLES
    updates,            \* updates of each member so far
    frame,              \* what is left to send of the frame: a member and a serial each
    sent                \* the last update of each member that was sent

vars == <<updates, frame, sent>>

Init ==
    /\ updates = [m \in Members |-> 0]
    /\ frame = {}
    /\ sent = [m \in Members |-> 0]

Update(m) ==
    /\ updates' = [updates EXCEPT ![m] = @ + 1]
    /\ UNCHANGED <<frame, sent>>

\* One new update of every member.
IsFrame(f) ==
    /\ \A p \in f : p.member \in Members /\ p.n \in sent[p.member] + 1 .. updates[p.member]
    /\ \A p, q \in f : p.member = q.member => p = q
    /\ ~ShortPdus => \A m \in Members : \E p \in f : p.member = m

Collect ==
    /\ frame = {}
    /\ IsFrame(frame')
    /\ UNCHANGED <<updates, sent>>

\* The destination takes the update, or refuses it.
SendOne(p) ==
    /\ p \in frame
    /\ frame' = frame \ {p}
    /\ sent' \in {sent, [sent EXCEPT ![p.member] = p.n]}
    /\ UNCHANGED updates

Next == Collect \/ (\E m \in Members : Update(m)) \/ (\E p \in frame : SendOne(p))

Spec == Init /\ [][Next]_vars
=============================================================================
