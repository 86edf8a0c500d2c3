---------------------------- MODULE AtomicGroup ----------------------------
(***************************************************************************)
(* One TransferAtomicPduGroup with its ImmediatePolicy in atomic mode: the *)
(* policy marks each member as it is received, and once all are marked the *)
(* thread that completed the group reads every member from the source      *)
(* endpoint and sends them one after the other.  The receive callbacks run *)
(* on EventThreads; set_active and set_epoch come from the connection, on  *)
(* other threads and with no lock the callbacks take.                      *)
(*                                                                         *)
(* A PDU is its serial number among the updates of its member, the epoch   *)
(* in its header and whether it has the size the definition declares.      *)
(***************************************************************************)
EXTENDS Integers, SequencesExt

CONSTANTS
    Order,              \* transfer_atomic_pdu_group_: the members, in sending order
    EventThreads,
    EpochValidation,    \* epoch_validation_
    EpochMod,           \* 2^8 in the code
    CacheModes,         \* the modes of the source's cache: latest, queue
    ShortPdus,          \* the source may store a PDU of a wrong size
    DstMayStop,         \* the destination may refuse a send
    MaxUpdates          \* bound on the updates of each member

Members == ToSet(Order)
Epochs == 0 .. EpochMod - 1
Serials == 0 .. MaxUpdates
PDUs == [member : Members, n : Serials, epoch : Epochs, whole : BOOLEAN]

ASSUME GroupAssumption ==
    /\ Order \in Seq(Members) /\ Len(Order) > 0 /\ IsInjective(Order)
    /\ EpochMod \in Nat \ {0} /\ MaxUpdates \in Nat
    /\ CacheModes \subseteq {"latest", "queue"}
    /\ {EpochValidation, ShortPdus, DstMayStop} \subseteq BOOLEAN

VARIABLES
    is_active, owner_epoch,
    recv_states,        \* ImmediatePolicy::recv_states_
    cache_mode,         \* what recv does with the entry it reads: keep it, take it
    cache,              \* per member, what the source endpoint holds, oldest first
    updates,            \* updates of each member received so far
    dst_running,        \* whether the destination accepts a send
    sent,               \* serial of the last update of each member sent
    round,              \* updates[m] when on_transferred was last called
    pc, key, pos,       \* per thread: program point, key received, loop index
    buffers             \* per thread: the PDUs collected for the frame

endpointVars == <<cache_mode, cache, updates, dst_running>>
vars == <<is_active, owner_epoch, recv_states, cache_mode, cache, updates, dst_running, sent,
          round, pc, key, pos, buffers>>

TypeOK ==
    /\ is_active \in BOOLEAN /\ owner_epoch \in Epochs
    /\ recv_states \in [Members -> BOOLEAN]
    /\ cache_mode \in CacheModes /\ cache \in [Members -> Seq(PDUs)]
    /\ updates \in [Members -> Serials]
    /\ dst_running \in BOOLEAN
    /\ sent \in [Members -> Serials] /\ round \in [Members -> Serials]
    /\ pc \in [EventThreads -> {"idle", "check", "policy", "read", "epoch", "send", "after"}]
    /\ key \in [EventThreads -> Members]
    /\ pos \in [EventThreads -> 1 .. Len(Order) + 1]
    /\ buffers \in [EventThreads -> Seq(PDUs)]

Init ==
    /\ is_active = TRUE /\ owner_epoch = 0
    /\ recv_states = [m \in Members |-> FALSE]
    /\ cache_mode \in CacheModes /\ cache = [m \in Members |-> <<>>]
    /\ updates = [m \in Members |-> 0]
    /\ dst_running = TRUE
    /\ sent = [m \in Members |-> 0] /\ round = [m \in Members |-> 0]
    /\ pc = [th \in EventThreads |-> "idle"]
    /\ key = [th \in EventThreads |-> Head(Order)]
    /\ pos = [th \in EventThreads |-> 1]
    /\ buffers = [th \in EventThreads |-> <<>>]

-----------------------------------------------------------------------------
(* The source endpoint and the destination, outside the repository.        *)

\* The source stores the next update of m and calls the group's callback.
SourceReceive(th, m) ==
    /\ pc[th] = "idle"
    /\ updates[m] < MaxUpdates
    /\ \E e \in Epochs, whole \in IF ShortPdus THEN BOOLEAN ELSE {TRUE} :
          LET pdu == [member |-> m, n |-> updates[m] + 1, epoch |-> e, whole |-> whole]
          IN  cache' = [cache EXCEPT ![m] = IF cache_mode = "queue" THEN Append(@, pdu) ELSE <<pdu>>]
    /\ updates' = [updates EXCEPT ![m] = @ + 1]
    /\ key' = [key EXCEPT ![th] = m]
    /\ pc' = [pc EXCEPT ![th] = "check"]
    /\ UNCHANGED <<is_active, owner_epoch, recv_states, cache_mode, dst_running, sent,
                   round, pos, buffers>>

DestinationFlips ==
    /\ DstMayStop
    /\ dst_running' = ~dst_running
    /\ UNCHANGED <<is_active, owner_epoch, recv_states, cache_mode, cache, updates, sent,
                   round, pc, key, pos, buffers>>

-----------------------------------------------------------------------------
(* try_transfer: the group's state and its policy decide.                  *)

\* An update that arrives while the group is paused is not even marked.
CheckActive(th) ==
    /\ pc[th] = "check"
    /\ pc' = [pc EXCEPT ![th] = IF is_active THEN "policy" ELSE "idle"]
    /\ UNCHANGED <<is_active, owner_epoch, recv_states, endpointVars, sent, round,
                   key, pos, buffers>>

\* should_transfer marks the member and asks for all the marks.
ShouldTransfer(th) ==
    /\ pc[th] = "policy"
    /\ recv_states' = [recv_states EXCEPT ![key[th]] = TRUE]
    /\ pc' = [pc EXCEPT ![th] = IF \A m \in Members : recv_states'[m] THEN "read" ELSE "idle"]
    /\ pos' = [pos EXCEPT ![th] = 1]
    /\ UNCHANGED <<is_active, owner_epoch, endpointVars, sent, round, key, buffers>>

\* Mutants: the marks survive the transfer; only the member that completed the
\* group loses its mark; the frame is still there when the next one is collected.
OnTransferredKeepsMarks(th) ==
    /\ pc[th] = "after"
    /\ round' = updates
    /\ buffers' = [buffers EXCEPT ![th] = <<>>]
    /\ pc' = [pc EXCEPT ![th] = "idle"]
    /\ UNCHANGED <<is_active, owner_epoch, recv_states, endpointVars, sent, key, pos>>

OnTransferredResetsOne(th) ==
    /\ pc[th] = "after"
    /\ recv_states' = [recv_states EXCEPT ![key[th]] = FALSE]
    /\ round' = updates
    /\ buffers' = [buffers EXCEPT ![th] = <<>>]
    /\ pc' = [pc EXCEPT ![th] = "idle"]
    /\ UNCHANGED <<is_active, owner_epoch, endpointVars, sent, key, pos>>

OnTransferredKeepsFrame(th) ==
    /\ pc[th] = "after"
    /\ recv_states' = [m \in Members |-> FALSE]
    /\ round' = updates
    /\ pc' = [pc EXCEPT ![th] = "idle"]
    /\ UNCHANGED <<is_active, owner_epoch, endpointVars, sent, key, pos, buffers>>

\* on_transferred clears the marks, whatever try_transfer_group did.
OnTransferred(th) ==
    /\ pc[th] = "after"
    /\ recv_states' = [m \in Members |-> FALSE]
    /\ round' = updates
    /\ buffers' = [buffers EXCEPT ![th] = <<>>]
    /\ pc' = [pc EXCEPT ![th] = "idle"]
    /\ UNCHANGED <<is_active, owner_epoch, endpointVars, sent, key, pos>>

-----------------------------------------------------------------------------
(* try_transfer_group: collect every member, then send what was collected. *)

\* recv fails on an empty cache; a failed read or a PDU of a wrong size leaves
\* the member out of the frame and the loop goes on.
ReadMember(th) ==
    /\ pc[th] = "read" /\ pos[th] <= Len(Order)
    /\ LET m == Order[pos[th]]
           taken == cache[m] # <<>> /\ Head(cache[m]).whole
       IN  /\ buffers' = IF taken THEN [buffers EXCEPT ![th] = Append(@, Head(cache[m]))]
                                  ELSE buffers
           /\ cache' = IF cache_mode = "queue" /\ cache[m] # <<>>
                        THEN [cache EXCEPT ![m] = Tail(@)] ELSE cache
           /\ pc' = [pc EXCEPT ![th] = IF taken /\ EpochValidation THEN "epoch" ELSE "read"]
    /\ pos' = [pos EXCEPT ![th] = @ + 1]
    /\ UNCHANGED <<is_active, owner_epoch, recv_states, cache_mode, updates, dst_running,
                   sent, round, key>>

\* Mutant: the return on an epoch mismatch also skips on_transferred.
CheckEpochOrQuit(th) ==
    /\ pc[th] = "epoch"
    /\ LET current == Last(buffers[th]).epoch = owner_epoch
       IN  /\ buffers' = IF current THEN buffers ELSE [buffers EXCEPT ![th] = <<>>]
           /\ pc' = [pc EXCEPT ![th] = IF current THEN "read" ELSE "idle"]
    /\ UNCHANGED <<is_active, owner_epoch, recv_states, endpointVars, sent, round, key, pos>>

\* One member of another epoch discards the frame.
CheckEpoch(th) ==
    /\ pc[th] = "epoch"
    /\ LET current == Last(buffers[th]).epoch = owner_epoch
       IN  /\ buffers' = IF current THEN buffers ELSE [buffers EXCEPT ![th] = <<>>]
           /\ pc' = [pc EXCEPT ![th] = IF current THEN "read" ELSE "after"]
    /\ UNCHANGED <<is_active, owner_epoch, recv_states, endpointVars, sent, round, key, pos>>

\* All members were visited: turn to the second loop.
Collected(th) ==
    /\ pc[th] = "read" /\ pos[th] > Len(Order)
    /\ pos' = [pos EXCEPT ![th] = 1]
    /\ pc' = [pc EXCEPT ![th] = "send"]
    /\ UNCHANGED <<is_active, owner_epoch, recv_states, endpointVars, sent, round, key, buffers>>

\* Mutant: the first send that fails ends the loop.
SendMemberOrQuit(th) ==
    /\ pc[th] = "send" /\ pos[th] <= Len(buffers[th])
    /\ LET pdu == buffers[th][pos[th]]
       IN  sent' = IF dst_running THEN [sent EXCEPT ![pdu.member] = pdu.n] ELSE sent
    /\ pos' = [pos EXCEPT ![th] = @ + 1]
    /\ pc' = [pc EXCEPT ![th] = IF dst_running THEN "send" ELSE "after"]
    /\ UNCHANGED <<is_active, owner_epoch, recv_states, endpointVars, round, key, buffers>>

\* A send that fails is skipped and the loop goes on.
SendMember(th) ==
    /\ pc[th] = "send" /\ pos[th] <= Len(buffers[th])
    /\ LET pdu == buffers[th][pos[th]]
       IN  sent' = IF dst_running THEN [sent EXCEPT ![pdu.member] = pdu.n] ELSE sent
    /\ pos' = [pos EXCEPT ![th] = @ + 1]
    /\ UNCHANGED <<is_active, owner_epoch, recv_states, endpointVars, round, pc, key, buffers>>

FrameSent(th) ==
    /\ pc[th] = "send" /\ pos[th] > Len(buffers[th])
    /\ pc' = [pc EXCEPT ![th] = "after"]
    /\ UNCHANGED <<is_active, owner_epoch, recv_states, endpointVars, sent, round, key, pos,
                   buffers>>

TryTransfer(th) ==
    \/ CheckActive(th) \/ ShouldTransfer(th) \/ ReadMember(th) \/ CheckEpoch(th)
    \/ Collected(th) \/ SendMember(th) \/ FrameSent(th) \/ OnTransferred(th)

-----------------------------------------------------------------------------
(* What the connection calls.                                              *)

SetActive(active) ==
    /\ is_active' = active
    /\ UNCHANGED <<owner_epoch, recv_states, endpointVars, sent, round, pc, key, pos, buffers>>

\* Mutant: the epoch outgrows its width.
SetEpochUnwrapped ==
    /\ owner_epoch' = owner_epoch + 1
    /\ UNCHANGED <<is_active, recv_states, endpointVars, sent, round, pc, key, pos, buffers>>

\* The connection's epoch grows by one each time.
SetEpoch ==
    /\ owner_epoch' = (owner_epoch + 1) % EpochMod
    /\ UNCHANGED <<is_active, recv_states, endpointVars, sent, round, pc, key, pos, buffers>>

Next ==
    \/ \E th \in EventThreads :
          \/ TryTransfer(th)
          \/ \E m \in Members : SourceReceive(th, m)
    \/ \E active \in BOOLEAN : SetActive(active)
    \/ SetEpoch
    \/ DestinationFlips

Spec == Init /\ [][Next]_vars

-----------------------------------------------------------------------------
(* Properties.                                                             *)

\* Every PDU of a frame arrived after the previous attempt to send a frame was
\* over: the whole group has updated (recv_states_, immediate_policy.cpp:13-19,
\* 29-31).  A queue may still hold updates from before.
FrameFresh ==
    cache_mode = "latest" => \A th \in EventThreads : pc[th] = "send" =>
        \A i \in DOMAIN buffers[th] : buffers[th][i].n > round[buffers[th][i].member]

\* Nothing is sent twice and no member goes backwards: a PDU about to be sent is
\* newer than the last one of its member that was (transfer_pdu.cpp:258-324).
FrameAdvances ==
    \A th \in EventThreads : pc[th] = "send" =>
        \A i \in pos[th] .. Len(buffers[th]) :
            buffers[th][i].n > sent[buffers[th][i].member]

\* A frame about to be sent holds every member of the group: the reads the marks
\* announced do not come back empty (transfer_pdu.cpp:280-293).
FrameWhole ==
    \A th \in EventThreads : pc[th] = "send" => Len(buffers[th]) = Len(Order)

\* A completed group is never left lying: when no callback runs, some member is
\* still awaited, so that its arrival can complete the next frame
\* (transfer_pdu.cpp:235-238).
SomeMemberAwaited ==
    (\A th \in EventThreads : pc[th] = "idle") => \E m \in Members : ~recv_states[m]

\* What thread th has yet to send of its frame.
Unsent(th) ==
    IF pc[th] # "send" THEN {}
    ELSE {[member |-> buffers[th][i].member, n |-> buffers[th][i].n] :
              i \in pos[th] .. Len(buffers[th])}

Frames == INSTANCE GroupFrames WITH frame <- UNION {Unsent(th) : th \in EventThreads}

\* The group is atomic from outside: a frame of one new update of every member is
\* complete before its first send, goes out to the end although sends fail, and no other
\* frame begins in between (transfer_pdu.cpp:258-326).
ImplementsFrames == Frames!Spec
=============================================================================
