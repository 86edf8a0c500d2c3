------------------------- MODULE AtomicGroup_proofs -------------------------
(***************************************************************************)
(* Proofs about AtomicGroup, for any group, epoch width and number of      *)
(* updates.  What a frame holds is proved for one receive thread: with two *)
(* the marks of one frame and the reads of another mix.                    *)
(***************************************************************************)
EXTENDS AtomicGroup, TLAPS

InFrame == {"read", "epoch", "send", "after"}

LEMMA OrderFacts ==
    /\ Order \in Seq(Members) /\ Len(Order) \in Nat \ {0} /\ DOMAIN Order = 1 .. Len(Order)
    /\ \A i \in 1 .. Len(Order) : Order[i] \in Members
    /\ \A m \in Members : \E i \in 1 .. Len(Order) : Order[i] = m
    /\ \A i, j \in 1 .. Len(Order) : Order[i] = Order[j] => i = j
    /\ Head(Order) \in Members
<1>1. Order \in Seq(Members) /\ Len(Order) > 0 /\ IsInjective(Order)
    BY GroupAssumption
<1>2. Len(Order) \in Nat /\ DOMAIN Order = 1 .. Len(Order)
    BY <1>1
<1>3. \A i \in 1 .. Len(Order) : Order[i] \in Members
    BY <1>1, <1>2
<1>4. \A m \in Members : \E i \in 1 .. Len(Order) : Order[i] = m
    BY <1>2 DEF Members, ToSet
<1>5. \A i, j \in 1 .. Len(Order) : Order[i] = Order[j] => i = j
    BY <1>1, <1>2 DEF IsInjective
<1>6. Head(Order) = Order[1]
    BY <1>1
<1> QED BY <1>1, <1>2, <1>3, <1>4, <1>5, <1>6

-----------------------------------------------------------------------------
(* Types, the shape of a frame and the marks: any number of threads.       *)

\* A frame exists only while it is collected and sent, and has at most as many PDUs
\* as members were visited.
FrameShape ==
    \A th \in EventThreads :
        /\ pc[th] \in {"idle", "check", "policy"} => buffers[th] = <<>>
        /\ pc[th] \in {"read", "epoch"} => Len(buffers[th]) < pos[th]
        /\ pc[th] = "epoch" => Len(buffers[th]) > 0
        /\ pc[th] = "send" => Len(buffers[th]) <= Len(Order)

\* All marks are set only while some thread sends the frame they announced.
MarksServed ==
    (\A m \in Members : recv_states[m]) => \E th \in EventThreads : pc[th] \in InFrame

GInv == TypeOK /\ FrameShape /\ MarksServed

LEMMA InitGInv == Init => GInv
<1> SUFFICES ASSUME Init PROVE GInv
    OBVIOUS
<1> USE GroupAssumption, OrderFacts
<1>1. TypeOK
    BY DEF Init, TypeOK, Epochs, Serials
<1>2. FrameShape
    BY DEF Init, FrameShape
<1>3. MarksServed
    BY DEF Init, MarksServed
<1> QED BY <1>1, <1>2, <1>3 DEF GInv

LEMMA SourceReceiveGInv ==
    ASSUME GInv, NEW th \in EventThreads, NEW m \in Members, SourceReceive(th, m)
    PROVE  GInv'
<1> USE GroupAssumption, OrderFacts DEF GInv
<1>1. TypeOK'
  <2>1. PICK e \in Epochs, whole \in BOOLEAN :
            cache' = [cache EXCEPT ![m] =
                IF cache_mode = "queue"
                    THEN Append(@, [member |-> m, n |-> updates[m] + 1, epoch |-> e, whole |-> whole])
                    ELSE <<[member |-> m, n |-> updates[m] + 1, epoch |-> e, whole |-> whole]>>]
      BY DEF SourceReceive
  <2> DEFINE pdu == [member |-> m, n |-> updates[m] + 1, epoch |-> e, whole |-> whole]
  <2>2. updates[m] + 1 \in Serials
    <3>1. updates[m] \in 0 .. MaxUpdates /\ updates[m] < MaxUpdates /\ MaxUpdates \in Nat
        BY DEF TypeOK, Serials, SourceReceive
    <3> QED BY <3>1 DEF Serials
  <2>5. pdu \in PDUs
      BY <2>2 DEF PDUs
  <2>3. Append(cache[m], pdu) \in Seq(PDUs) /\ <<pdu>> \in Seq(PDUs)
      BY <2>5 DEF TypeOK
  <2>4. cache' \in [Members -> Seq(PDUs)]
      BY <2>1, <2>3 DEF TypeOK
  <2>6. updates' \in [Members -> Serials]
      BY <2>2 DEF SourceReceive, TypeOK
  <2> HIDE DEF pdu
  <2> QED BY <2>4, <2>6 DEF SourceReceive, TypeOK
<1>2. FrameShape'
    BY DEF FrameShape, SourceReceive, TypeOK
<1>3. MarksServed'
    BY DEF MarksServed, SourceReceive, TypeOK, InFrame
<1> QED BY <1>1, <1>2, <1>3

LEMMA CheckActiveGInv ==
    ASSUME GInv, NEW th \in EventThreads, CheckActive(th)
    PROVE  GInv'
<1> USE DEF GInv, CheckActive, endpointVars
<1>1. TypeOK'
    BY DEF TypeOK
<1>2. FrameShape'
    BY DEF FrameShape, TypeOK
<1>3. MarksServed'
    BY DEF MarksServed, TypeOK, InFrame
<1> QED BY <1>1, <1>2, <1>3

LEMMA ShouldTransferGInv ==
    ASSUME GInv, NEW th \in EventThreads, ShouldTransfer(th)
    PROVE  GInv'
<1> USE OrderFacts DEF GInv, ShouldTransfer, endpointVars
<1>1. TypeOK'
  <2>1. recv_states' \in [Members -> BOOLEAN]
      BY DEF TypeOK
  <2>2. pc' \in [EventThreads -> {"idle", "check", "policy", "read", "epoch", "send", "after"}]
      BY DEF TypeOK
  <2>3. pos' \in [EventThreads -> 1 .. Len(Order) + 1]
      BY DEF TypeOK
  <2>4. UNCHANGED <<is_active, owner_epoch, endpointVars, sent, round, key, buffers>>
      OBVIOUS
  <2> HIDE DEF ShouldTransfer
  <2> QED BY <2>1, <2>2, <2>3, <2>4 DEF TypeOK
<1>2. FrameShape'
  <2>1. /\ buffers[th] = <<>> /\ Len(<<>>) = 0 /\ buffers' = buffers
        /\ pos'[th] = 1 /\ pc'[th] \in {"read", "idle"}
        /\ \A t \in EventThreads \ {th} : pc'[t] = pc[t] /\ pos'[t] = pos[t]
      BY DEF FrameShape, TypeOK
  <2> QED BY <2>1 DEF FrameShape
<1>3. MarksServed'
  <2>1. pc'[th] = IF \A m \in Members : recv_states'[m] THEN "read" ELSE "idle"
      BY DEF TypeOK
  <2> QED BY <2>1 DEF MarksServed, InFrame
<1> QED BY <1>1, <1>2, <1>3

\* What one read of a member may do.
LEMMA ReadMemberFacts ==
    ASSUME GInv, NEW th \in EventThreads, ReadMember(th)
    PROVE  LET m == Order[pos[th]]
               taken == cache[m] # <<>> /\ Head(cache[m]).whole
           IN  /\ m \in Members
               /\ taken => /\ Head(cache[m]) \in PDUs /\ Head(cache[m]) = cache[m][1]
                           /\ buffers' = [buffers EXCEPT ![th] = Append(@, Head(cache[m]))]
               /\ ~taken => buffers' = buffers
               /\ cache' = IF cache_mode = "queue" /\ cache[m] # <<>>
                            THEN [cache EXCEPT ![m] = Tail(@)] ELSE cache
               /\ cache' \in [Members -> Seq(PDUs)]
<1> DEFINE m == Order[pos[th]]
           taken == cache[m] # <<>> /\ Head(cache[m]).whole
<1>1. m \in Members /\ cache[m] \in Seq(PDUs)
    BY OrderFacts DEF GInv, TypeOK, ReadMember
<1>2. cache[m] # <<>> =>
         Head(cache[m]) \in PDUs /\ Head(cache[m]) = cache[m][1] /\ Tail(cache[m]) \in Seq(PDUs)
    BY <1>1
<1>3. /\ buffers' = IF taken THEN [buffers EXCEPT ![th] = Append(@, Head(cache[m]))] ELSE buffers
      /\ cache' = IF cache_mode = "queue" /\ cache[m] # <<>>
                   THEN [cache EXCEPT ![m] = Tail(@)] ELSE cache
    BY DEF ReadMember
<1>4. cache' \in [Members -> Seq(PDUs)]
    BY <1>1, <1>2, <1>3 DEF GInv, TypeOK
<1> QED BY <1>1, <1>2, <1>3, <1>4

LEMMA ReadMemberGInv ==
    ASSUME GInv, NEW th \in EventThreads, ReadMember(th)
    PROVE  GInv'
<1> USE DEF GInv
<1> DEFINE m == Order[pos[th]]
           taken == cache[m] # <<>> /\ Head(cache[m]).whole
<1>1. /\ cache' \in [Members -> Seq(PDUs)]
      /\ taken => /\ Head(cache[m]) \in PDUs
                  /\ buffers' = [buffers EXCEPT ![th] = Append(@, Head(cache[m]))]
      /\ ~taken => buffers' = buffers
    BY ReadMemberFacts
<1>2. /\ pc[th] = "read" /\ pos[th] <= Len(Order)
      /\ pos' = [pos EXCEPT ![th] = @ + 1]
      /\ pc' = [pc EXCEPT ![th] = IF taken /\ EpochValidation THEN "epoch" ELSE "read"]
      /\ UNCHANGED <<is_active, owner_epoch, recv_states, cache_mode, updates, dst_running,
                     sent, round, key>>
    BY DEF ReadMember
<1> HIDE DEF m, taken
<1>3. buffers[th] \in Seq(PDUs) /\ pos[th] \in 1 .. Len(Order) + 1 /\ Len(Order) \in Nat
    BY OrderFacts DEF TypeOK
<1>4. /\ buffers' \in [EventThreads -> Seq(PDUs)]
      /\ taken => Len(buffers'[th]) = Len(buffers[th]) + 1
      /\ ~taken => buffers'[th] = buffers[th]
      /\ \A t \in EventThreads \ {th} : buffers'[t] = buffers[t]
  <2>1. CASE taken
    <3>1. Append(buffers[th], Head(cache[m])) \in Seq(PDUs)
        BY <2>1, <1>1, <1>3
    <3>2. Len(Append(buffers[th], Head(cache[m]))) = Len(buffers[th]) + 1
        BY <2>1, <1>1, <1>3
    <3> QED BY <2>1, <3>1, <3>2, <1>1 DEF TypeOK
  <2>2. CASE ~taken
      BY <2>2, <1>1 DEF TypeOK
  <2> QED BY <2>1, <2>2
<1>5. TypeOK'
  <2>1. pos' \in [EventThreads -> 1 .. Len(Order) + 1]
      BY <1>2, <1>3 DEF TypeOK
  <2>2. pc' \in [EventThreads -> {"idle", "check", "policy", "read", "epoch", "send", "after"}]
      BY <1>2 DEF TypeOK
  <2> QED BY <1>1, <1>2, <1>4, <2>1, <2>2 DEF TypeOK
<1>6. FrameShape'
  <2> SUFFICES ASSUME NEW t \in EventThreads
      PROVE  /\ pc'[t] \in {"idle", "check", "policy"} => buffers'[t] = <<>>
             /\ pc'[t] \in {"read", "epoch"} => Len(buffers'[t]) < pos'[t]
             /\ pc'[t] = "epoch" => Len(buffers'[t]) > 0
             /\ pc'[t] = "send" => Len(buffers'[t]) <= Len(Order)
      BY DEF FrameShape
  <2>1. CASE t = th
    <3>1. /\ pc'[th] = IF taken /\ EpochValidation THEN "epoch" ELSE "read"
          /\ pos'[th] = pos[th] + 1 /\ Len(buffers[th]) < pos[th]
        BY <1>2 DEF TypeOK, FrameShape
    <3>2. Len(buffers[th]) \in Nat
        BY <1>3
    <3> QED BY <2>1, <3>1, <3>2, <1>3, <1>4
  <2>2. CASE t # th
      BY <2>2, <1>2, <1>4 DEF FrameShape, TypeOK
  <2> QED BY <2>1, <2>2
<1>7. MarksServed'
    BY <1>2 DEF MarksServed, TypeOK, InFrame
<1> QED BY <1>5, <1>6, <1>7

LEMMA CheckEpochGInv ==
    ASSUME GInv, NEW th \in EventThreads, CheckEpoch(th)
    PROVE  GInv'
<1> USE DEF GInv, CheckEpoch, endpointVars
<1>1. TypeOK'
    BY DEF TypeOK
<1>2. FrameShape'
    BY DEF FrameShape, TypeOK
<1>3. MarksServed'
    BY DEF MarksServed, TypeOK, InFrame
<1> QED BY <1>1, <1>2, <1>3

LEMMA CollectedGInv ==
    ASSUME GInv, NEW th \in EventThreads, Collected(th)
    PROVE  GInv'
<1> USE OrderFacts DEF GInv, Collected, endpointVars
<1>1. TypeOK'
    BY DEF TypeOK
<1>2. FrameShape'
  <2>1. Len(buffers[th]) \in Nat /\ pos[th] \in 1 .. Len(Order) + 1
      BY DEF TypeOK
  <2> QED BY <2>1 DEF FrameShape, TypeOK
<1>3. MarksServed'
    BY DEF MarksServed, TypeOK, InFrame
<1> QED BY <1>1, <1>2, <1>3

LEMMA SendMemberGInv ==
    ASSUME GInv, NEW th \in EventThreads, SendMember(th)
    PROVE  GInv'
<1> USE OrderFacts DEF GInv, SendMember, endpointVars
<1>1. buffers[th] \in Seq(PDUs) /\ pos[th] \in 1 .. Len(buffers[th])
    BY DEF TypeOK
<1>2. buffers[th][pos[th]] \in PDUs
    BY <1>1
<1>3. sent' \in [Members -> Serials]
    BY <1>2 DEF TypeOK, PDUs
<1>4. TypeOK'
  <2>1. pos[th] + 1 \in 1 .. Len(Order) + 1
    <3>1. Len(buffers[th]) <= Len(Order)
        BY DEF FrameShape
    <3>2. Len(buffers[th]) \in Nat /\ Len(Order) \in Nat
        BY <1>1
    <3> HIDE DEF GInv, SendMember
    <3> QED BY <1>1, <3>1, <3>2
  <2>2. pos' \in [EventThreads -> 1 .. Len(Order) + 1]
      BY <2>1 DEF TypeOK
  <2>3. UNCHANGED <<is_active, owner_epoch, recv_states, endpointVars, round, pc, key, buffers>>
      OBVIOUS
  <2> HIDE DEF SendMember
  <2> QED BY <1>3, <2>2, <2>3 DEF TypeOK
<1>5. FrameShape'
    BY DEF FrameShape, TypeOK
<1>6. MarksServed'
    BY DEF MarksServed, TypeOK, InFrame
<1> QED BY <1>4, <1>5, <1>6

LEMMA LeaveFrameGInv ==
    ASSUME GInv, NEW th \in EventThreads, FrameSent(th) \/ OnTransferred(th)
    PROVE  GInv'
<1> USE DEF GInv, FrameSent, OnTransferred, endpointVars
<1>1. TypeOK'
  <2>1. <<>> \in Seq(PDUs)
      OBVIOUS
  <2>2. buffers' \in [EventThreads -> Seq(PDUs)]
      BY <2>1 DEF TypeOK
  <2>3. recv_states' \in [Members -> BOOLEAN]
      BY DEF TypeOK
  <2> QED BY <2>2, <2>3 DEF TypeOK
<1>2. FrameShape'
  <2>1. /\ pc'[th] \in {"idle", "after"} /\ (pc'[th] = "idle" => buffers'[th] = <<>>)
        /\ \A t \in EventThreads \ {th} :
              pc'[t] = pc[t] /\ pos'[t] = pos[t] /\ buffers'[t] = buffers[t]
      BY DEF TypeOK
  <2> QED BY <2>1 DEF FrameShape
<1>3. MarksServed'
    BY DEF MarksServed, TypeOK, InFrame
<1> QED BY <1>1, <1>2, <1>3

LEMMA OtherGInv ==
    ASSUME GInv,
           (\E active \in BOOLEAN : SetActive(active)) \/ SetEpoch \/ DestinationFlips
               \/ UNCHANGED vars
    PROVE  GInv'
<1> USE GroupAssumption DEF GInv, SetActive, SetEpoch, DestinationFlips, endpointVars, vars
<1>1. TypeOK'
  <2>1. (owner_epoch + 1) % EpochMod \in Epochs
      BY DEF TypeOK, Epochs
  <2> QED BY <2>1 DEF TypeOK
<1>2. FrameShape'
    BY DEF FrameShape
<1>3. MarksServed'
    BY DEF MarksServed
<1> QED BY <1>1, <1>2, <1>3

LEMMA NextGInv ==
    ASSUME GInv, [Next]_vars
    PROVE  GInv'
<1>1. ASSUME NEW th \in EventThreads, TryTransfer(th)
      PROVE  GInv'
    BY <1>1, CheckActiveGInv, ShouldTransferGInv, ReadMemberGInv, CheckEpochGInv,
       CollectedGInv, SendMemberGInv, LeaveFrameGInv DEF TryTransfer
<1> QED BY <1>1, SourceReceiveGInv, OtherGInv DEF Next

\* GInv is an invariant of the group: types, frame shapes and marks, on any threads.
THEOREM Invariance == Spec => []GInv
BY InitGInv, NextGInv, PTL DEF Spec

\* The types hold; in particular the index of a frame never leaves the group.
THEOREM TypeCorrect == Spec => []TypeOK
<1>1. GInv => TypeOK
    BY DEF GInv
<1> QED BY <1>1, Invariance, PTL

\* No completed group is left lying, on any number of receive threads: between
\* callbacks some member is awaited, whatever became of the frames before.
THEOREM GroupsAreServed == Spec => []SomeMemberAwaited
<1>1. GInv => SomeMemberAwaited
    BY DEF GInv, MarksServed, SomeMemberAwaited, InFrame
<1> QED BY <1>1, Invariance, PTL
-----------------------------------------------------------------------------
(* What a frame holds: one receive thread.                                  *)

\* The updates a source keeps are those of their member, in order; a queue keeps
\* none that was sent before, any other cache only the last one.
CacheOK ==
    \A m \in Members : \A i \in 1 .. Len(cache[m]) :
        /\ cache[m][i].member = m
        /\ cache[m][i].n <= updates[m]
        /\ ShortPdus \/ cache[m][i].whole
        /\ cache_mode = "latest" => cache[m][i].n = updates[m]
        /\ cache_mode = "queue" => cache[m][i].n > sent[m]
        /\ \A j \in 1 .. Len(cache[m]) :
              cache_mode = "queue" /\ i < j => cache[m][i].n < cache[m][j].n

\* What a mark says: the member was updated since the last attempt.
MarksOK ==
    /\ \A m \in Members : round[m] <= updates[m] /\ sent[m] <= updates[m]
    /\ \A m \in Members : recv_states[m] => updates[m] > round[m]
    /\ \A th \in EventThreads :
          /\ pc[th] \in {"check", "policy"} => updates[key[th]] > round[key[th]]
          /\ pc[th] \in {"read", "epoch", "send"} => \A m \in Members : updates[m] > round[m]
          /\ pc[th] \notin {"send", "after"} => \A m \in Members : sent[m] <= round[m]

\* A marked member can be read.
MarksReadable ==
    \A th \in EventThreads :
        /\ pc[th] \in {"check", "policy"} => cache[key[th]] # <<>>
        /\ pc[th] \in {"idle", "check", "policy"} =>
              \A m \in Members : recv_states[m] => cache[m] # <<>>
        /\ pc[th] \in {"read", "epoch"} =>
              \A k \in pos[th] .. Len(Order) : cache[Order[k]] # <<>>

\* The PDUs of a frame are of distinct members, already visited; each is the last
\* update of its member or, from a queue, older than what the queue still holds;
\* those not yet sent are newer than what was.
FrameOK ==
    \A th \in EventThreads : pc[th] \in {"read", "epoch", "send"} =>
        \A i \in 1 .. Len(buffers[th]) :
            LET pdu == buffers[th][i] IN
            /\ pc[th] # "send" => \A k \in pos[th] .. Len(Order) : pdu.member # Order[k]
            /\ \A j \in 1 .. Len(buffers[th]) : i # j => pdu.member # buffers[th][j].member
            /\ pdu.n <= updates[pdu.member]
            /\ cache_mode = "latest" => pdu.n = updates[pdu.member]
            /\ cache_mode = "queue" =>
                  \A j \in 1 .. Len(cache[pdu.member]) : pdu.n < cache[pdu.member][j].n
            /\ pc[th] # "send" \/ i >= pos[th] => pdu.n > sent[pdu.member]

\* Every visited member is in the frame, when the source stores whole PDUs only.
FrameComplete ==
    ~ShortPdus => \A th \in EventThreads :
        /\ pc[th] \in {"read", "epoch"} => Len(buffers[th]) = pos[th] - 1
        /\ pc[th] = "send" => Len(buffers[th]) = Len(Order)

FInv == CacheOK /\ MarksOK /\ MarksReadable /\ FrameOK /\ FrameComplete

LEMMA Typing ==
    ASSUME GInv
    PROVE  /\ \A m \in Members : updates[m] \in Nat /\ round[m] \in Nat /\ sent[m] \in Nat
           /\ \A m \in Members : cache[m] \in Seq(PDUs) /\ Len(cache[m]) \in Nat
           /\ \A m \in Members : \A i \in 1 .. Len(cache[m]) :
                 cache[m][i].member \in Members /\ cache[m][i].n \in Nat
           /\ \A th \in EventThreads :
                 /\ key[th] \in Members /\ pos[th] \in 1 .. Len(Order) + 1
                 /\ buffers[th] \in Seq(PDUs) /\ Len(buffers[th]) \in Nat
                 /\ \A i \in 1 .. Len(buffers[th]) :
                       buffers[th][i].member \in Members /\ buffers[th][i].n \in Nat
<1> USE DEF GInv, TypeOK
<1>1. Serials \subseteq Nat
    BY GroupAssumption DEF Serials
<1>2. \A p \in PDUs : p.member \in Members /\ p.n \in Nat
    BY <1>1 DEF PDUs
<1>3. \A m \in Members : updates[m] \in Nat /\ round[m] \in Nat /\ sent[m] \in Nat
    BY <1>1
<1>4. \A m \in Members : cache[m] \in Seq(PDUs) /\ Len(cache[m]) \in Nat
    BY <1>1
<1>5. \A th \in EventThreads : buffers[th] \in Seq(PDUs) /\ Len(buffers[th]) \in Nat
    BY <1>1
<1>6. \A m \in Members : \A i \in 1 .. Len(cache[m]) : cache[m][i] \in PDUs
    BY <1>4
<1>7. \A th \in EventThreads : \A i \in 1 .. Len(buffers[th]) : buffers[th][i] \in PDUs
    BY <1>5
<1> QED BY <1>2, <1>3, <1>4, <1>5, <1>6, <1>7

LEMMA InitFInv == Init => FInv
<1> SUFFICES ASSUME Init PROVE FInv
    OBVIOUS
<1>1. \A m \in Members : cache[m] = <<>> /\ Len(cache[m]) = 0
    BY DEF Init
<1> QED BY <1>1, OrderFacts
    DEF Init, FInv, CacheOK, MarksOK, MarksReadable, FrameOK, FrameComplete

OneReceiver == \A th1, th2 \in EventThreads : th1 = th2

LEMMA SourceReceiveFInv ==
    ASSUME OneReceiver, GInv, FInv, NEW th \in EventThreads, NEW m \in Members,
           SourceReceive(th, m)
    PROVE  FInv'
<1> USE DEF FInv
<1>0. PICK e \in Epochs, whole \in IF ShortPdus THEN BOOLEAN ELSE {TRUE} :
          cache' = [cache EXCEPT ![m] =
              IF cache_mode = "queue"
                  THEN Append(@, [member |-> m, n |-> updates[m] + 1, epoch |-> e, whole |-> whole])
                  ELSE <<[member |-> m, n |-> updates[m] + 1, epoch |-> e, whole |-> whole]>>]
    BY DEF SourceReceive
<1> DEFINE pdu == [member |-> m, n |-> updates[m] + 1, epoch |-> e, whole |-> whole]
<1>1. /\ pdu.member = m /\ pdu.n = updates[m] + 1 /\ (ShortPdus \/ pdu.whole)
      /\ cache_mode = "queue" => cache'[m] = Append(cache[m], pdu)
      /\ cache_mode # "queue" => cache'[m] = <<pdu>>
      /\ \A o \in Members \ {m} : cache'[o] = cache[o]
    BY <1>0 DEF GInv, TypeOK
<1> HIDE DEF pdu
<1>2. /\ updates' = [updates EXCEPT ![m] = @ + 1]
      /\ key' = [key EXCEPT ![th] = m] /\ pc' = [pc EXCEPT ![th] = "check"]
      /\ pc[th] = "idle"
      /\ UNCHANGED <<recv_states, cache_mode, sent, round, pos, buffers>>
    BY DEF SourceReceive
<1>3. /\ updates'[m] = updates[m] + 1 /\ \A o \in Members \ {m} : updates'[o] = updates[o]
      /\ key'[th] = m /\ pc'[th] = "check"
      /\ \A t \in EventThreads : t = th
    BY <1>2 DEF GInv, TypeOK, OneReceiver
<1>4. CacheOK'
  <2> SUFFICES ASSUME NEW o \in Members, NEW i \in 1 .. Len(cache'[o])
      PROVE  /\ cache'[o][i].member = o
             /\ cache'[o][i].n <= updates'[o]
             /\ ShortPdus \/ cache'[o][i].whole
             /\ cache_mode' = "latest" => cache'[o][i].n = updates'[o]
             /\ cache_mode' = "queue" => cache'[o][i].n > sent'[o]
             /\ \A j \in 1 .. Len(cache'[o]) :
                   cache_mode' = "queue" /\ i < j => cache'[o][i].n < cache'[o][j].n
      BY DEF CacheOK
  <2>1. CASE o # m
    <3>1. /\ cache'[o] = cache[o] /\ updates'[o] = updates[o]
          /\ sent'[o] = sent[o] /\ cache_mode' = cache_mode
        BY <2>1, <1>1, <1>2, <1>3
    <3> QED BY <3>1 DEF CacheOK
  <2>2. CASE o = m /\ cache_mode = "queue"
    <3>1. /\ Len(cache'[m]) = Len(cache[m]) + 1 /\ cache'[m][Len(cache[m]) + 1] = pdu
          /\ \A j \in 1 .. Len(cache[m]) : cache'[m][j] = cache[m][j]
        BY <2>2, <1>1, Typing
    <3>2. sent[m] <= updates[m]
        BY DEF MarksOK
    <3>3. CASE i = Len(cache[m]) + 1
      <4>1. cache'[m][i] = pdu /\ pdu.n = updates'[m] /\ sent'[m] = sent[m]
          BY <3>1, <3>3, <1>1, <1>2, <1>3
      <4>2. sent[m] \in Nat /\ updates[m] \in Nat /\ updates'[m] = updates[m] + 1
          BY <1>3, Typing
      <4>3. \A j \in 1 .. Len(cache'[m]) : ~(i < j)
          BY <3>1, <3>3, Typing
      <4>4. cache_mode' = cache_mode
          BY <1>2
      <4>5. cache'[o][i].member = o /\ (ShortPdus \/ cache'[o][i].whole)
          BY <2>2, <4>1, <1>1
      <4> QED BY <2>2, <3>2, <4>1, <4>2, <4>3, <4>4, <4>5
    <3>4. CASE i \in 1 .. Len(cache[m])
      <4>1. \A j \in 1 .. Len(cache'[m]) : i < j => cache'[m][i].n < cache'[m][j].n
        <5> SUFFICES ASSUME NEW j \in 1 .. Len(cache'[m]), i < j
            PROVE  cache'[m][i].n < cache'[m][j].n
            OBVIOUS
        <5>1. CASE j = Len(cache[m]) + 1
          <6>1. cache'[m][i] = cache[m][i] /\ cache'[m][j] = pdu
              BY <3>1, <3>4, <5>1
          <6>2. cache[m][i].n <= updates[m] /\ cache[m][i].n \in Nat /\ updates[m] \in Nat
              BY <3>4, Typing DEF CacheOK
          <6> QED BY <6>1, <6>2, <1>1
        <5>2. CASE j \in 1 .. Len(cache[m])
            BY <2>2, <3>1, <3>4, <5>2, Typing DEF CacheOK
        <5> QED BY <5>1, <5>2, <3>1, Typing
      <4>2. cache'[m][i] = cache[m][i]
          BY <3>1, <3>4
      <4>3. /\ cache[m][i].member = m /\ cache[m][i].n <= updates[m]
            /\ ShortPdus \/ cache[m][i].whole
            /\ cache[m][i].n > sent[m]
          BY <2>2, <3>4 DEF CacheOK
      <4>4. cache[m][i].n \in Nat /\ updates[m] \in Nat
          BY <3>4, Typing
      <4> QED BY <2>2, <4>1, <4>2, <4>3, <4>4, <1>2, <1>3
    <3> QED BY <3>1, <3>3, <3>4, <2>2, Typing
  <2>3. CASE o = m /\ cache_mode # "queue"
    <3>1. cache'[m] = <<pdu>>
        BY <2>3, <1>1
    <3>2. Len(<<pdu>>) = 1 /\ <<pdu>>[1] = pdu
        OBVIOUS
    <3> QED BY <2>3, <3>1, <3>2, <1>1, <1>2, <1>3, Typing
  <2> QED BY <2>1, <2>2, <2>3
<1>5. MarksOK'
    BY <1>2, <1>3, Typing DEF MarksOK
<1>6. MarksReadable'
  <2>1. cache'[m] # <<>>
    <3>1. Len(Append(cache[m], pdu)) = Len(cache[m]) + 1 /\ Len(<<>>) = 0
          /\ Len(cache[m]) \in Nat
        BY Typing
    <3>2. <<pdu>> # <<>>
        OBVIOUS
    <3> QED BY <3>1, <3>2, <1>1
  <2> QED BY <2>1, <1>1, <1>2, <1>3 DEF MarksReadable
<1>7. FrameOK' /\ FrameComplete'
    BY <1>2, <1>3 DEF FrameOK, FrameComplete
<1> QED BY <1>4, <1>5, <1>6, <1>7

LEMMA CheckActiveFInv ==
    ASSUME OneReceiver, GInv, FInv, NEW th \in EventThreads, CheckActive(th)
    PROVE  FInv'
<1>1. /\ pc'[th] \in {"policy", "idle"} /\ pc[th] = "check"
      /\ \A t \in EventThreads : t = th
      /\ UNCHANGED <<recv_states, cache, cache_mode, updates, sent, round, key, pos, buffers>>
    BY DEF CheckActive, endpointVars, GInv, TypeOK, OneReceiver
<1>2. CacheOK'
    BY <1>1 DEF FInv, CacheOK
<1>3. MarksOK' /\ MarksReadable'
    BY <1>1 DEF FInv, MarksOK, MarksReadable
<1>4. FrameOK' /\ FrameComplete'
    BY <1>1 DEF FrameOK, FrameComplete
<1> QED BY <1>2, <1>3, <1>4 DEF FInv

LEMMA ShouldTransferFInv ==
    ASSUME OneReceiver, GInv, FInv, NEW th \in EventThreads, ShouldTransfer(th)
    PROVE  FInv'
<1>1. /\ recv_states' = [recv_states EXCEPT ![key[th]] = TRUE]
      /\ pc'[th] = IF \A m \in Members : recv_states'[m] THEN "read" ELSE "idle"
      /\ pc[th] = "policy" /\ pos'[th] = 1 /\ buffers[th] = <<>> /\ Len(buffers[th]) = 0
      /\ \A t \in EventThreads : t = th
      /\ UNCHANGED <<cache, cache_mode, updates, sent, round, key, buffers>>
    BY DEF ShouldTransfer, endpointVars, GInv, TypeOK, OneReceiver, FrameShape
<1>2. \A m \in Members : recv_states'[m] => m = key[th] \/ recv_states[m]
    BY <1>1 DEF GInv, TypeOK
<1>3. \A m \in Members : recv_states'[m] => updates[m] > round[m] /\ cache[m] # <<>>
    BY <1>1, <1>2 DEF FInv, MarksOK, MarksReadable
<1>4. CacheOK'
    BY <1>1 DEF FInv, CacheOK
<1>5. MarksOK'
    BY <1>1, <1>3 DEF FInv, MarksOK
<1>6. MarksReadable'
    BY <1>1, <1>3, OrderFacts DEF MarksReadable
<1>7. FrameOK' /\ FrameComplete'
    BY <1>1 DEF FrameOK, FrameComplete
<1> QED BY <1>4, <1>5, <1>6, <1>7 DEF FInv

LEMMA CheckEpochFInv ==
    ASSUME OneReceiver, GInv, FInv, NEW th \in EventThreads, CheckEpoch(th)
    PROVE  FInv'
<1>1. /\ pc[th] = "epoch"
      /\ \/ pc'[th] = "after"
         \/ pc'[th] = "read" /\ buffers' = buffers
      /\ \A t \in EventThreads : t = th
      /\ UNCHANGED <<recv_states, cache, cache_mode, updates, sent, round, key, pos>>
    BY DEF CheckEpoch, endpointVars, GInv, TypeOK, OneReceiver
<1>2. CacheOK'
    BY <1>1 DEF FInv, CacheOK
<1>3. MarksOK' /\ MarksReadable'
    BY <1>1 DEF FInv, MarksOK, MarksReadable
<1>4. FrameOK' /\ FrameComplete'
  <2>1. CASE pc'[th] = "after"
      BY <2>1, <1>1 DEF FrameOK, FrameComplete
  <2>2. CASE pc'[th] = "read" /\ buffers' = buffers
    <3>1. FrameComplete'
        BY <2>2, <1>1 DEF FInv, FrameComplete
    <3>2. FrameOK'
      <4>1. UNCHANGED <<cache, cache_mode, updates, sent, pos, buffers>>
          BY <2>2, <1>1
      <4> SUFFICES ASSUME NEW i \in 1 .. Len(buffers[th])
          PROVE  LET pdu == buffers[th][i] IN
                 /\ \A k \in pos[th] .. Len(Order) : pdu.member # Order[k]
                 /\ \A j \in 1 .. Len(buffers[th]) : i # j => pdu.member # buffers[th][j].member
                 /\ pdu.n <= updates[pdu.member]
                 /\ cache_mode = "latest" => pdu.n = updates[pdu.member]
                 /\ cache_mode = "queue" =>
                       \A j \in 1 .. Len(cache[pdu.member]) : pdu.n < cache[pdu.member][j].n
                 /\ pdu.n > sent[pdu.member]
          BY <4>1, <2>2, <1>1 DEF FrameOK
      <4> QED BY <1>1 DEF FInv, FrameOK
    <3> QED BY <3>1, <3>2
  <2> QED BY <2>1, <2>2, <1>1
<1> QED BY <1>2, <1>3, <1>4 DEF FInv

LEMMA CollectedFInv ==
    ASSUME OneReceiver, GInv, FInv, NEW th \in EventThreads, Collected(th)
    PROVE  FInv'
<1>1. /\ pc[th] = "read" /\ pc'[th] = "send" /\ pos'[th] = 1
      /\ pos[th] = Len(Order) + 1
      /\ \A t \in EventThreads : t = th
      /\ UNCHANGED <<recv_states, cache, cache_mode, updates, sent, round, key, buffers>>
    BY OrderFacts, Typing DEF Collected, endpointVars, GInv, TypeOK, OneReceiver
<1>2. CacheOK'
    BY <1>1 DEF FInv, CacheOK
<1>3. MarksOK' /\ MarksReadable'
    BY <1>1 DEF FInv, MarksOK, MarksReadable
<1>4. FrameOK'
    BY <1>1 DEF FInv, FrameOK
<1>5. FrameComplete'
    BY <1>1, OrderFacts DEF FInv, FrameComplete
<1> QED BY <1>2, <1>3, <1>4, <1>5 DEF FInv

LEMMA SendMemberFInv ==
    ASSUME OneReceiver, GInv, FInv, NEW th \in EventThreads, SendMember(th)
    PROVE  FInv'
<1> DEFINE pdu == buffers[th][pos[th]]
<1>1. /\ pc[th] = "send" /\ pos[th] \in 1 .. Len(buffers[th])
      /\ pos'[th] = pos[th] + 1
      /\ sent' = IF dst_running THEN [sent EXCEPT ![pdu.member] = pdu.n] ELSE sent
      /\ \A t \in EventThreads : t = th
      /\ UNCHANGED <<recv_states, cache, cache_mode, updates, round, key, buffers, pc>>
  <2>1. \A t \in EventThreads : t = th
      BY DEF OneReceiver
  <2>2. pos[th] \in 1 .. Len(buffers[th])
      BY Typing DEF SendMember
  <2>3. pos'[th] = pos[th] + 1
      BY DEF SendMember, GInv, TypeOK
  <2> QED BY <2>1, <2>2, <2>3 DEF SendMember, endpointVars
<1>2. /\ pdu.member \in Members /\ pdu.n \in Nat /\ pdu.n <= updates[pdu.member]
      /\ cache_mode = "queue" =>
            \A j \in 1 .. Len(cache[pdu.member]) : pdu.n < cache[pdu.member][j].n
      /\ \A j \in 1 .. Len(buffers[th]) : j # pos[th] => buffers[th][j].member # pdu.member
    BY <1>1, Typing DEF FInv, FrameOK
<1>3. \A m \in Members : sent'[m] = sent[m] \/ (m = pdu.member /\ sent'[m] = pdu.n)
    BY <1>1, <1>2 DEF GInv, TypeOK
<1> HIDE DEF pdu
<1>4. CacheOK'
  <2>1. \A m \in Members : \A i \in 1 .. Len(cache[m]) :
            cache_mode = "queue" => cache[m][i].n > sent'[m]
      BY <1>2, <1>3, Typing DEF FInv, CacheOK
  <2> QED BY <1>1, <2>1 DEF FInv, CacheOK
<1>5. MarksOK'
  <2>1. \A m \in Members : sent'[m] <= updates[m]
      BY <1>2, <1>3 DEF FInv, MarksOK
  <2> QED BY <1>1, <2>1 DEF FInv, MarksOK
<1>6. MarksReadable'
    BY <1>1 DEF FInv, MarksReadable
<1>7. FrameOK'
  <2>1. \A i \in 1 .. Len(buffers[th]) :
            i >= pos[th] + 1 => buffers[th][i].n > sent'[buffers[th][i].member]
    <3> SUFFICES ASSUME NEW i \in 1 .. Len(buffers[th]), i >= pos[th] + 1
        PROVE  buffers[th][i].n > sent'[buffers[th][i].member]
        OBVIOUS
    <3>1. i # pos[th] /\ i >= pos[th]
        BY Typing
    <3>2. buffers[th][i].member # pdu.member /\ buffers[th][i].member \in Members
        BY <3>1, <1>2, Typing
    <3>3. buffers[th][i].n > sent[buffers[th][i].member]
        BY <3>1, <1>1 DEF FInv, FrameOK
    <3> QED BY <3>2, <3>3, <1>3
  <2>2. /\ pc'[th] = "send" /\ pos'[th] = pos[th] + 1
        /\ \A t \in EventThreads : t = th
        /\ UNCHANGED <<cache, cache_mode, updates, buffers>>
      BY <1>1
  <2> SUFFICES ASSUME NEW i \in 1 .. Len(buffers[th])
      PROVE  LET p == buffers[th][i] IN
             /\ \A j \in 1 .. Len(buffers[th]) : i # j => p.member # buffers[th][j].member
             /\ p.n <= updates[p.member]
             /\ cache_mode = "latest" => p.n = updates[p.member]
             /\ cache_mode = "queue" =>
                   \A j \in 1 .. Len(cache[p.member]) : p.n < cache[p.member][j].n
      BY <2>1, <2>2 DEF FrameOK
  <2> QED BY <1>1 DEF FInv, FrameOK
<1>8. FrameComplete'
    BY <1>1 DEF FInv, FrameComplete
<1> QED BY <1>4, <1>5, <1>6, <1>7, <1>8 DEF FInv

LEMMA FrameSentFInv ==
    ASSUME OneReceiver, GInv, FInv, NEW th \in EventThreads, FrameSent(th)
    PROVE  FInv'
<1>1. /\ pc[th] = "send" /\ pc'[th] = "after"
      /\ \A t \in EventThreads : t = th
      /\ UNCHANGED <<recv_states, cache, cache_mode, updates, sent, round, key, pos, buffers>>
    BY DEF FrameSent, endpointVars, GInv, TypeOK, OneReceiver
<1>2. CacheOK'
    BY <1>1 DEF FInv, CacheOK
<1>3. MarksOK' /\ MarksReadable'
    BY <1>1 DEF FInv, MarksOK, MarksReadable
<1>4. FrameOK' /\ FrameComplete'
    BY <1>1 DEF FrameOK, FrameComplete
<1> QED BY <1>2, <1>3, <1>4 DEF FInv

LEMMA OnTransferredFInv ==
    ASSUME OneReceiver, GInv, FInv, NEW th \in EventThreads, OnTransferred(th)
    PROVE  FInv'
<1>1. /\ pc[th] = "after" /\ pc'[th] = "idle"
      /\ \A m \in Members : ~recv_states'[m]
      /\ round' = updates
      /\ \A t \in EventThreads : t = th
      /\ UNCHANGED <<cache, cache_mode, updates, sent, key, pos>>
    BY DEF OnTransferred, endpointVars, GInv, TypeOK, OneReceiver
<1>2. CacheOK'
    BY <1>1 DEF FInv, CacheOK
<1>3. MarksOK'
    BY <1>1, Typing DEF FInv, MarksOK
<1>4. MarksReadable' /\ FrameOK' /\ FrameComplete'
    BY <1>1 DEF MarksReadable, FrameOK, FrameComplete
<1> QED BY <1>2, <1>3, <1>4 DEF FInv

LEMMA OtherFInv ==
    ASSUME FInv,
           (\E active \in BOOLEAN : SetActive(active)) \/ SetEpoch \/ DestinationFlips
               \/ UNCHANGED vars
    PROVE  FInv'
<1>1. UNCHANGED <<recv_states, cache, cache_mode, updates, sent, round, key, pos, buffers, pc>>
    BY DEF SetActive, SetEpoch, DestinationFlips, endpointVars, vars
<1> QED BY <1>1 DEF FInv, CacheOK, MarksOK, MarksReadable, FrameOK, FrameComplete
LEMMA TailFacts ==
    ASSUME NEW S, NEW s \in Seq(S), s # <<>>
    PROVE  /\ Len(Tail(s)) = Len(s) - 1
           /\ \A i \in 1 .. Len(Tail(s)) : Tail(s)[i] = s[i + 1] /\ i + 1 \in 1 .. Len(s)
OBVIOUS

LEMMA ReadMemberFInv ==
    ASSUME OneReceiver, GInv, FInv, NEW th \in EventThreads, ReadMember(th)
    PROVE  FInv'
<1> DEFINE p == pos[th]
           m == Order[p]
           h == cache[m][1]
           buf == buffers[th]
           rest == cache'[m]
<1>1. /\ pc[th] = "read" /\ pc'[th] \in {"read", "epoch"}
      /\ p \in 1 .. Len(Order) /\ pos'[th] = p + 1
      /\ \A t \in EventThreads : t = th
      /\ UNCHANGED <<recv_states, cache_mode, updates, sent, round, key>>
    BY OrderFacts, Typing DEF ReadMember, GInv, TypeOK, OneReceiver
<1>2. m \in Members /\ cache[m] # <<>> /\ cache[m] \in Seq(PDUs) /\ Len(cache[m]) \in Nat
      /\ 1 \in 1 .. Len(cache[m]) /\ Head(cache[m]) = h
  <2>1. m \in Members /\ cache[m] # <<>>
      BY <1>1, OrderFacts DEF FInv, MarksReadable
  <2>2. cache[m] \in Seq(PDUs)
      BY <2>1, Typing
  <2> QED BY <2>1, <2>2
<1>3. /\ \A o \in Members \ {m} : cache'[o] = cache[o]
      /\ cache_mode = "queue" => rest = Tail(cache[m])
      /\ cache_mode # "queue" => rest = cache[m]
    BY <1>2, ReadMemberFacts DEF GInv, TypeOK
<1>4. \/ h.whole /\ buffers'[th] = Append(buf, h)
      \/ ShortPdus /\ buffers'[th] = buf
  <2>1. h.whole => buffers' = [buffers EXCEPT ![th] = Append(@, h)]
      BY <1>2, ReadMemberFacts
  <2>2. ~h.whole => buffers' = buffers
      BY <1>2, ReadMemberFacts
  <2>3. ShortPdus \/ h.whole
      BY <1>2 DEF FInv, CacheOK
  <2> QED BY <2>1, <2>2, <2>3 DEF GInv, TypeOK
<1>5. /\ h.member = m /\ h.n \in Nat /\ h.n <= updates[m]
      /\ cache_mode = "latest" => h.n = updates[m]
      /\ cache_mode = "queue" => h.n > sent[m]
      /\ updates[m] > round[m] /\ sent[m] <= round[m]
      /\ updates[m] \in Nat /\ round[m] \in Nat /\ sent[m] \in Nat
  <2>1. /\ h.member = m /\ h.n <= updates[m]
        /\ cache_mode = "latest" => h.n = updates[m]
        /\ cache_mode = "queue" => h.n > sent[m]
      BY <1>2 DEF FInv, CacheOK
  <2>2. updates[m] > round[m] /\ sent[m] <= round[m]
      BY <1>1, <1>2 DEF FInv, MarksOK
  <2>3. h.n \in Nat /\ updates[m] \in Nat /\ round[m] \in Nat /\ sent[m] \in Nat
      BY <1>2, Typing
  <2> QED BY <2>1, <2>2, <2>3
<1>6. cache_mode \in {"latest", "queue"}
    BY GroupAssumption DEF GInv, TypeOK
<1>7. h.n > sent[m]
    BY <1>5, <1>6
<1>8. cache_mode = "queue" =>
         /\ Len(rest) = Len(cache[m]) - 1
         /\ \A i \in 1 .. Len(rest) : rest[i] = cache[m][i + 1] /\ i + 1 \in 1 .. Len(cache[m])
  <2> HIDE DEF m, rest
  <2>1. /\ Len(Tail(cache[m])) = Len(cache[m]) - 1
        /\ \A i \in 1 .. Len(Tail(cache[m])) :
              Tail(cache[m])[i] = cache[m][i + 1] /\ i + 1 \in 1 .. Len(cache[m])
      BY <1>2, TailFacts
  <2> QED BY <2>1, <1>3
<1>9. \A k \in p + 1 .. Len(Order) : Order[k] \in Members \ {m}
    BY <1>1, OrderFacts
<1>10. \A i \in 1 .. Len(buf) : buf[i].member \in Members \ {m}
  <2>1. p \in p .. Len(Order)
      BY <1>1
  <2>2. \A i \in 1 .. Len(buf) : buf[i].member \in Members
      BY Typing
  <2>3. \A i \in 1 .. Len(buf) : buf[i].member # m
      BY <2>1, <1>1 DEF FInv, FrameOK
  <2> QED BY <2>2, <2>3
<1>11. Len(buf) \in Nat /\ buf \in Seq(PDUs) /\ h \in PDUs
    BY <1>2, Typing
<1> HIDE DEF m, h, buf, rest, p
<1>12. CacheOK'
  <2> SUFFICES ASSUME NEW o \in Members, NEW i \in 1 .. Len(cache'[o])
      PROVE  /\ cache'[o][i].member = o
             /\ cache'[o][i].n <= updates'[o]
             /\ ShortPdus \/ cache'[o][i].whole
             /\ cache_mode' = "latest" => cache'[o][i].n = updates'[o]
             /\ cache_mode' = "queue" => cache'[o][i].n > sent'[o]
             /\ \A j \in 1 .. Len(cache'[o]) :
                   cache_mode' = "queue" /\ i < j => cache'[o][i].n < cache'[o][j].n
      BY DEF CacheOK
  <2>1. CASE o # m \/ cache_mode # "queue"
    <3>1. cache'[o] = cache[o]
        BY <2>1, <1>3 DEF rest
    <3> QED BY <3>1, <1>1 DEF FInv, CacheOK
  <2>2. CASE o = m /\ cache_mode = "queue"
    <3>1. /\ i + 1 \in 1 .. Len(cache[m]) /\ cache'[o][i] = cache[m][i + 1]
          /\ \A j \in 1 .. Len(cache'[o]) :
                cache'[o][j] = cache[m][j + 1] /\ j + 1 \in 1 .. Len(cache[m])
        BY <2>2, <1>8 DEF rest
    <3>2. /\ cache[m][i + 1].member = m /\ cache[m][i + 1].n <= updates[m]
          /\ ShortPdus \/ cache[m][i + 1].whole
          /\ cache[m][i + 1].n > sent[m]
        BY <2>2, <3>1 DEF FInv, CacheOK
    <3>3. \A j \in 1 .. Len(cache'[o]) : i < j => cache'[o][i].n < cache'[o][j].n
      <4> SUFFICES ASSUME NEW j \in 1 .. Len(cache'[o]), i < j
          PROVE  cache'[o][i].n < cache'[o][j].n
          OBVIOUS
      <4>1. i + 1 < j + 1 /\ j + 1 \in 1 .. Len(cache[m]) /\ cache'[o][j] = cache[m][j + 1]
          BY <3>1, <1>2
      <4> QED BY <4>1, <3>1, <2>2 DEF FInv, CacheOK
    <3> QED BY <2>2, <3>1, <3>2, <3>3, <1>1
  <2> QED BY <2>1, <2>2
<1>13. MarksOK'
    BY <1>1 DEF FInv, MarksOK
<1>14. MarksReadable'
  <2>1. \A k \in p + 1 .. Len(Order) : cache[Order[k]] # <<>>
      BY <1>1, OrderFacts DEF FInv, MarksReadable, p
  <2> QED BY <2>1, <1>1, <1>3, <1>9 DEF MarksReadable
<1>15. FrameComplete'
  <2>1. ~ShortPdus => Len(buf) = p - 1
      BY <1>1 DEF FInv, FrameComplete, buf, p
  <2>2. Len(Append(buf, h)) = Len(buf) + 1
      BY <1>11
  <2>3. ~ShortPdus => Len(buffers'[th]) = pos'[th] - 1
      BY <2>1, <2>2, <1>1, <1>4
  <2> QED BY <2>3, <1>1 DEF FrameComplete
<1>16. FrameOK'
  <2>1. \A i \in 1 .. Len(buffers'[th]) :
            \/ i \in 1 .. Len(buf) /\ buffers'[th][i] = buf[i]
            \/ i = Len(buf) + 1 /\ buffers'[th][i] = h
    <3>1. \A i \in 1 .. Len(Append(buf, h)) :
              \/ i \in 1 .. Len(buf) /\ Append(buf, h)[i] = buf[i]
              \/ i = Len(buf) + 1 /\ Append(buf, h)[i] = h
        BY <1>11
    <3> QED BY <3>1, <1>4
  <2> SUFFICES ASSUME NEW i \in 1 .. Len(buffers'[th])
      PROVE  LET pdu == buffers'[th][i] IN
             /\ \A k \in p + 1 .. Len(Order) : pdu.member # Order[k]
             /\ \A j \in 1 .. Len(buffers'[th]) : i # j => pdu.member # buffers'[th][j].member
             /\ pdu.n <= updates[pdu.member]
             /\ cache_mode = "latest" => pdu.n = updates[pdu.member]
             /\ cache_mode = "queue" =>
                   \A j \in 1 .. Len(cache'[pdu.member]) : pdu.n < cache'[pdu.member][j].n
             /\ pdu.n > sent[pdu.member]
    <3>1. /\ pos'[th] = p + 1 /\ pc'[th] # "send" /\ \A t \in EventThreads : t = th
          /\ cache_mode' = cache_mode /\ updates' = updates /\ sent' = sent
        BY <1>1
    <3> HIDE DEF FInv, GInv, ReadMember
    <3> SUFFICES ASSUME NEW i \in 1 .. Len(buffers'[th])
        PROVE  LET pdu == buffers'[th][i] IN
               /\ \A k \in pos'[th] .. Len(Order) : pdu.member # Order[k]
               /\ \A j \in 1 .. Len(buffers'[th]) : i # j => pdu.member # buffers'[th][j].member
               /\ pdu.n <= updates'[pdu.member]
               /\ cache_mode' = "latest" => pdu.n = updates'[pdu.member]
               /\ cache_mode' = "queue" =>
                     \A j \in 1 .. Len(cache'[pdu.member]) : pdu.n < cache'[pdu.member][j].n
               /\ pdu.n > sent'[pdu.member]
        BY <3>1 DEF FrameOK
    <3> QED BY <3>1
  <2>2. CASE i \in 1 .. Len(buf) /\ buffers'[th][i] = buf[i]
    <3>1. LET pdu == buf[i] IN
          /\ \A k \in p .. Len(Order) : pdu.member # Order[k]
          /\ \A j \in 1 .. Len(buf) : i # j => pdu.member # buf[j].member
          /\ pdu.n <= updates[pdu.member]
          /\ cache_mode = "latest" => pdu.n = updates[pdu.member]
          /\ cache_mode = "queue" =>
                \A j \in 1 .. Len(cache[pdu.member]) : pdu.n < cache[pdu.member][j].n
          /\ pdu.n > sent[pdu.member]
        BY <2>2, <1>1 DEF FInv, FrameOK, buf, p
    <3>2. cache'[buf[i].member] = cache[buf[i].member] /\ buf[i].member # m
        BY <2>2, <1>3, <1>10
    <3>3. \A k \in p + 1 .. Len(Order) : k \in p .. Len(Order)
        BY <1>1
    <3>4. \A j \in 1 .. Len(buffers'[th]) : i # j => buf[i].member # buffers'[th][j].member
        BY <3>1, <3>2, <2>1, <1>5
    <3> QED BY <2>2, <3>1, <3>2, <3>3, <3>4
  <2>3. CASE i = Len(buf) + 1 /\ buffers'[th][i] = h
    <3>1. \A k \in p + 1 .. Len(Order) : h.member # Order[k]
        BY <1>5, <1>9
    <3>2. \A j \in 1 .. Len(buffers'[th]) : i # j => h.member # buffers'[th][j].member
        BY <2>1, <2>3, <1>5, <1>10
    <3>3. cache_mode = "queue" => \A j \in 1 .. Len(rest) : h.n < rest[j].n
      <4> SUFFICES ASSUME cache_mode = "queue", NEW j \in 1 .. Len(rest)
          PROVE  h.n < rest[j].n
          OBVIOUS
      <4>1. rest[j] = cache[m][j + 1] /\ j + 1 \in 1 .. Len(cache[m]) /\ 1 < j + 1
          BY <1>8, <1>2
      <4> QED BY <4>1, <1>2 DEF FInv, CacheOK, h
    <3> QED BY <2>3, <3>1, <3>2, <3>3, <1>5, <1>7 DEF rest
  <2> QED BY <2>1, <2>2, <2>3
<1> QED BY <1>12, <1>13, <1>14, <1>15, <1>16 DEF FInv

LEMMA NextFInv ==
    ASSUME OneReceiver, GInv, FInv, [Next]_vars
    PROVE  FInv'
<1>1. ASSUME NEW th \in EventThreads, TryTransfer(th)
      PROVE  FInv'
    BY <1>1, CheckActiveFInv, ShouldTransferFInv, ReadMemberFInv, CheckEpochFInv,
       CollectedFInv, SendMemberFInv, FrameSentFInv, OnTransferredFInv DEF TryTransfer
<1> QED BY <1>1, SourceReceiveFInv, OtherFInv DEF Next

\* FInv is an invariant of a group whose callbacks run on one receive thread.
THEOREM FrameInvariance ==
    ASSUME OneReceiver
    PROVE  Spec => []FInv
<1>1. GInv /\ FInv /\ [Next]_vars => FInv'
    BY NextFInv
<1> QED BY <1>1, InitFInv, Invariance, PTL DEF Spec

\* With one receive thread a frame read from a latest-value cache holds only updates
\* that arrived since the previous attempt to send one.
THEOREM FramesAreFresh ==
    ASSUME OneReceiver
    PROVE  Spec => []FrameFresh
<1>1. GInv /\ FInv => FrameFresh
  <2> SUFFICES ASSUME GInv, FInv, cache_mode = "latest", NEW th \in EventThreads,
                      pc[th] = "send", NEW i \in DOMAIN buffers[th]
      PROVE  buffers[th][i].n > round[buffers[th][i].member]
      BY DEF FrameFresh
  <2>1. i \in 1 .. Len(buffers[th]) /\ buffers[th][i].member \in Members
      BY Typing
  <2> QED BY <2>1 DEF FInv, FrameOK, MarksOK
<1> QED BY <1>1, FrameInvariance, Invariance, PTL

\* With one receive thread no update of a member is sent twice and none after a newer
\* one, from a latest-value cache or a queue, whatever is paused, discarded or refused.
THEOREM FramesAdvance ==
    ASSUME OneReceiver
    PROVE  Spec => []FrameAdvances
<1>1. GInv /\ FInv => FrameAdvances
  <2> SUFFICES ASSUME GInv, FInv, NEW th \in EventThreads, pc[th] = "send",
                      NEW i \in pos[th] .. Len(buffers[th])
      PROVE  buffers[th][i].n > sent[buffers[th][i].member]
      BY DEF FrameAdvances
  <2>1. i \in 1 .. Len(buffers[th]) /\ i >= pos[th]
      BY Typing, OrderFacts
  <2> QED BY <2>1 DEF FInv, FrameOK
<1> QED BY <1>1, FrameInvariance, Invariance, PTL

\* With one receive thread and a source that stores PDUs of the declared size only, a
\* frame that is sent holds every member of the group.
THEOREM FramesAreWhole ==
    ASSUME OneReceiver, ~ShortPdus
    PROVE  Spec => []FrameWhole
<1>1. FInv => FrameWhole
    BY DEF FInv, FrameComplete, FrameWhole
<1> QED BY <1>1, FrameInvariance, PTL

-----------------------------------------------------------------------------
(* The group implements GroupFrames.                                        *)

\* Unless PDUs are left out, a frame lists its members in the group's order.
InOrder ==
    ~ShortPdus => \A th \in EventThreads : pc[th] \in {"read", "epoch", "send"} =>
        \A i \in 1 .. Len(buffers[th]) : buffers[th][i].member = Order[i]

LEMMA InOrderStep ==
    ASSUME OneReceiver, GInv, FInv, InOrder, [Next]_vars
    PROVE  InOrder'
<1> SUFFICES ASSUME ~ShortPdus, NEW t \in EventThreads,
                    pc'[t] \in {"read", "epoch", "send"},
                    NEW i \in 1 .. Len(buffers'[t])
             PROVE  buffers'[t][i].member = Order[i]
    BY DEF InOrder
<1>0. /\ pc \in [EventThreads -> {"idle", "check", "policy", "read", "epoch", "send", "after"}]
      /\ buffers \in [EventThreads -> Seq(PDUs)] /\ pos[t] \in Nat
  <2>1. pos[t] \in 1 .. Len(Order) + 1 /\ Len(Order) \in Nat
      BY Typing, OrderFacts
  <2> QED BY <2>1 DEF GInv, TypeOK
<1>1. CASE ReadMember(t)
  <2> DEFINE m == Order[pos[t]]
  <2>1. /\ pc[t] = "read" /\ m \in Members /\ Len(buffers[t]) = pos[t] - 1
        /\ buffers[t] \in Seq(PDUs)
      BY <1>0, <1>1, ReadMemberFacts DEF ReadMember, FInv, FrameComplete
  <2>2. \A j \in 1 .. Len(buffers[t]) : buffers[t][j].member = Order[j]
      BY <2>1 DEF InOrder
  <2>3. CASE buffers'[t] = buffers[t]
      BY <2>2, <2>3
  <2>4. CASE cache[m] # <<>> /\ Head(cache[m]).whole
    <3>1. /\ Head(cache[m]) = cache[m][1] /\ Head(cache[m]) \in PDUs
          /\ buffers'[t] = Append(buffers[t], Head(cache[m]))
        BY <1>0, <1>1, <2>4, ReadMemberFacts
    <3>2. Head(cache[m]).member = m
      <4>1. cache[m] \in Seq(PDUs)
          BY <2>1, Typing
      <4>2. 1 \in 1 .. Len(cache[m])
          BY <2>4, <4>1
      <4> QED BY <2>1, <3>1, <4>2 DEF FInv, CacheOK
    <3>3. /\ Len(buffers'[t]) = pos[t]
          /\ buffers'[t][pos[t]] = Head(cache[m])
          /\ \A j \in 1 .. Len(buffers[t]) : buffers'[t][j] = buffers[t][j]
        BY <1>0, <2>1, <3>1
    <3>4. CASE i = pos[t]
        BY <3>2, <3>3, <3>4
    <3>5. CASE i # pos[t]
      <4>1. i \in 1 .. Len(buffers[t])
          BY <1>0, <2>1, <3>3, <3>5
      <4> QED BY <2>2, <3>3, <4>1
    <3> QED BY <3>4, <3>5
  <2> QED BY <1>0, <1>1, <2>3, <2>4, ReadMemberFacts
<1>2. CASE ShouldTransfer(t)
  <2>1. buffers'[t] = <<>>
      BY <1>2 DEF ShouldTransfer, GInv, FrameShape
  <2> QED BY <2>1
<1>3. CASE CheckEpoch(t)
  <2>1. pc[t] = "epoch" /\ buffers'[t] = buffers[t]
      BY <1>0, <1>3 DEF CheckEpoch
  <2> QED BY <2>1 DEF InOrder
<1>4. CASE Collected(t) \/ SendMember(t)
  <2>1. pc[t] \in {"read", "send"} /\ buffers'[t] = buffers[t]
      BY <1>4 DEF Collected, SendMember
  <2> QED BY <2>1 DEF InOrder
<1>5. ~(CheckActive(t) \/ FrameSent(t) \/ OnTransferred(t))
    BY <1>0 DEF CheckActive, FrameSent, OnTransferred
<1>6. ~\E m \in Members : SourceReceive(t, m)
    BY <1>0 DEF SourceReceive
<1>7. CASE (\E active \in BOOLEAN : SetActive(active)) \/ SetEpoch \/ DestinationFlips
           \/ UNCHANGED vars
  <2>1. pc'[t] = pc[t] /\ buffers'[t] = buffers[t]
      BY <1>7 DEF SetActive, SetEpoch, DestinationFlips, vars
  <2> QED BY <2>1 DEF InOrder
<1>8. \A o \in EventThreads : o = t
    BY DEF OneReceiver
<1> QED BY <1>1, <1>2, <1>3, <1>4, <1>5, <1>6, <1>7, <1>8 DEF Next, TryTransfer

\* A frame without left-out PDUs lists the members in the order of the group.
THEOREM FramesInOrder ==
    ASSUME OneReceiver
    PROVE  Spec => []InOrder
<1>1. Init => InOrder
    BY DEF Init, InOrder
<1>2. GInv /\ FInv /\ InOrder /\ [Next]_vars => InOrder'
    BY InOrderStep
<1> QED BY <1>1, <1>2, Invariance, FrameInvariance, PTL DEF Spec

Frame == UNION {Unsent(th) : th \in EventThreads}

\* The one receive thread sends all there is to send.
LEMMA FrameOfThread ==
    ASSUME OneReceiver, NEW th \in EventThreads
    PROVE  Frame = Unsent(th) /\ Frame' = Unsent(th)'
<1>1. \A t \in EventThreads : t = th
    BY DEF OneReceiver
<1>2. {Unsent(t) : t \in EventThreads} = {Unsent(th)}
    BY <1>1
<1>3. {Unsent(t) : t \in EventThreads}' = {Unsent(th)'}
    BY <1>1
<1> QED BY <1>2, <1>3 DEF Frame

\* All members were collected: the frame appears, complete.
LEMMA CollectedIsFrames ==
    ASSUME OneReceiver, GInv, FInv, InOrder, NEW th \in EventThreads, Collected(th)
    PROVE  Frames!Collect
<1> DEFINE f == {[member |-> buffers[th][i].member, n |-> buffers[th][i].n] :
                     i \in 1 .. Len(buffers[th])}
<1>1. /\ pc[th] = "read" /\ pc'[th] = "send" /\ pos'[th] = 1
      /\ UNCHANGED <<updates, sent, buffers>>
    BY DEF Collected, endpointVars, GInv, TypeOK
<1>2. Frame = {} /\ Frame' = f
    BY <1>1, FrameOfThread DEF Unsent
<1>3. \A i \in 1 .. Len(buffers[th]) :
          /\ buffers[th][i].member \in Members
          /\ buffers[th][i].n \in sent[buffers[th][i].member] + 1 .. updates[buffers[th][i].member]
          /\ \A j \in 1 .. Len(buffers[th]) : i # j => buffers[th][i].member # buffers[th][j].member
  <2> TAKE i \in 1 .. Len(buffers[th])
  <2> DEFINE pdu == buffers[th][i]
  <2>1. pdu.member \in Members /\ pdu.n \in Nat
      BY Typing
  <2>2. sent[pdu.member] \in Nat /\ updates[pdu.member] \in Nat
      BY <2>1, Typing
  <2>3. /\ pdu.n <= updates[pdu.member] /\ pdu.n > sent[pdu.member]
        /\ \A j \in 1 .. Len(buffers[th]) : i # j => pdu.member # buffers[th][j].member
      BY <1>1 DEF FInv, FrameOK
  <2>4. pdu.n \in sent[pdu.member] + 1 .. updates[pdu.member]
      BY <2>1, <2>2, <2>3
  <2> QED BY <2>1, <2>3, <2>4
<1>4. ASSUME ~ShortPdus, NEW m \in Members
      PROVE  \E p \in f : p.member = m
  <2>1. PICK i \in 1 .. Len(Order) : Order[i] = m
      BY OrderFacts
  <2>2. pos[th] = Len(Order) + 1
    <3>1. pos[th] \in 1 .. Len(Order) + 1 /\ Len(Order) \in Nat /\ pos[th] > Len(Order)
        BY Typing, OrderFacts DEF Collected
    <3> QED BY <3>1
  <2>3. Len(buffers[th]) = Len(Order)
    <3>1. Len(buffers[th]) = pos[th] - 1 /\ Len(Order) \in Nat
        BY <1>1, <1>4, OrderFacts DEF FInv, FrameComplete
    <3> QED BY <2>2, <3>1
  <2>4. buffers[th][i].member = m /\ i \in 1 .. Len(buffers[th])
      BY <1>1, <1>4, <2>1, <2>3 DEF InOrder
  <2>5. [member |-> buffers[th][i].member, n |-> buffers[th][i].n] \in f
      BY <2>4
  <2> QED BY <2>4, <2>5
<1>5. Frames!IsFrame(f)
    BY <1>3, <1>4 DEF Frames!IsFrame
<1> QED BY <1>1, <1>2, <1>5 DEF Frames!Collect, Frame

LEMMA SendIsFrames ==
    ASSUME OneReceiver, GInv, FInv, NEW th \in EventThreads, SendMember(th)
    PROVE  \E p \in Frame : Frames!SendOne(p)
<1> DEFINE pdu == buffers[th][pos[th]]
           p == [member |-> pdu.member, n |-> pdu.n]
<1>1. /\ pc[th] = "send" /\ pc'[th] = "send" /\ pos[th] \in 1 .. Len(buffers[th])
      /\ pos'[th] = pos[th] + 1 /\ UNCHANGED <<updates, buffers>>
      /\ sent' = IF dst_running THEN [sent EXCEPT ![pdu.member] = pdu.n] ELSE sent
      /\ Len(buffers[th]) \in Nat
    BY Typing DEF SendMember, endpointVars, GInv, TypeOK
<1>2. Frame = {[member |-> buffers[th][i].member, n |-> buffers[th][i].n] :
                   i \in pos[th] .. Len(buffers[th])}
    BY <1>1, FrameOfThread DEF Unsent
<1>3. Frame' = {[member |-> buffers[th][i].member, n |-> buffers[th][i].n] :
                    i \in pos[th] + 1 .. Len(buffers[th])}
    BY <1>1, FrameOfThread DEF Unsent
<1>4. \A i \in pos[th] + 1 .. Len(buffers[th]) : buffers[th][i].member # pdu.member
  <2> TAKE i \in pos[th] + 1 .. Len(buffers[th])
  <2>1. i \in 1 .. Len(buffers[th]) /\ i # pos[th]
      BY <1>1
  <2> QED BY <1>1, <2>1 DEF FInv, FrameOK
<1>5. p \in Frame
    BY <1>1, <1>2
<1>6. Frame' = Frame \ {p}
  <2>1. \A i \in pos[th] .. Len(buffers[th]) :
            i = pos[th] \/ i \in pos[th] + 1 .. Len(buffers[th])
      BY <1>1
  <2>2. \A i \in pos[th] + 1 .. Len(buffers[th]) :
            /\ i \in pos[th] .. Len(buffers[th])
            /\ [member |-> buffers[th][i].member, n |-> buffers[th][i].n] # p
      BY <1>1, <1>4
  <2> QED BY <1>2, <1>3, <2>1, <2>2
<1>7. sent' \in {sent, [sent EXCEPT ![p.member] = p.n]}
    BY <1>1
<1> HIDE DEF p, pdu
<1>8. Frames!SendOne(p)
    BY <1>1, <1>5, <1>6, <1>7 DEF Frames!SendOne, Frame
<1> QED BY <1>5, <1>8

\* Every step is one of GroupFrames or leaves its variables alone.
LEMMA StepIsFrames ==
    ASSUME OneReceiver, GInv, FInv, InOrder, [Next]_vars
    PROVE  [Frames!Next]_Frames!vars
<1>0. pc \in [EventThreads -> {"idle", "check", "policy", "read", "epoch", "send", "after"}]
    BY DEF GInv, TypeOK
<1>1. ASSUME NEW th \in EventThreads, TryTransfer(th)
      PROVE  [Frames!Next]_Frames!vars
  <2>1. CASE Collected(th)
      BY <2>1, CollectedIsFrames DEF Frames!Next
  <2>2. CASE SendMember(th)
      BY <2>2, SendIsFrames DEF Frames!Next, Frame
  <2>3. CASE FrameSent(th)
    <3>1. /\ pc[th] = "send" /\ pos[th] > Len(buffers[th]) /\ pc'[th] = "after"
          /\ UNCHANGED <<updates, sent>>
        BY <1>0, <2>3 DEF FrameSent, endpointVars
    <3>2. pos[th] .. Len(buffers[th]) = {}
        BY <3>1, Typing, OrderFacts
    <3>3. Frame = {} /\ Frame' = {}
        BY <3>1, <3>2, FrameOfThread DEF Unsent
    <3> QED BY <3>1, <3>3 DEF Frames!vars, Frame
  <2>4. CASE \/ CheckActive(th) \/ ShouldTransfer(th) \/ ReadMember(th) \/ CheckEpoch(th)
             \/ OnTransferred(th)
    <3>1. pc[th] # "send" /\ pc'[th] # "send" /\ UNCHANGED <<updates, sent>>
        BY <1>0, <2>4 DEF CheckActive, ShouldTransfer, ReadMember, CheckEpoch, OnTransferred,
           endpointVars
    <3>2. Frame = {} /\ Frame' = {}
        BY <3>1, FrameOfThread DEF Unsent
    <3> QED BY <3>1, <3>2 DEF Frames!vars, Frame
  <2> QED BY <1>1, <2>1, <2>2, <2>3, <2>4 DEF TryTransfer
<1>2. ASSUME NEW th \in EventThreads, NEW m \in Members, SourceReceive(th, m)
      PROVE  [Frames!Next]_Frames!vars
  <2>1. /\ pc[th] # "send" /\ pc'[th] # "send" /\ UNCHANGED sent
        /\ updates' = [updates EXCEPT ![m] = @ + 1]
      BY <1>0, <1>2 DEF SourceReceive
  <2>2. Frame = {} /\ Frame' = {}
      BY <2>1, FrameOfThread DEF Unsent
  <2>3. Frames!Update(m)
      BY <2>1, <2>2 DEF Frames!Update, Frame
  <2> QED BY <2>3 DEF Frames!Next
<1>3. CASE \/ (\E active \in BOOLEAN : SetActive(active)) \/ SetEpoch \/ DestinationFlips
           \/ UNCHANGED vars
  <2>1. UNCHANGED <<updates, sent, pc, pos, buffers>>
      BY <1>3 DEF SetActive, SetEpoch, DestinationFlips, endpointVars, vars
  <2> QED BY <2>1 DEF Frames!vars, Unsent
<1> QED BY <1>1, <1>2, <1>3 DEF Next

\* With one receive thread the group is atomic from outside: whole frames, one after the
\* other, each to its end.
THEOREM FramesImplemented ==
    ASSUME OneReceiver
    PROVE  Spec => ImplementsFrames
<1>1. Init => Frames!Init
    BY DEF Init, Frames!Init, Unsent
<1>2. GInv /\ FInv /\ InOrder /\ [Next]_vars => [Frames!Next]_Frames!vars
    BY StepIsFrames
<1> QED BY <1>1, <1>2, Invariance, FrameInvariance, FramesInOrder, PTL
       DEF Spec, ImplementsFrames, Frames!Spec
=============================================================================
