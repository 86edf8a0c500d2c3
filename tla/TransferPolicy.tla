--------------------------- MODULE TransferPolicy ---------------------------
(***************************************************************************)
(* The transfer policies of the bridge, as pure operators on a policy's    *)
(* state and the time its ITimeSource reports.  One policy object belongs  *)
(* to one TransferPdu, so the PDU key the C++ methods take plays no part   *)
(* here; the atomic mode of the immediate policy is keyed and is modelled  *)
(* with its only user in AtomicGroup.                                      *)
(*                                                                         *)
(* All three classes share one record:                                     *)
(*   kind     "immediate", "throttle" or "ticker"                          *)
(*   interval interval_micros_ / interval_                                 *)
(*   armed    has_transferred_ (throttle) / initialized_ (ticker)          *)
(*   mark     last_transfer_time_micros_ (throttle) /                      *)
(*            next_tick_time_ (ticker)                                     *)
(***************************************************************************)
EXTENDS Integers

CONSTANT
    ClockMod    \* 2^64 in the code: instants are unsigned and wrap

ASSUME ClockModAssumption == ClockMod \in Nat \ {0}

Instants == 0 .. ClockMod - 1

PolicyKinds == {"immediate", "throttle", "ticker"}

Policies == [kind : PolicyKinds, interval : Instants, armed : BOOLEAN, mark : Instants]

\* The three constructors.
NewPolicy(kind, interval) ==
    [kind |-> kind, interval |-> interval, armed |-> FALSE, mark |-> 0]

IsCyclicTrigger(kind) == kind = "ticker"

\* Unsigned subtraction: an instant that lies in the past of the mark looks
\* very far in its future.
Elapsed(p, now) == (now - p.mark) % ClockMod

ThrottleDue(p, now) == ~p.armed \/ Elapsed(p, now) >= p.interval

TickerDue(p, now) == p.armed /\ now >= p.mark

\* The value should_transfer returns ...
ShouldTransfer(p, now) ==
    CASE p.kind = "immediate" -> TRUE
      [] p.kind = "throttle"  -> ThrottleDue(p, now)
      [] p.kind = "ticker"    -> TickerDue(p, now)

\* ... and the state it leaves: the ticker's first check starts its clock.
AfterCheck(p, now) ==
    IF p.kind = "ticker" /\ ~p.armed
    THEN [p EXCEPT !.armed = TRUE, !.mark = (now + p.interval) % ClockMod]
    ELSE p

\* Mutant: a throttle that remembers its first transfer only.
OnTransferredOnce(p, now) ==
    IF p.kind = "throttle" /\ p.armed THEN p ELSE [p EXCEPT !.armed = TRUE, !.mark = now]

OnTransferred(p, now) ==
    CASE p.kind = "immediate" -> p
      [] p.kind = "throttle"  -> [p EXCEPT !.armed = TRUE, !.mark = now]
      [] p.kind = "ticker"    -> [p EXCEPT !.mark = (now + p.interval) % ClockMod]
=============================================================================
