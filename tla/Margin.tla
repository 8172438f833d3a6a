------------------------------- MODULE Margin -------------------------------
(***************************************************************************)
(* The isolated-margin estimate (portfolio/margin.py): the worst long and  *)
(* short position the pending reservations can lead to, and the collateral *)
(* asked for them.  After the estimate the reservations fill, one lot at a *)
(* time and in any order; a closing order only fills what it closes, a     *)
(* fill reported before its details counts whatever the position is.       *)
(* Amounts are in lots of the mark price; a tier is [cap, rate, deduction].*)
(***************************************************************************)
EXTENDS Integers, Sequences, FiniteSets, FiniteSetsExt, Lots

CONSTANTS MaxHeld, MaxSize, MaxPending, Leverage, MarkNow,
          Tiers,     \* sequence of [cap, rate, deduction], rate in hundredths
          FeeBuffer

ASSUME MarginAssumption ==
  /\ {MaxHeld, MaxSize, MaxPending} \subseteq Nat
  /\ Leverage \in Nat \ {0} /\ MarkNow \in Nat \ {0} /\ FeeBuffer \in Nat
  /\ Tiers \in Seq([cap : Nat, rate : Nat, deduction : Nat])
  /\ \A i \in DOMAIN Tiers : \A j \in DOMAIN Tiers : i < j => Tiers[i].cap < Tiers[j].cap

VARIABLES
  holding,     \* signed lots of the position
  pending,  \* sequence of reservations
  asked     \* the estimate made at first (observation)
marginVars == <<holding, pending, asked>>

Reservations == {r \in [side : {1, -1}, closing : BOOLEAN, remaining : 0 .. MaxSize, unresolved : 0 .. MaxSize] :
                   r.unresolved <= r.remaining}
Executable(r) == r.remaining - r.unresolved

-----------------------------------------------------------------------------
(* estimate *)
Of(side, closing) == {i \in DOMAIN pending : pending[i].side = side /\ pending[i].closing = closing}
Ordinary(side) == Total([i \in DOMAIN pending |-> pending[i].remaining], Of(side, FALSE))
Reported(side) == Total([i \in DOMAIN pending |-> pending[i].unresolved], Of(side, TRUE))
ClosersFill(side) == Total([i \in DOMAIN pending |-> Executable(pending[i])], Of(side, TRUE))

\* Closing what there is first leaves most room for the ordinary orders of the
\* same side; fills without details are never clipped to the position.
Close(side) == Smaller(Larger(-side * holding, 0), ClosersFill(side))
Worst(side) == side * holding + Close(side) + Ordinary(side) + Reported(side)
WorstLong == Worst(1)
WorstShort == -Worst(-1)

WorstNotional == Larger(Abs(WorstLong), Abs(WorstShort)) * MarkNow
\* The tiers that reach an amount; the first of them is the one that counts.
Reaching(amount) == {i \in DOMAIN Tiers : amount <= Tiers[i].cap}
TierOf(amount) == Tiers[Min(Reaching(amount))]
TierToday == TierOf(Abs(holding) * MarkNow)
Tier == TierOf(WorstNotional)
\* Times the leverage.  The cash of the pending orders, left out, only raises it.
Incremental == Larger(0, WorstNotional - Abs(holding) * MarkNow)
Initial == Abs(holding) * MarkNow + FeeBuffer * Leverage + Incremental
Maintenance == WorstNotional * Tier.rate - Tier.deduction * 100
Estimate ==
  IF Reaching(WorstNotional) # {}
  THEN [long |-> WorstLong, short |-> WorstShort, known |-> TRUE, initial |-> Initial, maintenance |-> Maintenance]
  ELSE [long |-> WorstLong, short |-> WorstShort, known |-> FALSE, initial |-> 0, maintenance |-> 0]

Lists == UNION {[1 .. n -> Reservations] : n \in 0 .. MaxPending}
MarginInit ==
  /\ holding \in -MaxHeld .. MaxHeld
  /\ pending \in Lists
  /\ asked = Estimate

-----------------------------------------------------------------------------
(* What can become of them *)
AfterFill(i, details) ==
  [pending EXCEPT ![i].remaining = @ - 1, ![i].unresolved = IF details THEN @ - 1 ELSE @]
\* An executable lot fills; a closing one only against the position.
LotFills(i) ==
  LET r == pending[i] IN
  /\ Executable(r) > 0
  /\ r.closing => r.side * holding < 0
  /\ holding' = holding + r.side
  /\ pending' = AfterFill(i, FALSE)
  /\ UNCHANGED asked
\* The details of a fill that was reported without them arrive.
DetailsArrive(i) ==
  LET r == pending[i] IN
  /\ r.unresolved > 0
  /\ holding' = holding + r.side
  /\ pending' = AfterFill(i, TRUE)
  /\ UNCHANGED asked
\* An order is canceled: what could still execute is released.
Release(i) ==
  /\ Executable(pending[i]) > 0
  /\ pending' = [pending EXCEPT ![i].remaining = pending[i].unresolved]
  /\ UNCHANGED <<holding, asked>>
MarginNext == \E i \in DOMAIN pending : LotFills(i) \/ DetailsArrive(i) \/ Release(i)
MarginSpec == MarginInit /\ [][MarginNext]_marginVars

-----------------------------------------------------------------------------
MarginTypeOK ==
  /\ holding \in Int /\ Len(pending) <= MaxPending
  /\ \A i \in DOMAIN pending : pending[i] \in Reservations

\* The position never leaves what the first estimate allowed for, in whatever
\* order the pending orders fill.
WorstCovers == asked.short <= holding /\ holding <= asked.long

\* Fills and cancels never make a later estimate wider than an earlier one.
NeverWider == WorstLong <= asked.long /\ WorstShort >= asked.short

\* The maintenance asked for is that of the tier of the worst position: no
\* position on the way would need more.
Charge(amount) == amount * TierOf(amount).rate - TierOf(amount).deduction * 100
MaintenanceCovers == asked.known => asked.maintenance >= Charge(Abs(holding) * MarkNow)

\* What holds of the venue's table of tiers and no code checks: where a tier
\* ends, it charges no more than any higher one.
TiersMeet ==
  \A i \in DOMAIN Tiers : \A j \in DOMAIN Tiers :
    i < j => Tiers[i].cap * Tiers[i].rate - Tiers[i].deduction * 100
               <= Tiers[i].cap * Tiers[j].rate - Tiers[j].deduction * 100

\* The estimate covers the position after any fills that may follow and the
\* maintenance of all of them, and no fill makes it wider (estimate).
EstimateCovers == MarginTypeOK /\ WorstCovers /\ NeverWider /\ MaintenanceCovers
=============================================================================
