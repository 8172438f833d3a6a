--------------------------- MODULE AlphaPosition ---------------------------
(***************************************************************************)
(* The position a UnifiedAgenticAlphaEngine believes it holds              *)
(* (strategies/unified_agentic.py): its bracket of stop and targets, the   *)
(* ratchets that tighten the stop, the exit vectors and the cooldown after *)
(* an exit.  Whether the runner really opened it is the subject of         *)
(* LiveRunner.                                                             *)
(*                                                                         *)
(* Prices are whole basis points of a reference price of 10000; levels     *)
(* derived from them (stops, targets) are ten-thousandths of that, so the  *)
(* code's decimal factors (1.0008, 0.0035, ...) stay exact.  Time is in    *)
(* minutes.                                                                *)
(***************************************************************************)
EXTENDS Integers

CONSTANTS Mids,      \* mid prices of the book
          Atrs,      \* values of atr14, in basis points of the reference
          Trails,    \* chandelier stops, 0 when the feature is missing
          Depths,    \* depth5_imbalance in hundredths
          Elapses    \* minutes between two evaluations
Inputs == /\ Mids \subseteq Nat \ {0} /\ Atrs \subseteq Nat \ {0}
                 /\ Trails \subseteq Nat /\ Depths \subseteq Int /\ Elapses \subseteq Nat

VARIABLES
  pos,        \* position_side .. breakeven_active, Flat without a position
  held,       \* minutes since the entry
  idle,       \* minutes since the last exit, capped at MaxIdle
  cooldown,   \* params.entry_cooldown_s in seconds
  losses      \* params.consecutive_losses, capped at MaxLosses
vars == <<pos, held, idle, cooldown, losses>>

Sides == {"BUY", "SELL"}
Flat == [side |-> "NONE"]
Fine(p) == p * 10000
Sign(side) == IF side = "BUY" THEN 1 ELSE -1
LongestHold == 61       \* longer holds are treated alike
MaxIdle == 5        \* longer than any cooldown
MaxLosses == 5      \* the backoff is constant from four losses on

\* The tighter of two stops.
Tighter(side, a, b) == IF Sign(side) * a >= Sign(side) * b THEN a ELSE b
\* How far level a lies beyond level b in the direction of the position.
Beyond(side, a, b) == Sign(side) * (a - b)
Gains(p, mid, bps) == Sign(p.side) * (mid - p.entry) * 10000 >= bps * p.entry
Loses(p, mid, bps) == Sign(p.side) * (mid - p.entry) * 10000 < bps * p.entry
FlatWithin(p, mid, bps) == /\ Gains(p, mid, -bps)
                           /\ Loses(p, mid, bps) \/ Sign(p.side) * (mid - p.entry) * 10000 = bps * p.entry
\* Entry plus a locked gain of bps.
Locked(p, bps) == p.entry * (10000 + Sign(p.side) * bps)

TypeOK ==
  /\ pos = Flat \/ /\ pos.side \in Sides /\ pos.entry \in Mids
                   /\ {pos.stop, pos.tp1, pos.target} \subseteq Nat
                   /\ {pos.tp1Hit, pos.breakeven} \subseteq BOOLEAN
  /\ held \in 0 .. LongestHold
  /\ idle \in 0 .. MaxIdle
  /\ cooldown \in {20, 45, 90, 180, 240}
  /\ losses \in 0 .. MaxLosses

Init == pos = Flat /\ held = 0 /\ idle = MaxIdle /\ cooldown = 45 /\ losses = 0

-----------------------------------------------------------------------------

\* The two ratchets that precede the exit vectors.
Breakeven(p, mid) ==
  IF Gains(p, mid, 15)
  THEN [p EXCEPT !.stop = Tighter(p.side, @, Locked(p, 8)), !.breakeven = TRUE]
  ELSE p
\* (faulty) any trail on the right side of the price is taken.
TrailedAlways(p, mid, trail) ==
  IF trail # 0 /\ Sign(p.side) * (mid - trail) > 0
  THEN [p EXCEPT !.stop = Fine(trail)]
  ELSE p
Trailed(p, mid, trail) ==
  IF /\ trail # 0
     /\ Sign(p.side) * (trail - p.entry) > 0
     /\ Sign(p.side) * (mid - trail) > 0
  THEN [p EXCEPT !.stop = Tighter(p.side, @, Fine(trail))]
  ELSE p

StopHit(p, mid) == Beyond(p.side, Fine(mid), p.stop) <= 0
TargetHit(p, mid) == Beyond(p.side, Fine(mid), p.target) >= 0
\* The first target does not exit: it moves the stop to a locked gain.
FirstTarget(p, mid) ==
  IF ~p.tp1Hit /\ Beyond(p.side, Fine(mid), p.tp1) >= 0
  THEN [p EXCEPT !.tp1Hit = TRUE, !.stop = Tighter(p.side, @, Locked(p, 12))]
  ELSE p

\* Depth against the position, by at least d hundredths.
Adverse(p, depth, d) == Sign(p.side) * depth <= -d
Climax(p, mid, depth, outflow) == Gains(p, mid, 10) /\ (Adverse(p, depth, 45) \/ outflow)
Decelerates(p, mid, fading) == Gains(p, mid, 12) /\ fading
Stalls(p, mid, minutes, depth, fading) ==
  /\ minutes >= 3 /\ minutes < 20
  /\ Loses(p, mid, 3)
  /\ (fading /\ Adverse(p, depth, 20)) \/ Adverse(p, depth, 40)
TimedOut(p, mid, minutes) ==
  /\ minutes >= 20
  /\ Gains(p, mid, 10) \/ FlatWithin(p, mid, 15) \/ minutes >= 30

Exits(p, mid, minutes, depth, fading, outflow) ==
  \/ StopHit(p, mid)
  \/ TargetHit(p, mid)
  \/ Climax(p, mid, depth, outflow)
  \/ Decelerates(p, mid, fading)
  \/ Stalls(p, mid, minutes, depth, fading)
  \/ TimedOut(p, mid, minutes)

\* The exit clears the position first; the runner then reports the trade
\* (record_trade_exit), whose result sets the pause before the next entry.
Backoff(n) == CASE n <= 1 -> 45 [] n = 2 -> 90 [] n = 3 -> 180 [] OTHER -> 240
RecordTradeExit(won) ==
  IF won
  THEN losses' = 0 /\ cooldown' = 20
  ELSE /\ losses' = IF losses = MaxLosses THEN MaxLosses ELSE losses + 1
       /\ cooldown' = Backoff(losses')

Capped(n, cap) == IF n > cap THEN cap ELSE n

\* on_event with a position: one evaluation after some minutes.
Manage ==
  \E mid \in Mids, trail \in Trails, depth \in Depths, minutes \in Elapses,
     fading, outflow \in BOOLEAN :
    LET age == Capped(held + minutes, LongestHold)
        p == Trailed(Breakeven(pos, mid), mid, trail)
    IN /\ pos # Flat
       /\ IF Exits(p, mid, age, depth, fading, outflow)
          THEN /\ pos' = Flat /\ held' = 0 /\ idle' = 0
               /\ \E won \in BOOLEAN : RecordTradeExit(won)
          ELSE /\ pos' = FirstTarget(p, mid) /\ held' = age
               /\ idle' = Capped(idle + minutes, MaxIdle)
               /\ UNCHANGED <<cooldown, losses>>

-----------------------------------------------------------------------------
AtLeast(a, b) == IF a >= b THEN a ELSE b
StopDistance(mid, atr) == AtLeast(atr * 12000, mid * 35)
\* A chandelier stop is used when it is neither too near nor too far.
TrailUsable(side, mid, trail) ==
  /\ trail # 0
  /\ Sign(side) * (Fine(mid) - Fine(trail)) >= mid * 35
  /\ Sign(side) * (Fine(mid) - Fine(trail)) <= mid * 300
FirstStop(side, mid, atr, trail) ==
  IF TrailUsable(side, mid, trail)
  THEN Fine(trail)
  ELSE Fine(mid) - Sign(side) * StopDistance(mid, atr)
FirstTargetDistance(mid, atr) == AtLeast(atr * 10000, mid * 35)
TargetDistance(mid, atr) == AtLeast(atr * 15000, mid * 45)
Opened(side, mid, atr, trail) ==
  [side |-> side, entry |-> mid,
   stop |-> FirstStop(side, mid, atr, trail),
   tp1 |-> Fine(mid) + Sign(side) * FirstTargetDistance(mid, atr),
   target |-> Fine(mid) + Sign(side) * TargetDistance(mid, atr),
   tp1Hit |-> FALSE, breakeven |-> FALSE]

\* on_event without a position, after the cooldown, when the compass, the
\* indicators, the order flow and the meta-learner agree on a side.
Enter ==
  \E mid \in Mids, atr \in Atrs, trail \in Trails, side \in Sides :
    /\ pos = Flat
    /\ idle * 60 >= cooldown
    /\ pos' = Opened(side, mid, atr, trail)
    /\ held' = 0
    /\ UNCHANGED <<idle, cooldown, losses>>

\* on_event without a position and without a signal.
Watch ==
  \E minutes \in Elapses :
    /\ pos = Flat
    /\ idle' = Capped(idle + minutes, MaxIdle)
    /\ UNCHANGED <<pos, held, cooldown, losses>>

\* flatten_position of the runner clears the position but not tp1; it
\* reports no trade and sets no time of exit.
Flatten == /\ pos # Flat /\ pos' = Flat /\ held' = 0
           /\ UNCHANGED <<idle, cooldown, losses>>

Next == Manage \/ Enter \/ Watch \/ Flatten
Spec == Init /\ [][Next]_vars

-----------------------------------------------------------------------------
\* A stop only ever tightens while a position lives: no ratchet undoes
\* another, whatever order the levels are reached in.
StopNeverLoosens ==
  [][pos # Flat /\ pos' # Flat =>
       /\ pos'.entry = pos.entry
       /\ Beyond(pos.side, pos'.stop, pos.stop) >= 0]_vars

\* Once breakeven or the first target was reached, the stop keeps the gain
\* that pays the fees, to the end of the position.
GainStaysLocked ==
  pos # Flat =>
    /\ pos.breakeven => Beyond(pos.side, pos.stop, Locked(pos, 8)) >= 0
    /\ pos.tp1Hit => Beyond(pos.side, pos.stop, Locked(pos, 12)) >= 0

\* No position outlives an evaluation thirty minutes after its entry,
\* whatever the price did in between.
HoldIsCapped == pos # Flat => held < 30

=============================================================================
