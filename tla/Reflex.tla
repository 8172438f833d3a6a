------------------------------- MODULE Reflex -------------------------------
(***************************************************************************)
(* The event-driven tuner of the live runner: what a closed trade, a wide  *)
(* spread and the operator do to the parameters of one instrument, and     *)
(* what the legacy scalper that reads them is left with.  Multipliers and  *)
(* thresholds are in hundredths, spreads in tenths of a basis point.       *)
(***************************************************************************)
EXTENDS Integers

CONSTANTS
  Baseline,   \* parameters of the instrument at the start
  LeastWait,  \* its shortest cooldown after a profit
  AuditAtr, AuditThreshold, \* ranges <<low, high>> of a micro audit
  Configs,    \* parameters an operator applies
  Spreads     \* spreads of a book
Ranges == AuditAtr[1] <= AuditAtr[2] /\ AuditThreshold[1] <= AuditThreshold[2]

VARIABLES
  params,    \* instrument_params[symbol]
  strat,     \* threshold and target of the scalper
  tuning,    \* event_auto_tuner_enabled
  spread     \* the spread of the last book
vars == <<params, strat, tuning, spread>>

Least(a, b) == IF a <= b THEN a ELSE b
Most(a, b) == IF a >= b THEN a ELSE b
Within(range, x) == Most(range[1], Least(range[2], x))
Parameters == [atr : Nat, wait : Nat, threshold : Nat, maker : BOOLEAN, shock : BOOLEAN]
Synced(p) == [threshold |-> p.threshold, atr |-> p.atr]

TypeOK ==
  /\ params \in Parameters
  /\ strat \in [threshold : Nat, atr : Nat]
  /\ tuning \in BOOLEAN /\ spread \in Spreads

Init ==
  /\ params = [Baseline EXCEPT !.maker = TRUE, !.shock = FALSE] /\ strat = Synced(params)
  /\ tuning = TRUE /\ spread \in Spreads

-----------------------------------------------------------------------------
\* The spread shock part of process_book_update: the scalper takes the
\* parameters of its instrument, and a shock that begins raises its threshold.
ShockBegins(s) == tuning /\ s > 25 /\ ~params.shock
ShockEnds(s) == tuning /\ s <= 15 /\ params.shock
Raised(threshold) == Least(65, threshold + 10)
BookUpdate ==
  \E s \in Spreads :
    /\ spread' = s
    /\ params' = [params EXCEPT !.shock = (@ \/ ShockBegins(s)) /\ ~ShockEnds(s)]
    /\ strat' = [Synced(params) EXCEPT !.threshold = IF ShockBegins(s) THEN Raised(@) ELSE @]
    /\ UNCHANGED tuning

\* _trigger_post_trade_reflex
Friction(gross, net) == gross > 0 /\ net < 0
Chop(gross, net, quick) == ~Friction(gross, net) /\ net < 0 /\ quick
Profit(net) == net > 0
Widened(p) == [p EXCEPT !.atr = Least(500, @ + 25), !.maker = TRUE]
Throttled(p) == [p EXCEPT !.wait = Least(180, @ + 15), !.threshold = Least(60, @ + 5)]
Relaxed(p) == [p EXCEPT !.wait = IF @ > LeastWait THEN Most(LeastWait, @ - 10) ELSE @]
Adapted(p, gross, net, quick) ==
  IF Friction(gross, net) THEN Widened(p)
  ELSE IF Chop(gross, net, quick) THEN Throttled(p)
  ELSE IF Profit(net) THEN Relaxed(p) ELSE p
TradeCloses(gross, net, quick) ==
  /\ tuning
  /\ params' = Adapted(params, gross, net, quick)
  /\ strat' = Synced(params')
  /\ UNCHANGED <<tuning, spread>>
Closed == \E gross, net \in {-1, 0, 1}, quick \in BOOLEAN : net <= gross /\ TradeCloses(gross, net, quick)

\* apply_ai_strategy as its route calls it: any target and cooldown, unchecked.
ApplyConfig ==
  \E c \in Configs :
    /\ params' = [params EXCEPT !.atr = c.atr, !.wait = c.wait, !.maker = c.maker]
    /\ strat' = Synced(params')
    /\ UNCHANGED <<tuning, spread>>

\* manual_trigger_reflex of RESET_BASELINE and of the other action types.
ResetBaseline ==
  /\ params' = [Baseline EXCEPT !.maker = TRUE, !.shock = FALSE] /\ strat' = Synced(params')
  /\ tuning' = TRUE /\ UNCHANGED spread
MicroAudit ==
  /\ params' = [params EXCEPT !.atr = Within(AuditAtr, @), !.threshold = Within(AuditThreshold, @)]
  /\ strat' = Synced(params')
  /\ UNCHANGED <<tuning, spread>>

\* toggle_reflex_tuner
ToggleTuner == tuning' \in BOOLEAN /\ UNCHANGED <<params, strat, spread>>

Next == \/ BookUpdate \/ Closed \/ ApplyConfig \/ ResetBaseline \/ MicroAudit \/ ToggleTuner
Spec == Init /\ [][Next]_vars

-----------------------------------------------------------------------------
\* The scalper's parameters differ from its instrument's only by the raise of
\* a shock that is still on; no path may forget to hand a change over.
ScalperFollows ==
  /\ strat.atr = params.atr
  /\ strat.threshold # params.threshold => params.shock /\ strat.threshold = Raised(params.threshold)

\* However trades, audits and operators alternate, what the operator's choices
\* and the baseline keep within the limits stays there.
StaysTuned ==
  /\ params.atr <= 500 /\ params.threshold <= 60
  /\ params.wait >= LeastWait /\ params.wait <= 180

\* A shock is left only by a book with a normal spread or by the operator.
ShockHolds ==
  [][params.shock /\ ~params'.shock /\ tuning /\ params' # [Baseline EXCEPT !.maker = TRUE]
       => spread' <= 15]_vars

=============================================================================
