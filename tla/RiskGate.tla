----------------------------- MODULE RiskGate ------------------------------
(***************************************************************************)
(* The pre-trade gate (risk/manager.py, limits.py, sizer.py): the checks   *)
(* in their order and the size of an entry.  A lot is the unit of          *)
(* quantity, so a quotient of the caps rounds down to lots; fractions are  *)
(* in thousandths.                                                         *)
(*                                                                         *)
(* A context is what the caller knows when it asks; every one of a bounded *)
(* set is evaluated.  `faults' are the checks without arithmetic that fail *)
(* in it.                                                                  *)
(***************************************************************************)
EXTENDS Integers, Sequences, FiniteSets, FiniteSetsExt, Lots

CONSTANTS
  PerTrade, DailyLoss, Drawdown,   \* fractions of the configuration
  MaxGross, MaxSymbol, MaxDepth,
  MaxOrderUsdt, MaxTotalUsdt, MaxLossUsdt,  \* absolute caps, or NoCap
  MinLots, MaxLots, MinNotional,   \* of the instrument
  Equities, Baselines, Flows, EntryPrices, Stops, Costs, Pendings, Depths, Wants, Budgets

NoCap == -1
Unknown == -1      \* a field of the context that is None

ASSUME RiskGateAssumption ==
  /\ {PerTrade, DailyLoss, Drawdown, MaxGross, MaxSymbol, MaxDepth} \subseteq 0..1000
  /\ {MaxOrderUsdt, MaxTotalUsdt, MaxLossUsdt} \subseteq Nat \cup {NoCap}
  /\ {MinLots, MaxLots, MinNotional} \subseteq Nat
  /\ EntryPrices \subseteq Nat \ {0}
  /\ {Costs, Pendings} \subseteq SUBSET Nat
  /\ {Equities, Baselines, Flows, Stops, Depths, Wants, Budgets} \subseteq SUBSET Int
  /\ {} \notin {EntryPrices, Costs, Pendings, Equities, Baselines, Flows, Stops, Depths,
                 Wants, Budgets}

\* evaluate_pre_trade takes them in this order; the arithmetic of daily loss
\* and drawdown comes last.
Checks == <<"LIVE_NOT_ENABLED", "RECONCILIATION_INCOMPLETE", "LATCH_ACTIVE", "NON_FINITE",
            "DUPLICATE_INTENT", "MAX_ENTRY_ORDERS_PER_SYMBOL", "MAX_OPEN_ORDERS_ACCOUNT",
            "SPREAD_TOO_WIDE", "STALE_MARKET_DATA", "STALE_MARK_PRICE",
            "STALE_PRIVATE_HEARTBEAT", "STALE_INGRESS", "CLOCK_OFFSET_TOO_HIGH">>
Faults == {Checks[i] : i \in DOMAIN Checks}

VARIABLES ctx, decision
vars == <<ctx, decision>>

Approve(lots) == [approved |-> TRUE, reason |-> "OK", lots |-> lots]
Reject(reason) == [approved |-> FALSE, reason |-> reason, lots |-> 0]
----------------------------------------------------------------------------
(* RiskLimits.                                                             *)

\* The first check of the list that fails.
FirstFault(c) ==
  Checks[CHOOSE i \in DOMAIN Checks :
           Checks[i] \in c.faults /\ \A j \in 1..i - 1 : Checks[j] \notin c.faults]

\* (faulty) a deposit during the day hides a loss.
LossWithoutFlow(c) == Larger(0, c.baseline - c.equity)

Loss(c) == Larger(0, c.baseline + c.flow - c.equity)

CheckDailyLoss(c) ==
  CASE c.baseline <= 0 -> "BASELINE_EQUITY_ZERO_OR_NEGATIVE"
    [] c.baseline > 0 /\ Loss(c) * 1000 > DailyLoss * c.baseline ->
         "DAILY_LOSS_LIMIT_EXCEEDED"
    [] c.baseline > 0 /\ Loss(c) * 1000 <= DailyLoss * c.baseline
         /\ MaxLossUsdt # NoCap /\ Loss(c) > MaxLossUsdt -> "MAX_DAILY_LOSS_USDT_EXCEEDED"
    [] OTHER -> "OK"

CheckDrawdown(c) ==
  CASE c.peak <= 0 -> "PEAK_EQUITY_ZERO_OR_NEGATIVE"
    [] c.peak > 0 /\ Larger(0, c.peak - c.equity) * 1000 > Drawdown * c.peak ->
         "PEAK_DRAWDOWN_EXCEEDED"
    [] OTHER -> "OK"

EvaluatePreTrade(c) ==
  IF c.faults # {} THEN FirstFault(c)
    ELSE IF CheckDailyLoss(c) # "OK" THEN CheckDailyLoss(c) ELSE CheckDrawdown(c)

CheckStopDistance(c) ==
  CASE c.stop = Unknown -> "OK"
    [] c.stop # Unknown /\ c.stop <= 0 -> "INVALID_STOP_DISTANCE"
    [] c.stop >= c.price -> "STOP_DISTANCE_EXCEEDS_PRICE"
    [] OTHER -> "OK"

CheckNotionalCaps(c, notional) ==
  CASE MaxOrderUsdt # NoCap /\ notional > MaxOrderUsdt -> "MAX_ORDER_NOTIONAL_USDT_EXCEEDED"
    [] MaxTotalUsdt # NoCap /\ c.pending + notional > MaxTotalUsdt ->
         "MAX_TOTAL_NOTIONAL_USDT_EXCEEDED"
    [] OTHER -> "OK"

CheckExposure(c, notional) ==
  CASE c.equity <= 0 -> "ZERO_EQUITY"
    [] c.equity > 0 /\ (c.pending + notional) * 1000 > MaxGross * c.equity ->
         "MAX_GROSS_NOTIONAL_EXCEEDED"
    [] OTHER -> "OK"
----------------------------------------------------------------------------
(* RiskSizer and Risk.evaluate.                                            *)

\* Notional left under a fraction of the equity.
Remaining(c, fraction, used) ==
  IF c.equity <= 0 THEN 0 ELSE Larger(0, (c.equity * fraction) \div 1000 - used)

RiskCash(c) == IF c.budget # Unknown THEN c.budget ELSE (c.equity * PerTrade) \div 1000
StopDistance(c) == IF c.stop # Unknown THEN c.stop ELSE 1

\* (faulty) the symbol's own limit is left to the account's.
CapsOfAccount(c) ==
  {RiskCash(c) \div (StopDistance(c) + c.cost), MaxLots,
   Remaining(c, MaxGross, c.pending) \div c.price}
    \cup (IF c.want # Unknown THEN {c.want} ELSE {})
    \cup (IF MaxOrderUsdt # NoCap THEN {MaxOrderUsdt \div c.price} ELSE {})
    \cup (IF MaxTotalUsdt # NoCap THEN {(MaxTotalUsdt - c.pending) \div c.price} ELSE {})
    \cup (IF c.depth > 0 THEN {(c.depth * MaxDepth) \div 1000} ELSE {})

\* Lots each cap leaves.
Caps(c) ==
  {RiskCash(c) \div (StopDistance(c) + c.cost), MaxLots,
   Remaining(c, MaxGross, c.pending) \div c.price,
   Remaining(c, MaxSymbol, c.symbol) \div c.price}
    \cup (IF c.want # Unknown THEN {c.want} ELSE {})
    \cup (IF MaxOrderUsdt # NoCap THEN {MaxOrderUsdt \div c.price} ELSE {})
    \cup (IF MaxTotalUsdt # NoCap THEN {(MaxTotalUsdt - c.pending) \div c.price} ELSE {})
    \cup (IF c.depth > 0 THEN {(c.depth * MaxDepth) \div 1000} ELSE {})

CalculateSize(c) ==
  IF StopDistance(c) <= 0 THEN Reject("INVALID_STOP_DISTANCE")
    ELSE IF RiskCash(c) <= 0 THEN Reject("ZERO_RISK_BUDGET")
    ELSE IF MaxTotalUsdt # NoCap /\ MaxTotalUsdt <= c.pending
           THEN Reject("MAX_TOTAL_NOTIONAL_USDT_EXCEEDED")
    ELSE IF Min(Caps(c)) < Larger(1, MinLots) THEN Reject("BELOW_MINIMUM_AFTER_RISK_CAP")
    ELSE IF Min(Caps(c)) * c.price < MinNotional THEN Reject("BELOW_MIN_NOTIONAL")
    ELSE Approve(Min(Caps(c)))

\* Exits and cancels pass whatever is latched, without a size.
Evaluate(c) ==
  LET size == CalculateSize(c)
      refusals == <<EvaluatePreTrade(c),
                    IF c.listed THEN "OK" ELSE "INSTRUMENT_UNAVAILABLE",
                    CheckStopDistance(c), size.reason,
                    CheckNotionalCaps(c, size.lots * c.price),
                    CheckExposure(c, size.lots * c.price)>>
      failed == {i \in DOMAIN refusals : refusals[i] # "OK"}
  IN  IF c.action # "ENTER" THEN Approve(0)
        ELSE IF failed = {} THEN size ELSE Reject(refusals[Min(failed)])
----------------------------------------------------------------------------
None == [approved |-> FALSE, reason |-> "NONE", lots |-> 0]

Context ==
  [action : {"ENTER"}, faults : {{}}, listed : {TRUE}, equity : Equities,
   baseline : Baselines, flow : Flows, peak : Baselines, price : EntryPrices, stop : Stops,
   cost : Costs, pending : Pendings, symbol : Pendings, depth : Depths, want : Wants,
   budget : Budgets]

\* What is wrong with a context besides its amounts: nothing, one or two
\* checks, an unlisted instrument; and exits.
Variations == {[action |-> a, faults |-> f, listed |-> l] :
                 a \in {"ENTER", "EXIT", "CANCEL_ENTRY"}, l \in BOOLEAN,
                 f \in {{}} \cup {{x, y} : x, y \in Faults}}

Init ==
  /\ decision = None
  /\ \/ ctx \in Context /\ ctx.symbol <= ctx.pending
     \/ \E base \in {CHOOSE c \in Context : TRUE}, v \in Variations :
          ctx = [base EXCEPT !.action = v.action, !.faults = v.faults, !.listed = v.listed]

Next == decision = None /\ decision' = Evaluate(ctx) /\ UNCHANGED ctx

Spec == Init /\ [][Next]_vars
----------------------------------------------------------------------------
Entered == decision.approved /\ ctx.action = "ENTER"

\* An approved entry loses at its stop no more than the risk budget of the
\* trade, costs included, and with it no limit of the account, of the symbol,
\* of one order or of the strategy's own wish is passed: sizing rounds down.
ApprovedWithinLimits ==
  Entered =>
    /\ decision.lots * (StopDistance(ctx) + ctx.cost) <= RiskCash(ctx)
    /\ (ctx.pending + decision.lots * ctx.price) * 1000 <= MaxGross * ctx.equity
    /\ (ctx.symbol + decision.lots * ctx.price) * 1000 <= MaxSymbol * ctx.equity
    /\ MaxOrderUsdt # NoCap => decision.lots * ctx.price <= MaxOrderUsdt
    /\ MaxTotalUsdt # NoCap => ctx.pending + decision.lots * ctx.price <= MaxTotalUsdt
    /\ ctx.want # Unknown => decision.lots <= ctx.want
    /\ decision.lots \in Larger(1, MinLots)..MaxLots

\* No entry passes once what the account lost since the session began, its
\* deposits taken out, exceeds the daily limit, or its peak the drawdown.
LossStopsEntries ==
  Entered =>
    /\ (ctx.baseline + ctx.flow - ctx.equity) * 1000 <= DailyLoss * ctx.baseline
    /\ (ctx.peak - ctx.equity) * 1000 <= Drawdown * ctx.peak
    /\ MaxLossUsdt # NoCap => ctx.baseline + ctx.flow - ctx.equity <= MaxLossUsdt

============================================================================
