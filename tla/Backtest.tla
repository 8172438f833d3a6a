------------------------------- MODULE Backtest -------------------------------
(***************************************************************************)
(* research/backtest.py and research/metrics.py: one run over the events   *)
(* of a dataset and the report made of its trade trace and equity curve.   *)
(* The venue is reduced to what the run sees of it (SimVenue has the rest):*)
(* an order fills at the next event's price, and its fill is reported with *)
(* that event or Delay events later.                                       *)
(*                                                                         *)
(* Fees are one per fill and funding one per payment.  Prices are          *)
(* multiples of 12, so that averages of up to four lots are whole.         *)
(***************************************************************************)
EXTENDS Integers, Sequences, FiniteSets, SequencesExt

CONSTANTS Prices, Lots,
          Delay,        \* events between a fill and its report
          Liquidates,   \* TRUE: the margin may be breached
          ForcedCloses, \* values of forced_close_at_end
          Fundings,     \* funding rates' signs, 0 for none
          MaxEvents

BacktestAssumption ==
  /\ \A p \in Prices : p \in Nat /\ p % 12 = 0
  /\ Lots \subseteq Nat \ {0} /\ Delay \in Nat /\ MaxEvents \in Nat

VARIABLES venue,    \* position, entry price, orders under way, reports under way
          trace,    \* trade_trace
          cash,     \* current_cash
          funding,  \* total_funding
          curve,    \* equity_curve
          steps, ended

vars == <<venue, trace, cash, funding, curve, steps, ended>>

Start == 1000
Signed(f) == IF f.buy THEN f.lots ELSE -f.lots
TrueSide(f) == IF f.bought THEN f.lots ELSE -f.lots
Total(S(_), s) == FoldLeft(LAMBDA n, f : n + S(f), 0, s)
Amount(n) == IF n < 0 THEN -n ELSE n

Init ==
  /\ venue = [pos |-> 0, entry |-> 0, mark |-> 0, liquidated |-> FALSE, orders |-> <<>>,
              reports |-> <<>>, paid |-> <<>>]
  /\ trace = <<>> /\ cash = Start /\ funding = 0 /\ curve = <<Start>>
  /\ steps = 0 /\ ended = FALSE
----------------------------------------------------------------------------
(* The venue.                                                              *)

\* The side of a fill is known to the venue; the report does not name it.
Fill(order, price) == [order |-> order.id, bought |-> order.buy, lots |-> order.lots,
                       price |-> price, due |-> steps + Delay]

\* SimVenue._update_position keeps the entry price of a position that turns.
Moved(v, bought, lots, price) ==
  LET delta == IF bought THEN lots ELSE -lots
      grows == (v.pos >= 0 /\ delta > 0) \/ (v.pos <= 0 /\ delta < 0)
  IN  [v EXCEPT !.pos = @ + delta,
                !.entry = IF grows THEN (Amount(v.pos) * @ + lots * price) \div Amount(v.pos + delta)
                          ELSE @]

RunOrder(v, order, price) ==
  [Moved(v, order.buy, order.lots, price) EXCEPT !.reports = Append(@, Fill(order, price))]

\* The position is taken away and its fill reported as order LIQUIDATION.
Liquidated(v, price) ==
  [v EXCEPT !.liquidated = TRUE, !.pos = 0,
     !.reports = Append(@, Fill([id |-> "LIQUIDATION", buy |-> v.pos < 0, lots |-> Amount(v.pos)],
                                price))]

\* on_market, with a payment of the position's sign against the rate's.
Market(v, price, rate) ==
  [v EXCEPT !.mark = price,
            !.paid = IF rate = 0 \/ v.pos = 0 THEN <<>>
                     ELSE <<IF (rate > 0) = (v.pos > 0) THEN -1 ELSE 1>>]

\* advance: the orders under way arrive.
Arrived(v, price) ==
  FoldLeft(LAMBDA w, o : RunOrder(w, o, price), [v EXCEPT !.orders = <<>>], v.orders)
----------------------------------------------------------------------------
(* The run.                                                                *)

\* The side an order was sent with; BUY for an order the run did not send.
Side(f) == IF f.order = "LIQUIDATION" THEN TRUE ELSE f.bought

Traded(f) == [buy |-> Side(f), bought |-> f.bought, lots |-> f.lots, price |-> f.price]

Notional(f) == IF Side(f) THEN -f.lots * f.price ELSE f.lots * f.price

DueReports(v) == SelectSeq(v.reports, LAMBDA f : f.due <= steps)
Later(v) == SelectSeq(v.reports, LAMBDA f : f.due > steps)

Unrealized(v) == IF v.pos # 0 /\ v.mark > 0 /\ v.entry > 0
                   THEN (v.mark - v.entry) * v.pos ELSE 0

\* One event: the market, the venue's outputs, the strategy and the curve.
\* A liquidated venue refuses what is submitted.
Step(price, rate, breached, intent) ==
  LET marked  == Market(venue, price, rate)
      checked == IF breached THEN Liquidated(marked, price) ELSE marked
      v       == Arrived(checked, price)
      fills   == DueReports(v)
      earned  == Total(LAMBDA p : p, v.paid)
      kept    == [v EXCEPT !.reports = Later(v), !.paid = <<>>,
                           !.orders = IF v.liquidated THEN <<>> ELSE intent]
  IN  /\ ~ended /\ steps < MaxEvents
      /\ breached => Liquidates /\ venue.pos # 0 /\ ~venue.liquidated
      /\ steps' = steps + 1
      /\ venue' = kept
      /\ trace' = trace \o [k \in DOMAIN fills |-> Traded(fills[k])]
      /\ cash' = cash + Total(Notional, fills) - Len(fills) + earned
      /\ funding' = funding + earned
      /\ curve' = Append(curve, cash' + Unrealized(v))
      /\ UNCHANGED ended

Intent == {<<>>} \union {<<[id |-> "o", buy |-> b, lots |-> n]>> : b \in BOOLEAN, n \in Lots}

\* A forced close is traced after the venue has closed the position, and the
\* reports still under way are never read.
End(forced) ==
  LET closes == forced /\ venue.pos # 0
      closed == [buy |-> TRUE, bought |-> venue.pos < 0, lots |-> Amount(venue.pos),
                 price |-> venue.mark]
  IN  /\ ~ended /\ steps > 0 /\ ended' = TRUE
      /\ trace' = IF closes THEN Append(trace, closed) ELSE trace
      /\ venue' = IF closes THEN [venue EXCEPT !.pos = 0, !.orders = <<>>]
                  ELSE [venue EXCEPT !.orders = <<>>]
      /\ UNCHANGED <<cash, funding, curve, steps>>

Next ==
  \/ \E price \in Prices, rate \in Fundings, breached \in BOOLEAN, intent \in Intent :
       Step(price, rate, breached, intent)
  \/ \E forced \in ForcedCloses : End(forced)

Spec == Init /\ [][Next]_vars
----------------------------------------------------------------------------
(* BacktestMetrics.calculate.                                              *)

Flat == [lots |-> 0, cost |-> 0, pnls |-> <<>>]

Opened(b, f) == [b EXCEPT !.lots = @ + Signed(f), !.cost = @ + f.lots * f.price]

\* (faulty) what turns the position keeps the average of what it closed.
TurnedAtAverage(b, f) ==
  LET closed  == IF f.lots < Amount(b.lots) THEN f.lots ELSE Amount(b.lots)
      average == b.cost \div Amount(b.lots)
      sign    == IF b.lots > 0 THEN 1 ELSE -1
  IN  [lots |-> b.lots + Signed(f),
       cost |-> Amount(b.lots + Signed(f)) * average,
       pnls |-> Append(b.pnls, sign * (f.price - average) * closed)]

\* What is left of the fill after the close opens a position at its price.
ClosedBy(b, f) ==
  LET closed  == IF f.lots < Amount(b.lots) THEN f.lots ELSE Amount(b.lots)
      average == b.cost \div Amount(b.lots)
      sign    == IF b.lots > 0 THEN 1 ELSE -1
      rest    == f.lots - closed
  IN  [lots |-> b.lots + Signed(f),
       cost |-> IF rest > 0 THEN rest * f.price ELSE b.cost - average * closed,
       pnls |-> Append(b.pnls, sign * (f.price - average) * closed)]

Booked(b, f) ==
  IF b.lots = 0 \/ (b.lots > 0) = f.buy THEN Opened(b, f) ELSE ClosedBy(b, f)

Book == FoldLeft(Booked, Flat, trace)

NetPnl == Total(LAMBDA p : p, Book.pnls) - Len(trace) + funding
FinalBalance == Start + NetPnl

Fall(d, equity) ==
  LET peak == IF equity > d.peak THEN equity ELSE d.peak
  IN  [peak |-> peak, most |-> IF peak - equity > d.most THEN peak - equity ELSE d.most]

MaxDrawdown == FoldLeft(Fall, [peak |-> curve[1], most |-> 0], curve).most
----------------------------------------------------------------------------
(* Properties.                                                             *)

\* The lots of the trace and of the fills still to be reported are the
\* position the venue holds.
TraceIsPosition == Total(Signed, trace) + Total(TrueSide, venue.reports) = venue.pos

\* BacktestMetrics.calculate: over any trace of additions, partial closes and
\* turns, realized results and the cost of what is open are the money that
\* changed hands.
RealizedIsFlows ==
  LET flow(f) == IF f.buy THEN -f.lots * f.price ELSE f.lots * f.price
      b       == Book
  IN  Total(LAMBDA p : p, b.pnls) - (IF b.lots > 0 THEN b.cost ELSE -b.cost) = Total(flow, trace)

\* A report on a run that ended flat: the equity curve ends at the balance
\* the metrics report.
CurveEndsAtBalance ==
  venue.pos = 0 /\ venue.reports = <<>> /\ ~venue.liquidated /\ ~(TRUE \in ForcedCloses) =>
    Last(curve) = FinalBalance

\* The greatest fall between any point of the curve and a later one.
DrawdownIsGreatest ==
  LET later == {curve[p[1]] - curve[p[2]] :
                  p \in {q \in (DOMAIN curve) \X (DOMAIN curve) : q[1] <= q[2]}}
  IN  MaxDrawdown \in later /\ \A x \in later : x <= MaxDrawdown

=============================================================================
