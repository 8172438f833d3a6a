------------------------------ MODULE SimVenue ------------------------------
(***************************************************************************)
(* simulation/: the simulated venue that paper trading and backtests fill  *)
(* orders at.  The venue is one record, changed by the calls of its user   *)
(* (on_market, submit, advance, on_end_of_data) and by the callbacks of    *)
(* its timeline.                                                           *)
(*                                                                         *)
(* Prices and lots are small integers and 0 is an absent price, as in the  *)
(* code.  A rate r is one part in RateDiv.  Each order is an element of    *)
(* Orders, with its instruction in Instruction.                            *)
(***************************************************************************)
EXTENDS Integers, Sequences, FiniteSets, SequencesExt

CONSTANTS Orders, Price, Books, Instruction, Latency,
          Collateral, RateDiv, TradeLots, FundingSigns, EndModes,
          MaxTime, MaxMarket

VenueAssumption ==
  /\ Instruction \in [Orders -> [buy : BOOLEAN, lots : Nat \ {0}, limit : Nat,
                                 policy : {"MARKET", "LIMIT", "POST_ONLY"},
                                 tif : {"GTC", "IOC", "FOK"}]]
  /\ Latency \in [{"submit", "cancel", "ack", "report"} -> Nat \ {0}]
  /\ RateDiv \in Nat \ {0} /\ Collateral \in Int

VARIABLES v,        \* the venue
          target,   \* how far the timeline was asked to advance
          market,   \* market events so far
          past      \* what happened, for the properties

vars == <<v, target, market, past>>

Level(book) == IF book = <<>> THEN <<0, 0>> ELSE book[1]
BestBid(w) == Level(w.bids)[1]
BestAsk(w) == Level(w.asks)[1]
Opposite(w, buy) == IF buy THEN w.asks ELSE w.bids
Smaller(a, b) == IF a < b THEN a ELSE b
Larger(a, b) == IF a > b THEN a ELSE b
Sign(buy) == IF buy THEN 1 ELSE -1
Distance(n) == IF n < 0 THEN -n ELSE n
----------------------------------------------------------------------------
(* The timeline: callbacks in order of time, then of scheduling.           *)

Schedule(w, delay, what) ==
  [w EXCEPT !.seq = @ + 1,
            !.calls = @ \cup {[time |-> w.now + delay, seq |-> w.seq + 1, what |-> what]}]

NextCall(w) == CHOOSE c \in w.calls : \A d \in w.calls :
                 c.time < d.time \/ (c.time = d.time /\ c.seq <= d.seq)

Report(w, type, order, lots) ==
  Schedule(w, IF type = "fill" THEN Latency["report"] ELSE Latency["ack"],
           [call |-> "deliver", type |-> type, order |-> order, lots |-> lots])
----------------------------------------------------------------------------
(* The liquidity overlay: what was taken from a price since it was shown.  *)

PricesIn(book) == {book[k][1] : k \in DOMAIN book}

Release(used, w) ==
  [buy \in BOOLEAN |-> [p \in Price |-> IF p \in PricesIn(Opposite(w, buy)) THEN 0
                                        ELSE used[buy][p]]]

TryConsume(w, buy, level, lots) ==
  Smaller(lots, Larger(0, level[2] - w.used[buy][level[1]]))

\* taken is history: what was taken from a price since it was last shown.
Take(w, buy, level, n) ==
  [w EXCEPT !.used[buy][level[1]] = @ + n, !.taken[buy][level[1]] = @ + n]
----------------------------------------------------------------------------
(* Position and margin.                                                    *)

Pnl(w) == IF w.pos # 0 /\ w.mark > 0 /\ w.entry > 0
            THEN (w.mark - w.entry) * w.pos ELSE 0

Equity(w) == Collateral + Pnl(w) - w.funding

\* Maintenance and the fee to close are each one rate of the notional.
Breached(w) ==
  /\ w.pos # 0 /\ w.mark # 0 /\ ~w.liquidated
  /\ RateDiv * Equity(w) <= 2 * Distance(w.pos) * w.mark

\* One level of a forced reduction, which is reported but not booked.
ReduceAt(order, buy, c, level) ==
  LET n == TryConsume(c.w, buy, level, c.left) IN
  IF n = 0 THEN c
  ELSE [w |-> Report(Take(c.w, buy, level, n), "fill", order, n),
        left |-> c.left - n]

CheckMargin(w) ==
  IF ~Breached(w) THEN w
  ELSE LET buy == w.pos < 0
           hit == [w EXCEPT !.liquidated = TRUE, !.queue = <<>>]
           end == FoldLeft(LAMBDA c, level : ReduceAt("LIQUIDATION", buy, c, level),
                           [w |-> hit, left |-> Distance(w.pos)],
                           Opposite(w, buy))
       IN  [end.w EXCEPT !.pos = 0, !.unclosed = end.left]

UpdatePosition(w, buy, lots, price) ==
  LET new   == w.pos + Sign(buy) * lots
      grows == w.pos = 0 \/ (w.pos > 0) = buy
  IN  CheckMargin([w EXCEPT !.pos = new,
                            !.entry = IF grows
                                        THEN (Distance(w.pos) * @ + lots * price) \div Distance(new)
                                        ELSE @])
----------------------------------------------------------------------------
(* Resting orders.                                                         *)

Ahead(w, buy, price, displayed) ==
  displayed + FoldLeft(LAMBDA n, q : IF q.buy = buy /\ q.price = price THEN n + q.left ELSE n,
                       0, w.queue)

DisplayedAt(w, buy, price) ==
  LET book == IF buy THEN w.bids ELSE w.asks
  IN  FoldLeft(LAMBDA n, l : IF l[1] = price THEN n + l[2] ELSE n, 0, book)

\* Displayed size is that of the best level, whatever the price.  rested is
\* history: what was displayed at the price, and filled before.
Rest(w, order, lots) ==
  LET i     == Instruction[order]
      best  == IF i.buy THEN Level(w.bids) ELSE Level(w.asks)
      price == IF i.limit # 0 THEN i.limit ELSE best[1]
      q     == [order |-> order, buy |-> i.buy, price |-> price,
                ahead |-> Ahead(w, i.buy, price, best[2]), left |-> lots]
  IN  Report([w EXCEPT !.queue = Append(@, q),
                       !.rested[order] = <<[shown |-> DisplayedAt(w, i.buy, price),
                                            before |-> w.filled[order]]>>],
             "ack", order, 0)

\* apply_trade: each order at the price sees the whole trade.
Reached(q, lots) == Smaller(q.left, Larger(0, lots - q.ahead))

Hit(q, buy, price) == q.buy # buy /\ q.price = price

TradeThrough(q, buy, price, lots) ==
  IF Hit(q, buy, price)
    THEN [q EXCEPT !.ahead = Larger(0, @ - lots), !.left = @ - Reached(q, lots)]
    ELSE q

ApplyTrade(w, buy, price, lots) ==
  [w EXCEPT !.queue = SelectSeq([k \in DOMAIN @ |-> TradeThrough(@[k], buy, price, lots)],
                                LAMBDA q : q.left > 0)]

PassiveFills(w, buy, price, lots) ==
  SelectSeq(w.queue, LAMBDA q : Hit(q, buy, price) /\ Reached(q, lots) > 0)
----------------------------------------------------------------------------
(* Orders.                                                                 *)

Within(i, level) == i.limit = 0 \/ (IF i.buy THEN level[1] <= i.limit ELSE level[1] >= i.limit)

\* The levels up to the limit.
Depth(w, i) ==
  LET book == Opposite(w, i.buy)
      n    == Cardinality({k \in DOMAIN book : \A j \in 1 .. k : Within(i, book[j])})
  IN  SubSeq(book, 1, n)

Crosses(w, i) ==
  /\ i.limit # 0
  /\ IF i.buy THEN BestAsk(w) > 0 /\ i.limit >= BestAsk(w)
              ELSE BestBid(w) > 0 /\ i.limit <= BestBid(w)

FillAt(order, c, level) ==
  LET buy == Instruction[order].buy
      n   == TryConsume(c.w, buy, level, c.left)
  IN  IF n = 0 THEN c
      ELSE [w |-> UpdatePosition(Report([Take(c.w, buy, level, n) EXCEPT !.filled[order] = @ + n],
                                        "fill", order, n),
                                 buy, n, level[1]),
            left |-> c.left - n]

EstimatedPrice(w, i) ==
  IF i.limit # 0 THEN i.limit ELSE IF w.mark # 0 THEN w.mark
  ELSE IF BestAsk(w) # 0 THEN BestAsk(w) ELSE BestBid(w)

HandleNewOrder(w, order) ==
  LET i     == Instruction[order]
      depth == Depth(w, i)
      walk  == FoldLeft(LAMBDA c, level : FillAt(order, c, level), [w |-> w, left |-> i.lots], depth)
  IN  CASE i.lots * EstimatedPrice(w, i) > RateDiv * Equity(w) -> Report(w, "reject", order, i.lots)
        [] i.policy = "POST_ONLY" /\ Crosses(w, i) -> Report(w, "reject", order, i.lots)
        [] ~(i.policy = "MARKET" \/ Crosses(w, i)) -> Rest(w, order, i.lots)
        [] i.tif = "FOK" /\ i.lots > FoldLeft(LAMBDA n, l : n + l[2], 0, depth)
             -> Report(w, "reject", order, i.lots)
        [] walk.left = 0 -> walk.w
        [] i.tif = "IOC" \/ i.policy = "MARKET" -> Report(walk.w, "cancel", order, walk.left)
        [] OTHER -> Rest(walk.w, order, walk.left)

Remaining(w, order) == FoldLeft(LAMBDA n, q : IF q.order = order THEN n + q.left ELSE n, 0, w.queue)

\* (faulty) the report of a cancel tells the size of the order.
CancelWholeOrder(w, order) ==
  Report([w EXCEPT !.queue = SelectSeq(@, LAMBDA q : q.order # order)],
         "cancel", order, Instruction[order].lots)

HandleCancel(w, order) ==
  Report([w EXCEPT !.queue = SelectSeq(@, LAMBDA q : q.order # order)],
         "cancel", order, Remaining(w, order))
----------------------------------------------------------------------------
(* The user of the venue.                                                  *)

Init ==
  /\ v = [now |-> 0, seq |-> 0, calls |-> {}, bids |-> <<>>, asks |-> <<>>, mark |-> 0,
          used |-> [buy \in BOOLEAN |-> [p \in Price |-> 0]], queue |-> <<>>,
          pos |-> 0, entry |-> 0, funding |-> 0, liquidated |-> FALSE, unclosed |-> 0,
          taken |-> [buy \in BOOLEAN |-> [p \in Price |-> 0]],
          rested |-> [o \in Orders |-> <<>>],
          filled |-> [o \in Orders |-> 0]]
  /\ target = 0 /\ market = 0
  /\ past = [submitted |-> {}, canceling |-> {}, arrived |-> {}, reports |-> {},
             printed |-> [o \in Orders |-> 0], ended |-> FALSE]

Due == v.calls # {} /\ NextCall(v).time <= target
Ready == ~Due /\ ~past.ended

Mark(bids, asks, old) ==
  CASE bids # <<>> /\ asks # <<>> -> (bids[1][1] + asks[1][1]) \div 2
    [] bids # <<>> /\ asks = <<>> -> bids[1][1]
    [] bids = <<>> /\ asks # <<>> -> asks[1][1]
    [] OTHER -> old

\* Snapshots, quotes and closed bars replace the book; an update releases the
\* prices it names.
OnBook(book, snapshot) ==
  LET w == [v EXCEPT !.bids = book.bids, !.asks = book.asks,
                     !.mark = Mark(book.bids, book.asks, @)]
      none == [buy \in BOOLEAN |-> [p \in Price |-> 0]]
      fresh(used) == IF snapshot THEN none ELSE Release(used, w)
  IN  /\ Ready /\ market < MaxMarket /\ market' = market + 1
      /\ v' = CheckMargin([w EXCEPT !.used = fresh(@), !.taken = fresh(@)])
      /\ UNCHANGED <<target, past>>

Credit(fills, lots) ==
  [o \in Orders |-> FoldLeft(LAMBDA n, q : IF q.order = o THEN n + Reached(q, lots) ELSE n, 0, fills)]

OnTrade(buy, price, lots) ==
  LET fills  == PassiveFills(v, buy, price, lots)
      traded == ApplyTrade([v EXCEPT !.mark = price], buy, price, lots)
      credit == Credit(fills, lots)
      book(w, q) == UpdatePosition(Report([w EXCEPT !.filled[q.order] = @ + Reached(q, lots)],
                                          "fill", q.order, Reached(q, lots)),
                                   ~buy, Reached(q, lots), price)
  IN  /\ Ready /\ market < MaxMarket /\ market' = market + 1
      /\ v' = CheckMargin(FoldLeft(book, traded, fills))
      /\ past' = [past EXCEPT !.printed = [o \in Orders |-> @[o] +
                    (IF \E k \in DOMAIN v.queue : v.queue[k].order = o /\ Hit(v.queue[k], buy, price)
                       THEN lots ELSE 0)]]
      /\ UNCHANGED target

\* The payment is what the account gains; its sum is taken off the equity.
OnFunding(sign) ==
  LET payment == -sign * v.pos * v.mark
  IN  /\ Ready /\ market < MaxMarket /\ market' = market + 1
      /\ v' = IF v.pos = 0 \/ v.mark = 0 THEN v
              ELSE CheckMargin([v EXCEPT !.funding = @ + payment])
      /\ UNCHANGED <<target, past>>

\* A submission after liquidation is rejected; one under way is not.
Submit(order) ==
  /\ Ready /\ order \notin past.submitted
  /\ v' = IF v.liquidated THEN Report(v, "reject", order, Instruction[order].lots)
          ELSE Schedule(v, Latency["submit"], [call |-> "new", order |-> order])
  /\ past' = [past EXCEPT !.submitted = @ \cup {order}]
  /\ UNCHANGED <<target, market>>

Cancel(order) ==
  /\ Ready /\ order \in past.submitted \ past.canceling
  /\ v' = IF v.liquidated THEN Report(v, "reject", order, 0)
          ELSE Schedule(v, Latency["cancel"], [call |-> "cancel", order |-> order])
  /\ past' = [past EXCEPT !.canceling = @ \cup {order}]
  /\ UNCHANGED <<target, market>>

\* advance_to runs the callbacks that are due one by one, then jumps.
RunCall ==
  /\ Due
  /\ LET c == NextCall(v)
         w == [v EXCEPT !.calls = @ \ {c}, !.now = c.time]
     IN  CASE c.what.call = "new" ->
                /\ v' = HandleNewOrder(w, c.what.order)
                /\ past' = [past EXCEPT !.arrived = @ \cup {c.what.order}]
           [] c.what.call = "cancel" ->
                v' = HandleCancel(w, c.what.order) /\ UNCHANGED past
           [] OTHER ->
                /\ v' = w
                /\ past' = [past EXCEPT !.reports = @ \cup {[seq |-> c.seq, what |-> c.what]}]
  /\ UNCHANGED <<target, market>>

Advance ==
  /\ Ready /\ target < MaxTime
  /\ target' = target + 1 /\ v' = [v EXCEPT !.now = target']
  /\ UNCHANGED <<market, past>>

\* on_end_of_data cancels what rests and, if asked to, closes the position as
\* far as the book goes.
CloseAt(buy, c, level) ==
  LET n == TryConsume(c.w, buy, level, c.left) IN
  IF n = 0 THEN c
  ELSE [w |-> UpdatePosition(Take(c.w, buy, level, n), buy, n, level[1]),
        left |-> c.left - n]

OnEndOfData(forced) ==
  LET w   == [v EXCEPT !.queue = <<>>]
      buy == v.pos < 0
  IN  /\ Ready
      /\ v' = IF forced /\ v.pos # 0
                THEN FoldLeft(LAMBDA c, level : CloseAt(buy, c, level),
                               [w |-> w, left |-> Distance(v.pos)], Opposite(v, buy)).w
                ELSE w
      /\ past' = [past EXCEPT !.ended = TRUE]
      /\ UNCHANGED <<target, market>>

Next ==
  \/ \E book \in Books, snapshot \in BOOLEAN : OnBook(book, snapshot)
  \/ \E buy \in BOOLEAN, price \in Price, lots \in TradeLots : OnTrade(buy, price, lots)
  \/ \E sign \in FundingSigns : OnFunding(sign)
  \/ \E order \in Orders : Submit(order) \/ Cancel(order)
  \/ RunCall \/ Advance
  \/ \E forced \in EndModes : OnEndOfData(forced)

Spec == Init /\ [][Next]_vars
----------------------------------------------------------------------------
(* Properties.                                                             *)

TypeOK ==
  /\ v.now \in 0 .. MaxTime /\ target \in v.now .. MaxTime /\ market \in 0 .. MaxMarket
  /\ v.pos \in Int /\ v.entry \in Nat /\ v.mark \in {0} \cup Price
  /\ \A c \in v.calls : c.time > v.now \/ Due
  /\ \A k \in DOMAIN v.queue : v.queue[k].left > 0 /\ v.queue[k].ahead >= 0
  /\ \A j, k \in DOMAIN v.queue : v.queue[j].order = v.queue[k].order => j = k

\* Reports on their way and delivered.
All(type, order) ==
  LET rs == {[seq |-> c.seq, lots |-> c.what.lots] :
               c \in {d \in v.calls \cup past.reports :
                       d.what.call = "deliver" /\ d.what.type = type /\ d.what.order = order}}
  IN  FoldLeft(LAMBDA n, r : n + r.lots, 0, SetToSeq(rs))

\* A displayed lot is taken once, by whatever order, reduction or close, until
\* the price is shown again (LiquidityBudget).
BudgetOnce ==
  \A buy \in BOOLEAN, k \in 1 .. 3 :
    k \in DOMAIN Opposite(v, buy) =>
      v.taken[buy][Opposite(v, buy)[k][1]] <= Opposite(v, buy)[k][2]

\* Every lot of an order that arrived is filled, canceled, rejected or still
\* resting, and the reports of fills, in whatever order they arrive, tell the
\* same number of lots; a liquidation clears orders without a report
\* (SimVenue._handle_new_order, _handle_cancel, on_market).
LotsAccounted ==
  ~v.liquidated /\ ~past.ended =>
    \A o \in past.arrived :
      /\ v.filled[o] + All("cancel", o) + All("reject", o) + Remaining(v, o) = Instruction[o].lots
      /\ v.filled[o] = All("fill", o)

\* The position is what the orders filled, although it is kept apart from
\* them and moved before the reports arrive (SimVenue._update_position).
PositionIsFills ==
  ~v.liquidated /\ ~past.ended =>
    v.pos = FoldLeft(LAMBDA n, o : n + Sign(Instruction[o].buy) * v.filled[o], 0, SetToSeq(Orders))

\* A resting order is filled only by what traded at its price beyond the size
\* displayed there when it joined (IMPLEMENTATION_PLAN 14.3, QueueEstimator).
PassiveEarned ==
  \A o \in Orders :
    v.rested[o] # <<>> =>
      v.filled[o] - v.rested[o][1].before <= Larger(0, past.printed[o] - v.rested[o][1].shown)

=============================================================================
